----------------------------- MODULE MCSettings -----------------------------
(* Two page loads and two checks for updates, with one crash.              *)
EXTENDS Settings, TLC

CONSTANTS t1, t2, t3, t4, f

TwoLoads == {t1, t2}
TwoChecks == {t3, t4}
OneFolder == {f}
Sym == Permutations(TwoLoads) \cup Permutations(TwoChecks)

============================================================================
