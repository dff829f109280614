------------------------------ MODULE MCServer ------------------------------
(* Two processes that start three times, two pages and two keys.           *)
EXTENDS Server, TLC

CONSTANTS p1, p2, r1, r2, r3, r4

TwoProcs == {p1, p2}
TwoPages == {r1, r2}
TwoMints == {r3, r4}
Sym == Permutations(TwoProcs) \cup Permutations(TwoPages) \cup Permutations(TwoMints)

============================================================================
