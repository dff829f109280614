-------------------------- MODULE MCTerminalBridge --------------------------
(* Two commands and a listing over a bridge that connects twice.           *)
EXTENDS TerminalBridge, TLC

CONSTANTS c1, c2, l1, b1

TwoCallers == {c1, c2}
OneLister == {l1}
OneBeat == {b1}
Sym == Permutations(TwoCallers)

============================================================================
