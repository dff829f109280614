------------------------------ MODULE MCLogin ------------------------------
(* Three browsers, two passwords, and every way to configure one of them.  *)
EXTENDS Login, TLC

CONSTANTS b1, b2, b3, p1, p2

ThreeBrowsers == {b1, b2, b3}
TwoPasswords == {p1, p2}
SomeConfigs ==
  {[password |-> p1, hashed |-> None], [password |-> p2, hashed |-> None],
   [password |-> None, hashed |-> Argon(p1, "config")],
   [password |-> p2, hashed |-> Argon(p1, "config")],
   [password |-> p2, hashed |-> Sha(p1)]}
Sym == Permutations(ThreeBrowsers)

============================================================================
