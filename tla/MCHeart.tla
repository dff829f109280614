------------------------------ MODULE MCHeart ------------------------------
(* The heart with the shortest times that keep P < H < I.                  *)
EXTENDS Heart
============================================================================
