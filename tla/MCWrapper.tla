----------------------------- MODULE MCWrapper -----------------------------
(* The first child and a hotswap.                                          *)
EXTENDS Wrapper

CONSTANTS c1, c2

TwoForks == {c1, c2}

============================================================================
