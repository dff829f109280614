--------------------------- MODULE MCSocketProxy ---------------------------
(* Two processes in one runtime directory, one of them with two websockets *)
EXTENDS SocketProxy

CONSTANTS p1, p2, s1, s2, s3

TwoProcs == {p1, p2}
ThreeSockets == {s1, s2, s3}
Owners == [s \in ThreeSockets |-> IF s = s3 THEN p2 ELSE p1]

============================================================================
