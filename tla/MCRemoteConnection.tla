------------------------- MODULE MCRemoteConnection -------------------------
(***************************************************************************)
(* Two instances of the connection: traffic in both directions with two      *)
(* faults (BothWays), and the client's traffic with faults and a loss      *)
(* (OneWay), small enough for liveness.                                    *)
(***************************************************************************)
EXTENDS RemoteConnection

MCControl == {"auth", "sign", "connectionType", "ok", "error"}
MCData == {"c1", "c2", "s1"}
BothWays == [e \in {"c", "s"} |-> IF e = "c" THEN <<"c1", "c2">> ELSE <<"s1">>]
OneWay == [e \in {"c", "s"} |-> IF e = "c" THEN <<"c1", "c2">> ELSE <<>>]
=============================================================================
