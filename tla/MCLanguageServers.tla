------------------------- MODULE MCLanguageServers -------------------------
(* Three calls, one of them for diagnostics, and a notice of a server.     *)
EXTENDS LanguageServers

CONSTANTS c1, c2, c3

ThreeCalls == {c1, c2, c3}
OneDiagnosing == {c3}

============================================================================
