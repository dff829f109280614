------------------------- MODULE MCEditorSessions -------------------------
(* Three extension hosts, two lookups that run at once, one file.          *)
EXTENDS EditorSessions, TLC

CONSTANTS h1, h2, h3, q1, q2, f1

SomeHosts == {h1, h2, h3}
TwoLookups == {q1, q2}
OneFile == {f1}

\* Hosts and lookups are only told apart by what they do.
IdSymmetry ==
  Permutations(SomeHosts) \cup Permutations(TwoLookups)

============================================================================
