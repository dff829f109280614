\* Processes that share the key file, and are disposed of and killed.
SPECIFICATION Spec
CONSTANTS
  p1 = p1
  p2 = p2
  r1 = r1
  r2 = r2
  r3 = r3
  r4 = r4
  None = None
  Empty = Empty
  Procs <- TwoProcs
  Pages <- TwoPages
  Mints <- TwoMints
  MaxStarts = 3
SYMMETRY Sym
INVARIANTS
  TypeOK
  OneKey
  PagesAreBacked
  HangingIsTimed
CHECK_DEADLOCK FALSE
