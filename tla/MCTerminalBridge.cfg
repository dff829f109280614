\* Commands, a listing, and a heartbeat that connects again.
SPECIFICATION Spec
CONSTANTS
  c1 = c1
  c2 = c2
  l1 = l1
  b1 = b1
  None = None
  Callers <- TwoCallers
  Listers <- OneLister
  Beats <- OneBeat
  MaxSockets = 2
  MaxText = 1
SYMMETRY Sym
INVARIANTS
  TypeOK
  RequestsArrive
  OutputIsWhole
CHECK_DEADLOCK FALSE
