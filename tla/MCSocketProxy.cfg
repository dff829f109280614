\* The processes start their servers whenever they like.
SPECIFICATION FairProxySpec
CONSTANTS
  p1 = p1
  p2 = p2
  s1 = s1
  s2 = s2
  s3 = s3
  Free = Free
  Stale = Stale
  Procs <- TwoProcs
  Sockets <- ThreeSockets
  Owner <- Owners
  MaxTries = 1
INVARIANTS
  ProxyTypeOK
  ReadyIsReachable
PROPERTY ProxySettles
CHECK_DEADLOCK FALSE
