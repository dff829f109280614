\* Calls that come together and one after another.
SPECIFICATION FairServersSpec
CONSTANTS
  c1 = c1
  c2 = c2
  c3 = c3
  NoCall = NoCall
  Calls <- ThreeCalls
  Diagnosing <- OneDiagnosing
  MaxNotices = 1
INVARIANTS
  ServersTypeOK
  ProtocolOrder
PROPERTY CallsEnd
CHECK_DEADLOCK FALSE
