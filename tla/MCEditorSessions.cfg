\* Two lookups for one file among three hosts.
SPECIFICATION Spec
CONSTANTS
  h1 = h1
  h2 = h2
  h3 = h3
  q1 = q1
  q2 = q2
  f1 = f1
  NoHost = NoHost
  Hosts <- SomeHosts
  Lookups <- TwoLookups
  Files <- OneFile
SYMMETRY IdSymmetry
INVARIANTS
  TypeOK
  AnswerIsHonest
  RunningStaysListed
CHECK_DEADLOCK FALSE
