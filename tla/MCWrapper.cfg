\* The first child and one hotswap.
SPECIFICATION FairSpec
CONSTANTS
  c1 = c1
  c2 = c2
  NoChild = NoChild
  Children <- TwoForks
INVARIANTS
  TypeOK
  NoChildLeftBehind
  CurrentIsWatched
PROPERTIES
  ChildrenEnd
  ChildDeathEndsParent
  ImplementsSupervisor
CHECK_DEADLOCK FALSE
