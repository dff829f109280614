\* Two forks; the property is the wording of a comment of wrapper.ts.
SPECIFICATION FairSpec
CONSTANTS
  c1 = c1
  c2 = c2
  NoChild = NoChild
  Children <- TwoForks
INVARIANT TimeoutConcernsCurrent
CHECK_DEADLOCK FALSE
