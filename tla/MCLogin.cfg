\* Requests that come together, and restarts with other arguments.
SPECIFICATION Spec
CONSTANTS
  b1 = b1
  b2 = b2
  b3 = b3
  p1 = p1
  p2 = p2
  None = None
  Browsers <- ThreeBrowsers
  Passwords <- TwoPasswords
  Configs <- SomeConfigs
  MinuteTokens = 1
  HourTokens = 2
  MaxDrips = 2
  MaxRestarts = 1
SYMMETRY Sym
INVARIANTS
  TypeOK
  LimitIsKept
  CookiesAreHonest
CHECK_DEADLOCK FALSE
