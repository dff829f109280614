\* One running request for updates, and settings that survive.
SPECIFICATION Spec
CONSTANTS
  t1 = t1
  t2 = t2
  t3 = t3
  t4 = t4
  f = f
  Unset = Unset
  Empty = Empty
  Corrupt = Corrupt
  Unknown = Unknown
  Loads <- TwoLoads
  Checks <- TwoChecks
  Folders <- OneFolder
  MaxRelease = 2
  MaxCrashes = 1
SYMMETRY Sym
INVARIANTS
  TypeOK
  SettingsSurvive
  OneRequest
CHECK_DEADLOCK FALSE
