\* The least idle timeout the command line accepts, and a wall clock that may be set back.
SPECIFICATION FairSpec
CONSTANTS
  H = 3
  P = 2
  I = 4
  MaxDelay = 10
  MaxBack = 1
  MaxConns = 2
INVARIANTS
  TypeOK
  StateIsTimed
  ShutdownIsEarned
PROPERTY IdleServerExits
CHECK_DEADLOCK FALSE
