---------------------------- MODULE HeartProofs ----------------------------
(***************************************************************************)
(* With a clock that is never set back and an idle timeout that setTimeout *)
(* can wait for, the idle shutdown of module Heart never cuts off a user,  *)
(* whatever the intervals and however many connections there are.          *)
(***************************************************************************)
EXTENDS Heart, TLAPS

\* An armed heartbeat timer is due when the last heartbeat is H old.
TimerFollowsHeartbeat ==
  ~setBack =>
    /\ timer # Off => since = H - timer
    /\ phase = "up" /\ timer = Off => since >= H

\* A heartbeat timer armed during a probe outlasts it, and one is armed as
\* soon as there is a user.
ProbeEndsFirst ==
  phase = "up" /\ probe # Off /\ ~setBack =>
    /\ timer # Off => probe < timer
    /\ users > 0 => timer # Off

\* A user who meets an expired heart is found before the idle timeout ends.
UserIsFoundInTime ==
  phase = "up" /\ users > 0 /\ state = "expired" /\ ~setBack => timer # Off /\ timer < idle

\* The idle timer has run for no longer than there has been no request.
IdleFollowsQuiet == idle # Off => I - idle <= quiet

IInv ==
  /\ TypeOK
  /\ IdleWhenExpired /\ AliveIsTimed
  /\ TimerFollowsHeartbeat /\ ProbeEndsFirst
  /\ UserIsFoundInTime /\ IdleFollowsQuiet
  /\ NoExitWhileConnected /\ ExitIsEarned

DelayFits == I <= MaxDelay

----------------------------------------------------------------------------
LEMMA InitIInv == ASSUME DelayFits, Init PROVE IInv
<1> USE TimesAssumption DEF DelayFits, Init, Off, Long, IdleDelay
<1>1. TypeOK
  <2>1. since \in -MaxBack .. Long
    OBVIOUS
  <2>2. timer \in Off .. H /\ probe \in Off .. P
    OBVIOUS
  <2>3. idle \in Off .. I /\ quiet \in 0 .. I
    OBVIOUS
  <2>4. users \in 0 .. MaxConns /\ checks \in 0 .. MaxConns
    OBVIOUS
  <2> QED
    BY <2>1, <2>2, <2>3, <2>4 DEF TypeOK
<1>2. IdleWhenExpired /\ AliveIsTimed /\ NoExitWhileConnected /\ ExitIsEarned
  BY DEF IdleWhenExpired, AliveIsTimed, NoExitWhileConnected, ExitIsEarned
<1>3. TimerFollowsHeartbeat /\ ProbeEndsFirst /\ UserIsFoundInTime /\ IdleFollowsQuiet
  BY DEF TimerFollowsHeartbeat, ProbeEndsFirst, UserIsFoundInTime, IdleFollowsQuiet
<1> QED
  BY <1>1, <1>2, <1>3 DEF IInv

LEMMA NextIInv ==
  ASSUME DelayFits, IInv, Next
  PROVE  IInv'
<1> USE TimesAssumption DEF DelayFits, IInv, TypeOK, IdleWhenExpired, AliveIsTimed,
        Off, Long, TimerFollowsHeartbeat, ProbeEndsFirst, UserIsFoundInTime,
        IdleFollowsQuiet, NoExitWhileConnected, ExitIsEarned, IdleDelay, connVars
<1>1. CASE Request
  BY <1>1 DEF Request, Beat, SetState
<1>2. CASE CheckHealth
  BY <1>2 DEF CheckHealth
<1>3. CASE Close
  BY <1>3 DEF Close
<1>4. CASE TimerFires
  BY <1>4 DEF TimerFires, SetState
<1>5. CASE ProbeTimeout
  BY <1>5 DEF ProbeTimeout, SetState
<1>6. CASE IdleShutdown
  BY <1>6 DEF IdleShutdown
<1>7. CASE Dispose \/ End
  BY <1>7 DEF Dispose, End
<1>8. CASE Tick
  BY <1>8 DEF Tick, Down, UpTo
<1>9. CASE SetClockBack
  BY <1>9 DEF SetClockBack
<1> QED
  BY <1>1, <1>2, <1>3, <1>4, <1>5, <1>6, <1>7, <1>8, <1>9 DEF Next

LEMMA StutterIInv == IInv /\ UNCHANGED vars => IInv'
  BY DEF vars, IInv, TypeOK, IdleWhenExpired, AliveIsTimed, TimerFollowsHeartbeat,
     ProbeEndsFirst, UserIsFoundInTime, IdleFollowsQuiet, NoExitWhileConnected,
     ExitIsEarned

THEOREM Inductive == ASSUME DelayFits PROVE Spec => []IInv
<1>1. Init => IInv
  BY InitIInv
<1>2. IInv /\ [Next]_vars => IInv'
  BY NextIInv, StutterIInv
<1> QED
  BY <1>1, <1>2, PTL DEF Spec

----------------------------------------------------------------------------
\* The shutdown happens only to a server without users that has had no
\* request for a whole idle timeout.
THEOREM IdleShutdownIsSafe ==
  ASSUME DelayFits PROVE Spec => []ShutdownIsEarned
<1>1. IInv => ShutdownIsEarned
  BY DEF IInv, ShutdownIsEarned
<1> QED
  BY Inductive, <1>1, PTL

\* An alive heart always has a timer or a probe under way, and the shutdown
\* is scheduled exactly while it is expired.
THEOREM HeartIsTimed ==
  ASSUME DelayFits PROVE Spec => []StateIsTimed
<1>1. IInv => StateIsTimed
  BY DEF IInv, StateIsTimed
<1> QED
  BY Inductive, <1>1, PTL

\* The state of the heart and its timers stay in their ranges (heart.ts 9-81).
THEOREM TypeCorrect ==
  ASSUME DelayFits PROVE Spec => []TypeOK
<1>1. IInv => TypeOK
  BY DEF IInv
<1> QED
  BY Inductive, <1>1, PTL

============================================================================
