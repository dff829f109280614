--------------------------- MODULE WrapperProofs ---------------------------
(***************************************************************************)
(* The safety invariants of module Wrapper hold for every set of children, *)
(* that is, for any number of hotswaps.                                    *)
(***************************************************************************)
EXTENDS Wrapper, TLAPS

----------------------------------------------------------------------------
(* The inductive invariant.                                                *)

\* An identity that fork has not returned yet is unknown to everybody.
FreshIsUnknown ==
  \A c \in Children : proc[c] = "none" =>
    c # child /\ c \notin revoked /\ c \notin unreported /\ watch[c] = "none"

\* Before start(args) there has been no fork.
NothingAtBoot ==
  parent = "boot" => child = NoChild /\ \A c \in Children : proc[c] = "none"

\* A disposal has killed the child it found.
DisposalHasKilled == parent = "disposing" => child \in revoked

\* However hotswaps, exits and disposals interleave, a living child that the
\* parent has not killed is the one child it supervises (wrapper.ts 272-293:
\* relaunch forks without waiting for the old child).
OneOwnedChild ==
  \A c \in Children : Live(c) /\ c \notin revoked => c = child

\* A parent that exits by itself has killed each child that is alive.
ExitKillsAll ==
  parent = "gone" /\ cause.why # "killed" =>
    \A c \in Children : Live(c) => c \in revoked

\* A killed child that still lives has the signal ahead of it.
KillIsNotLost ==
  \A c \in revoked : Live(c) => c \in signal \/ proc[c] = "disposing"

\* The two parts of CurrentIsWatched.
CurrentHasListener ==
  parent = "up" =>
    /\ child # NoChild
    /\ watch[child] = "handshake" => child \in armed
    /\ watch[child] # "none"
    /\ proc[child] = "dead" => child \in unreported

OnlyCurrentIsWatched ==
  \A c \in Children : watch[c] # "none" => c = child

\* No child is forked once a disposal has begun.
NoForkWhileStopping ==
  [][\A c \in Children :
       parent \in {"disposing", "gone"} /\ proc[c] = "none" => proc[c]' = "none"]_vars

Safe ==
  /\ FreshIsUnknown
  /\ NothingAtBoot
  /\ DisposalHasKilled
  /\ OneOwnedChild
  /\ ExitKillsAll
  /\ KillIsNotLost
  /\ CurrentHasListener
  /\ OnlyCurrentIsWatched

IInv == TypeOK /\ Safe

----------------------------------------------------------------------------
(* Type correctness.                                                       *)

LEMMA InitTypeOK == Init => TypeOK
  BY NoChildAssumption DEF Init, TypeOK, ParentStates, Causes, LiveStates

LEMMA ParentTypeOK ==
  ASSUME TypeOK, ParentStep
  PROVE  TypeOK'
<1> USE NoChildAssumption DEF TypeOK, ParentStates, Causes, LiveStates, Current,
        Unwatched, childVars, linkVars, parentVars
<1>1. CASE Start
  BY <1>1 DEF Start, Spawn
<1>2. CASE EndWithoutServer
  BY <1>2 DEF EndWithoutServer, Exit, KillCurrent
<1>3. CASE Hotswap
  BY <1>3 DEF Hotswap, Spawn, KillCurrent
<1>4. CASE HotswapTooEarly
  BY <1>4 DEF HotswapTooEarly
<1>5. CASE Dispose
  BY <1>5 DEF Dispose, KillCurrent
<1>6. CASE ForcedExit
  BY <1>6 DEF ForcedExit, Exit, KillCurrent
<1>7. CASE StdoutClosed
  BY <1>7 DEF StdoutClosed, Exit, KillCurrent
<1>8. CASE ParentKilled
  BY <1>8 DEF ParentKilled
<1>9. ASSUME NEW c \in Children, Greet(c) PROVE TypeOK'
  BY <1>9 DEF Greet
<1>10. ASSUME NEW c \in Children, HandshakeTimeout(c) PROVE TypeOK'
  BY <1>10 DEF HandshakeTimeout, Exit, KillCurrent
<1>11. ASSUME NEW c \in Children, ChildExit(c) PROVE TypeOK'
  BY <1>11 DEF ChildExit, Exit, KillCurrent
<1> QED
  BY <1>1, <1>2, <1>3, <1>4, <1>5, <1>6, <1>7, <1>8, <1>9, <1>10, <1>11
  DEF ParentStep

LEMMA ChildTypeOK ==
  ASSUME TypeOK, NEW c \in Children, ChildStep(c)
  PROVE  TypeOK'
<1> USE NoChildAssumption DEF TypeOK, LiveStates, childVars, linkVars, parentVars
<1>1. CASE AskHandshake(c) \/ ReceiveArgs(c) \/ Serve(c) \/ AskRelaunch(c)
  BY <1>1 DEF AskHandshake, ReceiveArgs, Serve, AskRelaunch
<1>2. CASE Listen(c)
  BY <1>2 DEF Listen, Die
<1>3. CASE Terminate(c)
  BY <1>3 DEF Terminate, HandleSignal, Die
<1>4. CASE Interrupt(c) \/ OrphanPoll(c)
  BY <1>4 DEF Interrupt, OrphanPoll, HandleSignal, Die
<1>5. CASE ChildEnds(c)
  BY <1>5 DEF ChildEnds, Die
<1> QED
  BY <1>1, <1>2, <1>3, <1>4, <1>5 DEF ChildStep

LEMMA StutterTypeOK == TypeOK /\ UNCHANGED vars => TypeOK'
  BY DEF TypeOK, vars, parentVars, childVars, linkVars

\* Every variable of the two processes stays in its range.
THEOREM TypeCorrect == Spec => []TypeOK
<1>1. TypeOK /\ [Next]_vars => TypeOK'
  BY ParentTypeOK, ChildTypeOK, StutterTypeOK DEF Next
<1> QED
  BY InitTypeOK, <1>1, PTL DEF Spec

----------------------------------------------------------------------------
(* Preservation of the rest, action by action.                             *)

LEMMA InitSafe == Init => Safe
  BY NoChildAssumption
  DEF Init, Safe, FreshIsUnknown, NothingAtBoot, DisposalHasKilled, OneOwnedChild,
      ExitKillsAll, KillIsNotLost, CurrentHasListener, OnlyCurrentIsWatched,
      Live, LiveStates

\* A parent that exits by itself: nothing lives but what it has killed.
LEMMA ExitSafe ==
  ASSUME IInv, parent # "gone", NEW why \in Causes \ {"killed"},
         NEW who \in Children \cup {NoChild}, Exit(why, who),
         unreported' \subseteq unreported, UNCHANGED <<child, proc>>
  PROVE  Safe'
<1> USE NoChildAssumption DEF IInv, Safe, Exit, KillCurrent, Current, Unwatched, Live
<1>1. FreshIsUnknown'
  BY DEF FreshIsUnknown, TypeOK
<1>2. NothingAtBoot' /\ DisposalHasKilled' /\ CurrentHasListener'
  BY DEF NothingAtBoot, DisposalHasKilled, CurrentHasListener
<1>3. OneOwnedChild' /\ ExitKillsAll'
  BY DEF OneOwnedChild, ExitKillsAll, DisposalHasKilled, TypeOK, ParentStates
<1>4. KillIsNotLost'
  BY DEF KillIsNotLost, TypeOK
<1>5. OnlyCurrentIsWatched'
  BY DEF OnlyCurrentIsWatched, TypeOK
<1> QED
  BY <1>1, <1>2, <1>3, <1>4, <1>5

LEMMA ParentSafe ==
  ASSUME IInv, ParentStep
  PROVE  Safe'
<1> USE NoChildAssumption
<1>1. CASE Start
  BY <1>1 DEF Start, Spawn, IInv, Safe, FreshIsUnknown, NothingAtBoot,
     DisposalHasKilled, OneOwnedChild, ExitKillsAll, KillIsNotLost,
     CurrentHasListener, OnlyCurrentIsWatched, Live, LiveStates, TypeOK, linkVars
<1>2. CASE EndWithoutServer
  BY <1>2, ExitSafe DEF EndWithoutServer, childVars, Causes
<1>3. CASE Hotswap
  BY <1>3 DEF Hotswap, Spawn, KillCurrent, Current, Unwatched, IInv, Safe,
     FreshIsUnknown, NothingAtBoot,
     DisposalHasKilled, OneOwnedChild, ExitKillsAll, KillIsNotLost,
     CurrentHasListener, OnlyCurrentIsWatched, Live, LiveStates, TypeOK
<1>4. CASE HotswapTooEarly
  BY <1>4 DEF HotswapTooEarly, IInv, Safe,
     FreshIsUnknown, NothingAtBoot,
     DisposalHasKilled, OneOwnedChild, ExitKillsAll, KillIsNotLost,
     CurrentHasListener, OnlyCurrentIsWatched, Live, LiveStates, TypeOK
<1>5. CASE Dispose
  BY <1>5 DEF Dispose, KillCurrent, Current, Unwatched, childVars, IInv, Safe,
     FreshIsUnknown, NothingAtBoot,
     DisposalHasKilled, OneOwnedChild, ExitKillsAll, KillIsNotLost,
     CurrentHasListener, OnlyCurrentIsWatched, Live, LiveStates, TypeOK
<1>6. CASE ForcedExit
  BY <1>6, ExitSafe DEF ForcedExit, childVars, Causes
<1>7. CASE StdoutClosed
  BY <1>7, ExitSafe DEF StdoutClosed, childVars, Causes, ParentRuns
<1>8. CASE ParentKilled
  BY <1>8 DEF ParentKilled, childVars, linkVars, IInv, Safe,
     FreshIsUnknown, NothingAtBoot,
     DisposalHasKilled, OneOwnedChild, ExitKillsAll, KillIsNotLost,
     CurrentHasListener, OnlyCurrentIsWatched, Live, LiveStates, TypeOK
<1>9. ASSUME NEW c \in Children, Greet(c) PROVE Safe'
  BY <1>9 DEF Greet, ParentRuns, childVars, IInv, Safe,
     FreshIsUnknown, NothingAtBoot,
     DisposalHasKilled, OneOwnedChild, ExitKillsAll, KillIsNotLost,
     CurrentHasListener, OnlyCurrentIsWatched, Live, LiveStates, TypeOK
<1>10. ASSUME NEW c \in Children, HandshakeTimeout(c) PROVE Safe'
  BY <1>10, ExitSafe DEF HandshakeTimeout, childVars, Causes, ParentRuns
<1>11. ASSUME NEW c \in Children, ChildExit(c) PROVE Safe'
  <2>1. unreported' \subseteq unreported /\ UNCHANGED <<child, proc>> /\ parent # "gone"
    BY <1>11 DEF ChildExit, ParentRuns
  <2>2. CASE Exit("childExit", c) \/ Exit("disposed", c)
    BY <2>1, <2>2, ExitSafe DEF Causes
  <2>3. CASE watch[c] = "none" /\ (parent = "up" \/ c # child)
             /\ UNCHANGED <<parent, cause, watch, revoked, signal>>
    BY <1>11, <2>3 DEF ChildExit, ParentRuns, IInv, Safe,
     FreshIsUnknown, NothingAtBoot,
     DisposalHasKilled, OneOwnedChild, ExitKillsAll, KillIsNotLost,
     CurrentHasListener, OnlyCurrentIsWatched, Live, LiveStates, TypeOK
  <2> QED
    BY <1>11, <2>2, <2>3 DEF ChildExit
<1> QED
  BY <1>1, <1>2, <1>3, <1>4, <1>5, <1>6, <1>7, <1>8, <1>9, <1>10, <1>11
  DEF ParentStep

\* A child that dies, or is serving and starts to dispose of its server.
LEMMA EndSafe ==
  ASSUME IInv, NEW c \in Children, Live(c), HandleSignal(c) \/ Die(c),
         signal' = signal \/ signal' = signal \ {c},
         UNCHANGED <<parentVars, revoked>>
  PROVE  Safe'
<1> USE NoChildAssumption
<1>1. CASE Die(c)
  BY <1>1 DEF Die, parentVars, IInv, Safe, FreshIsUnknown, NothingAtBoot,
     DisposalHasKilled, OneOwnedChild, ExitKillsAll, KillIsNotLost,
     CurrentHasListener, OnlyCurrentIsWatched, Live, LiveStates, TypeOK
<1>2. CASE HandleSignal(c) /\ proc[c] = "serving"
  BY <1>2 DEF HandleSignal, parentVars, IInv, Safe, FreshIsUnknown, NothingAtBoot,
     DisposalHasKilled, OneOwnedChild, ExitKillsAll, KillIsNotLost,
     CurrentHasListener, OnlyCurrentIsWatched, Live, LiveStates, TypeOK
<1> QED
  BY <1>1, <1>2 DEF HandleSignal

LEMMA ChildSafe ==
  ASSUME IInv, NEW c \in Children, ChildStep(c)
  PROVE  Safe'
<1> USE NoChildAssumption
<1>1. CASE AskHandshake(c)
  BY <1>1 DEF AskHandshake, parentVars, IInv, Safe, FreshIsUnknown, NothingAtBoot,
     DisposalHasKilled, OneOwnedChild, ExitKillsAll, KillIsNotLost,
     CurrentHasListener, OnlyCurrentIsWatched, Live, LiveStates, TypeOK
<1>2. CASE ReceiveArgs(c)
  BY <1>2 DEF ReceiveArgs, parentVars, IInv, Safe, FreshIsUnknown, NothingAtBoot,
     DisposalHasKilled, OneOwnedChild, ExitKillsAll, KillIsNotLost,
     CurrentHasListener, OnlyCurrentIsWatched, Live, LiveStates, TypeOK
<1>3. CASE Listen(c) /\ ~Die(c)
  BY <1>3 DEF Listen, parentVars, linkVars, IInv, Safe, FreshIsUnknown, NothingAtBoot,
     DisposalHasKilled, OneOwnedChild, ExitKillsAll, KillIsNotLost,
     CurrentHasListener, OnlyCurrentIsWatched, Live, LiveStates, TypeOK
<1>4. CASE Listen(c) /\ Die(c)
  BY <1>4, EndSafe DEF Listen, parentVars, linkVars, Live, LiveStates
<1>5. CASE Serve(c)
  BY <1>5 DEF Serve, parentVars, linkVars, IInv, Safe, FreshIsUnknown, NothingAtBoot,
     DisposalHasKilled, OneOwnedChild, ExitKillsAll, KillIsNotLost,
     CurrentHasListener, OnlyCurrentIsWatched, Live, LiveStates, TypeOK
<1>6. CASE AskRelaunch(c)
  BY <1>6 DEF AskRelaunch, parentVars, linkVars, IInv, Safe, FreshIsUnknown, NothingAtBoot,
     DisposalHasKilled, OneOwnedChild, ExitKillsAll, KillIsNotLost,
     CurrentHasListener, OnlyCurrentIsWatched, Live, LiveStates, TypeOK
<1>7. CASE Terminate(c) /\ Live(c)
  BY <1>7, EndSafe DEF Terminate, parentVars
<1>8. CASE Terminate(c) /\ ~Live(c)
  BY <1>8 DEF Terminate, parentVars, IInv, Safe, FreshIsUnknown, NothingAtBoot,
     DisposalHasKilled, OneOwnedChild, ExitKillsAll, KillIsNotLost,
     CurrentHasListener, OnlyCurrentIsWatched, Live, LiveStates, TypeOK
<1>9. CASE Interrupt(c) \/ OrphanPoll(c)
  BY <1>9, EndSafe DEF Interrupt, OrphanPoll, parentVars, linkVars
<1>10. CASE ChildEnds(c)
  BY <1>10, EndSafe DEF ChildEnds, parentVars, linkVars
<1> QED
  BY <1>1, <1>2, <1>3, <1>4, <1>5, <1>6, <1>7, <1>8, <1>9, <1>10 DEF ChildStep

LEMMA StutterSafe == IInv /\ UNCHANGED vars => Safe'
  BY DEF vars, parentVars, childVars, linkVars, IInv, Safe, FreshIsUnknown, NothingAtBoot,
     DisposalHasKilled, OneOwnedChild, ExitKillsAll, KillIsNotLost,
     CurrentHasListener, OnlyCurrentIsWatched, Live, LiveStates, TypeOK

\* The inductive invariant, from which every theorem below follows.
THEOREM Inductive == Spec => []IInv
<1>1. Init => IInv
  BY InitTypeOK, InitSafe DEF IInv
<1>2. IInv /\ [Next]_vars => IInv'
  <2> SUFFICES ASSUME IInv, [Next]_vars PROVE IInv'
    OBVIOUS
  <2>1. TypeOK'
    BY ParentTypeOK, ChildTypeOK, StutterTypeOK DEF Next, IInv
  <2>2. Safe'
    BY ParentSafe, ChildSafe, StutterSafe DEF Next
  <2> QED
    BY <2>1, <2>2 DEF IInv
<1> QED
  BY <1>1, <1>2, PTL DEF Spec

----------------------------------------------------------------------------
(* What it gives.                                                          *)

\* At any moment the parent owns one living child at most, for any number of
\* hotswaps and whatever is still under way for the children it replaced.
THEOREM OneOwner == Spec => []OneOwnedChild
<1>1. IInv => OneOwnedChild
  BY DEF IInv, Safe
<1> QED
  BY Inductive, <1>1, PTL

\* A parent that was not killed has killed every child that is still alive,
\* and none of these kills is lost.
THEOREM NoneLeftBehind == Spec => []NoChildLeftBehind
<1>1. IInv => NoChildLeftBehind
  BY DEF IInv, Safe, ExitKillsAll, KillIsNotLost, NoChildLeftBehind
<1> QED
  BY Inductive, <1>1, PTL

\* The parent always notices the silence or the death of its child, and only
\* of its child.
THEOREM Watched == Spec => []CurrentIsWatched
<1>1. IInv => CurrentIsWatched
  BY DEF IInv, Safe, CurrentHasListener, OnlyCurrentIsWatched, CurrentIsWatched
<1> QED
  BY Inductive, <1>1, PTL

\* Nothing is forked once a disposal has begun.
THEOREM NoForkOnceStopping == Spec => NoForkWhileStopping
<1> DEFINE Stopping == parent \in {"disposing", "gone"}
           NoFork == \A c \in Children : Stopping /\ proc[c] = "none" => proc[c]' = "none"
<1>1. IInv /\ [Next]_vars => [NoFork]_vars
  <2> SUFFICES ASSUME IInv, Next, Stopping, NEW c \in Children, proc[c] = "none"
               PROVE  proc[c]' = "none"
    BY DEF vars
  <2> USE DEF IInv, TypeOK, Live, LiveStates, childVars
  <2>1. CASE ParentStep
    BY <2>1 DEF ParentStep, Start, EndWithoutServer, Hotswap, HotswapTooEarly,
       Dispose, ForcedExit, StdoutClosed, ParentKilled, Greet, HandshakeTimeout,
       ChildExit
  <2>2. ASSUME NEW d \in Children, ChildStep(d) PROVE proc[c]' = "none"
    BY <2>2 DEF ChildStep, AskHandshake, ReceiveArgs, Listen, Serve, AskRelaunch,
       Terminate, Interrupt, OrphanPoll, ChildEnds, HandleSignal, Die
  <2> QED
    BY <2>1, <2>2 DEF Next
<1> QED
  BY <1>1, Inductive, PTL DEF Spec, NoForkWhileStopping

----------------------------------------------------------------------------
(* The refinement, up to its liveness.                                     *)

LEMMA InitRefines == Init => Abstract!Init
  BY DEF Init, Abstract!Init, Mode, Owned, Unused, Live, LiveStates

\* A parent that exits by itself is a stop, or the end of one.
LEMMA ExitRefines ==
  ASSUME IInv, parent # "gone", NEW why, NEW who, Exit(why, who), UNCHANGED <<child, proc>>
  PROVE  Abstract!Stop \/ Abstract!Finish
<1> USE NoChildAssumption DEF IInv, Safe, TypeOK, ParentStates, Exit, Live
<1>1. Owned' = {}
  BY DEF Owned, OneOwnedChild, KillCurrent, Current, DisposalHasKilled
<1>2. parent = "disposing" => Owned = {}
  BY DEF Owned, OneOwnedChild, DisposalHasKilled
<1>3. Unused' = Unused
  BY DEF Unused
<1> QED
  BY <1>1, <1>2, <1>3 DEF Abstract!Stop, Abstract!Finish, Mode

LEMMA ParentRefines ==
  ASSUME IInv, ParentStep
  PROVE  [Abstract!Next]_(Abstract!vars)
<1> USE NoChildAssumption DEF Abstract!Next, Abstract!vars
<1>1. CASE Start
  <2> PICK c \in Children : Start!(c)
    BY <1>1 DEF Start
  <2>1. c \in Unused /\ Unused' = Unused \ {c}
    BY DEF Spawn, Unused, IInv, TypeOK
  <2>2. Owned' = {c}
    BY DEF Spawn, Owned, Live, LiveStates, linkVars, IInv, TypeOK, Safe,
       FreshIsUnknown, NothingAtBoot
  <2>3. Abstract!Launch
    BY <2>1, <2>2 DEF Abstract!Launch, Mode
  <2> QED
    BY <2>3
<1>2. CASE EndWithoutServer
  BY <1>2, ExitRefines DEF EndWithoutServer, childVars
<1>3. CASE Hotswap
  <2> PICK c \in Children : Hotswap!(c)
    BY <1>3 DEF Hotswap
  <2>1. c \in Unused /\ Unused' = Unused \ {c}
    BY DEF Spawn, Unused, IInv, TypeOK
  <2>2. Owned' = {c}
    BY DEF Spawn, KillCurrent, Current, Owned, Live, LiveStates, IInv, TypeOK, Safe,
       FreshIsUnknown, OneOwnedChild
  <2>3. Abstract!Launch
    BY <2>1, <2>2 DEF Abstract!Launch, Mode
  <2> QED
    BY <2>3
<1>4. CASE HotswapTooEarly
  <2> PICK c \in Children : HotswapTooEarly!(c)
    BY <1>4 DEF HotswapTooEarly
  <2>1. c \in Unused /\ Unused' = Unused \ {c}
    BY DEF Unused, IInv, TypeOK
  <2>2. Owned' = Owned
    BY DEF Owned, Live, LiveStates, IInv, TypeOK
  <2>3. Abstract!Abandon
    BY <2>1, <2>2 DEF Abstract!Abandon, Mode
  <2> QED
    BY <2>3
<1>5. CASE Dispose
  <2>1. Owned' = {}
    BY <1>5 DEF Dispose, KillCurrent, Current, Owned, Live, childVars, IInv, Safe,
       OneOwnedChild
  <2>2. Unused' = Unused
    BY <1>5 DEF Dispose, Unused, childVars
  <2>3. Abstract!Stop
    BY <1>5, <2>1, <2>2 DEF Dispose, Abstract!Stop, Mode
  <2> QED
    BY <2>3
<1>6. CASE ForcedExit
  BY <1>6, ExitRefines DEF ForcedExit, childVars
<1>7. CASE StdoutClosed
  BY <1>7, ExitRefines DEF StdoutClosed, childVars, ParentRuns
<1>8. CASE ParentKilled
  <2>1. Owned' = Owned /\ Unused' = Unused
    BY <1>8 DEF ParentKilled, Owned, Unused, Live, childVars, linkVars
  <2>2. Abstract!Crash
    BY <1>8, <2>1 DEF ParentKilled, Abstract!Crash, Mode, IInv, TypeOK, ParentStates
  <2> QED
    BY <2>2
<1>9. ASSUME NEW c \in Children, Greet(c) PROVE UNCHANGED Abstract!vars
  BY <1>9 DEF Greet, Mode, Owned, Unused, Live, childVars
<1>10. ASSUME NEW c \in Children, HandshakeTimeout(c)
       PROVE  Abstract!Stop \/ Abstract!Finish
  BY <1>10, ExitRefines DEF HandshakeTimeout, childVars, ParentRuns
<1>11. ASSUME NEW c \in Children, ChildExit(c)
       PROVE  Abstract!Stop \/ Abstract!Finish \/ UNCHANGED Abstract!vars
  <2>1. UNCHANGED <<child, proc>> /\ parent # "gone"
    BY <1>11 DEF ChildExit, ParentRuns
  <2>2. CASE Exit("childExit", c) \/ Exit("disposed", c)
    BY <2>1, <2>2, ExitRefines
  <2>3. CASE UNCHANGED <<parent, cause, watch, revoked, signal>>
    BY <2>1, <2>3 DEF Mode, Owned, Unused, Live
  <2> QED
    BY <1>11, <2>2, <2>3 DEF ChildExit
<1> QED
  BY <1>1, <1>2, <1>3, <1>4, <1>5, <1>6, <1>7, <1>8, <1>9, <1>10, <1>11
  DEF ParentStep

\* A child that ends is lost by its supervisor; its other steps are its own.
LEMMA ChildRefines ==
  ASSUME IInv, NEW c \in Children, ChildStep(c)
  PROVE  [Abstract!Next]_(Abstract!vars)
<1> USE DEF IInv, TypeOK
<1>1. UNCHANGED <<parent, revoked>> /\ UNCHANGED Mode
  BY DEF ChildStep, AskHandshake, ReceiveArgs, Listen, Serve, AskRelaunch, Terminate,
     Interrupt, OrphanPoll, ChildEnds, parentVars, linkVars, Mode
<1>2. CASE Die(c) /\ Live(c)
  <2>1. Unused' = Unused /\ Owned' = Owned \ {c}
    BY <1>1, <1>2 DEF Die, Unused, Owned, Live, LiveStates
  <2> QED
    BY <1>1, <2>1 DEF Abstract!Next, Abstract!vars, Abstract!Lose
<1>3. CASE \A d \in Children : Live(d)' = Live(d) /\ (proc[d]' = "none" <=> proc[d] = "none")
  <2>1. Unused' = Unused /\ Owned' = Owned
    BY <1>1, <1>3 DEF Unused, Owned
  <2> QED
    BY <1>1, <2>1 DEF Abstract!vars
<1>4. (Die(c) /\ Live(c)) \/
      \A d \in Children : Live(d)' = Live(d) /\ (proc[d]' = "none" <=> proc[d] = "none")
  BY DEF ChildStep, AskHandshake, ReceiveArgs, Listen, Serve, AskRelaunch, Terminate,
     Interrupt, OrphanPoll, ChildEnds, HandleSignal, Live, LiveStates
<1> QED
  BY <1>2, <1>3, <1>4

\* Every behaviour of the two processes is one of the abstract supervisor.
THEOREM Refinement == Spec => Abstract!Spec
<1>1. IInv /\ [Next]_vars => [Abstract!Next]_(Abstract!vars)
  <2>1. UNCHANGED vars => UNCHANGED Abstract!vars
    BY DEF vars, parentVars, childVars, linkVars, Abstract!vars, Mode, Owned, Unused, Live
  <2> QED
    BY <2>1, ParentRefines, ChildRefines DEF Next
<1> QED
  BY InitRefines, <1>1, Inductive, PTL DEF Spec, Abstract!Spec

============================================================================
