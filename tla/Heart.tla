------------------------------- MODULE Heart -------------------------------
(***************************************************************************)
(* The heartbeat of src/src/node/heart.ts, the probe of open connections   *)
(* it is built with in routes/index.ts, and the idle shutdown that main.ts *)
(* derives from it.                                                        *)
(*                                                                         *)
(* Time passes in ticks.  Every timer is a count-down, Off when it is not  *)
(* armed, and time does not pass while a timer is due.  The wall clock     *)
(* that Date.now() reads runs with the timers, but may be set back.        *)
(***************************************************************************)
EXTENDS Integers

CONSTANTS H,         (* heartbeatInterval (60 s)                            *)
          P,         (* how long the probe waits for getConnections (5 s)   *)
          I,         (* --idle-timeout-seconds                              *)
          MaxDelay,  (* the longest delay of setTimeout (2^31 - 1 ms)       *)
          MaxBack,   (* how far the wall clock is set back, 0 for never     *)
          MaxConns   (* bound on the open connections of either kind        *)

\* cli.ts 418 and 650: the idle timeout must be greater than 60 seconds.
ASSUME TimesAssumption ==
  /\ H \in Nat /\ P \in Nat /\ I \in Nat /\ MaxDelay \in Nat /\ MaxBack \in Nat
  /\ MaxConns \in Nat \ {0}
  /\ 0 < P /\ P < H /\ H < I

VARIABLES
  state,     (* Heart.state: "alive", "expired" or "unknown"               *)
  since,     (* Date.now() - lastHeartbeat, no more than Long              *)
  timer,     (* heartbeatTimer                                             *)
  probe,     (* the 5 s timer of a getConnections that does not answer     *)
  idle,      (* idleShutdownTimer                                          *)
  users,     (* open connections that have made a request                  *)
  checks,    (* open connections that only ask for /healthz                *)
  quiet,     (* time since the last request other than /healthz, up to I   *)
  setBack,   (* whether the wall clock has been set back                   *)
  phase      (* "up", "disposing", or how the process ended                *)

vars == <<state, since, timer, probe, idle, users, checks, quiet, setBack, phase>>
connVars == <<users, checks, quiet, setBack>>

Off == -1
Long == H + MaxBack

\* setTimeout(f, delay): a delay that does not fit in 32 bits becomes 1 ms.
IdleDelay == IF I <= MaxDelay THEN I ELSE 0

\* Mutated form: the first idle timer is not started.
InitNotIdling ==
  /\ state = "expired" /\ phase = "up"
  /\ since = Long /\ quiet = 0 /\ setBack = FALSE
  /\ timer = Off /\ probe = Off
  /\ idle = Off
  /\ users = 0 /\ checks = 0

Init ==
  /\ state = "expired" /\ phase = "up"
  /\ since = Long /\ quiet = 0 /\ setBack = FALSE
  /\ timer = Off /\ probe = Off
  /\ idle = IdleDelay
  /\ users = 0 /\ checks = 0

----------------------------------------------------------------------------
\* Mutated forms: a change of state does not clear the idle timer, every
\* state but "alive" starts it, or it starts on top of the heartbeat.
SetStateKeepsIdle(s) ==
  /\ state' = s
  /\ idle' = IF s # state /\ s = "expired" THEN IdleDelay ELSE idle

SetStateIdlesUnlessAlive(s) ==
  /\ state' = s
  /\ idle' = IF s = state THEN idle ELSE IF s = "alive" THEN Off ELSE IdleDelay

SetStateLateIdle(s) ==
  /\ state' = s
  /\ idle' = IF s = state THEN idle ELSE IF s = "expired" THEN H + IdleDelay ELSE Off

\* setState and the onChange listener of main.ts: a change clears the idle
\* timer, and "expired" starts it again.
SetState(s) ==
  /\ state' = s
  /\ idle' = IF s = state THEN idle ELSE IF s = "expired" THEN IdleDelay ELSE Off

\* beat(): a heart that is still alive only reports it, and arms no timer.
Beat ==
  /\ SetState("alive")
  /\ IF since < H THEN UNCHANGED <<since, timer>> ELSE since' = 0 /\ timer' = H

----------------------------------------------------------------------------
(* The server.                                                             *)

\* A request that is not for /healthz, on a connection that stays open, on
\* one it opens, or on one that is closed right after.
Request ==
  /\ phase = "up" \/ (phase = "disposing" /\ users > 0)
  /\ \/ UNCHANGED users
     \/ phase = "up" /\ users < MaxConns /\ users' = users + 1
  /\ quiet' = 0
  /\ Beat
  /\ UNCHANGED <<probe, checks, setBack, phase>>

\* A connection for /healthz: the middleware does not beat.
CheckHealth ==
  /\ phase = "up" /\ checks < MaxConns
  /\ checks' = checks + 1
  /\ UNCHANGED <<state, since, timer, probe, idle, users, quiet, setBack, phase>>

Close ==
  /\ phase \in {"up", "disposing"}
  /\ \/ users > 0 /\ users' = users - 1 /\ UNCHANGED checks
     \/ checks > 0 /\ checks' = checks - 1 /\ UNCHANGED users
  /\ UNCHANGED <<state, since, timer, probe, idle, quiet, setBack, phase>>

\* The heartbeat timer: isActive() answers at once, fails, or does not
\* answer, which Node only does when there are no connections.
TimerFires ==
  /\ phase \in {"up", "disposing"}
  /\ timer = 0
  /\ \/ /\ users + checks > 0
        /\ SetState("alive")
        /\ IF since < H THEN timer' = Off /\ UNCHANGED since
                        ELSE timer' = H /\ since' = 0
        /\ UNCHANGED probe
     \/ /\ timer' = Off /\ UNCHANGED since
        /\ \/ users + checks = 0 /\ SetState("expired") /\ UNCHANGED probe
           \/ users + checks = 0 /\ probe' = P /\ UNCHANGED <<state, idle>>
           \/ SetState("unknown") /\ UNCHANGED probe
  /\ UNCHANGED <<connVars, phase>>

\* "Node failed to respond with connections; assuming zero".
ProbeTimeout ==
  /\ phase \in {"up", "disposing"}
  /\ probe = 0
  /\ probe' = Off
  /\ SetState("expired")
  /\ UNCHANGED <<since, timer, connVars, phase>>

\* "Idle timeout of ... seconds exceeded": wrapper.exit(0).
IdleShutdown ==
  /\ phase \in {"up", "disposing"}
  /\ idle = 0
  /\ phase' = IF phase = "up" THEN "idled" ELSE "gone"
  /\ UNCHANGED <<state, since, timer, probe, idle, connVars>>

\* dispose() clears the timer, not a probe under way.  The process ends
\* when its server is closed, or five seconds later.
Dispose ==
  /\ phase = "up"
  /\ phase' = "disposing"
  /\ timer' = Off
  /\ UNCHANGED <<state, since, probe, idle, connVars>>

End ==
  /\ phase = "disposing"
  /\ phase' = "gone"
  /\ UNCHANGED <<state, since, timer, probe, idle, connVars>>

----------------------------------------------------------------------------
(* Time.                                                                   *)

Down(t) == IF t = Off THEN Off ELSE t - 1
UpTo(bound, t) == IF t < bound THEN t + 1 ELSE bound

Tick ==
  /\ phase \in {"up", "disposing"}
  /\ timer # 0 /\ probe # 0 /\ idle # 0
  /\ timer' = Down(timer) /\ probe' = Down(probe) /\ idle' = Down(idle)
  /\ since' = UpTo(Long, since)
  /\ quiet' = UpTo(I, quiet)
  /\ UNCHANGED <<state, users, checks, setBack, phase>>

SetClockBack ==
  /\ phase = "up" /\ MaxBack > 0 /\ ~setBack
  /\ setBack' = TRUE
  /\ since' = since - MaxBack
  /\ UNCHANGED <<state, timer, probe, idle, users, checks, quiet, phase>>

----------------------------------------------------------------------------
Next ==
  \/ Request \/ CheckHealth \/ Close
  \/ TimerFires \/ ProbeTimeout \/ IdleShutdown
  \/ Dispose \/ End \/ Tick \/ SetClockBack

Spec == Init /\ [][Next]_vars

\* Time passes and timers that are due fire; nobody has to connect or leave.
Fairness ==
  WF_vars(Tick) /\ WF_vars(TimerFires) /\ WF_vars(ProbeTimeout) /\
  WF_vars(IdleShutdown) /\ WF_vars(End)

FairSpec == Spec /\ Fairness

----------------------------------------------------------------------------
(* Properties.                                                             *)

TypeOK ==
  /\ state \in {"alive", "expired", "unknown"}
  /\ since \in -MaxBack .. Long
  /\ timer \in Off .. H
  /\ probe \in Off .. P
  /\ idle \in Off .. I
  /\ users \in 0 .. MaxConns
  /\ checks \in 0 .. MaxConns
  /\ quiet \in 0 .. I
  /\ setBack \in BOOLEAN
  /\ phase \in {"up", "disposing", "idled", "gone"}

\* The idle shutdown is scheduled exactly while the heart is expired: the two
\* are kept in step by the change events alone (main.ts 173-192).
IdleWhenExpired == idle # Off <=> state = "expired"

\* The idle shutdown never cuts off a user: not even when a probe that went
\* unanswered calls the heart expired after a new user has connected
\* (routes/index.ts 35-53), as long as the wall clock is not set back.
NoExitWhileConnected == phase = "idled" /\ ~setBack => users = 0

\* It only happens after a whole idle timeout without a request.
ExitIsEarned == phase = "idled" => quiet = I

\* "start or reset a timer that keeps running as long as there is activity"
\* (heart.ts 37-38): a heart that says it is alive will be looked at again.
\* A wall clock that was set back is the exception.
AliveIsTimed ==
  phase = "up" /\ state = "alive" /\ ~setBack => timer # Off \/ probe # Off

\* The two timers follow the state of the heart, whatever interleaves with
\* the probe: the shutdown is scheduled while it is expired, and a heart that
\* says it is alive will be looked at again (heart.ts 40-63, main.ts 173-192).
StateIsTimed == IdleWhenExpired /\ AliveIsTimed

\* The idle shutdown is earned by a whole timeout without a request, and cuts
\* off no user (main.ts 173-192, routes/index.ts 35-53).
ShutdownIsEarned == NoExitWhileConnected /\ ExitIsEarned

\* A server that is left alone shuts down, unless it was told that its
\* connections cannot be counted (cli.ts 317).
IdleServerExits ==
  <>[](users = 0 /\ checks = 0 /\ quiet > 0 /\ state # "unknown" /\ ~setBack)
    => <>(phase # "up")

============================================================================
