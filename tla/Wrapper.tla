------------------------------ MODULE Wrapper ------------------------------
(***************************************************************************)
(* The two code-server processes of src/src/node/wrapper.ts and            *)
(* src/src/node/entry.ts: a parent that supervises one child at a time,    *)
(* the IPC handshake between them, hotswapping on SIGUSR1 or SIGUSR2, and  *)
(* the disposal of both.                                                   *)
(*                                                                         *)
(* One action is one turn of an event loop: an event handler together      *)
(* with the promise continuations that run before the next event.  Timers  *)
(* carry no clock: an armed timer may fire at any time.                    *)
(***************************************************************************)
EXTENDS Naturals, FiniteSets

CONSTANTS Children,  (* the identities that cp.fork can return            *)
          NoChild    (* "this.child" before the first fork                *)

ASSUME NoChildAssumption == NoChild \notin Children

VARIABLES
  parent,     (* "boot" before start(args), "up", "disposing" or "gone"     *)
  cause,      (* why the parent is gone, and the child that made it exit    *)
  child,      (* ParentProcess.child                                        *)
  watch,      (* the listeners the parent has on each child                 *)
  armed,      (* children whose 10 s handshake timer runs in the parent     *)
  proc,       (* how far each child process has come                        *)
  signal,     (* children with a SIGTERM sent and not yet delivered         *)
  revoked,    (* children on which the parent has called kill()             *)
  greeted,    (* children whose handshake message is on its way up          *)
  answered,   (* children whose arguments are on their way down             *)
  unreported, (* dead children whose "exit" event the parent has not seen   *)
  asked,      (* children that called ChildProcess.relaunch                 *)
  port        (* the child that listens on the configured address           *)

parentVars == <<parent, cause, child, watch, armed>>
childVars  == <<proc, port, asked, unreported>>
linkVars   == <<signal, revoked, greeted, answered>>
vars == <<parentVars, childVars, linkVars>>

LiveStates == {"boot", "asking", "starting", "serving", "disposing"}
Live(c) == proc[c] \in LiveStates
ParentRuns == parent \in {"up", "disposing"}
Current == {child} \ {NoChild}

----------------------------------------------------------------------------
Init ==
  /\ parent = "boot"
  /\ cause = [why |-> "none", who |-> NoChild]
  /\ child = NoChild
  /\ watch = [c \in Children |-> "none"]
  /\ armed = {}
  /\ proc = [c \in Children |-> "none"]
  /\ signal = {} /\ revoked = {}
  /\ greeted = {} /\ answered = {}
  /\ unreported = {} /\ asked = {}
  /\ port = NoChild

----------------------------------------------------------------------------
(* What the parent's handlers are made of.                                 *)

\* Mutated form: without the test that there is a child.
KillCurrentUnchecked ==
  /\ revoked' = revoked \cup {child}
  /\ signal' = signal \cup {c \in Current : Live(c)}

\* disposeChild() up to its await: child.kill() only reaches a living child.
KillCurrent ==
  /\ revoked' = revoked \cup Current
  /\ signal' = signal \cup {c \in Current : Live(c)}

\* The listeners that removeAllListeners() on the current child leaves.
Unwatched == [c \in Children |-> IF c = child THEN "none" ELSE watch[c]]

\* Mutated form: the "exit" handler is not there.
ExitWithoutKill(why, who) ==
  /\ parent' = "gone"
  /\ cause' = [why |-> why, who |-> who]
  /\ watch' = Unwatched
  /\ UNCHANGED <<revoked, signal>>

\* processExit() emits "exit", and its handler disposes of the child, unless
\* a disposal under way has removed that handler.
Exit(why, who) ==
  /\ parent' = "gone"
  /\ cause' = [why |-> why, who |-> who]
  /\ watch' = Unwatched
  /\ IF parent = "disposing" THEN UNCHANGED <<revoked, signal>> ELSE KillCurrent

\* _start() up to the await of its handshake.
Spawn(c) ==
  /\ proc[c] = "none"
  /\ proc' = [proc EXCEPT ![c] = "boot"]
  /\ child' = c
  /\ armed' = armed \cup {c}

----------------------------------------------------------------------------
(* The parent.                                                             *)

\* start(args) once the command line asks for a server.
Start == \E c \in Children :
  /\ parent = "boot"
  /\ Spawn(c)
  /\ parent' = "up"
  /\ watch' = [watch EXCEPT ![c] = "handshake"]
  /\ UNCHANGED <<cause, port, asked, unreported, linkVars>>

\* --help, --version, the VS Code CLI, another instance, or a signal before
\* start(args): the parent ends without ever having a child.
EndWithoutServer ==
  /\ parent = "boot"
  /\ Exit("finished", NoChild)
  /\ UNCHANGED <<child, armed, childVars, greeted, answered>>

\* Mutated forms: relaunch() keeps the listeners of the old child, or can
\* still be reached during a disposal.
HotswapStillListening == \E c \in Children :
  /\ parent = "up"
  /\ Spawn(c)
  /\ KillCurrent
  /\ watch' = [watch EXCEPT ![c] = "handshake"]
  /\ UNCHANGED <<parent, cause, port, asked, unreported, greeted, answered>>

HotswapAnytime == \E c \in Children :
  /\ ParentRuns
  /\ Spawn(c)
  /\ KillCurrent
  /\ watch' = [Unwatched EXCEPT ![c] = "handshake"]
  /\ UNCHANGED <<parent, cause, port, asked, unreported, greeted, answered>>

\* SIGUSR1 or SIGUSR2: relaunch() kills the child, does not wait for it to
\* exit, and forks the next one.  The old handshake timer stays armed.
Hotswap == \E c \in Children :
  /\ parent = "up"
  /\ Spawn(c)
  /\ KillCurrent
  /\ watch' = [Unwatched EXCEPT ![c] = "handshake"]
  /\ UNCHANGED <<parent, cause, port, asked, unreported, greeted, answered>>

\* SIGUSR1 or SIGUSR2 before start(args): the handshake throws "started
\* without args" and the child that was just forked is killed on exit.
HotswapTooEarly == \E c \in Children :
  /\ parent = "boot"
  /\ proc[c] = "none"
  /\ proc' = [proc EXCEPT ![c] = "boot"]
  /\ child' = c
  /\ parent' = "gone"
  /\ cause' = [why |-> "noArgs", who |-> c]
  /\ revoked' = revoked \cup {c}
  /\ signal' = signal \cup {c}
  /\ UNCHANGED <<watch, armed, port, asked, unreported, greeted, answered>>

\* Mutated form: nothing watches for the child's exit after the handshake.
GreetAndForget(c) ==
  /\ ParentRuns
  /\ c \in greeted /\ watch[c] = "handshake"
  /\ greeted' = greeted \ {c}
  /\ armed' = armed \ {c}
  /\ watch' = [watch EXCEPT ![c] = "none"]
  /\ answered' = answered \cup {c}
  /\ UNCHANGED <<parent, cause, child, childVars, signal, revoked>>

\* The child's handshake message: reply, then watch for the child's exit.
\* Without the listener the message is dropped.
Greet(c) ==
  /\ ParentRuns
  /\ c \in greeted
  /\ greeted' = greeted \ {c}
  /\ IF watch[c] = "handshake"
     THEN /\ armed' = armed \ {c}
          /\ watch' = [watch EXCEPT ![c] = "exit"]
          /\ answered' = answered \cup {c}
     ELSE UNCHANGED <<armed, watch, answered>>
  /\ UNCHANGED <<parent, cause, child, childVars, signal, revoked>>

\* The 10 s timer of onMessage rejects the handshake it was armed for; the
\* catch of relaunch() or of entry() exits.
HandshakeTimeout(c) ==
  /\ ParentRuns
  /\ c \in armed
  /\ armed' = armed \ {c}
  /\ Exit("timeout", c)
  /\ UNCHANGED <<child, childVars, greeted, answered>>

\* A child's "exit" event: it ends the parent when a handshake or the "exit"
\* listener of _start waits for it, and the wait in disposeChild otherwise.
ChildExit(c) ==
  /\ ParentRuns
  /\ c \in unreported
  /\ unreported' = unreported \ {c}
  /\ \/ watch[c] # "none" /\ Exit("childExit", c)
     \/ watch[c] = "none" /\ parent = "disposing" /\ c = child /\ Exit("disposed", c)
     \/ /\ watch[c] = "none" /\ (parent = "up" \/ c # child)
        /\ UNCHANGED <<parent, cause, watch, revoked, signal>>
  /\ UNCHANGED <<child, armed, proc, port, asked, greeted, answered>>

\* SIGINT or SIGTERM to the parent: every process listener is removed and
\* the child disposed of.
Dispose ==
  /\ parent = "up"
  /\ parent' = "disposing"
  /\ watch' = Unwatched
  /\ KillCurrent
  /\ UNCHANGED <<cause, child, armed, childVars, greeted, answered>>

\* The 5 s timer that ends a disposal, and the closed stdout that ends a
\* parent which still runs.
ForcedExit ==
  /\ parent = "disposing"
  /\ Exit("disposed", NoChild)
  /\ UNCHANGED <<child, armed, childVars, greeted, answered>>

StdoutClosed ==
  /\ ParentRuns
  /\ Exit("stdout", NoChild)
  /\ UNCHANGED <<child, armed, childVars, greeted, answered>>

\* SIGKILL, or a second signal once a disposal has removed the handlers: no
\* "exit" handler runs.
ParentKilled ==
  /\ parent # "gone"
  /\ parent' = "gone"
  /\ cause' = [why |-> "killed", who |-> NoChild]
  /\ UNCHANGED <<child, watch, armed, childVars, linkVars>>

----------------------------------------------------------------------------
(* The child.                                                              *)

Die(c) ==
  /\ proc' = [proc EXCEPT ![c] = "dead"]
  /\ port' = IF port = c THEN NoChild ELSE port
  /\ unreported' = unreported \cup {c}

\* handshake(): send the message and wait for the arguments.
AskHandshake(c) ==
  /\ proc[c] = "boot"
  /\ proc' = [proc EXCEPT ![c] = "asking"]
  /\ greeted' = greeted \cup {c}
  /\ UNCHANGED <<parentVars, port, asked, unreported, signal, revoked, answered>>

\* The arguments: preventExit(), then runCodeServer(args).
ReceiveArgs(c) ==
  /\ proc[c] = "asking"
  /\ c \in answered
  /\ answered' = answered \ {c}
  /\ proc' = [proc EXCEPT ![c] = "starting"]
  /\ UNCHANGED <<parentVars, port, asked, unreported, signal, revoked, greeted>>

\* listen() inside runCodeServer: EADDRINUSE makes entry() exit.
Listen(c) ==
  /\ proc[c] = "starting"
  /\ port # c
  /\ \/ /\ port = NoChild
        /\ port' = c
        /\ UNCHANGED <<proc, unreported>>
     \/ /\ port # NoChild
        /\ Die(c)
  /\ UNCHANGED <<parentVars, asked, linkVars>>

\* runCodeServer returns and its dispose is registered.
Serve(c) ==
  /\ proc[c] = "starting"
  /\ port = c
  /\ proc' = [proc EXCEPT ![c] = "serving"]
  /\ UNCHANGED <<parentVars, port, asked, unreported, linkVars>>

\* relaunch(version): the parent has no listener for the message it sends.
AskRelaunch(c) ==
  /\ proc[c] = "serving"
  /\ asked' = asked \cup {c}
  /\ UNCHANGED <<parentVars, proc, port, unreported, linkVars>>

\* A SIGINT or SIGTERM handled by the child.  Only a serving child has
\* something to dispose of; while it does so the signals have their default
\* effect again.
HandleSignal(c) ==
  IF proc[c] = "serving"
  THEN /\ proc' = [proc EXCEPT ![c] = "disposing"]
       /\ port' = NoChild
       /\ UNCHANGED unreported
  ELSE Die(c)

Terminate(c) ==
  /\ c \in signal
  /\ signal' = signal \ {c}
  /\ IF Live(c) THEN HandleSignal(c) ELSE UNCHANGED <<proc, port, unreported>>
  /\ UNCHANGED <<parentVars, asked, revoked, greeted, answered>>

\* Ctrl-C reaches the whole process group.
Interrupt(c) ==
  /\ Live(c)
  /\ HandleSignal(c)
  /\ UNCHANGED <<parentVars, asked, linkVars>>

\* Mutated form: the poll logs that the parent died and goes on.
OrphanPollLogsOnly(c) ==
  /\ parent = "gone"
  /\ Live(c)
  /\ UNCHANGED vars

\* The 5 s poll finds no parent.
OrphanPoll(c) ==
  /\ parent = "gone"
  /\ Live(c)
  /\ HandleSignal(c)
  /\ UNCHANGED <<parentVars, asked, linkVars>>

\* A crash, a failing start, the child's own handshake timeout, the idle
\* shutdown, or the end of a disposal.
ChildEnds(c) ==
  /\ Live(c)
  /\ Die(c)
  /\ UNCHANGED <<parentVars, asked, linkVars>>

EndDisposal(c) ==
  /\ proc[c] = "disposing"
  /\ ChildEnds(c)

HandshakeUnanswered(c) ==
  /\ proc[c] = "asking"
  /\ ChildEnds(c)

----------------------------------------------------------------------------
ParentStep ==
  \/ Start \/ EndWithoutServer \/ Hotswap \/ HotswapTooEarly
  \/ Dispose \/ ForcedExit \/ StdoutClosed \/ ParentKilled
  \/ \E c \in Children : Greet(c) \/ HandshakeTimeout(c) \/ ChildExit(c)

ChildStep(c) ==
  \/ AskHandshake(c) \/ ReceiveArgs(c) \/ Listen(c) \/ Serve(c)
  \/ AskRelaunch(c) \/ Terminate(c) \/ Interrupt(c) \/ OrphanPoll(c)
  \/ ChildEnds(c)

Next == ParentStep \/ \E c \in Children : ChildStep(c)

Spec == Init /\ [][Next]_vars

(* Event loops run, timers fire and signals are delivered; nobody has to   *)
(* send a signal, crash or stop a server.                                  *)
Fairness ==
  /\ WF_vars(ForcedExit)
  /\ \A c \in Children :
       /\ WF_vars(Greet(c)) /\ WF_vars(HandshakeTimeout(c))
       /\ WF_vars(ChildExit(c))
       /\ WF_vars(AskHandshake(c)) /\ WF_vars(ReceiveArgs(c))
       /\ WF_vars(Listen(c)) /\ WF_vars(Serve(c))
       /\ WF_vars(Terminate(c)) /\ WF_vars(OrphanPoll(c))
       /\ WF_vars(EndDisposal(c)) /\ WF_vars(HandshakeUnanswered(c))

FairSpec == Spec /\ Fairness

----------------------------------------------------------------------------
(* Properties.                                                             *)

ParentStates == {"boot", "up", "disposing", "gone"}
Causes == {"none", "finished", "noArgs", "timeout", "childExit", "disposed",
           "stdout", "killed"}

TypeOK ==
  /\ parent \in ParentStates
  /\ cause \in [why : Causes, who : Children \cup {NoChild}]
  /\ child \in Children \cup {NoChild}
  /\ watch \in [Children -> {"none", "handshake", "exit"}]
  /\ proc \in [Children -> LiveStates \cup {"none", "dead"}]
  /\ port \in Children \cup {NoChild}
  /\ \A S \in {armed, signal, revoked, greeted, answered, unreported, asked} :
       S \subseteq Children

\* A kill is sent once, and once is enough: a living child that the parent
\* has let go of, by a hotswap, a disposal or an exit of its own, has the
\* signal ahead of it or is disposing of its server (wrapper.ts 111-125,
\* 256, 272-282).
NoChildLeftBehind ==
  \A c \in Children :
    Live(c) /\ (c \in revoked \/ (parent = "gone" /\ cause.why # "killed")) =>
      c \in signal \/ proc[c] = "disposing"

\* While the parent runs, the child it supervises cannot die or stay silent
\* unnoticed: a handshake has its timer, and the exit event of a dead child
\* is still to come and has a listener.  No other child has one, which would
\* end the parent when a replaced child dies (wrapper.ts 275-276, 308-334).
CurrentIsWatched ==
  /\ parent = "up" =>
       /\ child # NoChild
       /\ watch[child] = "handshake" => child \in armed
       /\ watch[child] # "none"
       /\ proc[child] = "dead" => child \in unreported
  /\ \A c \in Children : watch[c] # "none" => c = child

\* Whatever ends the parent, SIGKILL included, its children end, and so does
\* a child that a hotswap has replaced.
ChildrenEnd ==
  \A c \in Children : (parent = "gone" \/ c \in revoked) ~> ~Live(c)

\* "If the child otherwise exits the parent will also exit" (wrapper.ts 219).
ChildDeathEndsParent ==
  \A c \in Children :
    c = child /\ proc[c] = "dead" ~> parent = "gone" \/ child # c

\* The refinement: the abstract supervisor owns the living children that the
\* parent has not killed.
Owned == {c \in Children : Live(c) /\ c \notin revoked}

Mode == CASE parent = "boot" -> "idle"
          [] parent = "up" -> "up"
          [] parent = "disposing" -> "stopping"
          [] parent = "gone" -> "down"

Unused == {c \in Children : proc[c] = "none"}

Abstract == INSTANCE Supervisor WITH
  Workers <- Children, mode <- Mode, owned <- Owned, fresh <- Unused

\* The two processes implement the abstract supervisor, its liveness included:
\* one child is owned at most, none is forked once a disposal has begun, and
\* a disposal ends.
ImplementsSupervisor == Abstract!FairSpec

\* "Will relaunch the child if it receives a SIGUSR1 or SIGUSR2" (wrapper.ts
\* 216): a handshake timeout that ends the parent is the one of the child it
\* supervises, not of a child that a hotswap has replaced.
TimeoutConcernsCurrent == cause.why = "timeout" => cause.who = child

============================================================================
