--------------------------- MODULE TerminalBridge ---------------------------
(***************************************************************************)
(* The visible terminals of the MCP server: TerminalWebSocket.ts, and the  *)
(* heartbeat of HeartbeatManager.ts that makes it connect again through    *)
(* the callback of index.ts 72-84.                                         *)
(*                                                                         *)
(* Requests carry no number, so answers are matched by their order: the    *)
(* creations wait in a queue, and a listing in a single slot.  Queue, slot *)
(* and buffers belong to the bridge, and not to one of its sockets, and a  *)
(* socket that has been replaced keeps its handlers.  What an await        *)
(* continues with happens before the next message, so it belongs to the    *)
(* step that settles the promise.                                          *)
(***************************************************************************)
EXTENDS Naturals, Sequences, FiniteSets

CONSTANTS Callers,   (* calls of execNew                                   *)
          Listers,   (* calls of list                                      *)
          Beats,     (* beats that may be under way at a time              *)
          MaxSockets,(* bound: how often the bridge connects               *)
          MaxText,   (* bound: chunks of a terminal without a sentinel     *)
          None

ASSUME BridgeAssumption ==
  /\ MaxSockets \in Nat \ {0} /\ MaxText \in Nat
  /\ IsFiniteSet(Callers) /\ None \notin Callers \cup Listers

Sockets == 1 .. MaxSockets
Ids == 1 .. Cardinality(Callers)
Chunks == [n : Nat, mark : Callers \cup {None}]

VARIABLES
  sock, ws, connected,  (* each socket, the current one, the flag          *)
  up, down,             (* messages on their way to and from the server    *)
  terms,                (* external: the terminals of the server           *)
  pendingCreates, call, got,   (* create and exec: the queue, the callers  *)
  outputBuffers, taken, result,(* what is buffered, was read, was returned *)
  slot, list, timers,   (* pendingListRequest, the callers, armed timers   *)
  beat, awaits,         (* the beats, and the sockets that they wait for   *)
  failures,             (* consecutiveFailures, up to 2                    *)
  asked,                (* history: the socket of the last request to create *)
  crossed               (* history: one was made over another socket than a
                           creation that was still in the queue            *)

wire == <<sock, up, down>>
calls == <<pendingCreates, call, got, result>>
lists == <<slot, list, timers>>
hearts == <<beat, awaits, failures>>
histories == <<asked, crossed>>
vars == <<wire, ws, connected, terms, calls, outputBuffers, taken, lists, hearts, histories>>

\* main() has begun to connect (index.ts 66-73).
Init ==
  /\ sock = [w \in Sockets |-> IF w = 1 THEN "opening" ELSE "unused"]
  /\ ws = 0 /\ connected = FALSE
  /\ up = [w \in Sockets |-> <<>>] /\ down = [w \in Sockets |-> <<>>]
  /\ terms = <<>>
  /\ pendingCreates = <<>>
  /\ call = [c \in Callers |-> "new"]
  /\ got = [c \in Callers |-> 0]
  /\ outputBuffers = [i \in Ids |-> {}] /\ taken = [i \in Ids |-> {}]
  /\ result = [c \in Callers |-> {}]
  /\ slot = None /\ list = [l \in Listers |-> "new"] /\ timers = {}
  /\ beat = [b \in Beats |-> "idle"] /\ awaits = [b \in Beats |-> 0]
  /\ failures = 0
  /\ asked = 0 /\ crossed = FALSE

----------------------------------------------------------------------------
(* The sockets.                                                            *)

\* requireSocket, and ws.send: a send to a socket that is not open is lost.
HasSocket == ws # 0 /\ connected
Sent(w, m) == IF sock[w] = "open" THEN [up EXCEPT ![w] = Append(@, m)] ELSE up

\* Whoever waits for connect() goes on when it settles: a beat resets its
\* counter, whether the connection was made or not (index.ts 80).
Settle(w) ==
  LET waiting == {b \in Beats : awaits[b] = w} IN
  /\ beat' = [b \in Beats |-> IF b \in waiting THEN "idle" ELSE beat[b]]
  /\ awaits' = [b \in Beats |-> IF b \in waiting THEN 0 ELSE awaits[b]]
  /\ failures' = IF waiting = {} THEN failures ELSE 0

Open(w) ==
  /\ sock[w] = "opening"
  /\ sock' = [sock EXCEPT ![w] = "open"]
  /\ ws' = w /\ connected' = TRUE
  /\ Settle(w)
  /\ UNCHANGED <<up, down, terms, calls, outputBuffers, taken, lists, histories>>

\* External: a socket ends.  It sends nothing more, and what the server has
\* not read is lost; what has come in is still read, and the bridge not told.
Closing(w) ==
  /\ sock[w] = "open"
  /\ sock' = [sock EXCEPT ![w] = "closing"]
  /\ up' = [up EXCEPT ![w] = <<>>]
  /\ UNCHANGED <<down, ws, connected, terms, calls, outputBuffers, taken, lists, hearts, histories>>

\* "close", which follows "error" where a socket does not open: the flag falls
\* whichever socket it was, and what was not read by then is lost.
Close(w) ==
  /\ sock[w] \in {"opening", "closing"}
  /\ sock' = [sock EXCEPT ![w] = "closed"]
  /\ connected' = FALSE
  /\ down' = [down EXCEPT ![w] = <<>>]
  /\ Settle(w)
  /\ UNCHANGED <<up, ws, terms, calls, outputBuffers, taken, lists, histories>>

----------------------------------------------------------------------------
(* HeartbeatManager.                                                       *)

\* /healthz answers, or not, and the second failure in a row logs in.  The
\* interval does not wait for the last beat; one that still waits for its
\* answer has read nothing, so a beat begins here where it is answered.
\* Without a socket left to connect, beats change nothing more.
Beat(b) ==
  /\ beat[b] = "idle" /\ \E w \in Sockets : sock[w] = "unused"
  /\ \/ failures' = 0 /\ UNCHANGED beat
     \/ /\ failures' = IF failures < 2 THEN failures + 1 ELSE 2
        /\ beat' = IF failures' = 2 THEN [beat EXCEPT ![b] = "login"] ELSE beat
  /\ UNCHANGED <<wire, ws, connected, terms, calls, outputBuffers, taken, lists, awaits, histories>>

\* onSessionExpired: login() fails, and the counter stays, or the bridge
\* connects once more, whatever sockets it has.
Login(b) ==
  /\ beat[b] = "login"
  /\ \/ beat' = [beat EXCEPT ![b] = "idle"] /\ UNCHANGED <<sock, awaits>>
     \/ \E w \in Sockets :
          /\ sock[w] = "unused" /\ \A v \in 1 .. w - 1 : sock[v] # "unused"
          /\ sock' = [sock EXCEPT ![w] = "opening"]
          /\ beat' = [beat EXCEPT ![b] = "connecting"]
          /\ awaits' = [awaits EXCEPT ![b] = w]
  /\ UNCHANGED <<up, down, ws, connected, terms, calls, outputBuffers, taken, lists, failures, histories>>

----------------------------------------------------------------------------
(* execNew: create, exec, close.                                           *)

Create(c) ==
  /\ call[c] = "new" /\ HasSocket
  /\ call' = [call EXCEPT ![c] = "creating"]
  /\ pendingCreates' = Append(pendingCreates, c)
  /\ up' = Sent(ws, [type |-> "create", by |-> c])
  /\ asked' = ws
  /\ crossed' = (crossed \/ (pendingCreates # <<>> /\ asked # ws))
  /\ UNCHANGED <<sock, down, ws, connected, terms, got, result, outputBuffers, taken, lists, hearts>>

\* Mutated form: the caller that gives up leaves the queue.
CreateTimeoutLeaving(c) ==
  /\ call[c] = "creating"
  /\ call' = [call EXCEPT ![c] = "failed"]
  /\ pendingCreates' = SelectSeq(pendingCreates, LAMBDA d : d # c)
  /\ UNCHANGED <<wire, ws, connected, terms, got, result, outputBuffers, taken, lists, hearts, histories>>

\* Mutated form: the request is sent once more.
CreateTimeoutRetrying(c) ==
  /\ call[c] = "creating" /\ HasSocket
  /\ pendingCreates' = Append(pendingCreates, c)
  /\ up' = Sent(ws, [type |-> "create", by |-> c])
  /\ UNCHANGED <<sock, down, ws, connected, terms, call, got, result, outputBuffers, taken, lists, hearts, histories>>

\* The promise is rejected after 10 s; its place in the queue remains, and
\* takes the answer when it comes.
CreateTimeout(c) ==
  /\ call[c] = "creating"
  /\ call' = [call EXCEPT ![c] = "failed"]
  /\ UNCHANGED <<wire, ws, connected, terms, pendingCreates, got, result, outputBuffers, taken, lists, hearts, histories>>

\* "created": the head of the queue gets the id, and execNew goes on to send
\* its command, if there is a socket to send it to.
Created(w) ==
  LET id == Head(down[w]).id
      c == Head(pendingCreates)
      resolves == pendingCreates # <<>> /\ call[c] = "creating" IN
  /\ down[w] # <<>> /\ Head(down[w]).type = "created"
  /\ down' = [down EXCEPT ![w] = Tail(@)]
  /\ pendingCreates' = IF pendingCreates = <<>> THEN <<>> ELSE Tail(pendingCreates)
  /\ got' = IF resolves THEN [got EXCEPT ![c] = id] ELSE got
  /\ call' = IF resolves THEN [call EXCEPT ![c] = IF HasSocket THEN "exec" ELSE "failed"] ELSE call
  /\ up' = IF resolves /\ HasSocket THEN Sent(ws, [type |-> "input", id |-> id, by |-> c]) ELSE up
  /\ UNCHANGED <<sock, ws, connected, terms, result, outputBuffers, taken, lists, hearts, histories>>

\* Mutated form: the chunk replaces the buffer.
BufferedLast(buffer, chunk) == {chunk}

\* "data": the buffer grows, and every exec that listens to this terminal
\* looks for its sentinel in all of it, and else at the clock.  The one that
\* ends closes its terminal.
Buffered(buffer, chunk) == buffer \cup {chunk}

Data(w) ==
  LET m == Head(down[w])
      buffer == Buffered(outputBuffers[m.id], m.chunk)
      listening == {c \in Callers : call[c] = "exec" /\ got[c] = m.id}
      found == {c \in listening : \E x \in buffer : x.mark = c} IN
  /\ down[w] # <<>> /\ m.type = "data"
  /\ down' = [down EXCEPT ![w] = Tail(@)]
  /\ outputBuffers' = [outputBuffers EXCEPT ![m.id] = buffer]
  /\ result' = [c \in Callers |-> IF c \in found THEN buffer ELSE result[c]]
  /\ \E late \in SUBSET (listening \ found) :
       call' = [c \in Callers |-> IF c \in found THEN "done"
                                  ELSE IF c \in late THEN "failed" ELSE call[c]]
  /\ up' = IF found # {} /\ HasSocket
           THEN Sent(ws, [type |-> "kill", id |-> m.id, by |-> CHOOSE c \in found : TRUE])
           ELSE up
  /\ UNCHANGED <<sock, ws, connected, terms, pendingCreates, got, taken, lists, hearts, histories>>

\* read() by terminal_ui_read empties the buffer (tools/terminal.ts 279-288).
Read(id) ==
  /\ connected /\ outputBuffers[id] # {}
  /\ taken' = [taken EXCEPT ![id] = @ \cup outputBuffers[id]]
  /\ outputBuffers' = [outputBuffers EXCEPT ![id] = {}]
  /\ UNCHANGED <<wire, ws, connected, terms, calls, lists, hearts, histories>>

----------------------------------------------------------------------------
(* list.                                                                   *)

List(l) ==
  /\ list[l] = "new" /\ HasSocket
  /\ list' = [list EXCEPT ![l] = "waiting"]
  /\ slot' = l
  /\ timers' = timers \cup {l}
  /\ up' = Sent(ws, [type |-> "list"])
  /\ UNCHANGED <<sock, down, ws, connected, terms, calls, outputBuffers, taken, hearts, histories>>

Terminals(w) ==
  /\ down[w] # <<>> /\ Head(down[w]).type = "terminals"
  /\ down' = [down EXCEPT ![w] = Tail(@)]
  /\ list' = IF slot = None THEN list ELSE [list EXCEPT ![slot] = "answered"]
  /\ slot' = None
  /\ UNCHANGED <<sock, up, ws, connected, terms, calls, outputBuffers, taken, timers, hearts, histories>>

\* The timer is never cleared: it empties the slot whoever has it, and
\* rejects its own promise only if there was somebody.
ListTimeout(l) ==
  /\ l \in timers
  /\ timers' = timers \ {l}
  /\ list' = IF slot # None /\ list[l] = "waiting" THEN [list EXCEPT ![l] = "rejected"] ELSE list
  /\ slot' = None
  /\ UNCHANGED <<wire, ws, connected, terms, calls, outputBuffers, taken, hearts, histories>>

----------------------------------------------------------------------------
(* External: the server at the other end.  It answers the requests of a    *)
(* socket in their order; a terminal writes to the socket that made it.    *)

Serve(w) ==
  LET m == Head(up[w]) IN
  /\ up[w] # <<>>
  /\ up' = [up EXCEPT ![w] = Tail(@)]
  /\ \/ /\ m.type = "create"
        /\ terms' = Append(terms, [by |-> m.by, home |-> w, jobs |-> <<>>, n |-> 0])
        /\ down' = [down EXCEPT ![w] = Append(@, [type |-> "created", id |-> Len(terms) + 1])]
     \/ /\ m.type = "list"
        /\ down' = [down EXCEPT ![w] = Append(@, [type |-> "terminals"])]
        /\ UNCHANGED terms
     \/ /\ m.type = "input"
        /\ terms' = [terms EXCEPT ![m.id].jobs = Append(@, m.by)]
        /\ UNCHANGED down
     \/ /\ m.type = "kill"
        /\ terms' = [terms EXCEPT ![m.id].home = 0]
        /\ UNCHANGED down
  /\ UNCHANGED <<sock, ws, connected, calls, outputBuffers, taken, lists, hearts, histories>>

Wrote(id, mark) ==
  LET w == terms[id].home IN
  down' = [down EXCEPT ![w] =
    Append(@, [type |-> "data", id |-> id, chunk |-> [n |-> terms[id].n + 1, mark |-> mark]])]

Write(id) ==
  /\ id \in DOMAIN terms
  /\ terms[id].home # 0 /\ sock[terms[id].home] = "open"
  /\ \/ /\ terms[id].n < MaxText
        /\ Wrote(id, None)
        /\ terms' = [terms EXCEPT ![id].n = @ + 1]
     \/ /\ terms[id].jobs # <<>>
        /\ Wrote(id, Head(terms[id].jobs))
        /\ terms' = [terms EXCEPT ![id].n = @ + 1, ![id].jobs = Tail(@)]
  /\ UNCHANGED <<sock, up, ws, connected, calls, outputBuffers, taken, lists, hearts, histories>>

----------------------------------------------------------------------------
Receive(w) == Created(w) \/ Data(w) \/ Terminals(w)

Next ==
  \/ \E w \in Sockets : Open(w) \/ Closing(w) \/ Close(w) \/ Receive(w) \/ Serve(w)
  \/ \E b \in Beats : Beat(b) \/ Login(b)
  \/ \E c \in Callers : Create(c) \/ CreateTimeout(c)
  \/ \E l \in Listers : List(l) \/ ListTimeout(l)
  \/ \E id \in Ids : Read(id) \/ Write(id)

Spec == Init /\ [][Next]_vars

----------------------------------------------------------------------------
(* Properties.                                                             *)

TypeOK ==
  /\ sock \in [Sockets -> {"unused", "opening", "open", "closing", "closed"}]
  /\ ws \in 0 .. MaxSockets /\ connected \in BOOLEAN
  /\ \A w \in Sockets : \A m \in {up[w][i] : i \in DOMAIN up[w]} :
       m.type \in {"create", "input", "kill", "list"}
  /\ \A w \in Sockets : \A m \in {down[w][i] : i \in DOMAIN down[w]} :
       m.type \in {"created", "data", "terminals"}
  /\ Len(terms) <= Cardinality(Callers)
  /\ pendingCreates \in Seq(Callers)
  /\ call \in [Callers -> {"new", "creating", "exec", "done", "failed"}]
  /\ got \in [Callers -> Ids \cup {0}]
  /\ \A i \in Ids : outputBuffers[i] \cup taken[i] \subseteq Chunks
  /\ slot \in Listers \cup {None}
  /\ list \in [Listers -> {"new", "waiting", "answered", "rejected"}]
  /\ timers \subseteq Listers
  /\ beat \in [Beats -> {"idle", "login", "connecting"}]
  /\ awaits \in [Beats -> 0 .. MaxSockets]
  /\ failures \in 0 .. 2 /\ asked \in 0 .. MaxSockets /\ crossed \in BOOLEAN

\* Whoever passes requireSocket() sends on a socket that is open, or whose end
\* has not been reported yet, through every order in which sockets open, end and
\* close; in the latter case what it sends is lost (TerminalWebSocket.ts 24-34,
\* 137-142).
ConnectedIsHonest == HasSocket => sock[ws] \in {"open", "closing"}

\* As long as no creation is asked for while the queue holds one asked for over
\* another socket, each call types into the terminal that was made for it, and
\* closes no other, however late the answers to calls that have given up arrive,
\* over whichever sockets, replaced or lost (39-54, 80-87, 173-176).
OnlyOwnTerminal ==
  ~crossed =>
    /\ \A c \in Callers : got[c] # 0 => terms[got[c]].by = c
    /\ \A w \in Sockets : \A i \in DOMAIN up[w] :
         up[w][i].type \in {"input", "kill"} => terms[up[w][i].id].by = up[w][i].by

\* What an exec returns, with what read() has taken away meanwhile, is all
\* that the terminal wrote up to the sentinel (60-78, 89-93, 160-167).
OutputIsWhole ==
  \A c \in Callers : \A x \in result[c] : x.mark = c =>
    \A k \in 1 .. x.n : \E y \in result[c] \cup taken[got[c]] : y.n = k

\* No request goes to a socket whose end is known, or into the terminal of
\* another call (TerminalWebSocket.ts 24-87, 137-142).
RequestsArrive == ConnectedIsHonest /\ OnlyOwnTerminal

============================================================================
