-------------------------- MODULE LanguageServers --------------------------
(***************************************************************************)
(* The language servers of the MCP server: the table of clients of         *)
(* tools/lsp.ts (28-51) and the client of bridge/LSPClient.ts (110-292),   *)
(* for the tools of one language over the stdio transport.  A call that    *)
(* finds no client in the table spawns a server, and puts its client there *)
(* when the server has answered; calls that come together spawn one each.  *)
(* The client is named after the call that spawned its server.  What goes  *)
(* to a server's stdin is kept as a log; a server answers in any order.    *)
(***************************************************************************)
EXTENDS Integers, Sequences

CONSTANTS
  Calls,        (* tool calls for files of one language                    *)
  Diagnosing,   (* those among them that are lsp_diagnostics               *)
  NoCall,
  MaxNotices    (* a bound on what servers say without being asked         *)

ASSUME ServersAssumption ==
  Diagnosing \subseteq Calls /\ NoCall \notin Calls /\ MaxNotices \in Nat

VARIABLES
  alive,     (* the MCP process runs                                       *)
  clients,   (* the client in the table, by the call that made it          *)
  proc,      (* the server process of each client                          *)
  pending,   (* pendingRequests of each client: the call behind each id    *)
  written,   (* what each client has written to its server                 *)
  said,      (* the ids of the messages of each server, 0 for a notice,    *)
             (* that its client has not read yet                           *)
  answered,  (* the requests that each server has answered                 *)
  short,     (* the buffer of a client waits for units that no body has    *)
  pc,        (* where each call is                                         *)
  at,        (* the client it uses                                         *)
  notices

clientVars == <<clients, proc, pending, written, said, answered, short>>
serverVars == <<alive, clientVars, pc, at, notices>>

Message(type, id, by) == [type |-> type, id |-> id, by |-> by]

ServersInit ==
  /\ alive = TRUE /\ clients = NoCall
  /\ proc = [k \in Calls |-> "none"]
  /\ pending = [k \in Calls |-> <<>>]
  /\ written = [k \in Calls |-> <<>>]
  /\ said = [k \in Calls |-> <<>>]
  /\ answered = [k \in Calls |-> {}]
  /\ short = [k \in Calls |-> FALSE]
  /\ pc = [c \in Calls |-> "new"]
  /\ at = [c \in Calls |-> NoCall]
  /\ notices = 0

\* nextId - 1: the numbers that a client has given to requests, 1 upwards.
LastId(k) == Len(pending[k])

\* pendingRequests.set: a request that is waited for is one that has a call.
Awaiting(k, c) == pending' = [pending EXCEPT ![k] = Append(@, c)]

\* An exception that nobody catches, or an "error" event without a listener,
\* ends the process: what it knew is lost, and its calls with it.
Crash ==
  /\ alive' = FALSE /\ clients' = NoCall
  /\ proc' = [k \in Calls |-> "none"]
  /\ pending' = [k \in Calls |-> <<>>]
  /\ written' = [k \in Calls |-> <<>>]
  /\ said' = [k \in Calls |-> <<>>]
  /\ answered' = [k \in Calls |-> {}]
  /\ short' = [k \in Calls |-> FALSE]
  /\ pc' = [c \in Calls |-> "failed"]
  /\ at' = [c \in Calls |-> NoCall]
  /\ UNCHANGED notices

----------------------------------------------------------------------------
(* The calls.                                                              *)

FindClient(c) ==
  /\ clients # NoCall
  /\ at' = [at EXCEPT ![c] = clients]
  /\ pc' = [pc EXCEPT ![c] = "reading"]
  /\ UNCHANGED clientVars

StartClient(c) ==
  /\ clients = NoCall
  /\ at' = [at EXCEPT ![c] = c]
  /\ pc' = [pc EXCEPT ![c] = "starting"]
  /\ proc' = [proc EXCEPT ![c] = "running"]
  /\ written' = [written EXCEPT ![c] = <<Message("initialize", 1, c)>>]
  /\ Awaiting(c, c)
  /\ UNCHANGED <<clients, said, answered, short>>

\* Mutated form: the client is put into the table before it is initialized.
GetClientStoringFirst(c) ==
  /\ alive /\ pc[c] = "new"
  /\ \/ FindClient(c)
     \/ /\ clients = NoCall /\ clients' = c
        /\ at' = [at EXCEPT ![c] = c]
        /\ pc' = [pc EXCEPT ![c] = "starting"]
        /\ proc' = [proc EXCEPT ![c] = "running"]
        /\ written' = [written EXCEPT ![c] = <<Message("initialize", 1, c)>>]
        /\ Awaiting(c, c)
        /\ UNCHANGED <<said, answered, short>>
  /\ UNCHANGED <<alive, notices>>

GetClient(c) ==
  /\ alive /\ pc[c] = "new"
  /\ FindClient(c) \/ StartClient(c)
  /\ UNCHANGED <<alive, notices>>

\* spawn() reports that the command is missing to nobody.
SpawnFails(c) == alive /\ pc[c] = "new" /\ clients = NoCall /\ Crash

\* primeDocument() has read the file; the tool sends its request at once.
Opened(c) == <<Message("didOpen", 0, c)>>

\* Mutated form: the number is counted up before it is used.
AskedAhead(c) == IF c \in Diagnosing THEN <<>>
                 ELSE <<Message("request", LastId(at[c]) + 2, c)>>

Asked(c) == IF c \in Diagnosing THEN <<>>
            ELSE <<Message("request", LastId(at[c]) + 1, c)>>

ReadFile(c) ==
  /\ alive /\ pc[c] = "reading"
  /\ LET k == at[c] IN
       /\ written' = IF proc[k] = "running"
                     THEN [written EXCEPT ![k] = @ \o Opened(c) \o Asked(c)]
                     ELSE written
       /\ IF c \in Diagnosing
          THEN pc' = [pc EXCEPT ![c] = "sleeping"] /\ UNCHANGED pending
          ELSE pc' = [pc EXCEPT ![c] = "asking"] /\ Awaiting(k, c)
  /\ UNCHANGED <<alive, clients, proc, said, answered, short, at, notices>>

\* The pipe to a server that has died breaks, and its error has no listener.
BreakPipe(c) == alive /\ pc[c] = "reading" /\ proc[at[c]] = "dead" /\ Crash

ReadFileFails(c) ==
  /\ alive /\ pc[c] = "reading"
  /\ pc' = [pc EXCEPT ![c] = "failed"]
  /\ UNCHANGED <<alive, clientVars, at, notices>>

\* getDiagnostics() waits, and answers with what the cache holds by then.
Diagnose(c) ==
  /\ alive /\ pc[c] = "sleeping"
  /\ pc' = [pc EXCEPT ![c] = "done"]
  /\ UNCHANGED <<alive, clientVars, at, notices>>

----------------------------------------------------------------------------
(* A client hears its server.                                              *)

\* The call is answered.  The caller of initialize() goes on: the client
\* says that it is initialized and goes into the table, in the place of
\* whichever client is there.
Resolve(k, id) ==
  LET c == pending[k][id] IN
  /\ pc' = [pc EXCEPT ![c] = IF id = 1 THEN "reading" ELSE "done"]
  /\ written' = IF id = 1 /\ proc[k] = "running"
                THEN [written EXCEPT ![k] = Append(@, Message("initialized", 0, c))]
                ELSE written
  /\ clients' = IF id = 1 THEN k ELSE clients

Reject(k, id) ==
  /\ pc' = [pc EXCEPT ![pending[k][id]] = "failed"]
  /\ UNCHANGED <<written, clients>>

Handle(k, id) ==
  /\ UNCHANGED short
  /\ IF id \in 1 .. LastId(k) /\ pending[k][id] # NoCall
     THEN /\ Resolve(k, id) \/ Reject(k, id)
          /\ pending' = [pending EXCEPT ![k][id] = NoCall]
     ELSE UNCHANGED <<pc, written, clients, pending>>

\* Content-Length counts bytes and the buffer holds UTF-16 units, so the
\* reader waits for more than there is of a body that is not ASCII.
FallShort(k) ==
  /\ short' = [short EXCEPT ![k] = TRUE]
  /\ UNCHANGED <<pc, written, clients, pending>>

\* Mutated form: a handled message empties the buffer.
HandleDataForgetting(k) ==
  /\ alive /\ said[k] # <<>> /\ ~short[k]
  /\ said' = [said EXCEPT ![k] = <<>>]
  /\ FallShort(k) \/ Handle(k, Head(said[k]))
  /\ UNCHANGED <<alive, proc, answered, at, notices>>

HandleData(k) ==
  /\ alive /\ said[k] # <<>> /\ ~short[k]
  /\ said' = [said EXCEPT ![k] = Tail(@)]
  /\ FallShort(k) \/ Handle(k, Head(said[k]))
  /\ UNCHANGED <<alive, proc, answered, at, notices>>

\* The next message makes up for the units, or for some of them: the parser
\* throws out of the listener when there are enough.
HandleDataShort(k) ==
  /\ alive /\ said[k] # <<>> /\ short[k]
  /\ \/ /\ said' = [said EXCEPT ![k] = Tail(@)]
        /\ UNCHANGED <<alive, clients, proc, pending, written, answered, short, pc, at, notices>>
     \/ Crash

----------------------------------------------------------------------------
(* External: the language servers.                                         *)

Requests(k) == {written[k][i].id : i \in DOMAIN written[k]} \ {0}

Answer(k, id) ==
  /\ alive /\ proc[k] = "running"
  /\ id \in Requests(k) \ answered[k]
  /\ answered' = [answered EXCEPT ![k] = @ \cup {id}]
  /\ said' = [said EXCEPT ![k] = Append(@, id)]
  /\ UNCHANGED <<alive, clients, proc, pending, written, short, pc, at, notices>>

\* A notification, or a request of the server's own.  Its number may be one
\* that the client waits for, which takes it for the answer.
Publish(k, id) ==
  /\ alive /\ proc[k] = "running" /\ notices < MaxNotices
  /\ notices' = notices + 1
  /\ said' = [said EXCEPT ![k] = Append(@, id)]
  /\ UNCHANGED <<alive, clients, proc, pending, written, answered, short, pc, at>>

Die(k) ==
  /\ proc[k] = "running"
  /\ proc' = [proc EXCEPT ![k] = "dead"]
  /\ UNCHANGED <<alive, clients, pending, written, said, answered, short, pc, at, notices>>

----------------------------------------------------------------------------
ServersNext ==
  \E c \in Calls :
    \/ GetClient(c) \/ SpawnFails(c)
    \/ ReadFile(c) \/ BreakPipe(c) \/ ReadFileFails(c) \/ Diagnose(c)
    \/ HandleData(c) \/ HandleDataShort(c)
    \/ Die(c) \/ \E id \in 1 .. LastId(c) : Answer(c, id)
    \/ \E id \in 0 .. LastId(c) : Publish(c, id)

ServersSpec == ServersInit /\ [][ServersNext]_serverVars

\* The event loop runs, and a server that lives answers what it is asked;
\* nobody has to call, to publish, to fail or to die.
FairServersSpec ==
  /\ ServersSpec
  /\ \A c \in Calls :
       /\ WF_serverVars(ReadFile(c) \/ Diagnose(c)) /\ WF_serverVars(HandleData(c))
       /\ WF_serverVars(\E id \in 1 .. LastId(c) : Answer(c, id))

----------------------------------------------------------------------------
(* Properties.                                                             *)

Stages == {"new", "starting", "reading", "asking", "sleeping", "done", "failed"}

ServersTypeOK ==
  /\ alive \in BOOLEAN /\ clients \in Calls \cup {NoCall}
  /\ proc \in [Calls -> {"none", "running", "dead"}]
  /\ \A k \in Calls :
       /\ \A i \in DOMAIN pending[k] : pending[k][i] \in Calls \cup {NoCall}
       /\ answered[k] \subseteq Requests(k) /\ Requests(k) \subseteq 1 .. LastId(k)
       /\ short[k] \in BOOLEAN
  /\ pc \in [Calls -> Stages]
  /\ \A c \in Calls : alive => (at[c] = NoCall <=> pc[c] = "new")
  /\ notices \in 0 .. MaxNotices

\* However calls that start servers and calls that find one interleave, a
\* server hears "initialize" first and then "initialized", and no request
\* for a file that it was not told of (lsp.ts 36-51, LSPClient.ts 120-141).
ProtocolOrder ==
  \A k \in Calls : \A i \in DOMAIN written[k] :
    LET m == written[k][i] IN
    /\ i = 1 <=> m.type = "initialize"
    /\ i = 2 <=> m.type = "initialized"
    /\ m.type = "request" =>
         \E j \in 1 .. i - 1 : written[k][j].type = "didOpen" /\ written[k][j].by = m.by

\* Each call ends, on a server that the table has forgotten too, in whatever
\* order the answers come.  The code has no other way out than these: the
\* server died, its reader has lost count, or the MCP process ended with an
\* exception (LSPClient.ts 220-276).  A call that was made stays made, so that
\* "again and again" is "in the end".
CallsEnd ==
  \A c \in Calls :
    []<>(\/ pc[c] \in {"new", "done", "failed"} \/ ~alive
         \/ at[c] # NoCall /\ (proc[at[c]] = "dead" \/ short[at[c]]))

============================================================================
