-------------------------- MODULE RemoteConnection --------------------------
(***************************************************************************)
(* VS Code's management connection between a browser window and the server *)
(* code-server starts: PersistentProtocol at both ends, the loop with which *)
(* the client reconnects (remoteAgentConnection.ts), the handshake the      *)
(* server holds on every new socket (remoteExtensionHostAgentServer.ts) and *)
(* the grace timers with which it waits for the client to come back         *)
(* (remoteExtensionManagement.ts).  Init is the state the first handshake   *)
(* leaves.                                                                  *)
(***************************************************************************)
EXTENDS PersistentProtocol

CONSTANTS
    MaxFaults,      \* bound: breaks of the network and waits that are too long
    MaxLosses       \* bound: messages lost on a link that stays open

VARIABLES
    phase,          \* the client: see Phases
    told,           \* told[e]: onClose of e's current socket has fired
    handshake,      \* handshake[s]: what the server waits for on socket s
    long, short,    \* _disconnectRunner1 and 2 are scheduled
    faults, losses

connectionVars == <<phase, told, handshake, long, short, faults, losses>>
vars == <<protocolVars, connectionVars>>

\* "up": no reconnection loop runs.  "sleep": the loop sleeps or makes a
\* socket.  "sign" and "answer": it waits for a control message.  "failed":
\* _gotoPermanentFailure.  "quit": the window has said goodbye.
Phases == {"up", "sleep", "sign", "answer", "failed", "quit"}

HandshakeStates == {"none", "auth", "connectionType", "rejected"}

ASSUME BoundsAssumption == MaxFaults \in Nat /\ MaxLosses \in Nat
ASSUME ControlAssumption == Control = {"auth", "sign", "connectionType", "ok", "error"}

Init ==
    /\ ProtocolInit
    /\ phase = "up"
    /\ told = [e \in Ends |-> FALSE]
    /\ handshake = [s \in Sockets |-> "none"]
    /\ long = FALSE
    /\ short = FALSE
    /\ faults = 0
    /\ losses = 0

-----------------------------------------------------------------------------
\* The protocol at work: nothing of the connection changes.
Protocol(e) ==
    /\ \/ Send(e) \/ ReceiveNext(e) \/ ReceiveAgain(e) \/ ReceiveGap(e) \/ ReceiveControl(e)
       \/ ReceiveAck(e) \/ ReceiveReplayRequest(e)
       \/ AckTimerFires(e) \/ SendKeepAlive(e) \/ ReplayAllowed(e)
    /\ UNCHANGED connectionVars

\* The check finds everything acknowledged, or a socket being accepted.
UnackTimerEnds(e) ==
    /\ UnackTimerFires(e)
    /\ Len(sent[e]) <= outAck[e] \/ reconnecting[e]
    /\ UNCHANGED connectionVars

\* A wait is over.  While something can still come on s it takes a slow network
\* (bound: MaxFaults); when nothing can, it always comes to that.
Overdue(s, e) ==
    IF link[s] = "open" \/ wire[s][e] # <<>>
    THEN faults < MaxFaults /\ faults' = faults + 1
    ELSE UNCHANGED faults

\* _onSocketTimeout: the client begins to reconnect, unless it already does.
\* The server has no listener for it.
SocketTimeout(e) ==
    /\ UnackTimerFires(e)
    /\ Len(sent[e]) > outAck[e]
    /\ ~reconnecting[e]
    /\ Overdue(socket[e], e)
    /\ phase' = IF e = "c" /\ phase = "up" THEN "sleep" ELSE phase
    /\ UNCHANGED <<told, handshake, long, short, losses>>

\* A server that does not wait for its client.
SocketClosedUntimed(e) ==
    /\ ~gone[e]
    /\ ~told[e]
    /\ link[socket[e]] = "closed"
    /\ Incoming(e) = <<>>
    /\ told' = [told EXCEPT ![e] = TRUE]
    /\ phase' = IF e = "c" /\ phase = "up" THEN "sleep" ELSE phase
    /\ UNCHANGED <<protocolVars, handshake, long, short, faults, losses>>

\* onClose fires after the last of the data: the client begins to reconnect
\* unless it already does, the server begins to wait.
SocketClosed(e) ==
    /\ ~gone[e]
    /\ ~told[e]
    /\ link[socket[e]] = "closed"
    /\ Incoming(e) = <<>>
    /\ told' = [told EXCEPT ![e] = TRUE]
    /\ IF e = "c"
       THEN /\ phase' = IF phase = "up" THEN "sleep" ELSE phase
            /\ UNCHANGED long
       ELSE long' = TRUE /\ UNCHANGED phase
    /\ UNCHANGED <<protocolVars, handshake, short, faults, losses>>

-----------------------------------------------------------------------------
\* The client's loop.

\* A control message has come and the loop listens for it: the listener runs in
\* the turn in which the message is read, before anything else at the client.
ListenerCalled == phase \in {"sign", "answer"} /\ control["c"] # <<>>

\* No end holds the socket and the server holds no handshake on it.
Forgotten(s) == s \notin {socket[e] : e \in Ends} /\ handshake[s] \in {"none", "rejected"}

\* One round of the loop: a socket is made, put under the protocol and the
\* handshake begins.  (A socket that cannot be made leaves the loop where it is.)
Attempt ==
    /\ phase = "sleep"
    /\ \E s \in Sockets : Forgotten(s)
    /\ LET s == CHOOSE t \in Sockets : Forgotten(t)      \* they are all alike
       IN /\ BeginAcceptReconnection("c", s, <<ControlMessage("auth")>>)
          /\ handshake' = [handshake EXCEPT ![s] = "auth"]
    /\ phase' = "sign"
    /\ told' = [told EXCEPT !["c"] = FALSE]
    /\ UNCHANGED <<long, short, faults, losses>>

\* _gotoPermanentFailure, safeDisposeProtocolAndSocket.
GiveUp ==
    /\ phase' = "failed"
    /\ Dispose("c", <<>>)
    /\ UNCHANGED <<told, handshake, long, short, faults, losses>>

\* readOneControlMessage: the server's sign request is answered.
Signed ==
    /\ ListenerCalled
    /\ phase = "sign"
    /\ Head(control["c"]) = "sign"
    /\ control' = [control EXCEPT !["c"] = Tail(@)]
    /\ Write("c", <<ControlMessage("connectionType")>>)
    /\ phase' = "answer"
    /\ UNCHANGED <<sent, delivered, unack, outAck, inId, inAck, ackTimer, unackTimer,
                   reconnecting, asked, socket, gone>>
    /\ UNCHANGED <<told, handshake, long, short, faults, losses>>

\* Any message but an error ends the handshake.
Reconnected ==
    /\ ListenerCalled
    /\ phase = "answer"
    /\ Head(control["c"]) # "error"
    /\ EndAcceptReconnection("c")
    /\ phase' = "up"
    /\ UNCHANGED <<told, handshake, long, short, faults, losses>>

\* An error message, or one that is not a sign request where that is waited
\* for, is permanent.
Refused ==
    /\ ListenerCalled
    /\ IF phase = "sign" THEN Head(control["c"]) # "sign" ELSE Head(control["c"]) = "error"
    /\ GiveUp

\* Ten seconds without a sign request or thirty without an answer: ETIMEDOUT,
\* and another round.
AttemptTimesOut ==
    /\ phase \in {"sign", "answer"}
    /\ control["c"] = <<>>
    /\ Overdue(socket["c"], "c")
    /\ phase' = "sleep"
    /\ UNCHANGED <<protocolVars, told, handshake, long, short, losses>>

\* The grace time of the loop is over when a round has failed.
GraceTimeOver ==
    /\ phase = "sleep"
    /\ GiveUp

\* The window closes: endConnection says Disconnect, and the page is gone.
Quit ==
    /\ ~ListenerCalled
    /\ phase' = "quit"
    /\ Dispose("c", <<Bare("Disconnect", 0)>>)
    /\ UNCHANGED <<told, handshake, long, short, faults, losses>>

-----------------------------------------------------------------------------
\* The server.

\* _cleanResources
CleanResources ==
    /\ long' = FALSE
    /\ short' = FALSE
    /\ UNCHANGED <<phase, told, handshake, faults, losses>>

Disconnected == ReceiveDisconnect("s") /\ CleanResources

GraceExpires ==
    /\ long \/ short
    /\ Dispose("s", <<Bare("Disconnect", 0)>>)
    /\ CleanResources

\* shortenReconnectionGraceTimeIfNecessary
Shortened == ~gone["s"] /\ (short \/ long)

\* Another window's handshake gets as far as its connection type.
OtherClientConnects ==
    /\ Shortened /\ ~short
    /\ short' = TRUE
    /\ UNCHANGED <<protocolVars, phase, told, handshake, long, faults, losses>>

\* What the server of a handshake reads next on s, and the rest of it.  Acks
\* and keepalives say nothing to the protocol of a handshake.
Request(s) == Head(wire[s]["s"])
Answered(s, answer) ==
    Written([wire EXCEPT ![s]["s"] = Tail(@)], s, "s", answer)

Stranger == UNCHANGED <<sent, delivered, unack, outAck, inId, inAck, ackTimer, unackTimer,
                        reconnecting, asked, control, socket, gone, link>>

Authenticate(s) ==
    /\ handshake[s] = "auth"
    /\ wire[s]["s"] # <<>>
    /\ Request(s).type = "Control"
    /\ Stranger
    /\ wire' = Answered(s, <<ControlMessage("sign")>>)
    /\ handshake' = [handshake EXCEPT ![s] = "connectionType"]
    /\ UNCHANGED <<phase, told, long, short, faults, losses>>

HandshakeIgnores(s) ==
    /\ handshake[s] \in {"auth", "connectionType"}
    /\ wire[s]["s"] # <<>>
    /\ Request(s).type # "Control"
    /\ Stranger
    /\ wire' = Answered(s, <<>>)
    /\ UNCHANGED connectionVars

\* _handleConnectionType, Management: the connection is known and takes the
\* socket over, in the turn in which ok is written.
Reconnect(s) ==
    /\ handshake[s] = "connectionType"
    /\ wire[s]["s"] # <<>>
    /\ Request(s).type = "Control"
    /\ ~gone["s"]
    /\ AcceptReconnection("s", s, <<ControlMessage("ok")>>)
    /\ handshake' = [handshake EXCEPT ![s] = "none"]
    /\ told' = [told EXCEPT !["s"] = FALSE]
    /\ long' = FALSE
    /\ short' = FALSE
    /\ UNCHANGED <<phase, faults, losses>>

\* A server that takes a reconnection it does not wait for yet for a duplicate.
RejectDuplicate(s) ==
    /\ handshake[s] = "connectionType"
    /\ wire[s]["s"] # <<>>
    /\ Request(s).type = "Control"
    /\ gone["s"] \/ ~told["s"]
    /\ link' = [link EXCEPT ![s] = IF @ = "open" THEN "closed" ELSE @]
    /\ wire' = [wire EXCEPT ![s] = [d \in Ends |->
                  IF d = "s" THEN <<>>
                  ELSE IF link[s] = "open" THEN Append(@[d], ControlMessage("error")) ELSE @[d]]]
    /\ handshake' = [handshake EXCEPT ![s] = "rejected"]
    /\ UNCHANGED <<sent, delivered, unack, outAck, inId, inAck, ackTimer, unackTimer,
                   reconnecting, asked, control, socket, gone>>
    /\ UNCHANGED <<phase, told, long, short, faults, losses>>

\* The connection is not known any more: an error, and the socket is closed.
Reject(s) ==
    /\ handshake[s] = "connectionType"
    /\ wire[s]["s"] # <<>>
    /\ Request(s).type = "Control"
    /\ gone["s"]
    /\ link' = [link EXCEPT ![s] = IF @ = "open" THEN "closed" ELSE @]
    /\ wire' = [wire EXCEPT ![s] = [d \in Ends |->
                  IF d = "s" THEN <<>>
                  ELSE IF link[s] = "open" THEN Append(@[d], ControlMessage("error")) ELSE @[d]]]
    /\ handshake' = [handshake EXCEPT ![s] = "rejected"]
    /\ UNCHANGED <<sent, delivered, unack, outAck, inId, inAck, ackTimer, unackTimer,
                   reconnecting, asked, control, socket, gone>>
    /\ UNCHANGED <<phase, told, long, short, faults, losses>>

\* The socket of a handshake closes: nothing is left of it.
HandshakeEnds(s) ==
    /\ handshake[s] \in {"auth", "connectionType"}
    /\ link[s] = "closed"
    /\ wire[s]["s"] = <<>>
    /\ handshake' = [handshake EXCEPT ![s] = "none"]
    /\ UNCHANGED <<protocolVars, phase, told, long, short, faults, losses>>

-----------------------------------------------------------------------------
\* The network.
Network == UNCHANGED <<sent, delivered, unack, outAck, inId, inAck, ackTimer, unackTimer,
                       reconnecting, asked, control, socket, gone,
                       phase, told, handshake, long, short>>

\* A connection breaks, and what has not arrived is lost.
Break(s) ==
    /\ faults < MaxFaults
    /\ link[s] = "open"
    /\ faults' = faults + 1
    /\ \E state \in {"closed", "dead"} :
          /\ link' = [link EXCEPT ![s] = state]
          /\ \E n \in 0..Len(wire[s]["c"]), k \in 0..Len(wire[s]["s"]) :
                wire' = [wire EXCEPT ![s] =
                           [e \in Ends |-> SubSeq(@[e], 1, IF e = "c" THEN n ELSE k)]]
    /\ UNCHANGED losses
    /\ Network

\* What is written to a dead connection is never confirmed; the system gives
\* up on it and closes the socket.
TcpGivesUp(s) ==
    /\ link[s] = "dead"
    /\ link' = [link EXCEPT ![s] = "closed"]
    /\ UNCHANGED <<wire, faults, losses>>
    /\ Network

\* The loss the replay request is there for ("in case we missed some messages").
LoseRegular(s, e) ==
    /\ losses < MaxLosses
    /\ wire[s][e] # <<>>
    /\ Head(wire[s][e]).type = "Regular"
    /\ wire' = [wire EXCEPT ![s][e] = Tail(@)]
    /\ losses' = losses + 1
    /\ UNCHANGED <<link, faults>>
    /\ Network

-----------------------------------------------------------------------------
ClientNext ==
    Attempt \/ Signed \/ Reconnected \/ Refused \/ AttemptTimesOut \/ GraceTimeOver \/ Quit

HandshakeNext(s) ==
    Authenticate(s) \/ HandshakeIgnores(s) \/ Reconnect(s) \/ Reject(s) \/ HandshakeEnds(s)

ServerNext == Disconnected \/ GraceExpires \/ OtherClientConnects

\* The ends whose event loop is free for another event.
Idle == {e \in Ends : e = "c" => ~ListenerCalled}

Next ==
    \/ \E e \in Idle : Protocol(e) \/ UnackTimerEnds(e) \/ SocketTimeout(e) \/ SocketClosed(e)
    \/ ClientNext
    \/ ServerNext
    \/ \E s \in Sockets : HandshakeNext(s) \/ Break(s) \/ TcpGivesUp(s)
    \/ \E s \in Sockets, e \in Ends : LoseRegular(s, e)

Spec == Init /\ [][Next]_vars

Receive(e) == ReceiveNext(e) \/ ReceiveAgain(e) \/ ReceiveGap(e) \/ ReceiveControl(e)
              \/ ReceiveAck(e) \/ ReceiveReplayRequest(e)

Events(e) ==
    /\ e \in Idle
    /\ (Receive(e) /\ UNCHANGED connectionVars) \/ SocketClosed(e)

\* Each event loop goes on handling events and due timers, and the system
\* gives up on dead sockets.  Nothing makes a user send, a window close, or
\* the network break, and no event has precedence over another.
ClientLoop == Events("c") \/ Attempt \/ Signed \/ Reconnected \/ Refused
              \/ AttemptTimesOut

ServerLoop == Events("s") \/ Disconnected \/ \E s \in Sockets : HandshakeNext(s)

Fairness ==
    /\ WF_vars(ClientLoop)
    /\ WF_vars(ServerLoop)
    /\ WF_vars(GraceExpires)
    /\ WF_vars(\E s \in Sockets : TcpGivesUp(s))

FairSpec == Spec /\ Fairness

-----------------------------------------------------------------------------
\* The types of the connection.
TypeOK ==
    /\ ProtocolTypeOK
    /\ phase \in Phases
    /\ told \in [Ends -> BOOLEAN]
    /\ handshake \in [Sockets -> HandshakeStates]
    /\ long \in BOOLEAN /\ short \in BOOLEAN
    /\ faults \in 0..MaxFaults /\ losses \in 0..MaxLosses

\* No acknowledgement is owed, and none is waited for, without a timer: what
\* one end has received and not acknowledged will be, and a client that is up
\* and waits for an acknowledgement finds out when its socket is dead.  A
\* reconnection stops and restarts these timers.
AcksAreTimed ==
    /\ AcksAreDue
    /\ phase = "up" /\ Len(sent["c"]) > outAck["c"] => unackTimer["c"]

\* A client that takes itself for connected is: the server reads the very
\* socket the client writes, or the client is about to be told.  The answers to
\* an earlier attempt, which may come after it timed out, never count for the
\* next one; nor does the server take over a socket the client has left for
\* longer than it takes the client to notice.
ClientIsHeard ==
    phase = "up" => socket["c"] = socket["s"] \/ link[socket["c"]] # "open"

\* The server gives up on a client only while it waits for it: a grace timer
\* runs if and only if the socket was seen to close, and neither survives a
\* reconnection.
LostIsTimed ==
    ~gone["s"] => /\ long <=> told["s"]
                  /\ short => long
                  /\ told["s"] => link[socket["s"]] = "closed"

\* Whoever waits, for an acknowledgement or for a client to come back, has a
\* timer that ends the wait, through every loss and reconnection.
OwedIsTimed == AcksAreTimed /\ LostIsTimed

\* A client is refused for good only by a server that has disposed of the
\* connection, not because answers got mixed up.
RefusedOnlyWhenGone ==
    [][(phase \in {"sign", "answer"} /\ phase' = "failed") => gone["s"] ]_vars

Undelivered == \E e \in Ends : Len(sent[e]) > Len(delivered[Other(e)])

\* Whatever is sent arrives in the end, over as many sockets as it takes, unless
\* one end has gone.  (A message lost on a link that stays up is missed only when
\* a later one arrives, so such a loss is excepted.)
EverythingArrives == Undelivered ~> (~Undelivered \/ gone["c"] \/ gone["s"] \/ losses > 0)

\* Neither end outlives the other: the server disposes of the connection of a
\* window that has closed or given up, whatever reached it of that, and a window
\* whose connection the server has disposed of finds out.
EndTogether == gone["c"] \/ gone["s"] ~> gone["c"] /\ gone["s"]
=============================================================================
