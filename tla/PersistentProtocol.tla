------------------------- MODULE PersistentProtocol -------------------------
(***************************************************************************)
(* The message layer of VS Code's remote connection (PersistentProtocol in *)
(* vs/base/parts/ipc/common/ipc.net.ts): numbered messages, acknowledge-   *)
(* ments carried by every message, a queue of what is not acknowledged,    *)
(* and the two calls that put another socket under a living protocol.      *)
(* Both ends run the same code.  The sockets are the wires between them:   *)
(* what is on a wire may be lost, repeated or overtaken, and a stranger may *)
(* put control messages on it, but nobody forges a regular message.        *)
(***************************************************************************)
EXTENDS Naturals, Sequences

CONSTANTS
    Data,       \* what the users of the connection send
    Control,    \* the payloads of control messages (the handshake)
    None,       \* the empty payload
    Script,     \* Script[e]: what end e is going to be asked to send (bounds send())
    Sockets

VARIABLES
    sent,           \* sent[e]: every payload given to send(), _outgoingMsgId long
    delivered,      \* delivered[e]: every payload fired by _onMessage
    unack,          \* _outgoingUnackMsg
    outAck,         \* _outgoingAckId
    inId,           \* _incomingMsgId
    inAck,          \* _incomingAckId
    ackTimer,       \* _incomingAckTimeout is set
    unackTimer,     \* _outgoingAckTimeout is set
    reconnecting,   \* _isReconnecting
    asked,          \* a replay was requested in the last ten seconds
    control,        \* _onControlMessage: fired and not yet taken by a listener
    socket,         \* _socket
    gone,           \* the protocol is disposed
    link,           \* link[s]: the state of the socket's connection
    wire            \* wire[s][e]: what is on its way to end e on socket s

protocolVars == <<sent, delivered, unack, outAck, inId, inAck, ackTimer, unackTimer,
                  reconnecting, asked, control, socket, gone, link, wire>>

Channel == INSTANCE ReliableChannel
Ends == Channel!Ends
Other(e) == Channel!Other(e)

ASSUME ScriptAssumption == Script \in [Ends -> Seq(Data)]
ASSUME SocketsAssumption == Sockets # {}

\* ProtocolMessage: id and ack are 0 where the code passes 0.
Regular(id, ack, d) == [type |-> "Regular", id |-> id, ack |-> ack, data |-> d]
Bare(type, ack) == [type |-> type, id |-> 0, ack |-> ack, data |-> None]
ControlMessage(d) == [type |-> "Control", id |-> 0, ack |-> 0, data |-> d]

MessageTypes == {"Regular", "Control", "Ack", "KeepAlive", "ReplayRequest", "Disconnect"}

Message == [type : MessageTypes, id : Nat, ack : Nat, data : Data \cup Control \cup {None}]

\* "free": not in use; "open"; "closed": both sides will be told; "dead": the
\* network swallows what is written and tells nobody.
LinkStates == {"free", "open", "closed", "dead"}

First == CHOOSE s \in Sockets : TRUE        \* the socket of the first handshake

ProtocolInit ==
    /\ sent = [e \in Ends |-> <<>>]
    /\ delivered = [e \in Ends |-> <<>>]
    /\ unack = [e \in Ends |-> <<>>]
    /\ outAck = [e \in Ends |-> 0]
    /\ inId = [e \in Ends |-> 0]
    /\ inAck = [e \in Ends |-> 0]
    /\ ackTimer = [e \in Ends |-> FALSE]
    /\ unackTimer = [e \in Ends |-> FALSE]
    /\ reconnecting = [e \in Ends |-> FALSE]
    /\ asked = [e \in Ends |-> FALSE]
    /\ control = [e \in Ends |-> <<>>]
    /\ socket = [e \in Ends |-> First]
    /\ link = [s \in Sockets |-> IF s = First THEN "open" ELSE "free"]
    /\ gone = [e \in Ends |-> FALSE]
    /\ wire = [s \in Sockets |-> [e \in Ends |-> <<>>]]

-----------------------------------------------------------------------------
Incoming(e) == wire[socket[e]][e]

\* ProtocolWriter.write: a socket that is not open loses what is written to it.
Written(w, s, e, messages) ==
    IF link'[s] = "open" THEN [w EXCEPT ![s][Other(e)] = @ \o messages] ELSE w

Write(e, messages) ==
    /\ UNCHANGED link
    /\ wire' = Written(wire, socket[e], e, messages)

\* _recvAckCheck: unless a socket is being accepted, a timer runs while
\* something that was sent is not acknowledged.
RecvAckCheck(e, outgoing, accepting) ==
    unackTimer' = [unackTimer EXCEPT ![e] = @ \/ (outgoing > outAck[e] /\ ~accepting)]

\* A loop that pops one message too many.
PoppedTooMany(queue, ack) ==
    CHOOSE k \in 0..Len(queue) :
        /\ \A i \in 1..k : queue[i].id <= ack + 1
        /\ k < Len(queue) => queue[k + 1].id > ack + 1

\* The loop that pops the queue while the head is confirmed: how many it pops.
Popped(queue, ack) ==
    CHOOSE k \in 0..Len(queue) :
        /\ \A i \in 1..k : queue[i].id <= ack
        /\ k < Len(queue) => queue[k + 1].id > ack

\* The first part of _receiveMessage.
Confirm(e, ack) ==
    IF ack > outAck[e]
    THEN /\ outAck' = [outAck EXCEPT ![e] = ack]
         /\ unack' = [unack EXCEPT ![e] = SubSeq(@, Popped(@, ack) + 1, Len(@))]
    ELSE UNCHANGED <<outAck, unack>>

-----------------------------------------------------------------------------
\* send: the acknowledgement rides on the message; while a socket is being
\* accepted the message only waits in the queue.
Send(e) ==
    LET id == Len(sent[e]) + 1
        message == Regular(id, inId[e], Script[e][id])
    IN /\ ~gone[e]
       /\ id <= Len(Script[e])
       /\ sent' = [sent EXCEPT ![e] = Append(@, Script[e][id])]
       /\ inAck' = [inAck EXCEPT ![e] = inId[e]]
       /\ unack' = [unack EXCEPT ![e] = Append(@, message)]
       /\ IF reconnecting[e]
          THEN UNCHANGED <<link, wire, unackTimer>>
          ELSE Write(e, <<message>>) /\ RecvAckCheck(e, id, FALSE)
       /\ UNCHANGED <<delivered, outAck, inId, ackTimer, reconnecting, asked, control,
                      socket, gone>>

\* A message of one of these types is the next that the reader of the current
\* socket hands to _receiveMessage.
Arrives(e, types) ==
    /\ ~gone[e]
    /\ Incoming(e) # <<>>
    /\ Head(Incoming(e)).type \in types

Arrived(e) == Head(Incoming(e))

Taken(e) == [wire EXCEPT ![socket[e]][e] = Tail(@)]

\* A receiver that does not notice a gap.
ReceiveAnyNew(e) ==
    /\ Arrives(e, {"Regular"})
    /\ Arrived(e).id > inId[e]
    /\ Confirm(e, Arrived(e).ack)
    /\ inId' = [inId EXCEPT ![e] = Arrived(e).id]
    /\ delivered' = [delivered EXCEPT ![e] = Append(@, Arrived(e).data)]
    /\ ackTimer' = [ackTimer EXCEPT ![e] = TRUE]
    /\ wire' = Taken(e)
    /\ UNCHANGED <<sent, inAck, unackTimer, reconnecting, asked, control, socket, gone, link>>

\* Regular, the next one: it is handed on and its acknowledgement is due.
ReceiveNext(e) ==
    /\ Arrives(e, {"Regular"})
    /\ Arrived(e).id = inId[e] + 1
    /\ Confirm(e, Arrived(e).ack)
    /\ inId' = [inId EXCEPT ![e] = Arrived(e).id]
    /\ delivered' = [delivered EXCEPT ![e] = Append(@, Arrived(e).data)]
    /\ ackTimer' = [ackTimer EXCEPT ![e] = TRUE]
    /\ wire' = Taken(e)
    /\ UNCHANGED <<sent, inAck, unackTimer, reconnecting, asked, control, socket, gone, link>>

\* Regular, one that was received before.
ReceiveAgain(e) ==
    /\ Arrives(e, {"Regular"})
    /\ Arrived(e).id <= inId[e]
    /\ Confirm(e, Arrived(e).ack)
    /\ wire' = Taken(e)
    /\ UNCHANGED <<sent, delivered, inId, inAck, ackTimer, unackTimer, reconnecting, asked,
                   control, socket, gone, link>>

\* Regular, with a gap before it: ask for a replay, at most every ten seconds.
ReceiveGap(e) ==
    /\ Arrives(e, {"Regular"})
    /\ Arrived(e).id > inId[e] + 1
    /\ Confirm(e, Arrived(e).ack)
    /\ UNCHANGED link
    /\ wire' = IF asked[e] THEN Taken(e)
               ELSE Written(Taken(e), socket[e], e, <<Bare("ReplayRequest", 0)>>)
    /\ asked' = [asked EXCEPT ![e] = TRUE]
    /\ UNCHANGED <<sent, delivered, inId, inAck, ackTimer, unackTimer, reconnecting, control,
                   socket, gone>>

ReceiveControl(e) ==
    /\ Arrives(e, {"Control"})
    /\ control' = [control EXCEPT ![e] = Append(@, Arrived(e).data)]
    /\ wire' = Taken(e)
    /\ UNCHANGED <<sent, delivered, unack, outAck, inId, inAck, ackTimer, unackTimer,
                   reconnecting, asked, socket, gone, link>>

\* Ack and KeepAlive: the acknowledgement was all there was to it.
ReceiveAck(e) ==
    /\ Arrives(e, {"Ack", "KeepAlive"})
    /\ Confirm(e, Arrived(e).ack)
    /\ wire' = Taken(e)
    /\ UNCHANGED <<sent, delivered, inId, inAck, ackTimer, unackTimer, reconnecting, asked,
                   control, socket, gone, link>>

\* ReplayRequest: everything in the queue is written again.
ReceiveReplayRequest(e) ==
    /\ Arrives(e, {"ReplayRequest"})
    /\ UNCHANGED link
    /\ wire' = Written(Taken(e), socket[e], e, unack[e])
    /\ RecvAckCheck(e, Len(sent[e]), reconnecting[e])
    /\ UNCHANGED <<sent, delivered, unack, outAck, inId, inAck, ackTimer, reconnecting,
                   asked, control, socket, gone>>

\* dispose, with the socket under it: the timers stop, the writer is flushed,
\* and nothing is read any more.  What the other end has yet to read stays.
Dispose(e, farewell) ==
    /\ ~gone[e]
    /\ gone' = [gone EXCEPT ![e] = TRUE]
    /\ ackTimer' = [ackTimer EXCEPT ![e] = FALSE]
    /\ unackTimer' = [unackTimer EXCEPT ![e] = FALSE]
    /\ link' = [link EXCEPT ![socket[e]] = IF @ = "open" THEN "closed" ELSE @]
    /\ wire' = [wire EXCEPT ![socket[e]] =
                  [d \in Ends |-> IF d = e THEN <<>>
                                  ELSE IF link[socket[e]] = "open" THEN @[d] \o farewell
                                  ELSE @[d]]]
    /\ UNCHANGED <<sent, delivered, unack, outAck, inId, inAck, reconnecting, asked,
                   control, socket>>

\* Disconnect: both users of the class dispose of the protocol on
\* onDidDispose, and say so on the way.
ReceiveDisconnect(e) ==
    /\ Arrives(e, {"Disconnect"})
    /\ Dispose(e, <<Bare("Disconnect", 0)>>)

\* _incomingAckTimeout: two seconds after a message, acknowledge it unless a
\* message of our own has done so.
AckTimerFires(e) ==
    /\ ackTimer[e]
    /\ ackTimer' = [ackTimer EXCEPT ![e] = FALSE]
    /\ IF inId[e] <= inAck[e]
       THEN UNCHANGED <<inAck, link, wire>>
       ELSE /\ inAck' = [inAck EXCEPT ![e] = inId[e]]
            /\ Write(e, <<Bare("Ack", inId[e])>>)
    /\ UNCHANGED <<sent, delivered, unack, outAck, inId, unackTimer, reconnecting, asked,
                   control, socket, gone>>

\* _sendKeepAlive.  Bound: one that acknowledges nothing new tells the other
\* end nothing and is left out.
SendKeepAlive(e) ==
    /\ ~gone[e]
    /\ inAck[e] < inId[e]
    /\ inAck' = [inAck EXCEPT ![e] = inId[e]]
    /\ Write(e, <<Bare("KeepAlive", inId[e])>>)
    /\ UNCHANGED <<sent, delivered, unack, outAck, inId, ackTimer, unackTimer, reconnecting,
                   asked, control, socket, gone>>

\* _outgoingAckTimeout fires and is not set again: everything is acknowledged,
\* a socket is being accepted, or the wait has been too long and
\* _onSocketTimeout fires.  (A check that waits on sets it again: no change.)
UnackTimerFires(e) ==
    /\ unackTimer[e]
    /\ unackTimer' = [unackTimer EXCEPT ![e] = FALSE]
    /\ UNCHANGED <<sent, delivered, unack, outAck, inId, inAck, ackTimer, reconnecting,
                   asked, control, socket, gone, link, wire>>

\* Ten seconds have passed since the last replay request.
ReplayAllowed(e) ==
    /\ asked[e]
    /\ asked' = [asked EXCEPT ![e] = FALSE]
    /\ UNCHANGED <<sent, delivered, unack, outAck, inId, inAck, ackTimer, unackTimer,
                   reconnecting, control, socket, gone, link, wire>>

-----------------------------------------------------------------------------
\* The old socket is disposed of and e reads and writes the new one.
Replaced(e, s) ==
    [t \in Sockets |-> IF t = s THEN "open"
                       ELSE IF t = socket[e] /\ link[t] = "open" THEN "closed" ELSE link[t]]

Unread(e) == [wire EXCEPT ![socket[e]][e] = <<>>]

\* One that keeps the control messages of the old socket.
BeginWithoutFlush(e, s, opening) ==
    /\ ~gone[e]
    /\ s # socket[e]
    /\ reconnecting' = [reconnecting EXCEPT ![e] = TRUE]
    /\ asked' = [asked EXCEPT ![e] = FALSE]
    /\ socket' = [socket EXCEPT ![e] = s]
    /\ link' = Replaced(e, s)
    /\ wire' = [Unread(e) EXCEPT ![s] = [d \in Ends |-> IF d = e THEN <<>> ELSE opening]]
    /\ UNCHANGED <<sent, delivered, unack, outAck, inId, inAck, ackTimer, unackTimer, control,
                   gone>>

\* beginAcceptReconnection: put s, a socket just opened, under the protocol
\* (opening, the first message of the handshake, goes out on it).
BeginAcceptReconnection(e, s, opening) ==
    /\ ~gone[e]
    /\ s # socket[e]
    /\ reconnecting' = [reconnecting EXCEPT ![e] = TRUE]
    /\ control' = [control EXCEPT ![e] = <<>>]
    /\ asked' = [asked EXCEPT ![e] = FALSE]
    /\ socket' = [socket EXCEPT ![e] = s]
    /\ link' = Replaced(e, s)
    /\ wire' = [Unread(e) EXCEPT ![s] = [d \in Ends |-> IF d = e THEN <<>> ELSE opening]]
    /\ UNCHANGED <<sent, delivered, unack, outAck, inId, inAck, ackTimer, unackTimer, gone>>

\* An acknowledgement that is one too low, and one that comes alone.
ResumptionOneLow(e) == <<Bare("Ack", inId[e] - 1)>> \o unack[e]
ResumptionWithoutQueue(e) == <<Bare("Ack", inId[e])>>

\* endAcceptReconnection: say again what was received, send again what was not
\* acknowledged.
Resumption(e) == <<Bare("Ack", inId[e])>> \o unack[e]

\* One that forgets to set the timer of what it sends again.
EndWithoutCheck(e) ==
    /\ ~gone[e]
    /\ control[e] # <<>>
    /\ reconnecting' = [reconnecting EXCEPT ![e] = FALSE]
    /\ inAck' = [inAck EXCEPT ![e] = inId[e]]
    /\ Write(e, Resumption(e))
    /\ control' = [control EXCEPT ![e] = Tail(@)]
    /\ UNCHANGED <<sent, delivered, unack, outAck, inId, ackTimer, unackTimer, asked, socket,
                   gone>>

\* (In the turn in which the control message that ends the handshake is read.)
EndAcceptReconnection(e) ==
    /\ ~gone[e]
    /\ control[e] # <<>>
    /\ reconnecting' = [reconnecting EXCEPT ![e] = FALSE]
    /\ inAck' = [inAck EXCEPT ![e] = inId[e]]
    /\ Write(e, Resumption(e))
    /\ RecvAckCheck(e, Len(sent[e]), FALSE)
    /\ control' = [control EXCEPT ![e] = Tail(@)]
    /\ UNCHANGED <<sent, delivered, unack, outAck, inId, ackTimer, asked, socket, gone>>

\* The server begins and ends in one turn, on a socket s that a stranger (the
\* protocol of the handshake) has read so far and has written last words to.
AcceptReconnection(e, s, lastWords) ==
    /\ ~gone[e]
    /\ s # socket[e]
    /\ wire[s][e] # <<>>
    /\ reconnecting' = [reconnecting EXCEPT ![e] = FALSE]
    /\ inAck' = [inAck EXCEPT ![e] = inId[e]]
    /\ control' = [control EXCEPT ![e] = <<>>]
    /\ asked' = [asked EXCEPT ![e] = FALSE]
    /\ socket' = [socket EXCEPT ![e] = s]
    /\ link' = [link EXCEPT ![socket[e]] = IF @ = "open" THEN "closed" ELSE @]
    /\ wire' = Written([Unread(e) EXCEPT ![s][e] = Tail(@)], s, e, lastWords \o Resumption(e))
    /\ RecvAckCheck(e, Len(sent[e]), FALSE)
    /\ UNCHANGED <<sent, delivered, unack, outAck, inId, ackTimer, gone>>

-----------------------------------------------------------------------------
\* What strangers and the network do: a listener takes control messages, links
\* change, and a wire comes to hold any of what it held, and control messages.
OnWire(s, e) == {wire[s][e][i] : i \in 1..Len(wire[s][e])}

Environment ==
    /\ \A s \in Sockets, e \in Ends :
          \A i \in 1..Len(wire'[s][e]) :
             wire'[s][e][i] \in OnWire(s, e) \cup {ControlMessage(d) : d \in Control}
    /\ link' \in [Sockets -> LinkStates]
    /\ control' \in [Ends -> Seq(Control)]
    /\ wire' \in [Sockets -> [Ends -> Seq(Message)]]
    /\ UNCHANGED <<sent, delivered, unack, outAck, inId, inAck, ackTimer, unackTimer,
                   reconnecting, asked, socket, gone>>

\* Everything that can happen to the message layer.
ProtocolNext ==
    \/ \E e \in Ends :
          \/ Send(e) \/ ReceiveNext(e) \/ ReceiveAgain(e) \/ ReceiveGap(e) \/ ReceiveControl(e)
          \/ ReceiveAck(e) \/ ReceiveReplayRequest(e) \/ ReceiveDisconnect(e)
          \/ AckTimerFires(e) \/ SendKeepAlive(e) \/ UnackTimerFires(e) \/ ReplayAllowed(e)
          \/ EndAcceptReconnection(e)
          \/ Dispose(e, <<>>) \/ Dispose(e, <<Bare("Disconnect", 0)>>)
    \/ \E e \in Ends, s \in Sockets, d \in Control :
          \/ BeginAcceptReconnection(e, s, <<ControlMessage(d)>>)
          \/ AcceptReconnection(e, s, <<ControlMessage(d)>>)
    \/ Environment

ProtocolSpec == ProtocolInit /\ [][ProtocolNext]_protocolVars

-----------------------------------------------------------------------------
\* The types of the message layer.
ProtocolTypeOK ==
    /\ sent \in [Ends -> Seq(Data)] /\ delivered \in [Ends -> Seq(Data)]
    /\ unack \in [Ends -> Seq(Message)]
    /\ outAck \in [Ends -> Nat] /\ inId \in [Ends -> Nat] /\ inAck \in [Ends -> Nat]
    /\ ackTimer \in [Ends -> BOOLEAN] /\ unackTimer \in [Ends -> BOOLEAN]
    /\ reconnecting \in [Ends -> BOOLEAN] /\ asked \in [Ends -> BOOLEAN]
    /\ control \in [Ends -> Seq(Control)]
    /\ socket \in [Ends -> Sockets] /\ gone \in [Ends -> BOOLEAN]
    /\ link \in [Sockets -> LinkStates]
    /\ wire \in [Sockets -> [Ends -> Seq(Message)]]

\* An acknowledgement is never owed without the timer that will send it.
AcksAreDue == \A e \in Ends : ~gone[e] /\ inAck[e] < inId[e] => ackTimer[e]

\* What was sent and has not arrived is still in the queue of its sender, so
\* that a reconnection or a replay can write it again: an acknowledgement never
\* lets go of a message too early, on whatever socket it comes.
NothingForgotten ==
    \A e \in Ends : \A id \in inId[Other(e)] + 1..Len(sent[e]) :
        \E i \in 1..Len(unack[e]) : unack[e][i].id = id

\* The class keeps its promise: both ends receive what the other has sent,
\* once and in order, however often sockets break, are replaced, repeat and
\* lose messages.
ImplementsChannel == Channel!ChannelSpec
=============================================================================
