----------------------- MODULE RemoteConnectionProofs -----------------------
(***************************************************************************)
(* Proofs about the message layer, for any sockets, any script and any      *)
(* network that does not forge regular messages, and about the connection   *)
(* that runs on it.                                                         *)
(***************************************************************************)
EXTENDS RemoteConnection, SequenceTheorems, TLAPS

Wires == [Sockets -> [Ends -> Seq(Message)]]

\* m can have been written by an end that has sent snt and received got messages.
Genuine(m, snt, got) ==
    /\ m.ack <= got
    /\ m.type = "Regular" => m.id \in 1..Len(snt) /\ m.data = snt[m.id]
    /\ m.type = "Control" => m.data \in Control

AllGenuine(q, snt, got) == \A i \in 1..Len(q) : Genuine(q[i], snt, got)

Sound(w, snt, got) ==
    \A s \in Sockets, e \in Ends : AllGenuine(w[s][e], snt[Other(e)], got[Other(e)])

\* The strengthening: what is on the wires is genuine, and the queue of an end
\* holds exactly what it has sent from the first message not acknowledged on.
Queued(e, i) ==
    /\ unack[e][i].type = "Regular"
    /\ unack[e][i].id = outAck[e] + i
    /\ unack[e][i].data = sent[e][outAck[e] + i]
    /\ unack[e][i].ack <= inId[e]

Queues == \A e \in Ends :
    /\ outAck[e] + Len(unack[e]) = Len(sent[e])
    /\ \A i \in 1..Len(unack[e]) : Queued(e, i)

Counters == \A e \in Ends :
    /\ outAck[e] <= inId[Other(e)]
    /\ inId[e] <= Len(sent[Other(e)])
    /\ inAck[e] <= inId[e]

Deliveries == \A e \in Ends :
    /\ Len(delivered[e]) = inId[e]
    /\ \A i \in 1..inId[e] : delivered[e][i] = sent[Other(e)][i]

ProtocolInv ==
    /\ ProtocolTypeOK
    /\ Sound(wire, sent, inId)
    /\ Queues
    /\ Counters
    /\ Deliveries
    /\ AcksAreDue

-----------------------------------------------------------------------------
LEMMA EndsFacts ==
    /\ Ends = {"c", "s"}
    /\ \A e \in Ends : Other(e) \in Ends /\ Other(e) # e /\ Other(Other(e)) = e
BY DEF Ends, Other, Channel!Ends, Channel!Other

LEMMA MessageFacts ==
    /\ \A id, ack \in Nat, d \in Data :
          /\ Regular(id, ack, d) \in Message
          /\ Regular(id, ack, d).type = "Regular"
          /\ Regular(id, ack, d).id = id
          /\ Regular(id, ack, d).ack = ack
          /\ Regular(id, ack, d).data = d
    /\ \A ack \in Nat, t \in {"Ack", "KeepAlive", "ReplayRequest", "Disconnect"} :
          /\ Bare(t, ack) \in Message
          /\ Bare(t, ack).type \notin {"Regular", "Control"}
          /\ Bare(t, ack).ack = ack
    /\ \A d \in Control :
          /\ ControlMessage(d) \in Message
          /\ ControlMessage(d).type # "Regular"
          /\ ControlMessage(d).ack = 0
          /\ ControlMessage(d).data = d
BY DEF Message, MessageTypes, Regular, Bare, ControlMessage

\* Sequences of genuine messages: their tails, their concatenations.
LEMMA TailGenuine ==
    ASSUME NEW q \in Seq(Message), q # <<>>, NEW snt, NEW got, AllGenuine(q, snt, got)
    PROVE  /\ Tail(q) \in Seq(Message)
           /\ AllGenuine(Tail(q), snt, got)
           /\ Head(q) \in Message
           /\ Genuine(Head(q), snt, got)
<1>1. /\ Tail(q) \in Seq(Message)
      /\ Head(q) = q[1]
      /\ Len(q) \in Nat \ {0}
      /\ Len(Tail(q)) = Len(q) - 1
      /\ \A i \in 1..Len(Tail(q)) : Tail(q)[i] = q[i + 1]
  BY HeadTailProperties, EmptySeq
<1>2. \A i \in 1..Len(Tail(q)) : i + 1 \in 1..Len(q)
  BY <1>1
<1>3. Head(q) \in Message
  BY <1>1, ElementOfSeq
<1> QED BY <1>1, <1>2, <1>3 DEF AllGenuine

LEMMA ConcatGenuine ==
    ASSUME NEW q \in Seq(Message), NEW r \in Seq(Message), NEW snt, NEW got,
           AllGenuine(q, snt, got), AllGenuine(r, snt, got)
    PROVE  q \o r \in Seq(Message) /\ AllGenuine(q \o r, snt, got)
<1>1. /\ q \o r \in Seq(Message)
      /\ Len(q \o r) = Len(q) + Len(r)
      /\ \A i \in 1..Len(q) + Len(r) :
            (q \o r)[i] = IF i <= Len(q) THEN q[i] ELSE r[i - Len(q)]
  BY ConcatProperties
<1>2. Len(q) \in Nat /\ Len(r) \in Nat
  BY LenProperties
<1> QED BY <1>1, <1>2 DEF AllGenuine

LEMMA EmptyGenuine ==
    ASSUME NEW snt, NEW got
    PROVE  <<>> \in Seq(Message) /\ AllGenuine(<<>>, snt, got)
BY DEF AllGenuine

LEMMA OneGenuine ==
    ASSUME NEW m \in Message, NEW snt, NEW got, Genuine(m, snt, got)
    PROVE  <<m>> \in Seq(Message) /\ AllGenuine(<<m>>, snt, got)
BY DEF AllGenuine

\* What an end has sent only grows, and so does what it has received.
Grows(snt1, got1, snt2, got2) ==
    \A e \in Ends :
        /\ Len(snt1[e]) <= Len(snt2[e])
        /\ \A i \in 1..Len(snt1[e]) : snt2[e][i] = snt1[e][i]
        /\ got1[e] <= got2[e]

LEMMA GenuineGrows ==
    ASSUME NEW m \in Message, NEW snt1 \in Seq(Data), NEW got1 \in Nat,
           NEW snt2 \in Seq(Data), NEW got2 \in Nat, Genuine(m, snt1, got1),
           Len(snt1) <= Len(snt2), \A i \in 1..Len(snt1) : snt2[i] = snt1[i], got1 <= got2
    PROVE  Genuine(m, snt2, got2)
<1>1. m.ack \in Nat /\ m.id \in Nat /\ Len(snt1) \in Nat /\ Len(snt2) \in Nat
  BY LenProperties DEF Message
<1> QED BY <1>1 DEF Genuine

LEMMA SoundGrows ==
    ASSUME NEW w \in Wires,
           NEW snt1 \in [Ends -> Seq(Data)], NEW got1 \in [Ends -> Nat],
           NEW snt2 \in [Ends -> Seq(Data)], NEW got2 \in [Ends -> Nat],
           Sound(w, snt1, got1), Grows(snt1, got1, snt2, got2)
    PROVE  Sound(w, snt2, got2)
<1> SUFFICES ASSUME NEW s \in Sockets, NEW e \in Ends, NEW i \in 1..Len(w[s][e])
             PROVE  Genuine(w[s][e][i], snt2[Other(e)], got2[Other(e)])
  BY DEF Sound, AllGenuine
<1>1. PICK d \in Ends : d = Other(e)
  BY EndsFacts
<1>2. w[s][e][i] \in Message
  BY ElementOfSeq DEF Wires
<1>3. Genuine(w[s][e][i], snt1[d], got1[d])
  BY <1>1 DEF Sound, AllGenuine
<1>4. /\ Len(snt1[d]) <= Len(snt2[d])
      /\ \A j \in 1..Len(snt1[d]) : snt2[d][j] = snt1[d][j]
      /\ got1[d] <= got2[d]
  BY <1>1 DEF Grows
<1>5. Genuine(w[s][e][i], snt2[d], got2[d])
  BY <1>2, <1>3, <1>4, GenuineGrows
<1> QED BY <1>1, <1>5

\* One wire of a socket is set to a sequence of genuine messages.
LEMMA SetWire ==
    ASSUME NEW w \in Wires, NEW snt, NEW got, Sound(w, snt, got),
           NEW s \in Sockets, NEW e \in Ends, NEW q \in Seq(Message),
           AllGenuine(q, snt[Other(e)], got[Other(e)])
    PROVE  /\ [w EXCEPT ![s][e] = q] \in Wires
           /\ Sound([w EXCEPT ![s][e] = q], snt, got)
BY DEF Wires, Sound

\* Both wires of a socket are.
LEMMA SetSocket ==
    ASSUME NEW w \in Wires, NEW snt, NEW got, Sound(w, snt, got),
           NEW s \in Sockets, NEW qs \in [Ends -> Seq(Message)],
           \A e \in Ends : AllGenuine(qs[e], snt[Other(e)], got[Other(e)])
    PROVE  /\ [w EXCEPT ![s] = qs] \in Wires
           /\ Sound([w EXCEPT ![s] = qs], snt, got)
BY DEF Wires, Sound

LEMMA WrittenSound ==
    ASSUME NEW w \in Wires, NEW snt, NEW got, Sound(w, snt, got),
           NEW s \in Sockets, NEW e \in Ends, NEW ms \in Seq(Message),
           AllGenuine(ms, snt[e], got[e])
    PROVE  /\ Written(w, s, e, ms) \in Wires
           /\ Sound(Written(w, s, e, ms), snt, got)
<1> DEFINE d == Other(e)
           q == w[s][d] \o ms
<1>1. d \in Ends /\ Other(d) = e
  BY EndsFacts
<1>2. w[s][d] \in Seq(Message) /\ AllGenuine(w[s][d], snt[e], got[e])
  BY <1>1 DEF Wires, Sound
<1>3. q \in Seq(Message) /\ AllGenuine(q, snt[e], got[e])
  BY <1>2, ConcatGenuine
<1>4. [w EXCEPT ![s][d] = q] \in Wires /\ Sound([w EXCEPT ![s][d] = q], snt, got)
  BY <1>1, <1>3, SetWire
<1>5. Written(w, s, e, ms) = IF link'[s] = "open" THEN [w EXCEPT ![s][d] = q] ELSE w
  BY DEF Written
<1> QED BY <1>4, <1>5

-----------------------------------------------------------------------------
\* What an end knows of the message it reads next.
LEMMA ArrivesFacts ==
    ASSUME ProtocolInv, NEW e \in Ends, NEW types, Arrives(e, types)
    PROVE  /\ Arrived(e) \in Message
           /\ Arrived(e).type \in types
           /\ Genuine(Arrived(e), sent[Other(e)], inId[Other(e)])
           /\ Taken(e) \in Wires
           /\ Sound(Taken(e), sent, inId)
<1> DEFINE s == socket[e]
           q == wire[s][e]
<1>1. s \in Sockets /\ wire \in Wires /\ q \in Seq(Message)
  BY DEF ProtocolInv, ProtocolTypeOK, Wires
<1>2. q # <<>> /\ Arrived(e) = Head(q) /\ Arrived(e).type \in types
  BY DEF Arrives, Arrived, Incoming
<1>3. AllGenuine(q, sent[Other(e)], inId[Other(e)])
  BY <1>1 DEF ProtocolInv, Sound
<1>4. /\ Tail(q) \in Seq(Message) /\ AllGenuine(Tail(q), sent[Other(e)], inId[Other(e)])
      /\ Head(q) \in Message /\ Genuine(Head(q), sent[Other(e)], inId[Other(e)])
  BY <1>1, <1>2, <1>3, TailGenuine
<1>5. Taken(e) = [wire EXCEPT ![s][e] = Tail(q)]
  BY DEF Taken
<1>6. Sound(wire, sent, inId)
  BY DEF ProtocolInv
<1>7. [wire EXCEPT ![s][e] = Tail(q)] \in Wires /\ Sound([wire EXCEPT ![s][e] = Tail(q)], sent, inId)
  BY <1>1, <1>4, <1>6, SetWire
<1> QED BY <1>2, <1>4, <1>5, <1>7

\* The loop of _receiveMessage pops exactly what the acknowledgement covers.
LEMMA PopsUpTo ==
    ASSUME NEW q, NEW base \in Nat, NEW ack \in Nat, Len(q) \in Nat,
           \A i \in 1..Len(q) : q[i].id = base + i,
           base < ack, ack <= base + Len(q)
    PROVE  Popped(q, ack) = ack - base
<1> DEFINE Stops(k) == /\ \A i \in 1..k : q[i].id <= ack
                       /\ k < Len(q) => q[k + 1].id > ack
<1>1. ack - base \in 1..Len(q)
  OBVIOUS
<1>2. Stops(ack - base)
  <2>1. ASSUME NEW i \in 1..ack - base
        PROVE  q[i].id <= ack
    <3>1. i \in 1..Len(q)
      OBVIOUS
    <3> QED BY <3>1
  <2>2. ASSUME ack - base < Len(q)
        PROVE  q[ack - base + 1].id > ack
    <3>1. ack - base + 1 \in 1..Len(q)
      BY <2>2
    <3> QED BY <3>1
  <2> QED BY <2>1, <2>2
<1>3. ASSUME NEW k \in 0..Len(q), Stops(k)
      PROVE  k = ack - base
  <2>1. ASSUME k < ack - base
        PROVE  FALSE
    <3>1. k + 1 \in 1..Len(q) /\ k < Len(q)
      BY <2>1
    <3>2. q[k + 1].id = base + (k + 1)
      BY <3>1
    <3>3. q[k + 1].id > ack
      BY <1>3, <3>1
    <3> QED BY <2>1, <3>2, <3>3
  <2>2. ASSUME k > ack - base
        PROVE  FALSE
    <3>1. k \in 1..Len(q) /\ k \in 1..k
      BY <2>2
    <3>2. q[k].id = base + k
      BY <3>1
    <3>3. q[k].id <= ack
      BY <1>3, <3>1
    <3> QED BY <2>2, <3>2, <3>3
  <2> QED BY <2>1, <2>2
<1>4. Popped(q, ack) = CHOOSE k \in 0..Len(q) : Stops(k)
  BY DEF Popped
<1>5. ack - base \in 0..Len(q)
  BY <1>1
<1> HIDE DEF Stops
<1> QED BY <1>2, <1>3, <1>4, <1>5

LEMMA PoppedFacts ==
    ASSUME ProtocolInv, NEW e \in Ends, NEW ack \in Nat,
           outAck[e] < ack, ack <= Len(sent[e])
    PROVE  Popped(unack[e], ack) = ack - outAck[e]
<1>1. /\ outAck[e] \in Nat /\ unack[e] \in Seq(Message)
      /\ outAck[e] + Len(unack[e]) = Len(sent[e])
      /\ \A i \in 1..Len(unack[e]) : unack[e][i].id = outAck[e] + i
  BY DEF ProtocolInv, ProtocolTypeOK, Queues, Queued
<1>2. Len(unack[e]) \in Nat
  BY <1>1, LenProperties
<1> QED BY <1>1, <1>2, PopsUpTo

-----------------------------------------------------------------------------
\* The parts of the invariant, and what keeps them when others change.
NumberTypes ==
    /\ outAck \in [Ends -> Nat] /\ inId \in [Ends -> Nat] /\ inAck \in [Ends -> Nat]
    /\ \A e \in Ends :
          /\ socket[e] \in Sockets
          /\ inId[e] \in Nat /\ outAck[e] \in Nat /\ inAck[e] \in Nat
          /\ Len(sent[e]) \in Nat /\ Len(delivered[e]) \in Nat /\ Len(unack[e]) \in Nat

SequenceTypes ==
    /\ sent \in [Ends -> Seq(Data)] /\ delivered \in [Ends -> Seq(Data)]
    /\ unack \in [Ends -> Seq(Message)]
    /\ wire \in Wires

LEMMA Types ==
    ASSUME ProtocolInv
    PROVE  NumberTypes /\ SequenceTypes
<1>1. SequenceTypes /\ \A e \in Ends : socket[e] \in Sockets
  BY DEF ProtocolInv, ProtocolTypeOK, Wires, SequenceTypes
<1>2. \A e \in Ends :
         sent[e] \in Seq(Data) /\ delivered[e] \in Seq(Data) /\ unack[e] \in Seq(Message)
  BY <1>1 DEF SequenceTypes
<1>3. \A e \in Ends :
         Len(sent[e]) \in Nat /\ Len(delivered[e]) \in Nat /\ Len(unack[e]) \in Nat
  BY <1>2, LenProperties
<1>4. outAck \in [Ends -> Nat] /\ inId \in [Ends -> Nat] /\ inAck \in [Ends -> Nat]
  BY DEF ProtocolInv, ProtocolTypeOK
<1> QED BY <1>1, <1>3, <1>4 DEF NumberTypes

LEMMA QueuesKept ==
    ASSUME ProtocolInv, UNCHANGED <<sent, unack, outAck>>,
           inId' \in [Ends -> Nat], \A d \in Ends : inId[d] <= inId'[d]
    PROVE  Queues'
<1>n. NumberTypes
  BY Types
<1>q. SequenceTypes
  BY Types
<1> SUFFICES ASSUME NEW e \in Ends, NEW i \in 1..Len(unack[e])
             PROVE  Queued(e, i)'
  BY DEF ProtocolInv, Queues
<1>1. Queued(e, i)
  BY DEF ProtocolInv, Queues
<1>2. unack[e][i] \in Message
  BY <1>n, <1>q, ElementOfSeq DEF NumberTypes, SequenceTypes
<1>3. unack[e][i].ack \in Nat
  BY <1>2 DEF Message
<1>4. inId[e] \in Nat /\ inId'[e] \in Nat
  BY <1>n, <1>q DEF NumberTypes, SequenceTypes
<1> QED BY <1>1, <1>3, <1>4 DEF Queued

\* What an acknowledgement does to the queue of the end that receives it.
LEMMA ConfirmFacts ==
    ASSUME ProtocolInv, NEW e \in Ends, NEW ack \in Nat, ack <= inId[Other(e)],
           Confirm(e, ack), UNCHANGED sent,
           inId' \in [Ends -> Nat], \A d \in Ends : inId[d] <= inId'[d]
    PROVE  /\ outAck' \in [Ends -> Nat]
           /\ unack' \in [Ends -> Seq(Message)]
           /\ Queues'
           /\ \A d \in Ends : outAck'[d] <= inId[Other(d)]
<1>n. NumberTypes
  BY Types
<1>q. SequenceTypes
  BY Types
<1>1. CASE ack > outAck[e]
  <2> DEFINE q == unack[e]
             base == outAck[e]
             rest == SubSeq(q, ack - base + 1, Len(q))
  <2>1. ack <= Len(sent[e])
    BY <1>n, <1>q, EndsFacts DEF ProtocolInv, Counters, NumberTypes, SequenceTypes
  <2>2. Popped(q, ack) = ack - base
    BY <1>1, <2>1, PoppedFacts, <1>n, <1>q DEF NumberTypes, SequenceTypes
  <2>3. outAck' = [outAck EXCEPT ![e] = ack] /\ unack' = [unack EXCEPT ![e] = rest]
    BY <1>1, <2>2 DEF Confirm
  <2>4. base \in Nat /\ q \in Seq(Message) /\ Len(q) \in Nat /\ base + Len(q) = Len(sent[e])
    BY <1>n, <1>q DEF ProtocolInv, Queues, NumberTypes, SequenceTypes
  <2>5. \A i \in ack - base + 1..Len(q) : q[i] \in Message
    <3> TAKE i \in ack - base + 1..Len(q)
    <3>1. i \in 1..Len(q)
      BY <1>1, <2>4
    <3> QED BY <2>4, <3>1, ElementOfSeq
  <2>6. /\ rest \in Seq(Message)
        /\ Len(rest) = Len(q) - (ack - base)
        /\ \A i \in 1..Len(rest) : rest[i] = q[i + (ack - base)]
    <3>1. ack - base + 1 \in Int /\ Len(q) \in Int /\ ack - base <= Len(q)
      BY <2>1, <2>4
    <3>2. /\ rest \in Seq(Message)
          /\ Len(rest) = IF ack - base + 1 <= Len(q) THEN Len(q) - (ack - base + 1) + 1 ELSE 0
          /\ \A i \in 1..Len(q) - (ack - base + 1) + 1 : rest[i] = q[(ack - base + 1) + i - 1]
      BY <2>5, <3>1, SubSeqProperties
    <3>3. Len(rest) = Len(q) - (ack - base)
      BY <2>4, <3>1, <3>2
    <3>4. ASSUME NEW i \in 1..Len(rest)
          PROVE  rest[i] = q[i + (ack - base)]
      <4>1. i \in 1..Len(q) - (ack - base + 1) + 1
        BY <2>4, <3>1, <3>3
      <4>2. (ack - base + 1) + i - 1 = i + (ack - base)
        BY <2>4, <4>1
      <4> QED BY <3>2, <4>1, <4>2
    <3> QED BY <3>2, <3>3, <3>4
  <2> HIDE DEF rest
  <2>7. outAck' \in [Ends -> Nat] /\ unack' \in [Ends -> Seq(Message)]
    BY <2>3, <2>6, <1>n, <1>q DEF NumberTypes, SequenceTypes
  <2>8. \A d \in Ends : outAck'[d] <= inId[Other(d)]
    BY <2>3, <1>n, <1>q DEF ProtocolInv, Counters, NumberTypes, SequenceTypes
  <2>9. ASSUME NEW d \in Ends
        PROVE  /\ outAck'[d] + Len(unack'[d]) = Len(sent'[d])
               /\ \A i \in 1..Len(unack'[d]) : Queued(d, i)'
    <3>1. CASE d = e
      <4>1. outAck'[d] = ack /\ unack'[d] = rest
        BY <2>3, <3>1, <1>n, <1>q DEF NumberTypes, SequenceTypes
      <4>2. ASSUME NEW i \in 1..Len(rest)
            PROVE  Queued(d, i)'
        <5>1. i + (ack - base) \in 1..Len(q)
          BY <1>1, <2>4, <2>6
        <5>2. Queued(e, i + (ack - base))
          BY <5>1 DEF ProtocolInv, Queues
        <5>3. base + (i + (ack - base)) = ack + i
          BY <2>4
        <5>4. rest[i] = q[i + (ack - base)]
          BY <2>6
        <5>5. q[i + (ack - base)] \in Message
          BY <2>4, <5>1, ElementOfSeq
        <5>6. q[i + (ack - base)].ack \in Nat /\ inId[e] \in Nat /\ inId'[e] \in Nat
          BY <5>5, <1>n, <1>q DEF Message, NumberTypes, SequenceTypes
        <5> QED BY <3>1, <4>1, <5>2, <5>3, <5>4, <5>6 DEF Queued
      <4>3. ack + Len(rest) = Len(sent[e])
        BY <2>4, <2>6
      <4>4. sent'[d] = sent[e]
        BY <3>1
      <4> QED BY <4>1, <4>2, <4>3, <4>4
    <3>2. CASE d # e
      <4>1. outAck'[d] = outAck[d] /\ unack'[d] = unack[d]
        BY <2>3, <3>2, <1>n, <1>q DEF NumberTypes, SequenceTypes
      <4>2. ASSUME NEW i \in 1..Len(unack[d])
            PROVE  Queued(d, i)'
        <5>1. Queued(d, i)
          BY DEF ProtocolInv, Queues
        <5>2. unack[d][i] \in Message
          BY <1>n, <1>q, ElementOfSeq DEF NumberTypes, SequenceTypes
        <5>3. unack[d][i].ack \in Nat /\ inId[d] \in Nat /\ inId'[d] \in Nat
          BY <5>2, <1>n, <1>q DEF Message, NumberTypes, SequenceTypes
        <5> QED BY <4>1, <5>1, <5>3 DEF Queued
      <4> QED BY <4>1, <4>2 DEF ProtocolInv, Queues
    <3> QED BY <3>1, <3>2
  <2> QED BY <2>7, <2>8, <2>9 DEF Queues
<1>2. CASE ~(ack > outAck[e])
  <2>1. UNCHANGED <<outAck, unack>>
    BY <1>2 DEF Confirm
  <2> QED BY <2>1, QueuesKept, <1>n, <1>q DEF ProtocolInv, Counters, NumberTypes, SequenceTypes
<1> QED BY <1>1, <1>2

-----------------------------------------------------------------------------
\* Each action keeps the invariant.
LEMMA SendStep ==
    ASSUME ProtocolInv, NEW e \in Ends, Send(e)
    PROVE  ProtocolInv'
<1>n. NumberTypes
  BY Types
<1>q. SequenceTypes
  BY Types
<1> DEFINE d == Script[e][Len(sent[e]) + 1]
           m == Regular(Len(sent[e]) + 1, inId[e], d)
<1>1. /\ sent' = [sent EXCEPT ![e] = Append(@, d)]
      /\ unack' = [unack EXCEPT ![e] = Append(@, m)]
      /\ inAck' = [inAck EXCEPT ![e] = inId[e]]
      /\ UNCHANGED <<delivered, outAck, inId, ackTimer, reconnecting, asked, control, socket,
                     gone>>
  BY DEF Send
<1>2. d \in Data
  <2>1. Script[e] \in Seq(Data) /\ Len(sent[e]) + 1 \in 1..Len(Script[e])
    BY ScriptAssumption, <1>n, <1>q DEF Send, NumberTypes, SequenceTypes
  <2> QED BY <2>1, ElementOfSeq
<1>3. /\ m \in Message /\ m.type = "Regular" /\ m.id = Len(sent[e]) + 1
      /\ m.ack = inId[e] /\ m.data = d
  BY <1>2, MessageFacts, <1>n, <1>q DEF NumberTypes, SequenceTypes
<1> HIDE DEF m, d
<1>4. /\ sent[e] \in Seq(Data) /\ unack[e] \in Seq(Message)
      /\ Append(sent[e], d) \in Seq(Data)
      /\ Len(Append(sent[e], d)) = Len(sent[e]) + 1
      /\ \A i \in 1..Len(sent[e]) : Append(sent[e], d)[i] = sent[e][i]
      /\ Append(sent[e], d)[Len(sent[e]) + 1] = d
      /\ Append(unack[e], m) \in Seq(Message)
      /\ Len(Append(unack[e], m)) = Len(unack[e]) + 1
      /\ \A i \in 1..Len(unack[e]) : Append(unack[e], m)[i] = unack[e][i]
      /\ Append(unack[e], m)[Len(unack[e]) + 1] = m
  BY <1>2, <1>3, <1>n, <1>q, AppendProperties DEF NumberTypes, SequenceTypes
<1>5. sent' \in [Ends -> Seq(Data)] /\ unack' \in [Ends -> Seq(Message)]
  BY <1>1, <1>4, <1>n, <1>q DEF NumberTypes, SequenceTypes
<1>6. sent'[e] = Append(sent[e], d) /\ \A f \in Ends \ {e} : sent'[f] = sent[f]
  BY <1>1, <1>n, <1>q DEF NumberTypes, SequenceTypes
<1>7. \A f \in Ends : /\ Len(sent[f]) <= Len(sent'[f])
                      /\ \A i \in 1..Len(sent[f]) : sent'[f][i] = sent[f][i]
  <2> TAKE f \in Ends
  <2>1. CASE f = e
    BY <1>4, <1>6, <1>n, <2>1 DEF NumberTypes
  <2>2. CASE f # e
    BY <1>6, <1>n, <2>2 DEF NumberTypes
  <2> QED BY <2>1, <2>2
<1>8. Sound(wire, sent', inId')
  <2>1. Grows(sent, inId, sent', inId')
    BY <1>1, <1>7, <1>n, <1>q DEF Grows, NumberTypes, SequenceTypes
  <2>2. Sound(wire, sent, inId)
    BY DEF ProtocolInv
  <2>3. wire \in Wires /\ sent \in [Ends -> Seq(Data)]
    BY <1>q DEF SequenceTypes
  <2>4. inId \in [Ends -> Nat] /\ inId' = inId
    BY <1>1, <1>n DEF NumberTypes
  <2> QED BY <1>5, <2>1, <2>2, <2>3, <2>4, SoundGrows
<1>9. wire' \in Wires /\ Sound(wire', sent', inId')
  <2>1. CASE reconnecting[e]
    BY <1>8, <2>1, <1>n, <1>q DEF Send, NumberTypes, SequenceTypes
  <2>2. CASE ~reconnecting[e]
    <3>1. wire' = Written(wire, socket[e], e, <<m>>)
      BY <2>2 DEF Send, Write, m, d
    <3>2. Genuine(m, sent'[e], inId'[e])
      BY <1>1, <1>3, <1>4, <1>6, <1>n, <1>q DEF Genuine, NumberTypes, SequenceTypes
    <3>3. <<m>> \in Seq(Message) /\ AllGenuine(<<m>>, sent'[e], inId'[e])
      BY <1>3, <3>2, OneGenuine
    <3> QED BY <1>8, <3>1, <3>3, WrittenSound, <1>n, <1>q DEF NumberTypes, SequenceTypes
  <2> QED BY <2>1, <2>2
<1>10. ProtocolTypeOK'
  <2>1. link' = link /\ unackTimer' \in [Ends -> BOOLEAN]
    BY DEF Send, Write, RecvAckCheck, ProtocolInv, ProtocolTypeOK
  <2> QED BY <1>1, <1>5, <1>9, <2>1, <1>n, <1>q DEF ProtocolInv, ProtocolTypeOK, Wires, NumberTypes, SequenceTypes
<1>11. Queues'
  <2>1. ASSUME NEW f \in Ends
        PROVE  /\ outAck'[f] + Len(unack'[f]) = Len(sent'[f])
               /\ \A i \in 1..Len(unack'[f]) : Queued(f, i)'
    <3>1. outAck'[f] = outAck[f] /\ inId'[f] = inId[f] /\ outAck[f] \in Nat
      BY <1>1, <1>n, <1>q DEF NumberTypes, SequenceTypes
    <3>2. outAck[f] + Len(unack[f]) = Len(sent[f])
          /\ \A i \in 1..Len(unack[f]) : Queued(f, i)
      BY DEF ProtocolInv, Queues
    <3>3. CASE f = e
      <4>1. unack'[f] = Append(unack[e], m) /\ sent'[f] = Append(sent[e], d)
        BY <1>1, <3>3, <1>n, <1>q DEF NumberTypes, SequenceTypes
      <4>2. ASSUME NEW i \in 1..Len(unack[e])
            PROVE  Queued(f, i)'
        <5>1. unack'[f][i] = unack[f][i]
          BY <1>4, <3>3, <4>1
        <5>2. outAck[f] + i \in 1..Len(sent[f])
          BY <3>1, <3>2, <3>3, <1>n, <1>q DEF NumberTypes, SequenceTypes
        <5>3. sent'[f][outAck[f] + i] = sent[f][outAck[f] + i]
          BY <1>7, <5>2
        <5> QED BY <3>1, <3>2, <3>3, <5>1, <5>3 DEF Queued
      <4>3. PICK n \in Nat : n = Len(unack[e])
        BY <1>n DEF NumberTypes
      <4>4. Queued(f, n + 1)'
        <5>1. unack'[f][n + 1] = m
          BY <1>4, <4>1, <4>3
        <5>2. outAck'[f] + (n + 1) = Len(sent[e]) + 1
          BY <3>1, <3>2, <3>3, <4>3
        <5>3. sent'[f][outAck'[f] + (n + 1)] = d
          BY <1>4, <4>1, <5>2
        <5>4. m.ack <= inId'[f]
          BY <1>3, <3>1, <3>3, <1>n DEF NumberTypes
        <5> QED BY <1>3, <5>1, <5>2, <5>3, <5>4 DEF Queued
      <4>5. Len(unack'[f]) = n + 1 /\ Len(sent'[f]) = Len(sent[e]) + 1
        BY <1>4, <4>1, <4>3
      <4>6. \A i \in 1..n + 1 : Queued(f, i)'
        <5> TAKE i \in 1..n + 1
        <5>1. i \in 1..n \/ i = n + 1
          OBVIOUS
        <5> QED BY <4>2, <4>3, <4>4, <5>1
      <4>7. outAck'[f] + (n + 1) = Len(sent[e]) + 1
        BY <3>1, <3>2, <3>3, <4>3
      <4> QED BY <4>5, <4>6, <4>7
    <3>4. CASE f # e
      <4>1. unack'[f] = unack[f] /\ sent'[f] = sent[f]
        BY <1>1, <3>4, <1>n, <1>q DEF NumberTypes, SequenceTypes
      <4> QED BY <3>1, <3>2, <4>1 DEF Queued
    <3> QED BY <3>3, <3>4
  <2> QED BY <2>1 DEF Queues
<1>12. Counters'
  <2> SUFFICES ASSUME NEW f \in Ends
               PROVE  /\ outAck[f] <= inId[Other(f)]
                      /\ inId[f] <= Len(sent'[Other(f)])
                      /\ inAck'[f] <= inId[f]
    BY <1>1 DEF Counters
  <2>1. /\ outAck[f] <= inId[Other(f)]
        /\ inId[f] <= Len(sent[Other(f)])
        /\ inAck[f] <= inId[f]
    BY DEF ProtocolInv, Counters
  <2>2. Len(sent[Other(f)]) <= Len(sent'[Other(f)])
    BY <1>7, EndsFacts
  <2>3. /\ inId[f] \in Nat /\ Len(sent[Other(f)]) \in Nat /\ Len(sent'[Other(f)]) \in Nat
    <3>1. Other(f) \in Ends
      BY EndsFacts
    <3> QED BY <1>4, <1>6, <1>n, <3>1 DEF NumberTypes
  <2>4. inAck'[f] <= inId[f]
    BY <1>1, <2>1, <2>3, <1>n, <1>q DEF NumberTypes, SequenceTypes
  <2> QED BY <2>1, <2>2, <2>3, <2>4
<1>13. Deliveries'
  <2> SUFFICES ASSUME NEW f \in Ends
               PROVE  /\ Len(delivered[f]) = inId[f]
                      /\ \A i \in 1..inId[f] : delivered[f][i] = sent'[Other(f)][i]
    BY <1>1 DEF Deliveries
  <2>1. inId[f] \in Nat /\ inId[f] <= Len(sent[Other(f)]) /\ Other(f) \in Ends
    BY <1>n, EndsFacts DEF ProtocolInv, Counters, NumberTypes
  <2>2. \A i \in 1..inId[f] : i \in 1..Len(sent[Other(f)])
    <3>1. Len(sent[Other(f)]) \in Nat
      BY <1>n, <2>1 DEF NumberTypes
    <3> QED BY <2>1, <3>1
  <2> QED BY <1>7, <2>1, <2>2 DEF ProtocolInv, Deliveries
<1>14. AcksAreDue'
  BY <1>1, <1>n, <1>q DEF ProtocolInv, AcksAreDue, NumberTypes, SequenceTypes
<1> QED BY <1>9, <1>10, <1>11, <1>12, <1>13, <1>14 DEF ProtocolInv

\* What the next message confirms is no more than was received.
LEMMA ArrivedAck ==
    ASSUME ProtocolInv, NEW e \in Ends, NEW types, Arrives(e, types)
    PROVE  Arrived(e).ack \in Nat /\ Arrived(e).ack <= inId[Other(e)] /\ Arrived(e).id \in Nat
BY ArrivesFacts DEF Genuine, Message

LEMMA ReceiveNextStep ==
    ASSUME ProtocolInv, NEW e \in Ends, ReceiveNext(e)
    PROVE  ProtocolInv'
<1>n. NumberTypes
  BY Types
<1>q. SequenceTypes
  BY Types
<1> DEFINE m == Arrived(e)
<1>1. /\ Arrives(e, {"Regular"}) /\ m.id = inId[e] + 1 /\ Confirm(e, m.ack)
      /\ inId' = [inId EXCEPT ![e] = m.id]
      /\ delivered' = [delivered EXCEPT ![e] = Append(@, m.data)]
      /\ ackTimer' = [ackTimer EXCEPT ![e] = TRUE]
      /\ wire' = Taken(e)
      /\ UNCHANGED <<sent, inAck, unackTimer, reconnecting, asked, control, socket, gone, link>>
  BY DEF ReceiveNext
<1>2. /\ m.ack \in Nat /\ m.ack <= inId[Other(e)]
      /\ m.id \in 1..Len(sent[Other(e)]) /\ m.data = sent[Other(e)][m.id]
      /\ Taken(e) \in Wires /\ Sound(Taken(e), sent, inId)
  <2>1. m.type = "Regular" /\ Genuine(m, sent[Other(e)], inId[Other(e)])
    BY <1>1, ArrivesFacts
  <2> QED BY <1>1, <2>1, ArrivesFacts, ArrivedAck DEF Genuine
<1>3. m.data \in Data
  <2>1. sent[Other(e)] \in Seq(Data)
    BY <1>q, EndsFacts DEF SequenceTypes
  <2> QED BY <1>2, <2>1, ElementOfSeq
<1> HIDE DEF m
<1>4. inId' \in [Ends -> Nat] /\ \A d \in Ends : inId[d] <= inId'[d]
  BY <1>1, <1>n, <1>q DEF NumberTypes, SequenceTypes
<1>5. /\ outAck' \in [Ends -> Nat] /\ unack' \in [Ends -> Seq(Message)] /\ Queues'
      /\ \A d \in Ends : outAck'[d] <= inId[Other(d)]
  BY <1>1, <1>2, <1>4, ConfirmFacts
<1>6. wire' \in Wires /\ Sound(wire', sent', inId')
  <2>1. Grows(sent, inId, sent, inId')
    BY <1>4, <1>n, <1>q DEF Grows, NumberTypes, SequenceTypes
  <2>2. Sound(Taken(e), sent, inId')
    BY <1>2, <1>4, <2>1, <1>n, <1>q, SoundGrows DEF NumberTypes, SequenceTypes
  <2> QED BY <1>1, <1>2, <2>2
<1>7. /\ Append(delivered[e], m.data) \in Seq(Data)
      /\ Len(Append(delivered[e], m.data)) = Len(delivered[e]) + 1
      /\ \A i \in 1..Len(delivered[e]) : Append(delivered[e], m.data)[i] = delivered[e][i]
      /\ Append(delivered[e], m.data)[Len(delivered[e]) + 1] = m.data
  <2>1. delivered[e] \in Seq(Data)
    BY <1>n, <1>q DEF NumberTypes, SequenceTypes
  <2> QED BY <1>3, <2>1, AppendProperties
<1>8. delivered' \in [Ends -> Seq(Data)]
  BY <1>1, <1>7, <1>n, <1>q DEF NumberTypes, SequenceTypes
<1>9. ProtocolTypeOK'
  BY <1>1, <1>4, <1>5, <1>6, <1>8, <1>n, <1>q DEF ProtocolInv, ProtocolTypeOK, Wires, NumberTypes, SequenceTypes
<1>10. Counters'
  <2> SUFFICES ASSUME NEW f \in Ends
               PROVE  /\ outAck'[f] <= inId'[Other(f)]
                      /\ inId'[f] <= Len(sent[Other(f)])
                      /\ inAck[f] <= inId'[f]
    BY <1>1 DEF Counters
  <2>1. /\ Other(f) \in Ends /\ outAck'[f] \in Nat /\ inId[f] \in Nat /\ inId'[f] \in Nat
        /\ inId[Other(f)] \in Nat /\ inId'[Other(f)] \in Nat /\ inAck[f] \in Nat
    <3>1. Other(f) \in Ends
      BY EndsFacts
    <3> QED BY <1>4, <1>5, <1>n, <3>1 DEF NumberTypes
  <2>2. inId'[f] <= Len(sent[Other(f)])
    <3>1. CASE f = e
      BY <1>1, <1>2, <3>1, <1>n, <1>q DEF NumberTypes, SequenceTypes
    <3>2. CASE f # e
      BY <1>1, <3>2, <1>n, <1>q DEF ProtocolInv, Counters, NumberTypes, SequenceTypes
    <3> QED BY <3>1, <3>2
  <2>3. inAck[f] <= inId'[f]
    BY <1>4, <2>1 DEF ProtocolInv, Counters
  <2> QED BY <1>4, <1>5, <2>1, <2>2, <2>3
<1>11. Deliveries'
  <2> SUFFICES ASSUME NEW f \in Ends
               PROVE  /\ Len(delivered'[f]) = inId'[f]
                      /\ \A i \in 1..inId'[f] : delivered'[f][i] = sent[Other(f)][i]
    BY <1>1 DEF Deliveries
  <2>1. Len(delivered[f]) = inId[f] /\ \A i \in 1..inId[f] : delivered[f][i] = sent[Other(f)][i]
    BY DEF ProtocolInv, Deliveries
  <2>2. CASE f = e
    <3>1. delivered'[f] = Append(delivered[e], m.data) /\ inId'[f] = inId[e] + 1
      BY <1>1, <2>2, <1>n, <1>q DEF NumberTypes, SequenceTypes
    <3>2. ASSUME NEW i \in 1..inId[e] + 1
          PROVE  delivered'[f][i] = sent[Other(f)][i]
      <4>1. CASE i = inId[e] + 1
        BY <1>1, <1>2, <1>7, <2>1, <2>2, <3>1, <4>1
      <4>2. CASE i \in 1..inId[e]
        BY <1>7, <2>1, <2>2, <3>1, <4>2
      <4>3. inId[e] \in Nat
        BY <1>n DEF NumberTypes
      <4> QED BY <4>1, <4>2, <4>3
    <3> QED BY <1>7, <2>1, <2>2, <3>1, <3>2
  <2>3. CASE f # e
    <3>1. delivered'[f] = delivered[f] /\ inId'[f] = inId[f]
      BY <1>1, <2>3, <1>n, <1>q DEF NumberTypes, SequenceTypes
    <3> QED BY <2>1, <3>1
  <2> QED BY <2>2, <2>3
<1>12. AcksAreDue'
  <2> SUFFICES ASSUME NEW f \in Ends, ~gone[f], inAck[f] < inId'[f]
               PROVE  ackTimer'[f]
    BY <1>1 DEF AcksAreDue
  <2>1. CASE f = e
    BY <1>1, <2>1 DEF ProtocolInv, ProtocolTypeOK
  <2>2. CASE f # e
    <3>1. inId'[f] = inId[f] /\ ackTimer'[f] = ackTimer[f]
      BY <1>1, <2>2, <1>n, <1>q DEF NumberTypes, SequenceTypes
    <3> QED BY <3>1 DEF ProtocolInv, AcksAreDue
  <2> QED BY <2>1, <2>2
<1> QED BY <1>5, <1>6, <1>9, <1>10, <1>11, <1>12 DEF ProtocolInv

\* Steps that hand nothing on and accept nothing to send.
LEMMA Quiet ==
    ASSUME ProtocolInv, UNCHANGED <<sent, delivered, inId>>, ProtocolTypeOK',
           Sound(wire', sent, inId), Queues', AcksAreDue',
           \A d \in Ends : outAck'[d] <= inId[Other(d)] /\ inAck'[d] <= inId[d]
    PROVE  ProtocolInv'
<1>1. Sound(wire', sent', inId')
  OBVIOUS
<1>2. Counters'
  BY DEF ProtocolInv, Counters
<1>3. Deliveries'
  BY DEF ProtocolInv, Deliveries
<1> QED BY <1>1, <1>2, <1>3 DEF ProtocolInv

\* Of them, the ones that confirm nothing.
LEMMA NothingConfirmed ==
    ASSUME ProtocolInv, UNCHANGED <<sent, unack, outAck, inId>>
    PROVE  Queues' /\ \A d \in Ends : outAck'[d] <= inId[Other(d)]
<1>1. Queues'
  <2>1. inId' \in [Ends -> Nat] /\ \A d \in Ends : inId[d] <= inId'[d]
    BY Types DEF NumberTypes
  <2> QED BY <2>1, QueuesKept
<1> QED BY <1>1 DEF ProtocolInv, Counters

\* What an end writes of its own.
LEMMA OwnMessage ==
    ASSUME ProtocolInv, NEW e \in Ends,
           NEW t \in {"Ack", "KeepAlive", "ReplayRequest", "Disconnect"},
           NEW ack \in {0, inId[e]}
    PROVE  /\ <<Bare(t, ack)>> \in Seq(Message)
           /\ AllGenuine(<<Bare(t, ack)>>, sent[e], inId[e])
<1>1. ack \in Nat /\ ack <= inId[e]
  BY Types DEF NumberTypes
<1>2. Bare(t, ack) \in Message /\ Bare(t, ack).type \notin {"Regular", "Control"}
      /\ Bare(t, ack).ack = ack
  BY <1>1, MessageFacts
<1>3. Genuine(Bare(t, ack), sent[e], inId[e])
  BY <1>1, <1>2 DEF Genuine
<1> QED BY <1>2, <1>3, OneGenuine

LEMMA ControlGenuine ==
    ASSUME ProtocolInv, NEW e \in Ends, NEW d \in Control
    PROVE  /\ <<ControlMessage(d)>> \in Seq(Message)
           /\ AllGenuine(<<ControlMessage(d)>>, sent[e], inId[e])
<1>1. ControlMessage(d) \in Message /\ ControlMessage(d).type # "Regular"
      /\ ControlMessage(d).ack = 0 /\ ControlMessage(d).data = d
  BY MessageFacts
<1>2. Genuine(ControlMessage(d), sent[e], inId[e])
  BY <1>1, Types DEF Genuine, NumberTypes
<1> QED BY <1>1, <1>2, OneGenuine

LEMMA QueueGenuine ==
    ASSUME ProtocolInv, NEW e \in Ends
    PROVE  unack[e] \in Seq(Message) /\ AllGenuine(unack[e], sent[e], inId[e])
<1>1. unack[e] \in Seq(Message)
  BY Types DEF SequenceTypes
<1>2. ASSUME NEW i \in 1..Len(unack[e])
      PROVE  Genuine(unack[e][i], sent[e], inId[e])
  <2>1. Queued(e, i) /\ outAck[e] + Len(unack[e]) = Len(sent[e])
    BY DEF ProtocolInv, Queues
  <2>2. outAck[e] + i \in 1..Len(sent[e])
    BY <2>1, Types DEF NumberTypes
  <2> QED BY <2>1, <2>2 DEF Queued, Genuine
<1> QED BY <1>1, <1>2 DEF AllGenuine

LEMMA ReceiveAgainStep ==
    ASSUME ProtocolInv, NEW e \in Ends, ReceiveAgain(e) \/ ReceiveAck(e)
    PROVE  ProtocolInv'
<1>1. PICK types : Arrives(e, types)
  BY DEF ReceiveAgain, ReceiveAck
<1>2. /\ Confirm(e, Arrived(e).ack)
      /\ wire' = Taken(e)
      /\ UNCHANGED <<sent, delivered, inId, inAck, ackTimer, unackTimer, reconnecting, asked,
                     control, socket, gone, link>>
  BY DEF ReceiveAgain, ReceiveAck
<1>3. Taken(e) \in Wires /\ Sound(Taken(e), sent, inId)
  BY <1>1, ArrivesFacts
<1>4. inId' \in [Ends -> Nat] /\ \A d \in Ends : inId[d] <= inId'[d]
  BY <1>2, Types DEF NumberTypes
<1>5. /\ outAck' \in [Ends -> Nat] /\ unack' \in [Ends -> Seq(Message)] /\ Queues'
      /\ \A d \in Ends : outAck'[d] <= inId[Other(d)]
  <2>1. Arrived(e).ack \in Nat /\ Arrived(e).ack <= inId[Other(e)]
    BY <1>1, ArrivedAck
  <2> QED BY <1>2, <1>4, <2>1, ConfirmFacts
<1>6. ProtocolTypeOK'
  BY <1>2, <1>3, <1>5 DEF ProtocolInv, ProtocolTypeOK, Wires
<1>7. AcksAreDue' /\ \A d \in Ends : inAck'[d] <= inId[d]
  BY <1>2 DEF ProtocolInv, AcksAreDue, Counters
<1> QED BY <1>2, <1>3, <1>5, <1>6, <1>7, Quiet

LEMMA ReceiveGapStep ==
    ASSUME ProtocolInv, NEW e \in Ends, ReceiveGap(e)
    PROVE  ProtocolInv'
<1>1. /\ Arrives(e, {"Regular"})
      /\ Confirm(e, Arrived(e).ack)
      /\ wire' = IF asked[e] THEN Taken(e)
                 ELSE Written(Taken(e), socket[e], e, <<Bare("ReplayRequest", 0)>>)
      /\ asked' = [asked EXCEPT ![e] = TRUE]
      /\ UNCHANGED <<sent, delivered, inId, inAck, ackTimer, unackTimer, reconnecting,
                     control, socket, gone, link>>
  BY DEF ReceiveGap
<1>2. wire' \in Wires /\ Sound(wire', sent, inId)
  <2>1. Taken(e) \in Wires /\ Sound(Taken(e), sent, inId)
    BY <1>1, ArrivesFacts
  <2>2. <<Bare("ReplayRequest", 0)>> \in Seq(Message)
        /\ AllGenuine(<<Bare("ReplayRequest", 0)>>, sent[e], inId[e])
    BY OwnMessage
  <2>3. socket[e] \in Sockets
    BY Types DEF NumberTypes
  <2>4. Written(Taken(e), socket[e], e, <<Bare("ReplayRequest", 0)>>) \in Wires
        /\ Sound(Written(Taken(e), socket[e], e, <<Bare("ReplayRequest", 0)>>), sent, inId)
    BY <2>1, <2>2, <2>3, WrittenSound
  <2> QED BY <1>1, <2>1, <2>4
<1>3. inId' \in [Ends -> Nat] /\ \A d \in Ends : inId[d] <= inId'[d]
  BY <1>1, Types DEF NumberTypes
<1>4. /\ outAck' \in [Ends -> Nat] /\ unack' \in [Ends -> Seq(Message)] /\ Queues'
      /\ \A d \in Ends : outAck'[d] <= inId[Other(d)]
  <2>1. Arrived(e).ack \in Nat /\ Arrived(e).ack <= inId[Other(e)]
    BY <1>1, ArrivedAck
  <2> QED BY <1>1, <1>3, <2>1, ConfirmFacts
<1>5. ProtocolTypeOK'
  BY <1>1, <1>2, <1>4 DEF ProtocolInv, ProtocolTypeOK, Wires
<1>6. AcksAreDue' /\ \A d \in Ends : inAck'[d] <= inId[d]
  BY <1>1 DEF ProtocolInv, AcksAreDue, Counters
<1> QED BY <1>1, <1>2, <1>4, <1>5, <1>6, Quiet

LEMMA ReceiveControlStep ==
    ASSUME ProtocolInv, NEW e \in Ends, ReceiveControl(e)
    PROVE  ProtocolInv'
<1>1. /\ Arrives(e, {"Control"})
      /\ control' = [control EXCEPT ![e] = Append(@, Arrived(e).data)]
      /\ wire' = Taken(e)
      /\ UNCHANGED <<sent, delivered, unack, outAck, inId, inAck, ackTimer, unackTimer,
                     reconnecting, asked, socket, gone, link>>
  BY DEF ReceiveControl
<1>2. /\ Arrived(e).type \in {"Control"}
      /\ Genuine(Arrived(e), sent[Other(e)], inId[Other(e)])
      /\ Taken(e) \in Wires /\ Sound(Taken(e), sent, inId)
  BY <1>1, ArrivesFacts
<1>3. control' \in [Ends -> Seq(Control)]
  <2>1. Arrived(e).data \in Control
    BY <1>2 DEF Genuine
  <2>2. control \in [Ends -> Seq(Control)]
    BY DEF ProtocolInv, ProtocolTypeOK
  <2>3. Append(control[e], Arrived(e).data) \in Seq(Control)
    BY <2>1, <2>2, AppendProperties
  <2> QED BY <1>1, <2>2, <2>3
<1>4. ProtocolTypeOK'
  BY <1>1, <1>2, <1>3 DEF ProtocolInv, ProtocolTypeOK, Wires
<1>5. AcksAreDue' /\ \A d \in Ends : inAck'[d] <= inId[d]
  BY <1>1 DEF ProtocolInv, AcksAreDue, Counters
<1> QED BY <1>1, <1>2, <1>4, <1>5, Quiet, NothingConfirmed

LEMMA ReceiveReplayRequestStep ==
    ASSUME ProtocolInv, NEW e \in Ends, ReceiveReplayRequest(e)
    PROVE  ProtocolInv'
<1>1. /\ Arrives(e, {"ReplayRequest"})
      /\ wire' = Written(Taken(e), socket[e], e, unack[e])
      /\ unackTimer' \in [Ends -> BOOLEAN]
      /\ UNCHANGED <<sent, delivered, unack, outAck, inId, inAck, ackTimer, reconnecting,
                     asked, control, socket, gone, link>>
  BY DEF ReceiveReplayRequest, RecvAckCheck, ProtocolInv, ProtocolTypeOK
<1>2. wire' \in Wires /\ Sound(wire', sent, inId)
  <2>1. Taken(e) \in Wires /\ Sound(Taken(e), sent, inId)
    BY <1>1, ArrivesFacts
  <2>2. socket[e] \in Sockets
    BY Types DEF NumberTypes
  <2> QED BY <1>1, <2>1, <2>2, QueueGenuine, WrittenSound
<1>3. ProtocolTypeOK'
  BY <1>1, <1>2 DEF ProtocolInv, ProtocolTypeOK, Wires
<1>4. AcksAreDue' /\ \A d \in Ends : inAck'[d] <= inId[d]
  BY <1>1 DEF ProtocolInv, AcksAreDue, Counters
<1> QED BY <1>1, <1>2, <1>3, <1>4, Quiet, NothingConfirmed

\* Disposing, with or without the last words (so ReceiveDisconnect too).
LEMMA DisposeStep ==
    ASSUME ProtocolInv, NEW e \in Ends,
           NEW farewell \in {<<>>, <<Bare("Disconnect", 0)>>}, Dispose(e, farewell)
    PROVE  ProtocolInv'
<1> DEFINE s == socket[e]
           qs == [d \in Ends |-> IF d = e THEN <<>>
                                 ELSE IF link[s] = "open" THEN wire[s][d] \o farewell
                                 ELSE wire[s][d]]
<1>1. /\ gone' = [gone EXCEPT ![e] = TRUE]
      /\ ackTimer' = [ackTimer EXCEPT ![e] = FALSE]
      /\ unackTimer' = [unackTimer EXCEPT ![e] = FALSE]
      /\ link' = [link EXCEPT ![s] = IF @ = "open" THEN "closed" ELSE @]
      /\ wire' = [wire EXCEPT ![s] = qs]
      /\ UNCHANGED <<sent, delivered, unack, outAck, inId, inAck, reconnecting, asked,
                     control, socket>>
  BY DEF Dispose
<1>2. s \in Sockets /\ wire \in Wires /\ Sound(wire, sent, inId)
  BY Types DEF NumberTypes, SequenceTypes, ProtocolInv
<1>3. farewell \in Seq(Message) /\ AllGenuine(farewell, sent[e], inId[e])
  BY OwnMessage, EmptyGenuine
<1>4. ASSUME NEW d \in Ends
      PROVE  qs[d] \in Seq(Message) /\ AllGenuine(qs[d], sent[Other(d)], inId[Other(d)])
  <2>1. CASE d = e
    BY <2>1, EmptyGenuine
  <2>2. CASE d # e
    <3>1. Other(d) = e
      BY <2>2, EndsFacts
    <3>2. wire[s][d] \in Seq(Message) /\ AllGenuine(wire[s][d], sent[e], inId[e])
      BY <1>2, <3>1 DEF Wires, Sound
    <3>3. wire[s][d] \o farewell \in Seq(Message)
          /\ AllGenuine(wire[s][d] \o farewell, sent[e], inId[e])
      BY <1>3, <3>2, ConcatGenuine
    <3>4. qs[d] = IF link[s] = "open" THEN wire[s][d] \o farewell ELSE wire[s][d]
      BY <2>2
    <3> QED BY <3>1, <3>2, <3>3, <3>4
  <2> QED BY <2>1, <2>2
<1>5. qs \in [Ends -> Seq(Message)]
  BY <1>4
<1>6. wire' \in Wires /\ Sound(wire', sent, inId)
  <2> HIDE DEF s, qs
  <2> QED BY <1>1, <1>2, <1>4, <1>5, SetSocket
<1>7. link' \in [Sockets -> LinkStates]
  BY <1>1 DEF ProtocolInv, ProtocolTypeOK, LinkStates
<1>8. /\ gone' \in [Ends -> BOOLEAN] /\ ackTimer' \in [Ends -> BOOLEAN]
      /\ unackTimer' \in [Ends -> BOOLEAN]
  BY <1>1 DEF ProtocolInv, ProtocolTypeOK
<1>9. ProtocolTypeOK'
  <2> HIDE DEF s, qs
  <2> QED BY <1>1, <1>6, <1>7, <1>8 DEF ProtocolInv, ProtocolTypeOK, Wires
<1>10. AcksAreDue' /\ \A d \in Ends : inAck'[d] <= inId[d]
  BY <1>1 DEF ProtocolInv, ProtocolTypeOK, AcksAreDue, Counters
<1> QED BY <1>1, <1>6, <1>9, <1>10, Quiet, NothingConfirmed

LEMMA AckTimerFiresStep ==
    ASSUME ProtocolInv, NEW e \in Ends, AckTimerFires(e)
    PROVE  ProtocolInv'
<1>1. /\ ackTimer' = [ackTimer EXCEPT ![e] = FALSE]
      /\ UNCHANGED <<sent, delivered, unack, outAck, inId, unackTimer, reconnecting, asked,
                     control, socket, gone, link>>
  BY DEF AckTimerFires, Write
<1>2. \/ inAck' = inAck /\ inId[e] <= inAck[e]
      \/ inAck' = [inAck EXCEPT ![e] = inId[e]]
  BY DEF AckTimerFires
<1>3. wire' \in Wires /\ Sound(wire', sent, inId)
  <2>1. wire \in Wires /\ Sound(wire, sent, inId) /\ socket[e] \in Sockets
    BY Types DEF NumberTypes, SequenceTypes, ProtocolInv
  <2>2. <<Bare("Ack", inId[e])>> \in Seq(Message)
        /\ AllGenuine(<<Bare("Ack", inId[e])>>, sent[e], inId[e])
    BY OwnMessage
  <2>3. Written(wire, socket[e], e, <<Bare("Ack", inId[e])>>) \in Wires
        /\ Sound(Written(wire, socket[e], e, <<Bare("Ack", inId[e])>>), sent, inId)
    BY <2>1, <2>2, WrittenSound
  <2> QED BY <2>1, <2>3 DEF AckTimerFires, Write
<1>4. inAck' \in [Ends -> Nat] /\ \A d \in Ends : inAck'[d] <= inId[d]
  <2>1. inAck \in [Ends -> Nat] /\ inId \in [Ends -> Nat]
        /\ \A d \in Ends : inAck[d] <= inId[d]
    BY Types DEF NumberTypes, ProtocolInv, Counters
  <2>2. CASE inAck' = inAck
    BY <2>1, <2>2
  <2>3. CASE inAck' = [inAck EXCEPT ![e] = inId[e]]
    BY <2>1, <2>3
  <2> QED BY <1>2, <2>2, <2>3
<1>5. ProtocolTypeOK'
  BY <1>1, <1>3, <1>4 DEF ProtocolInv, ProtocolTypeOK, Wires
<1>6. AcksAreDue'
  <2> SUFFICES ASSUME NEW f \in Ends, ~gone[f], inAck'[f] < inId[f]
               PROVE  ackTimer'[f]
    BY <1>1 DEF AcksAreDue
  <2>1. inAck[f] \in Nat /\ inId[f] \in Nat /\ f # e
    BY <1>2, Types DEF NumberTypes
  <2>2. inAck'[f] = inAck[f] /\ ackTimer'[f] = ackTimer[f]
    BY <1>1, <1>2, <2>1, Types DEF NumberTypes
  <2> QED BY <2>2 DEF ProtocolInv, AcksAreDue
<1> QED BY <1>1, <1>3, <1>4, <1>5, <1>6, Quiet, NothingConfirmed

LEMMA SendKeepAliveStep ==
    ASSUME ProtocolInv, NEW e \in Ends, SendKeepAlive(e)
    PROVE  ProtocolInv'
<1>1. /\ inAck' = [inAck EXCEPT ![e] = inId[e]]
      /\ wire' = Written(wire, socket[e], e, <<Bare("KeepAlive", inId[e])>>)
      /\ UNCHANGED <<sent, delivered, unack, outAck, inId, ackTimer, unackTimer, reconnecting,
                     asked, control, socket, gone, link>>
  BY DEF SendKeepAlive, Write
<1>2. wire' \in Wires /\ Sound(wire', sent, inId)
  <2>1. wire \in Wires /\ Sound(wire, sent, inId) /\ socket[e] \in Sockets
    BY Types DEF NumberTypes, SequenceTypes, ProtocolInv
  <2>2. <<Bare("KeepAlive", inId[e])>> \in Seq(Message)
        /\ AllGenuine(<<Bare("KeepAlive", inId[e])>>, sent[e], inId[e])
    BY OwnMessage
  <2> QED BY <1>1, <2>1, <2>2, WrittenSound
<1>3. inAck' \in [Ends -> Nat] /\ \A d \in Ends : inAck'[d] <= inId[d]
  BY <1>1, Types DEF NumberTypes, ProtocolInv, Counters
<1>4. ProtocolTypeOK'
  BY <1>1, <1>2, <1>3 DEF ProtocolInv, ProtocolTypeOK, Wires
<1>5. AcksAreDue'
  BY <1>1, Types DEF NumberTypes, ProtocolInv, AcksAreDue
<1> QED BY <1>1, <1>2, <1>3, <1>4, <1>5, Quiet, NothingConfirmed

LEMMA TimersStep ==
    ASSUME ProtocolInv, NEW e \in Ends, UnackTimerFires(e) \/ ReplayAllowed(e)
    PROVE  ProtocolInv'
<1>1. /\ unackTimer' \in [Ends -> BOOLEAN] /\ asked' \in [Ends -> BOOLEAN]
      /\ UNCHANGED <<sent, delivered, unack, outAck, inId, inAck, ackTimer,
                     reconnecting, control, socket, gone, link, wire>>
  BY DEF UnackTimerFires, ReplayAllowed, ProtocolInv, ProtocolTypeOK
<1>2. ProtocolTypeOK'
  BY <1>1 DEF ProtocolInv, ProtocolTypeOK
<1>3. AcksAreDue' /\ \A d \in Ends : inAck'[d] <= inId[d]
  BY <1>1 DEF ProtocolInv, AcksAreDue, Counters
<1>4. Sound(wire', sent, inId)
  BY <1>1 DEF ProtocolInv
<1> QED BY <1>1, <1>2, <1>3, <1>4, Quiet, NothingConfirmed

LEMMA BeginStep ==
    ASSUME ProtocolInv, NEW e \in Ends, NEW s \in Sockets, NEW d \in Control,
           BeginAcceptReconnection(e, s, <<ControlMessage(d)>>)
    PROVE  ProtocolInv'
<1> DEFINE opening == <<ControlMessage(d)>>
           qs == [f \in Ends |-> IF f = e THEN <<>> ELSE opening]
<1>1. /\ reconnecting' = [reconnecting EXCEPT ![e] = TRUE]
      /\ control' = [control EXCEPT ![e] = <<>>]
      /\ asked' = [asked EXCEPT ![e] = FALSE]
      /\ socket' = [socket EXCEPT ![e] = s]
      /\ link' = Replaced(e, s)
      /\ wire' = [Unread(e) EXCEPT ![s] = qs]
      /\ UNCHANGED <<sent, delivered, unack, outAck, inId, inAck, ackTimer, unackTimer, gone>>
  BY DEF BeginAcceptReconnection
<1>2. Unread(e) \in Wires /\ Sound(Unread(e), sent, inId)
  <2>1. wire \in Wires /\ Sound(wire, sent, inId) /\ socket[e] \in Sockets
    BY Types DEF NumberTypes, SequenceTypes, ProtocolInv
  <2> QED BY <2>1, EmptyGenuine, SetWire DEF Unread
<1>3. opening \in Seq(Message) /\ AllGenuine(opening, sent[e], inId[e])
  BY ControlGenuine
<1> HIDE DEF opening
<1>4. ASSUME NEW f \in Ends
      PROVE  qs[f] \in Seq(Message) /\ AllGenuine(qs[f], sent[Other(f)], inId[Other(f)])
  <2>1. CASE f = e
    BY <2>1, EmptyGenuine
  <2>2. CASE f # e
    <3>1. Other(f) = e
      BY <2>2, EndsFacts
    <3> QED BY <1>3, <2>2, <3>1
  <2> QED BY <2>1, <2>2
<1>5. qs \in [Ends -> Seq(Message)]
  BY <1>4
<1> HIDE DEF qs
<1>6. wire' \in Wires /\ Sound(wire', sent, inId)
  BY <1>1, <1>2, <1>4, <1>5, SetSocket
<1>7. link' \in [Sockets -> LinkStates]
  BY <1>1 DEF ProtocolInv, ProtocolTypeOK, LinkStates, Replaced
<1>8. /\ reconnecting' \in [Ends -> BOOLEAN] /\ asked' \in [Ends -> BOOLEAN]
      /\ socket' \in [Ends -> Sockets]
  BY <1>1 DEF ProtocolInv, ProtocolTypeOK
<1>9. control' \in [Ends -> Seq(Control)]
  BY <1>1 DEF ProtocolInv, ProtocolTypeOK
<1>10. ProtocolTypeOK'
  BY <1>1, <1>6, <1>7, <1>8, <1>9 DEF ProtocolInv, ProtocolTypeOK, Wires
<1>11. AcksAreDue' /\ \A f \in Ends : inAck'[f] <= inId[f]
  BY <1>1 DEF ProtocolInv, AcksAreDue, Counters
<1> QED BY <1>1, <1>6, <1>10, <1>11, Quiet, NothingConfirmed

LEMMA ResumptionGenuine ==
    ASSUME ProtocolInv, NEW e \in Ends
    PROVE  Resumption(e) \in Seq(Message) /\ AllGenuine(Resumption(e), sent[e], inId[e])
<1>1. <<Bare("Ack", inId[e])>> \in Seq(Message)
      /\ AllGenuine(<<Bare("Ack", inId[e])>>, sent[e], inId[e])
  BY OwnMessage
<1> QED BY <1>1, QueueGenuine, ConcatGenuine DEF Resumption

LEMMA EndStep ==
    ASSUME ProtocolInv, NEW e \in Ends, EndAcceptReconnection(e)
    PROVE  ProtocolInv'
<1>1. /\ reconnecting' = [reconnecting EXCEPT ![e] = FALSE]
      /\ inAck' = [inAck EXCEPT ![e] = inId[e]]
      /\ wire' = Written(wire, socket[e], e, Resumption(e))
      /\ control[e] # <<>> /\ control' = [control EXCEPT ![e] = Tail(@)]
      /\ UNCHANGED <<sent, delivered, unack, outAck, inId, ackTimer, asked, socket, gone, link>>
  BY DEF EndAcceptReconnection, Write
<1>2. wire' \in Wires /\ Sound(wire', sent, inId)
  <2>1. wire \in Wires /\ Sound(wire, sent, inId) /\ socket[e] \in Sockets
    BY Types DEF NumberTypes, SequenceTypes, ProtocolInv
  <2> QED BY <1>1, <2>1, ResumptionGenuine, WrittenSound
<1>3. inAck' \in [Ends -> Nat] /\ \A d \in Ends : inAck'[d] <= inId[d]
  BY <1>1, Types DEF NumberTypes, ProtocolInv, Counters
<1>4. control' \in [Ends -> Seq(Control)]
  <2>1. control \in [Ends -> Seq(Control)]
    BY DEF ProtocolInv, ProtocolTypeOK
  <2>2. Tail(control[e]) \in Seq(Control)
    BY <1>1, <2>1, HeadTailProperties
  <2> QED BY <1>1, <2>1, <2>2
<1>5. reconnecting' \in [Ends -> BOOLEAN] /\ unackTimer' \in [Ends -> BOOLEAN]
  BY DEF ProtocolInv, ProtocolTypeOK, EndAcceptReconnection, RecvAckCheck
<1>6. ProtocolTypeOK'
  BY <1>1, <1>2, <1>3, <1>4, <1>5 DEF ProtocolInv, ProtocolTypeOK, Wires
<1>7. AcksAreDue'
  BY <1>1, Types DEF NumberTypes, ProtocolInv, AcksAreDue
<1> QED BY <1>1, <1>2, <1>3, <1>6, <1>7, Quiet, NothingConfirmed

LEMMA AcceptStep ==
    ASSUME ProtocolInv, NEW e \in Ends, NEW s \in Sockets, NEW d \in Control,
           AcceptReconnection(e, s, <<ControlMessage(d)>>)
    PROVE  ProtocolInv'
<1> DEFINE taken == [Unread(e) EXCEPT ![s][e] = Tail(Unread(e)[s][e])]
           words == <<ControlMessage(d)>> \o Resumption(e)
<1>1. /\ reconnecting' = [reconnecting EXCEPT ![e] = FALSE]
      /\ inAck' = [inAck EXCEPT ![e] = inId[e]]
      /\ control' = [control EXCEPT ![e] = <<>>]
      /\ asked' = [asked EXCEPT ![e] = FALSE]
      /\ socket' = [socket EXCEPT ![e] = s]
      /\ s # socket[e] /\ wire[s][e] # <<>>
      /\ link' = [link EXCEPT ![socket[e]] = IF @ = "open" THEN "closed" ELSE @]
      /\ wire' = Written(taken, s, e, words)
      /\ UNCHANGED <<sent, delivered, unack, outAck, inId, ackTimer, gone>>
  BY DEF AcceptReconnection
<1>2. wire \in Wires /\ Sound(wire, sent, inId) /\ socket[e] \in Sockets
  BY Types DEF NumberTypes, SequenceTypes, ProtocolInv
<1>3. Unread(e) \in Wires /\ Sound(Unread(e), sent, inId)
  BY <1>2, EmptyGenuine, SetWire DEF Unread
<1>4. taken \in Wires /\ Sound(taken, sent, inId)
  <2>1. Unread(e)[s][e] = wire[s][e]
    BY <1>1, <1>2 DEF Unread, Wires
  <2>2. wire[s][e] \in Seq(Message) /\ AllGenuine(wire[s][e], sent[Other(e)], inId[Other(e)])
    BY <1>2 DEF Wires, Sound
  <2>3. Tail(wire[s][e]) \in Seq(Message)
        /\ AllGenuine(Tail(wire[s][e]), sent[Other(e)], inId[Other(e)])
    BY <1>1, <2>2, TailGenuine
  <2> QED BY <1>3, <2>1, <2>3, SetWire
<1>5. words \in Seq(Message) /\ AllGenuine(words, sent[e], inId[e])
  BY ControlGenuine, ResumptionGenuine, ConcatGenuine
<1> HIDE DEF taken, words
<1>6. wire' \in Wires /\ Sound(wire', sent, inId)
  BY <1>1, <1>4, <1>5, WrittenSound
<1>7. inAck' \in [Ends -> Nat] /\ \A f \in Ends : inAck'[f] <= inId[f]
  BY <1>1, Types DEF NumberTypes, ProtocolInv, Counters
<1>8. link' \in [Sockets -> LinkStates]
  BY <1>1 DEF ProtocolInv, ProtocolTypeOK, LinkStates
<1>9. /\ reconnecting' \in [Ends -> BOOLEAN] /\ asked' \in [Ends -> BOOLEAN]
      /\ unackTimer' \in [Ends -> BOOLEAN] /\ socket' \in [Ends -> Sockets]
  BY <1>1 DEF ProtocolInv, ProtocolTypeOK, AcceptReconnection, RecvAckCheck
<1>10. control' \in [Ends -> Seq(Control)]
  BY <1>1 DEF ProtocolInv, ProtocolTypeOK
<1>11. ProtocolTypeOK'
  BY <1>1, <1>6, <1>7, <1>8, <1>9, <1>10 DEF ProtocolInv, ProtocolTypeOK, Wires
<1>12. AcksAreDue'
  BY <1>1, Types DEF NumberTypes, ProtocolInv, AcksAreDue
<1> QED BY <1>1, <1>6, <1>7, <1>11, <1>12, Quiet, NothingConfirmed

LEMMA EnvironmentStep ==
    ASSUME ProtocolInv, Environment
    PROVE  ProtocolInv'
<1>1. /\ wire' \in Wires
      /\ UNCHANGED <<sent, delivered, unack, outAck, inId, inAck, ackTimer, unackTimer,
                     reconnecting, asked, socket, gone>>
  BY DEF Environment, Wires
<1>2. Sound(wire', sent, inId)
  <2> SUFFICES ASSUME NEW s \in Sockets, NEW e \in Ends, NEW i \in 1..Len(wire'[s][e])
               PROVE  Genuine(wire'[s][e][i], sent[Other(e)], inId[Other(e)])
    BY DEF Sound, AllGenuine
  <2>1. wire'[s][e][i] \in OnWire(s, e) \cup {ControlMessage(d) : d \in Control}
    BY DEF Environment
  <2>2. CASE wire'[s][e][i] \in OnWire(s, e)
    <3>1. PICK j \in 1..Len(wire[s][e]) : wire'[s][e][i] = wire[s][e][j]
      BY <2>2 DEF OnWire
    <3> QED BY <3>1 DEF ProtocolInv, Sound, AllGenuine
  <2>3. CASE wire'[s][e][i] \in {ControlMessage(d) : d \in Control}
    <3>1. PICK d \in Control : wire'[s][e][i] = ControlMessage(d)
      BY <2>3
    <3>2. Other(e) \in Ends
      BY EndsFacts
    <3>3. inId[Other(e)] \in Nat
      BY <3>2, Types DEF NumberTypes
    <3>4. /\ ControlMessage(d).type # "Regular" /\ ControlMessage(d).ack = 0
          /\ ControlMessage(d).data = d
      BY MessageFacts
    <3> QED BY <3>1, <3>3, <3>4 DEF Genuine
  <2> QED BY <2>1, <2>2, <2>3
<1>3. ProtocolTypeOK'
  BY <1>1 DEF Environment, ProtocolInv, ProtocolTypeOK
<1>4. AcksAreDue' /\ \A d \in Ends : inAck'[d] <= inId[d]
  BY <1>1 DEF ProtocolInv, AcksAreDue, Counters
<1> QED BY <1>1, <1>2, <1>3, <1>4, Quiet, NothingConfirmed

LEMMA ProtocolInit_Inv == ProtocolInit => ProtocolInv
<1> SUFFICES ASSUME ProtocolInit
             PROVE  ProtocolInv
  OBVIOUS
<1>1. First \in Sockets
  BY SocketsAssumption DEF First
<1>2. /\ \A e \in Ends : /\ sent[e] = <<>> /\ delivered[e] = <<>> /\ unack[e] = <<>>
                         /\ outAck[e] = 0 /\ inId[e] = 0 /\ inAck[e] = 0
      /\ \A s \in Sockets, e \in Ends : wire[s][e] = <<>>
      /\ \A e \in Ends : Other(e) \in Ends
  BY EndsFacts DEF ProtocolInit
<1>3. ProtocolTypeOK
  <2>1. link \in [Sockets -> LinkStates]
    BY DEF ProtocolInit, LinkStates
  <2>2. /\ sent \in [Ends -> Seq(Data)] /\ delivered \in [Ends -> Seq(Data)]
        /\ unack \in [Ends -> Seq(Message)]
        /\ control \in [Ends -> Seq(Control)]
        /\ wire \in [Sockets -> [Ends -> Seq(Message)]]
    BY DEF ProtocolInit
  <2>3. /\ outAck \in [Ends -> Nat] /\ inId \in [Ends -> Nat] /\ inAck \in [Ends -> Nat]
        /\ ackTimer \in [Ends -> BOOLEAN] /\ unackTimer \in [Ends -> BOOLEAN]
        /\ reconnecting \in [Ends -> BOOLEAN] /\ asked \in [Ends -> BOOLEAN]
        /\ socket \in [Ends -> Sockets] /\ gone \in [Ends -> BOOLEAN]
    BY <1>1 DEF ProtocolInit
  <2> QED BY <2>1, <2>2, <2>3 DEF ProtocolTypeOK
<1>4. Sound(wire, sent, inId)
  BY <1>2, EmptyGenuine DEF Sound
<1>5. Queues
  BY <1>2 DEF Queues
<1>6. Counters
  BY <1>2 DEF Counters
<1>7. Deliveries
  BY <1>2 DEF Deliveries
<1>8. AcksAreDue
  BY <1>2 DEF AcksAreDue
<1> QED BY <1>3, <1>4, <1>5, <1>6, <1>7, <1>8 DEF ProtocolInv

LEMMA ProtocolNext_Inv == ProtocolInv /\ [ProtocolNext]_protocolVars => ProtocolInv'
<1> SUFFICES ASSUME ProtocolInv, [ProtocolNext]_protocolVars
             PROVE  ProtocolInv'
  OBVIOUS
<1>1. CASE \E e \in Ends :
             \/ Send(e) \/ ReceiveNext(e) \/ ReceiveAgain(e) \/ ReceiveGap(e)
             \/ ReceiveControl(e) \/ ReceiveAck(e) \/ ReceiveReplayRequest(e)
             \/ AckTimerFires(e) \/ SendKeepAlive(e) \/ UnackTimerFires(e) \/ ReplayAllowed(e)
             \/ EndAcceptReconnection(e)
  BY <1>1, SendStep, ReceiveNextStep, ReceiveAgainStep, ReceiveGapStep, ReceiveControlStep,
     ReceiveReplayRequestStep, AckTimerFiresStep, SendKeepAliveStep, TimersStep, EndStep
<1>2. CASE \E e \in Ends : \/ ReceiveDisconnect(e) \/ Dispose(e, <<>>)
                           \/ Dispose(e, <<Bare("Disconnect", 0)>>)
  BY <1>2, DisposeStep DEF ReceiveDisconnect
<1>3. CASE \E e \in Ends, s \in Sockets, d \in Control :
             \/ BeginAcceptReconnection(e, s, <<ControlMessage(d)>>)
             \/ AcceptReconnection(e, s, <<ControlMessage(d)>>)
  BY <1>3, BeginStep, AcceptStep
<1>4. CASE Environment
  BY <1>4, EnvironmentStep
<1>5. CASE UNCHANGED protocolVars
  <2>1. UNCHANGED <<sent, delivered, unack, outAck, inId, inAck, ackTimer, unackTimer,
                    reconnecting, asked, control, socket, gone, link, wire>>
    BY <1>5 DEF protocolVars
  <2>2. ProtocolTypeOK'
    BY <2>1 DEF ProtocolInv, ProtocolTypeOK
  <2>3. Sound(wire', sent, inId) /\ AcksAreDue' /\ \A d \in Ends : inAck'[d] <= inId[d]
    BY <2>1 DEF ProtocolInv, AcksAreDue, Counters
  <2> QED BY <2>1, <2>2, <2>3, Quiet, NothingConfirmed
<1> QED BY <1>1, <1>2, <1>3, <1>4, <1>5 DEF ProtocolNext

LEMMA ProtocolInvariant == ProtocolSpec => []ProtocolInv
BY ProtocolInit_Inv, ProtocolNext_Inv, PTL DEF ProtocolSpec

LEMMA Inv_NothingForgotten == ProtocolInv => NothingForgotten
<1> SUFFICES ASSUME ProtocolInv, NEW e \in Ends, NEW id \in inId[Other(e)] + 1..Len(sent[e])
             PROVE  \E i \in 1..Len(unack[e]) : unack[e][i].id = id
  BY DEF NothingForgotten
<1>1. /\ outAck[e] <= inId[Other(e)] /\ Other(e) \in Ends
      /\ outAck[e] + Len(unack[e]) = Len(sent[e])
      /\ \A i \in 1..Len(unack[e]) : unack[e][i].id = outAck[e] + i
  BY EndsFacts DEF ProtocolInv, Counters, Queues, Queued
<1>2. outAck[e] \in Nat /\ inId[Other(e)] \in Nat /\ Len(unack[e]) \in Nat
  BY <1>1, Types DEF NumberTypes
<1>3. id - outAck[e] \in 1..Len(unack[e]) /\ outAck[e] + (id - outAck[e]) = id
  BY <1>1, <1>2
<1> QED BY <1>1, <1>3

-----------------------------------------------------------------------------
\* A step of the message layer is a step of the channel, or none.
LEMMA ChannelStep ==
    ProtocolInv /\ [ProtocolNext]_protocolVars
    => [Channel!ChannelNext]_(Channel!channelVars)
<1> SUFFICES ASSUME ProtocolInv, [ProtocolNext]_protocolVars
             PROVE  Channel!ChannelNext \/ UNCHANGED <<sent, delivered>>
  BY DEF Channel!channelVars
<1>1. ASSUME NEW e \in Ends, Send(e)
      PROVE  Channel!Accept(e)
  <2>1. Script[e][Len(sent[e]) + 1] \in Data
    <3>1. Script[e] \in Seq(Data) /\ Len(sent[e]) + 1 \in 1..Len(Script[e])
      BY <1>1, ScriptAssumption, Types DEF Send, NumberTypes
    <3> QED BY <3>1, ElementOfSeq
  <2> QED BY <1>1, <2>1 DEF Send, Channel!Accept
<1>2. ASSUME NEW e \in Ends, ReceiveNext(e)
      PROVE  Channel!Deliver(e)
  <2>1. /\ Arrives(e, {"Regular"}) /\ Arrived(e).id = inId[e] + 1 /\ UNCHANGED sent
        /\ delivered' = [delivered EXCEPT ![e] = Append(@, Arrived(e).data)]
    BY <1>2 DEF ReceiveNext
  <2>2. /\ Arrived(e).id \in 1..Len(sent[Other(e)])
        /\ Arrived(e).data = sent[Other(e)][Arrived(e).id]
    <3>1. Arrived(e).type = "Regular" /\ Genuine(Arrived(e), sent[Other(e)], inId[Other(e)])
      BY <2>1, ArrivesFacts
    <3> QED BY <3>1 DEF Genuine
  <2>3. Len(delivered[e]) = inId[e] /\ inId[e] \in Nat
    BY Types DEF NumberTypes, ProtocolInv, Deliveries
  <2>4. Len(delivered[e]) + 1 <= Len(sent[Other(e)])
        /\ Arrived(e).data = sent[Other(e)][Len(delivered[e]) + 1]
    BY <2>1, <2>2, <2>3
  <2> QED BY <2>1, <2>4 DEF Channel!Deliver, Other
<1>3. CASE \E e \in Ends : Send(e) \/ ReceiveNext(e)
  BY <1>1, <1>2, <1>3 DEF Channel!ChannelNext, Ends
<1>4. CASE \E e \in Ends :
             \/ ReceiveAgain(e) \/ ReceiveGap(e)
             \/ ReceiveControl(e) \/ ReceiveAck(e) \/ ReceiveReplayRequest(e)
             \/ AckTimerFires(e) \/ SendKeepAlive(e) \/ UnackTimerFires(e) \/ ReplayAllowed(e)
             \/ EndAcceptReconnection(e) \/ ReceiveDisconnect(e) \/ Dispose(e, <<>>)
             \/ Dispose(e, <<Bare("Disconnect", 0)>>)
  BY <1>4 DEF ReceiveAgain, ReceiveGap, ReceiveControl, ReceiveAck, ReceiveReplayRequest,
     AckTimerFires, SendKeepAlive, UnackTimerFires, ReplayAllowed, EndAcceptReconnection,
     ReceiveDisconnect, Dispose
<1>5. CASE \E e \in Ends, s \in Sockets, d \in Control :
             \/ BeginAcceptReconnection(e, s, <<ControlMessage(d)>>)
             \/ AcceptReconnection(e, s, <<ControlMessage(d)>>)
  BY <1>5 DEF BeginAcceptReconnection, AcceptReconnection
<1>6. CASE Environment
  BY <1>6 DEF Environment
<1>7. CASE UNCHANGED protocolVars
  BY <1>7 DEF protocolVars
<1> QED BY <1>3, <1>4, <1>5, <1>6, <1>7 DEF ProtocolNext

\* The message layer keeps the promise of a reliable channel, whatever happens
\* to the sockets: what is handed on at one end is what was sent at the other,
\* once and in order.
THEOREM ProtocolIsReliable == ProtocolSpec => ImplementsChannel
<1>1. ProtocolInit => Channel!ChannelInit
  BY DEF ProtocolInit, Channel!ChannelInit, Ends
<1> QED BY <1>1, ProtocolInvariant, ChannelStep, PTL
    DEF ProtocolSpec, ImplementsChannel, Channel!ChannelSpec

-----------------------------------------------------------------------------
\* The connection runs the protocol: what the loop, the handshake and the
\* network do to the wires is what an environment may do.

Controls == {ControlMessage(d) : d \in Control}

\* Nothing on the wire r that was not on the wire q, but control messages.
Derived(r, q) ==
    /\ r \in Seq(Message)
    /\ \A i \in 1..Len(r) : r[i] \in {q[j] : j \in 1..Len(q)} \cup Controls

AllDerived(w) == \A s \in Sockets, e \in Ends : Derived(w[s][e], wire[s][e])

LEMMA DerivedSame == ASSUME NEW q \in Seq(Message) PROVE Derived(q, q)
BY DEF Derived

LEMMA DerivedTail ==
    ASSUME NEW q \in Seq(Message), q # <<>>
    PROVE  Derived(Tail(q), q)
<1>1. /\ Tail(q) \in Seq(Message)
      /\ Len(Tail(q)) = Len(q) - 1
      /\ \A i \in 1..Len(Tail(q)) : Tail(q)[i] = q[i + 1]
      /\ Len(q) \in Nat
  BY HeadTailProperties, LenProperties
<1>2. ASSUME NEW i \in 1..Len(Tail(q))
      PROVE  Tail(q)[i] \in {q[j] : j \in 1..Len(q)}
  <2>1. i + 1 \in 1..Len(q)
    BY <1>1
  <2> QED BY <1>1, <2>1
<1> QED BY <1>1, <1>2 DEF Derived

LEMMA DerivedPrefix ==
    ASSUME NEW q \in Seq(Message), NEW n \in 0..Len(q)
    PROVE  Derived(SubSeq(q, 1, n), q)
<1>1. Len(q) \in Nat /\ \A i \in 1..n : i \in 1..Len(q) /\ q[i] \in Message
  <2>1. Len(q) \in Nat
    BY LenProperties
  <2>2. \A i \in 1..n : i \in 1..Len(q)
    BY <2>1
  <2> QED BY <2>1, <2>2, ElementOfSeq
<1>2. /\ SubSeq(q, 1, n) \in Seq(Message)
      /\ Len(SubSeq(q, 1, n)) = IF 1 <= n THEN n - 1 + 1 ELSE 0
      /\ \A i \in 1..n - 1 + 1 : SubSeq(q, 1, n)[i] = q[1 + i - 1]
  <2>1. 1 \in Int /\ n \in Int
    OBVIOUS
  <2> QED BY <1>1, <2>1, SubSeqProperties
<1>3. ASSUME NEW i \in 1..Len(SubSeq(q, 1, n))
      PROVE  SubSeq(q, 1, n)[i] \in {q[j] : j \in 1..Len(q)}
  <2>1. i \in 1..n
    BY <1>2
  <2>2. i \in 1..n - 1 + 1 /\ 1 + i - 1 = i
    BY <2>1
  <2>3. SubSeq(q, 1, n)[i] = q[i]
    BY <1>2, <2>2
  <2> QED BY <1>1, <2>1, <2>3
<1> QED BY <1>2, <1>3 DEF Derived

LEMMA DerivedConcat ==
    ASSUME NEW q \in Seq(Message), NEW r, Derived(r, q),
           NEW ms \in Seq(Message), \A i \in 1..Len(ms) : ms[i] \in Controls
    PROVE  Derived(r \o ms, q)
<1>1. r \in Seq(Message)
  BY DEF Derived
<1>2. /\ r \o ms \in Seq(Message)
      /\ Len(r \o ms) = Len(r) + Len(ms)
      /\ \A i \in 1..Len(r) + Len(ms) :
            (r \o ms)[i] = IF i <= Len(r) THEN r[i] ELSE ms[i - Len(r)]
      /\ Len(r) \in Nat /\ Len(ms) \in Nat
  BY <1>1, ConcatProperties, LenProperties
<1>3. ASSUME NEW i \in 1..Len(r \o ms)
      PROVE  (r \o ms)[i] \in {q[j] : j \in 1..Len(q)} \cup Controls
  <2>1. CASE i <= Len(r)
    <3>1. i \in 1..Len(r) /\ (r \o ms)[i] = r[i]
      BY <1>2, <2>1
    <3> QED BY <3>1 DEF Derived
  <2>2. CASE i > Len(r)
    <3>1. i - Len(r) \in 1..Len(ms) /\ (r \o ms)[i] = ms[i - Len(r)]
      BY <1>2, <2>2
    <3> QED BY <3>1
  <2> QED BY <1>2, <2>1, <2>2
<1> QED BY <1>2, <1>3 DEF Derived

LEMMA DerivedWritten ==
    ASSUME NEW w \in Wires, wire \in Wires, AllDerived(w), NEW s \in Sockets, NEW e \in Ends,
           NEW ms \in Seq(Message), \A i \in 1..Len(ms) : ms[i] \in Controls
    PROVE  Written(w, s, e, ms) \in Wires /\ AllDerived(Written(w, s, e, ms))
<1>1. PICK d \in Ends : d = Other(e)
  BY EndsFacts
<1>2. wire[s][d] \in Seq(Message) /\ Derived(w[s][d], wire[s][d])
  BY <1>1 DEF AllDerived, Wires
<1>3. Derived(w[s][d] \o ms, wire[s][d])
  BY <1>2, DerivedConcat
<1>4. w[s][d] \o ms \in Seq(Message)
  BY <1>3 DEF Derived
<1>5. /\ [w EXCEPT ![s][d] = w[s][d] \o ms] \in Wires
      /\ AllDerived([w EXCEPT ![s][d] = w[s][d] \o ms])
  BY <1>3, <1>4 DEF AllDerived, Wires
<1>6. Written(w, s, e, ms) = IF link'[s] = "open" THEN [w EXCEPT ![s][d] = w[s][d] \o ms] ELSE w
  BY <1>1 DEF Written
<1> QED BY <1>5, <1>6

LEMMA DerivedSocket ==
    ASSUME wire \in Wires, NEW s \in Sockets, NEW qs,
           qs = [e \in Ends |-> qs[e]], \A e \in Ends : Derived(qs[e], wire[s][e])
    PROVE  [wire EXCEPT ![s] = qs] \in Wires /\ AllDerived([wire EXCEPT ![s] = qs])
<1>1. qs \in [Ends -> Seq(Message)]
  BY DEF Derived
<1>2. ASSUME NEW t \in Sockets, NEW e \in Ends
      PROVE  Derived([wire EXCEPT ![s] = qs][t][e], wire[t][e])
  <2>1. CASE t = s
    BY <2>1 DEF Wires
  <2>2. CASE t # s
    BY <2>2, DerivedSame DEF Wires
  <2> QED BY <2>1, <2>2
<1> QED BY <1>1, <1>2 DEF AllDerived, Wires

LEMMA DerivedWire ==
    ASSUME wire \in Wires, NEW s \in Sockets, NEW e \in Ends, wire[s][e] # <<>>
    PROVE  /\ [wire EXCEPT ![s][e] = Tail(@)] \in Wires
           /\ AllDerived([wire EXCEPT ![s][e] = Tail(@)])
<1> DEFINE w == [wire EXCEPT ![s][e] = Tail(@)]
<1>1. wire[s][e] \in Seq(Message)
  BY DEF Wires
<1>2. Derived(Tail(wire[s][e]), wire[s][e])
  BY <1>1, DerivedTail
<1>3. w \in Wires
  BY <1>2 DEF Derived, Wires
<1>4. ASSUME NEW t \in Sockets, NEW f \in Ends
      PROVE  Derived(w[t][f], wire[t][f])
  <2>1. CASE t = s /\ f = e
    BY <1>2, <2>1 DEF Wires
  <2>2. CASE ~(t = s /\ f = e)
    <3>1. w[t][f] = wire[t][f]
      BY <2>2 DEF Wires
    <3> QED BY <3>1, DerivedSame DEF Wires
  <2> QED BY <2>1, <2>2
<1> QED BY <1>3, <1>4 DEF AllDerived

LEMMA EnvironmentBy ==
    ASSUME wire' \in Wires, AllDerived(wire'),
           link' \in [Sockets -> LinkStates], control' \in [Ends -> Seq(Control)],
           UNCHANGED <<sent, delivered, unack, outAck, inId, inAck, ackTimer, unackTimer,
                       reconnecting, asked, socket, gone>>
    PROVE  Environment
BY DEF Environment, AllDerived, Derived, OnWire, Controls, Wires

LEMMA OneControl ==
    ASSUME NEW d \in Control
    PROVE  /\ <<ControlMessage(d)>> \in Seq(Message)
           /\ \A i \in 1..Len(<<ControlMessage(d)>>) : <<ControlMessage(d)>>[i] \in Controls
BY MessageFacts DEF Controls

LEMMA NoControl ==
    <<>> \in Seq(Message) /\ \A i \in 1..Len(<<>>) : <<>>[i] \in Controls
OBVIOUS

LEMMA WiresFacts ==
    ASSUME ProtocolInv
    PROVE  /\ wire \in Wires /\ AllDerived(wire)
           /\ link \in [Sockets -> LinkStates] /\ control \in [Ends -> Seq(Control)]
           /\ "c" \in Ends /\ "s" \in Ends /\ Other("s") = "c" /\ Other("c") = "s"
<1>1. wire \in Wires
  BY DEF ProtocolInv, ProtocolTypeOK, Wires
<1>2. AllDerived(wire)
  BY <1>1, DerivedSame DEF AllDerived, Wires
<1> QED BY <1>1, <1>2, EndsFacts DEF ProtocolInv, ProtocolTypeOK, Other, Channel!Other

LEMMA SignedStep ==
    ASSUME ProtocolInv, Signed
    PROVE  Environment
<1>1. /\ control["c"] # <<>>
      /\ control' = [control EXCEPT !["c"] = Tail(@)]
      /\ link' = link
      /\ wire' = Written(wire, socket["c"], "c", <<ControlMessage("connectionType")>>)
      /\ UNCHANGED <<sent, delivered, unack, outAck, inId, inAck, ackTimer, unackTimer,
                     reconnecting, asked, socket, gone>>
  BY DEF Signed, Write, ListenerCalled
<1>2. control' \in [Ends -> Seq(Control)]
  <2>1. Tail(control["c"]) \in Seq(Control)
    BY <1>1, WiresFacts, HeadTailProperties
  <2> QED BY <1>1, <2>1, WiresFacts
<1>3. wire' \in Wires /\ AllDerived(wire')
  <2>1. socket["c"] \in Sockets
    BY Types, WiresFacts DEF NumberTypes
  <2>2. "connectionType" \in Control
    BY ControlAssumption
  <2> QED BY <1>1, <2>1, <2>2, WiresFacts, OneControl, DerivedWritten
<1> QED BY <1>1, <1>2, <1>3, WiresFacts, EnvironmentBy

LEMMA HandshakeStep ==
    ASSUME ProtocolInv, NEW s \in Sockets, Authenticate(s) \/ HandshakeIgnores(s)
    PROVE  Environment
<1> DEFINE taken == [wire EXCEPT ![s]["s"] = Tail(@)]
<1>1. /\ wire[s]["s"] # <<>>
      /\ \/ wire' = Written(taken, s, "s", <<ControlMessage("sign")>>)
         \/ wire' = Written(taken, s, "s", <<>>)
      /\ UNCHANGED <<sent, delivered, unack, outAck, inId, inAck, ackTimer, unackTimer,
                     reconnecting, asked, control, socket, gone, link>>
  BY DEF Authenticate, HandshakeIgnores, Stranger, Answered
<1>2. taken \in Wires /\ AllDerived(taken)
  BY <1>1, WiresFacts, DerivedWire
<1> HIDE DEF taken
<1>3. "sign" \in Control
  BY ControlAssumption
<1>4. wire' \in Wires /\ AllDerived(wire')
  <2>1. CASE wire' = Written(taken, s, "s", <<ControlMessage("sign")>>)
    BY <1>2, <1>3, <2>1, WiresFacts, OneControl, DerivedWritten
  <2>2. CASE wire' = Written(taken, s, "s", <<>>)
    BY <1>2, <2>2, WiresFacts, NoControl, DerivedWritten
  <2> QED BY <1>1, <2>1, <2>2
<1> QED BY <1>1, <1>4, WiresFacts, EnvironmentBy

LEMMA RejectStep ==
    ASSUME ProtocolInv, NEW s \in Sockets, Reject(s)
    PROVE  Environment
<1> DEFINE qs == [d \in Ends |->
                    IF d = "s" THEN <<>>
                    ELSE IF link[s] = "open" THEN Append(wire[s][d], ControlMessage("error"))
                    ELSE wire[s][d]]
<1>1. /\ link' = [link EXCEPT ![s] = IF @ = "open" THEN "closed" ELSE @]
      /\ wire' = [wire EXCEPT ![s] = qs]
      /\ UNCHANGED <<sent, delivered, unack, outAck, inId, inAck, ackTimer, unackTimer,
                     reconnecting, asked, control, socket, gone>>
  BY DEF Reject
<1>2. ASSUME NEW d \in Ends
      PROVE  Derived(qs[d], wire[s][d])
  <2>1. wire[s][d] \in Seq(Message)
    BY WiresFacts DEF Wires
  <2>2. CASE d = "s"
    BY <2>2 DEF Derived
  <2>3. CASE d # "s" /\ link[s] = "open"
    <3>1. "error" \in Control
      BY ControlAssumption
    <3>2. ControlMessage("error") \in Message
      BY <3>1, MessageFacts
    <3>3. qs[d] = wire[s][d] \o <<ControlMessage("error")>>
      BY <2>1, <2>3, <3>2, AppendIsConcat
    <3> QED BY <2>1, <3>1, <3>3, DerivedSame, OneControl, DerivedConcat
  <2>4. CASE d # "s" /\ link[s] # "open"
    BY <2>1, <2>4, DerivedSame
  <2> QED BY <2>2, <2>3, <2>4
<1>3. qs = [d \in Ends |-> qs[d]]
  OBVIOUS
<1> HIDE DEF qs
<1>4. wire' \in Wires /\ AllDerived(wire')
  BY <1>1, <1>2, <1>3, WiresFacts, DerivedSocket
<1>5. link' \in [Sockets -> LinkStates] /\ control' \in [Ends -> Seq(Control)]
  BY <1>1, WiresFacts DEF LinkStates
<1> QED BY <1>1, <1>4, <1>5, EnvironmentBy

LEMMA BreakStep ==
    ASSUME ProtocolInv, NEW s \in Sockets, Break(s)
    PROVE  Environment
<1>1. PICK state \in {"closed", "dead"}, n \in 0..Len(wire[s]["c"]), k \in 0..Len(wire[s]["s"]) :
         /\ link' = [link EXCEPT ![s] = state]
         /\ wire' = [wire EXCEPT ![s] =
                       [e \in Ends |-> SubSeq(wire[s][e], 1, IF e = "c" THEN n ELSE k)]]
  BY DEF Break
<1> DEFINE qs == [e \in Ends |-> SubSeq(wire[s][e], 1, IF e = "c" THEN n ELSE k)]
<1>2. UNCHANGED <<sent, delivered, unack, outAck, inId, inAck, ackTimer, unackTimer,
                  reconnecting, asked, control, socket, gone>>
  BY DEF Break, Network
<1>3. ASSUME NEW d \in Ends
      PROVE  Derived(qs[d], wire[s][d])
  <2>1. wire[s][d] \in Seq(Message)
    BY WiresFacts DEF Wires
  <2>2. d = "c" \/ d = "s"
    BY EndsFacts
  <2>3. CASE d = "c"
    <3>1. qs[d] = SubSeq(wire[s][d], 1, n)
      BY <2>3
    <3> QED BY <2>1, <2>3, <3>1, DerivedPrefix
  <2>4. CASE d = "s"
    <3>1. qs[d] = SubSeq(wire[s][d], 1, k)
      BY <2>4
    <3> QED BY <2>1, <2>4, <3>1, DerivedPrefix
  <2> QED BY <2>2, <2>3, <2>4
<1>4. qs = [d \in Ends |-> qs[d]]
  OBVIOUS
<1>5. wire' = [wire EXCEPT ![s] = qs]
  BY <1>1
<1> HIDE DEF qs
<1>6. wire' \in Wires /\ AllDerived(wire')
  BY <1>3, <1>4, <1>5, WiresFacts, DerivedSocket
<1>7. link' \in [Sockets -> LinkStates] /\ control' \in [Ends -> Seq(Control)]
  BY <1>1, <1>2, WiresFacts DEF LinkStates
<1> QED BY <1>2, <1>6, <1>7, EnvironmentBy

LEMMA LossStep ==
    ASSUME ProtocolInv, NEW s \in Sockets,
           TcpGivesUp(s) \/ \E e \in Ends : LoseRegular(s, e)
    PROVE  Environment
<1>1. UNCHANGED <<sent, delivered, unack, outAck, inId, inAck, ackTimer, unackTimer,
                  reconnecting, asked, control, socket, gone>>
  BY DEF TcpGivesUp, LoseRegular, Network
<1>2. wire' \in Wires /\ AllDerived(wire')
  <2>1. CASE TcpGivesUp(s)
    BY <2>1, WiresFacts DEF TcpGivesUp
  <2>2. CASE \E e \in Ends : LoseRegular(s, e)
    BY <2>2, WiresFacts, DerivedWire DEF LoseRegular
  <2> QED BY <2>1, <2>2
<1>3. link' \in [Sockets -> LinkStates] /\ control' \in [Ends -> Seq(Control)]
  BY <1>1, WiresFacts DEF TcpGivesUp, LoseRegular, LinkStates
<1> QED BY <1>1, <1>2, <1>3, EnvironmentBy

\* The rest of the steps are calls of the protocol, or none of its business.
LEMMA ProtocolStep ==
    ProtocolInv /\ [Next]_vars => [ProtocolNext]_protocolVars
<1> SUFFICES ASSUME ProtocolInv, Next \/ UNCHANGED vars
             PROVE  ProtocolNext \/ UNCHANGED protocolVars
  OBVIOUS
<1>0. "c" \in Ends /\ "s" \in Ends /\ \A d \in {"auth", "ok"} : d \in Control
  BY WiresFacts, ControlAssumption
<1>1. CASE \E e \in Idle : Protocol(e) \/ UnackTimerEnds(e) \/ SocketTimeout(e) \/ SocketClosed(e)
  <2>1. PICK e \in Ends : Protocol(e) \/ UnackTimerEnds(e) \/ SocketTimeout(e) \/ SocketClosed(e)
    BY <1>1 DEF Idle
  <2>2. CASE Protocol(e)
    BY <2>2 DEF Protocol, ProtocolNext
  <2>3. CASE UnackTimerEnds(e) \/ SocketTimeout(e)
    BY <2>3 DEF UnackTimerEnds, SocketTimeout, ProtocolNext
  <2>4. CASE SocketClosed(e)
    BY <2>4 DEF SocketClosed
  <2> QED BY <2>1, <2>2, <2>3, <2>4
<1>2. CASE ClientNext
  <2>1. CASE Attempt
    <3> DEFINE s == CHOOSE t \in Sockets : Forgotten(t)
    <3>1. s \in Sockets /\ BeginAcceptReconnection("c", s, <<ControlMessage("auth")>>)
      BY <2>1 DEF Attempt
    <3> QED BY <1>0, <3>1 DEF ProtocolNext
  <2>2. CASE Signed
    BY <2>2, SignedStep DEF ProtocolNext
  <2>3. CASE Reconnected
    BY <1>0, <2>3 DEF Reconnected, ProtocolNext
  <2>4. CASE Refused \/ GraceTimeOver \/ Quit
    BY <1>0, <2>4 DEF Refused, GraceTimeOver, GiveUp, Quit, ProtocolNext
  <2>5. CASE AttemptTimesOut
    BY <2>5 DEF AttemptTimesOut
  <2> QED BY <1>2, <2>1, <2>2, <2>3, <2>4, <2>5 DEF ClientNext
<1>3. CASE ServerNext
  BY <1>0, <1>3 DEF ServerNext, Disconnected, GraceExpires, OtherClientConnects, ProtocolNext
<1>4. CASE \E s \in Sockets : HandshakeNext(s) \/ Break(s) \/ TcpGivesUp(s)
  <2>1. PICK s \in Sockets : HandshakeNext(s) \/ Break(s) \/ TcpGivesUp(s)
    BY <1>4
  <2>2. CASE Authenticate(s) \/ HandshakeIgnores(s) \/ Reject(s) \/ Break(s) \/ TcpGivesUp(s)
    BY <2>2, HandshakeStep, RejectStep, BreakStep, LossStep DEF ProtocolNext
  <2>3. CASE Reconnect(s)
    BY <1>0, <2>3 DEF Reconnect, ProtocolNext
  <2>4. CASE HandshakeEnds(s)
    BY <2>4 DEF HandshakeEnds
  <2> QED BY <2>1, <2>2, <2>3, <2>4 DEF HandshakeNext
<1>5. CASE \E s \in Sockets, e \in Ends : LoseRegular(s, e)
  BY <1>5, LossStep DEF ProtocolNext
<1>6. CASE UNCHANGED vars
  BY <1>6 DEF vars
<1> QED BY <1>1, <1>2, <1>3, <1>4, <1>5, <1>6 DEF Next

LEMMA ConnectionInvariant == Spec => []ProtocolInv
<1>1. Init => ProtocolInv
  BY ProtocolInit_Inv DEF Init
<1>2. ProtocolInv /\ [Next]_vars => ProtocolInv'
  BY ProtocolStep, ProtocolNext_Inv
<1> QED BY <1>1, <1>2, PTL DEF Spec

\* The whole connection, its loop, its handshakes and its network are one of
\* the environments the message layer is proved in.
THEOREM ConnectionRunsProtocol == Spec => ProtocolSpec
<1>1. Init => ProtocolInit
  BY DEF Init
<1> QED BY <1>1, ConnectionInvariant, ProtocolStep, PTL DEF Spec, ProtocolSpec

\* So the connection is a reliable channel between the window and the server,
\* over any number of sockets, breaks, losses and attempts to reconnect.
THEOREM ConnectionIsReliable == Spec => ImplementsChannel
BY ConnectionRunsProtocol, ProtocolIsReliable, PTL

\* And what has not arrived is in its sender's queue.
THEOREM ConnectionForgetsNothing == Spec => []NothingForgotten
BY ConnectionInvariant, Inv_NothingForgotten, PTL

-----------------------------------------------------------------------------
\* The types of the connection, and the grace timers.
ConnectionTypes ==
    /\ phase \in Phases
    /\ told \in [Ends -> BOOLEAN]
    /\ handshake \in [Sockets -> HandshakeStates]
    /\ long \in BOOLEAN /\ short \in BOOLEAN
    /\ faults \in 0..MaxFaults /\ losses \in 0..MaxLosses

ConnectionInv == ProtocolInv /\ ConnectionTypes /\ LostIsTimed

LEMMA OverdueTypes ==
    ASSUME ConnectionTypes, NEW s, NEW e, Overdue(s, e)
    PROVE  faults' \in 0..MaxFaults
BY BoundsAssumption DEF ConnectionTypes, Overdue

LEMMA TypesStep ==
    ConnectionInv /\ [Next]_vars => ConnectionTypes'
<1> SUFFICES ASSUME ConnectionInv, [Next]_vars
             PROVE  ConnectionTypes'
  OBVIOUS
<1> USE DEF ConnectionTypes, Phases, HandshakeStates
<1>0. ConnectionTypes /\ "c" \in Ends /\ "s" \in Ends
  BY WiresFacts DEF ConnectionInv
<1>1. CASE \E e \in Idle : Protocol(e) \/ UnackTimerEnds(e)
  BY <1>0, <1>1 DEF Protocol, UnackTimerEnds, connectionVars
<1>2. CASE \E e \in Idle : SocketTimeout(e)
  BY <1>0, <1>2, OverdueTypes DEF SocketTimeout
<1>3. CASE \E e \in Idle : SocketClosed(e)
  BY <1>0, <1>3 DEF SocketClosed, Idle
<1>4. CASE ClientNext
  BY <1>0, <1>4, OverdueTypes DEF ClientNext, Attempt, Signed, Reconnected, Refused,
     AttemptTimesOut, GraceTimeOver, GiveUp, Quit
<1>5. CASE ServerNext
  BY <1>0, <1>5 DEF ServerNext, Disconnected, GraceExpires, CleanResources,
     OtherClientConnects
<1>6. CASE \E s \in Sockets : HandshakeNext(s)
  BY <1>0, <1>6 DEF HandshakeNext, Authenticate, HandshakeIgnores, Reconnect, Reject,
     HandshakeEnds, connectionVars
<1>7. CASE \E s \in Sockets : Break(s) \/ TcpGivesUp(s)
  BY <1>0, <1>7, BoundsAssumption DEF Break, TcpGivesUp, Network
<1>8. CASE \E s \in Sockets, e \in Ends : LoseRegular(s, e)
  BY <1>0, <1>8, BoundsAssumption DEF LoseRegular, Network
<1>9. CASE UNCHANGED vars
  BY <1>0, <1>9 DEF vars, connectionVars
<1> QED BY <1>1, <1>2, <1>3, <1>4, <1>5, <1>6, <1>7, <1>8, <1>9 DEF Next

\* A closed socket of the server stays closed as long as the server has it.
LEMMA TimedStep ==
    ConnectionInv /\ [Next]_vars => LostIsTimed'
<1> SUFFICES ASSUME ConnectionInv, [Next]_vars, ~gone'["s"]
             PROVE  /\ long' <=> told'["s"]
                    /\ short' => long'
                    /\ told'["s"] => link'[socket'["s"]] = "closed"
  BY DEF LostIsTimed
<1>0. /\ told \in [Ends -> BOOLEAN] /\ "c" \in Ends /\ "s" \in Ends
      /\ link \in [Sockets -> LinkStates] /\ socket \in [Ends -> Sockets]
      /\ gone \in [Ends -> BOOLEAN]
      /\ ~gone["s"] => /\ long <=> told["s"]
                       /\ short => long
                       /\ told["s"] => link[socket["s"]] = "closed"
  BY WiresFacts DEF ConnectionInv, ConnectionTypes, LostIsTimed, ProtocolInv, ProtocolTypeOK
<1>1. ASSUME UNCHANGED <<told, long, short, socket, gone>>,
             \A s \in Sockets : link[s] = "closed" => link'[s] = "closed"
      PROVE  /\ long' <=> told'["s"]
             /\ short' => long'
             /\ told'["s"] => link'[socket'["s"]] = "closed"
  BY <1>0, <1>1
<1>2. CASE \E e \in Idle : Protocol(e) \/ UnackTimerEnds(e) \/ SocketTimeout(e)
  <2>1. UNCHANGED <<told, long, short, socket, gone, link>>
    BY <1>2 DEF Protocol, UnackTimerEnds, SocketTimeout, connectionVars, UnackTimerFires,
       Send, ReceiveNext, ReceiveAgain, ReceiveGap, ReceiveControl, ReceiveAck,
       ReceiveReplayRequest, AckTimerFires, SendKeepAlive, ReplayAllowed, Write
  <2> QED BY <1>1, <2>1
<1>3. CASE \E e \in Idle : SocketClosed(e)
  <2>1. PICK e \in Ends : SocketClosed(e)
    BY <1>3 DEF Idle
  <2>2. UNCHANGED <<short, link, socket, gone>> /\ told' = [told EXCEPT ![e] = TRUE]
        /\ link[socket[e]] = "closed" /\ IF e = "c" THEN long' = long ELSE long' = TRUE
    BY <2>1 DEF SocketClosed, protocolVars
  <2>3. e = "c" \/ e = "s"
    BY EndsFacts
  <2>4. CASE e = "c"
    BY <1>0, <2>2, <2>4
  <2>5. CASE e = "s"
    BY <1>0, <2>2, <2>5
  <2> QED BY <2>3, <2>4, <2>5
<1>4. CASE Attempt
  <2>1. /\ UNCHANGED <<long, short, gone>> /\ told' = [told EXCEPT !["c"] = FALSE]
        /\ \E s \in Sockets : /\ Forgotten(s)
                              /\ socket' = [socket EXCEPT !["c"] = s]
                              /\ link' = Replaced("c", s)
    BY <1>4 DEF Attempt, BeginAcceptReconnection
  <2>2. PICK s \in Sockets : s # socket["s"] /\ link' = Replaced("c", s)
                             /\ socket' = [socket EXCEPT !["c"] = s]
    BY <1>0, <2>1 DEF Forgotten
  <2>3. socket'["s"] = socket["s"] /\ told'["s"] = told["s"] /\ socket["s"] \in Sockets
    BY <1>0, <2>1, <2>2
  <2>4. link[socket["s"]] = "closed" => link'[socket["s"]] = "closed"
    BY <2>2, <2>3 DEF Replaced
  <2> QED BY <1>0, <2>1, <2>3, <2>4
<1>5. CASE Signed \/ Reconnected \/ AttemptTimesOut
  <2>1. UNCHANGED <<told, long, short, socket, gone, link>>
    BY <1>5 DEF Signed, Reconnected, AttemptTimesOut, EndAcceptReconnection, Write, protocolVars
  <2> QED BY <1>1, <2>1
<1>6. CASE Refused \/ GraceTimeOver \/ Quit
  <2>1. /\ UNCHANGED <<told, long, short, socket>> /\ gone' = [gone EXCEPT !["c"] = TRUE]
        /\ link' = [link EXCEPT ![socket["c"]] = IF @ = "open" THEN "closed" ELSE @]
    BY <1>6 DEF Refused, GraceTimeOver, GiveUp, Quit, Dispose
  <2>2. gone'["s"] = gone["s"]
    BY <1>0, <2>1
  <2>3. \A s \in Sockets : link[s] = "closed" => link'[s] = "closed"
    BY <1>0, <2>1
  <2> QED BY <1>0, <2>1, <2>2, <2>3
<1>7. CASE Disconnected \/ GraceExpires
  <2>1. gone' = [gone EXCEPT !["s"] = TRUE]
    BY <1>7 DEF Disconnected, ReceiveDisconnect, GraceExpires, Dispose
  <2> QED BY <1>0, <2>1
<1>8. CASE OtherClientConnects
  BY <1>0, <1>8 DEF OtherClientConnects, Shortened, protocolVars
<1>9. CASE \E s \in Sockets : HandshakeNext(s)
  <2>1. PICK s \in Sockets : HandshakeNext(s)
    BY <1>9
  <2>2. CASE Authenticate(s) \/ HandshakeIgnores(s) \/ HandshakeEnds(s)
    <3>1. UNCHANGED <<told, long, short, socket, gone, link>>
      BY <2>2 DEF Authenticate, HandshakeIgnores, HandshakeEnds, Stranger, connectionVars,
         protocolVars
    <3> QED BY <1>1, <3>1
  <2>3. CASE Reconnect(s)
    <3>1. long' = FALSE /\ short' = FALSE /\ told' = [told EXCEPT !["s"] = FALSE]
      BY <2>3 DEF Reconnect
    <3> QED BY <1>0, <3>1
  <2>4. CASE Reject(s)
    BY <1>0, <2>4 DEF Reject
  <2> QED BY <2>1, <2>2, <2>3, <2>4 DEF HandshakeNext
<1>10. CASE \E s \in Sockets : Break(s) \/ TcpGivesUp(s)
  <2>1. PICK s \in Sockets : Break(s) \/ TcpGivesUp(s)
    BY <1>10
  <2>2. /\ UNCHANGED <<told, long, short, socket, gone>>
        /\ \A t \in Sockets : link[t] = "closed" => link'[t] = "closed"
    BY <1>0, <2>1 DEF Break, TcpGivesUp, Network
  <2> QED BY <1>1, <2>2
<1>11. CASE \E s \in Sockets, e \in Ends : LoseRegular(s, e)
  <2>1. UNCHANGED <<told, long, short, socket, gone, link>>
    BY <1>11 DEF LoseRegular, Network
  <2> QED BY <1>1, <2>1
<1>12. CASE UNCHANGED vars
  <2>1. UNCHANGED <<told, long, short, socket, gone, link>>
    BY <1>12 DEF vars, connectionVars, protocolVars
  <2> QED BY <1>1, <2>1
<1> QED BY <1>2, <1>3, <1>4, <1>5, <1>6, <1>7, <1>8, <1>9, <1>10, <1>11, <1>12
    DEF Next, ClientNext, ServerNext

LEMMA ConnectionInvariants == Spec => []ConnectionInv
<1>1. Init => ConnectionInv
  <2> SUFFICES ASSUME Init PROVE ConnectionInv
    OBVIOUS
  <2>1. ProtocolInv
    BY ProtocolInit_Inv DEF Init
  <2>2. ConnectionTypes
    <3>1. phase \in Phases /\ told \in [Ends -> BOOLEAN] /\ long \in BOOLEAN /\ short \in BOOLEAN
      BY DEF Init, Phases
    <3>2. handshake \in [Sockets -> HandshakeStates]
      BY DEF Init, HandshakeStates
    <3>3. faults \in 0..MaxFaults /\ losses \in 0..MaxLosses
      BY BoundsAssumption DEF Init
    <3> QED BY <3>1, <3>2, <3>3 DEF ConnectionTypes
  <2>3. LostIsTimed
    BY WiresFacts, <2>1 DEF Init, LostIsTimed
  <2> QED BY <2>1, <2>2, <2>3 DEF ConnectionInv
<1>2. ConnectionInv /\ [Next]_vars => ConnectionInv'
  BY ProtocolStep, ProtocolNext_Inv, TypesStep, TimedStep DEF ConnectionInv
<1> QED BY <1>1, <1>2, PTL DEF Spec

\* The connection is typed, whatever its constants.
THEOREM ConnectionIsTyped == Spec => []TypeOK
<1>1. ConnectionInv => TypeOK
  BY DEF ConnectionInv, ConnectionTypes, ProtocolInv, TypeOK
<1> QED BY <1>1, ConnectionInvariants, PTL

\* The server waits for a client if and only if it has seen its socket close,
\* and a reconnection stops the wait.
THEOREM LostClientsAreTimed == Spec => []LostIsTimed
<1>1. ConnectionInv => LostIsTimed
  BY DEF ConnectionInv
<1> QED BY <1>1, ConnectionInvariants, PTL

-----------------------------------------------------------------------------
\* The timer of what the client has sent: it runs while the client is up, for
\* it then neither accepts a socket nor is disposed of.
Waits == outAck["c"] < Len(sent["c"]) => unackTimer["c"]

ClientTimed == phase = "up" => ~reconnecting["c"] /\ Waits

LEMMA ClientTypes ==
    ASSUME ProtocolInv
    PROVE  /\ outAck["c"] \in Nat /\ Len(sent["c"]) \in Nat
           /\ outAck \in [Ends -> Nat] /\ unackTimer \in [Ends -> BOOLEAN]
           /\ reconnecting \in [Ends -> BOOLEAN]
           /\ sent \in [Ends -> Seq(Data)] /\ "c" \in Ends /\ "s" \in Ends
BY Types, WiresFacts DEF NumberTypes, SequenceTypes, ProtocolInv, ProtocolTypeOK

\* An acknowledgement only ends a wait.
LEMMA ConfirmTimed ==
    ASSUME ProtocolInv, NEW e \in Ends, NEW ack \in Nat, Confirm(e, ack), Waits,
           UNCHANGED <<sent, unackTimer>>
    PROVE  Waits'
<1>1. outAck' = outAck \/ (outAck' = [outAck EXCEPT ![e] = ack] /\ ack > outAck[e])
  BY DEF Confirm
<1>2. outAck'["c"] \in Nat /\ outAck["c"] <= outAck'["c"]
  BY <1>1, ClientTypes
<1> QED BY <1>2, ClientTypes DEF Waits

\* RecvAckCheck sets it for whatever its end waits for.
LEMMA CheckTimed ==
    ASSUME ProtocolInv, NEW e \in Ends, NEW n, RecvAckCheck(e, n, FALSE),
           UNCHANGED outAck, Waits, e = "c" => n = Len(sent'["c"]),
           e # "c" => sent'["c"] = sent["c"]
    PROVE  Waits'
<1>1. unackTimer' = [unackTimer EXCEPT ![e] = @ \/ n > outAck[e]]
  BY DEF RecvAckCheck
<1>2. CASE e = "c"
  BY <1>1, <1>2, ClientTypes DEF Waits
<1>3. CASE e # "c"
  BY <1>1, <1>3, ClientTypes DEF Waits
<1> QED BY <1>2, <1>3

LEMMA ProtocolTimed ==
    ASSUME ProtocolInv, ClientTimed, NEW e \in Ends, phase = "up", Protocol(e)
    PROVE  Waits'
<1>0. Waits /\ ~reconnecting["c"]
  BY DEF ClientTimed
<1>1. CASE Send(e)
  <2>1. PICK d : sent' = [sent EXCEPT ![e] = Append(@, d)] /\ d \in Data
    <3>1. Script[e] \in Seq(Data) /\ Len(sent[e]) + 1 \in 1..Len(Script[e])
      BY <1>1, ScriptAssumption, Types DEF Send, NumberTypes
    <3>2. Script[e][Len(sent[e]) + 1] \in Data
      BY <3>1, ElementOfSeq
    <3> QED BY <1>1, <3>2 DEF Send
  <2>2. UNCHANGED outAck
    BY <1>1 DEF Send
  <2>3. CASE e = "c"
    <3>1. RecvAckCheck(e, Len(sent[e]) + 1, FALSE)
      BY <1>0, <1>1, <2>3 DEF Send
    <3>2. Len(sent'["c"]) = Len(sent["c"]) + 1
      BY <2>1, <2>3, ClientTypes, AppendProperties
    <3> QED BY <1>0, <2>2, <2>3, <3>1, <3>2, CheckTimed
  <2>4. CASE e # "c"
    <3>1. sent'["c"] = sent["c"] /\ unackTimer'["c"] = unackTimer["c"]
      BY <1>1, <2>1, <2>4, ClientTypes DEF Send, RecvAckCheck
    <3> QED BY <1>0, <2>2, <3>1 DEF Waits
  <2> QED BY <2>3, <2>4
<1>2. CASE ReceiveNext(e) \/ ReceiveAgain(e) \/ ReceiveGap(e) \/ ReceiveAck(e)
  <2>1. PICK types : Arrives(e, types) /\ Confirm(e, Arrived(e).ack)
    BY <1>2 DEF ReceiveNext, ReceiveAgain, ReceiveGap, ReceiveAck
  <2>2. Arrived(e).ack \in Nat
    BY <2>1, ArrivedAck
  <2>3. UNCHANGED <<sent, unackTimer>>
    BY <1>2 DEF ReceiveNext, ReceiveAgain, ReceiveGap, ReceiveAck
  <2> QED BY <1>0, <2>1, <2>2, <2>3, ConfirmTimed
<1>3. CASE ReceiveReplayRequest(e)
  <2>1. UNCHANGED <<sent, outAck>>
        /\ unackTimer' = [unackTimer EXCEPT ![e] = @ \/ (Len(sent[e]) > outAck[e] /\ ~reconnecting[e])]
    BY <1>3 DEF ReceiveReplayRequest, RecvAckCheck
  <2>2. unackTimer["c"] => unackTimer'["c"]
    BY <2>1, ClientTypes
  <2> QED BY <1>0, <2>1, <2>2 DEF Waits
<1>4. CASE ReceiveControl(e) \/ AckTimerFires(e) \/ SendKeepAlive(e) \/ ReplayAllowed(e)
  <2>1. UNCHANGED <<sent, outAck, unackTimer>>
    BY <1>4 DEF ReceiveControl, AckTimerFires, SendKeepAlive, ReplayAllowed
  <2> QED BY <1>0, <2>1 DEF Waits
<1> QED BY <1>1, <1>2, <1>3, <1>4 DEF Protocol

LEMMA TimerStep ==
    ProtocolInv /\ ClientTimed /\ [Next]_vars => ClientTimed'
<1> SUFFICES ASSUME ProtocolInv, ClientTimed, [Next]_vars, phase' = "up"
             PROVE  ~reconnecting'["c"] /\ Waits'
  BY DEF ClientTimed
<1>0. phase = "up" => ~reconnecting["c"] /\ Waits
  BY DEF ClientTimed
<1>1. ASSUME UNCHANGED <<phase, reconnecting, sent, outAck>>,
             unackTimer'["c"] = unackTimer["c"]
      PROVE  ~reconnecting'["c"] /\ Waits'
  BY <1>0, <1>1 DEF Waits
<1>2. CASE \E e \in Idle : Protocol(e)
  <2>1. PICK e \in Ends : Protocol(e)
    BY <1>2 DEF Idle
  <2>2. UNCHANGED <<phase, reconnecting>>
    BY <2>1 DEF Protocol, connectionVars, Send, ReceiveNext, ReceiveAgain, ReceiveGap,
       ReceiveControl, ReceiveAck, ReceiveReplayRequest, AckTimerFires, SendKeepAlive,
       ReplayAllowed
  <2>3. phase = "up"
    BY <2>2
  <2> QED BY <1>0, <2>1, <2>2, <2>3, ProtocolTimed
<1>3. CASE \E e \in Idle : UnackTimerEnds(e) \/ SocketTimeout(e)
  <2>1. PICK e \in Ends : UnackTimerEnds(e) \/ SocketTimeout(e)
    BY <1>3 DEF Idle
  <2>2. UNCHANGED <<sent, outAck, reconnecting>> /\ unackTimer' = [unackTimer EXCEPT ![e] = FALSE]
    BY <2>1 DEF UnackTimerEnds, SocketTimeout, UnackTimerFires
  <2>3. phase = "up"
    BY <2>1 DEF UnackTimerEnds, SocketTimeout, connectionVars
  <2>4. CASE e = "c"
    <3>1. UnackTimerEnds("c")
      BY <2>1, <2>3, <2>4 DEF SocketTimeout
    <3>2. ~(outAck["c"] < Len(sent["c"]))
      BY <1>0, <2>3, <3>1, ClientTypes DEF UnackTimerEnds
    <3> QED BY <1>0, <2>2, <2>3, <3>2 DEF Waits
  <2>5. CASE e # "c"
    BY <1>0, <2>2, <2>3, <2>5, ClientTypes DEF Waits
  <2> QED BY <2>4, <2>5
<1>4. CASE \E e \in Idle : SocketClosed(e)
  <2>1. UNCHANGED <<sent, outAck, reconnecting, unackTimer>> /\ phase = "up"
    BY <1>4 DEF SocketClosed, protocolVars
  <2> QED BY <1>0, <2>1 DEF Waits
<1>5. CASE Attempt \/ Signed \/ Refused \/ AttemptTimesOut \/ GraceTimeOver \/ Quit
  BY <1>5 DEF Attempt, Signed, Refused, AttemptTimesOut, GraceTimeOver, GiveUp, Quit
<1>6. CASE Reconnected
  <2>1. /\ RecvAckCheck("c", Len(sent["c"]), FALSE) /\ UNCHANGED <<sent, outAck>>
        /\ reconnecting' = [reconnecting EXCEPT !["c"] = FALSE]
    BY <1>6 DEF Reconnected, EndAcceptReconnection
  <2>2. unackTimer' = [unackTimer EXCEPT !["c"] = @ \/ Len(sent["c"]) > outAck["c"]]
    BY <2>1 DEF RecvAckCheck
  <2> QED BY <2>1, <2>2, ClientTypes DEF Waits
<1>7. CASE Disconnected \/ GraceExpires
  <2>1. UNCHANGED <<sent, outAck, reconnecting, phase>>
        /\ unackTimer' = [unackTimer EXCEPT !["s"] = FALSE]
    BY <1>7 DEF Disconnected, ReceiveDisconnect, GraceExpires, Dispose, CleanResources
  <2> QED BY <1>1, <2>1, ClientTypes
<1>8. CASE OtherClientConnects \/ \E s \in Sockets : HandshakeEnds(s)
  BY <1>1, <1>8 DEF OtherClientConnects, HandshakeEnds, protocolVars
<1>9. CASE \E s \in Sockets : Reconnect(s)
  <2>1. PICK s \in Sockets : AcceptReconnection("s", s, <<ControlMessage("ok")>>)
    BY <1>9 DEF Reconnect
  <2>2. UNCHANGED <<sent, outAck, phase>>
        /\ reconnecting' = [reconnecting EXCEPT !["s"] = FALSE]
        /\ unackTimer'["c"] = unackTimer["c"]
    BY <1>9, <2>1, ClientTypes DEF Reconnect, AcceptReconnection, RecvAckCheck
  <2>3. reconnecting'["c"] = reconnecting["c"]
    BY <2>2, ClientTypes
  <2> QED BY <1>0, <2>2, <2>3 DEF Waits
<1>10. CASE \E s \in Sockets : \/ Authenticate(s) \/ HandshakeIgnores(s) \/ Reject(s)
                               \/ Break(s) \/ TcpGivesUp(s)
  BY <1>1, <1>10 DEF Authenticate, HandshakeIgnores, Reject, Break, TcpGivesUp, Stranger,
     Network, connectionVars
<1>11. CASE \E s \in Sockets, e \in Ends : LoseRegular(s, e)
  BY <1>1, <1>11 DEF LoseRegular, Network
<1>12. CASE UNCHANGED vars
  BY <1>1, <1>12 DEF vars, connectionVars, protocolVars
<1> QED BY <1>2, <1>3, <1>4, <1>5, <1>6, <1>7, <1>8, <1>9, <1>10, <1>11, <1>12
    DEF Next, ClientNext, ServerNext, HandshakeNext

\* No acknowledgement is owed without the timer that will send it, and none is
\* waited for by a client that is up without the timer that will notice.
THEOREM AcknowledgementsAreTimed == Spec => []AcksAreTimed
<1>1. Init => ClientTimed
  <2> SUFFICES ASSUME Init PROVE ~reconnecting["c"] /\ Waits
    BY DEF ClientTimed
  <2>1. "c" \in Ends
    BY EndsFacts
  <2>2. sent["c"] = <<>> /\ outAck["c"] = 0 /\ ~reconnecting["c"]
    BY <2>1 DEF Init, ProtocolInit
  <2> QED BY <2>2 DEF Waits
<1>2. ProtocolInv /\ ClientTimed => AcksAreTimed
  BY ClientTypes DEF ProtocolInv, ClientTimed, Waits, AcksAreTimed
<1> QED BY <1>1, <1>2, TimerStep, ConnectionInvariant, PTL DEF Spec

\* No wait of either end is left without its timer (ipc.net.ts 1091-1182,
\* remoteExtensionManagement.ts 51-127).
THEOREM WaitsAreTimed == Spec => []OwedIsTimed
<1>1. AcksAreTimed /\ LostIsTimed => OwedIsTimed
  BY DEF OwedIsTimed
<1> QED BY <1>1, AcknowledgementsAreTimed, LostClientsAreTimed, PTL

-----------------------------------------------------------------------------
\* The handshake as the client sees it: what is on its way between it and the
\* server on its current socket, at each point of its loop.
ToClient == wire[socket["c"]]["c"]
FromClient == wire[socket["c"]]["s"]

\* Where a queue has control messages.
ControlsAt(q) == {i \in 1..Len(q) : q[i].type = "Control"}

Heard == socket["c"] = socket["s"] \/ link[socket["c"]] # "open"

\* One sign request at most is on its way or has come, and nothing else; none
\* does before the server has read what the client began with, and the client
\* has written nothing else.
AwaitsSign ==
    phase = "sign" =>
        /\ \A i \in ControlsAt(ToClient) : ToClient[i].data = "sign"
        /\ \A i \in 1..Len(control["c"]) : control["c"][i] = "sign"
        /\ \A i, j \in ControlsAt(ToClient) : i = j
        /\ \A i, j \in ControlsAt(FromClient) : i = j
        /\ Len(control["c"]) <= 1
        /\ control["c"] # <<>> => ControlsAt(ToClient) = {}
        /\ IF handshake[socket["c"]] = "auth"
           THEN ControlsAt(ToClient) = {} /\ control["c"] = <<>>
           ELSE ControlsAt(FromClient) = {}

\* An answer says what is the case: ok, that the server has taken the socket
\* over, which only a break or a later take-over ends; error, that it has
\* disposed of the connection.
TrueAnswer(d) ==
    \/ d = "ok" /\ Heard
    \/ d = "error" /\ gone["s"]

AwaitsAnswer ==
    phase = "answer" =>
        /\ handshake[socket["c"]] # "auth"
        /\ \A i \in ControlsAt(ToClient) : TrueAnswer(ToClient[i].data)
        /\ \A i \in 1..Len(control["c"]) : TrueAnswer(control["c"][i])

HandshakeInv == AwaitsSign /\ AwaitsAnswer /\ ClientIsHeard

\* The control messages of r are those of q, or fewer, and in their order.
Fewer(r, q) ==
    \E k \in 0..1 : \A i \in ControlsAt(r) : i + k \in ControlsAt(q) /\ r[i] = q[i + k]

LEMMA FewerFacts ==
    ASSUME NEW q \in Seq(Message), NEW r \in Seq(Message), Fewer(r, q)
    PROVE  /\ ControlsAt(q) = {} => ControlsAt(r) = {}
           /\ (\A i, j \in ControlsAt(q) : i = j) => \A i, j \in ControlsAt(r) : i = j
           /\ \A i \in ControlsAt(r) : \E j \in ControlsAt(q) : r[i] = q[j]
<1>1. PICK k \in 0..1 :
         \A i \in ControlsAt(r) : i + k \in ControlsAt(q) /\ r[i] = q[i + k]
  BY DEF Fewer
<1>2. \A i \in ControlsAt(r) : i \in Int
  BY LenProperties DEF ControlsAt
<1> QED BY <1>1, <1>2

LEMMA FewerSame == ASSUME NEW q \in Seq(Message) PROVE Fewer(q, q)
<1>1. \A i \in ControlsAt(q) : i + 0 = i
  BY LenProperties DEF ControlsAt
<1>2. 0 \in 0..1
  OBVIOUS
<1> QED BY <1>1, <1>2 DEF Fewer

LEMMA FewerEmpty ==
    ASSUME NEW r, NEW q, ControlsAt(r) = {} PROVE Fewer(r, q)
<1>1. 0 \in 0..1
  OBVIOUS
<1> QED BY <1>1 DEF Fewer

LEMMA FewerTail ==
    ASSUME NEW q \in Seq(Message), q # <<>>
    PROVE  /\ Tail(q) \in Seq(Message) /\ Fewer(Tail(q), q)
           /\ Head(q) = q[1] /\ 1 \in 1..Len(q)
           /\ \A i \in ControlsAt(Tail(q)) : i + 1 \in ControlsAt(q) /\ Tail(q)[i] = q[i + 1]
<1>1. /\ Tail(q) \in Seq(Message) /\ Head(q) = q[1]
      /\ Len(Tail(q)) = Len(q) - 1
      /\ \A i \in 1..Len(Tail(q)) : Tail(q)[i] = q[i + 1]
      /\ Len(q) \in Nat /\ Len(q) # 0
  BY HeadTailProperties, LenProperties, EmptySeq
<1>2. ASSUME NEW i \in ControlsAt(Tail(q))
      PROVE  i + 1 \in ControlsAt(q) /\ Tail(q)[i] = q[i + 1]
  <2>1. i \in 1..Len(Tail(q)) /\ Tail(q)[i].type = "Control"
    BY DEF ControlsAt
  <2>2. i + 1 \in 1..Len(q) /\ Tail(q)[i] = q[i + 1]
    BY <1>1, <2>1
  <2> QED BY <2>1, <2>2 DEF ControlsAt
<1>3. 1 \in 0..1 /\ 1 \in 1..Len(q)
  BY <1>1
<1> QED BY <1>1, <1>2, <1>3 DEF Fewer

LEMMA FewerPrefix ==
    ASSUME NEW q \in Seq(Message), NEW n \in 0..Len(q)
    PROVE  SubSeq(q, 1, n) \in Seq(Message) /\ Fewer(SubSeq(q, 1, n), q)
<1>1. Len(q) \in Nat /\ \A i \in 1..n : i \in 1..Len(q) /\ q[i] \in Message
  <2>1. Len(q) \in Nat
    BY LenProperties
  <2>2. \A i \in 1..n : i \in 1..Len(q)
    BY <2>1
  <2> QED BY <2>1, <2>2, ElementOfSeq
<1>2. /\ SubSeq(q, 1, n) \in Seq(Message)
      /\ Len(SubSeq(q, 1, n)) = IF 1 <= n THEN n - 1 + 1 ELSE 0
      /\ \A i \in 1..n - 1 + 1 : SubSeq(q, 1, n)[i] = q[1 + i - 1]
  <2>1. 1 \in Int /\ n \in Int
    OBVIOUS
  <2> QED BY <1>1, <2>1, SubSeqProperties
<1>3. ASSUME NEW i \in ControlsAt(SubSeq(q, 1, n))
      PROVE  i + 0 \in ControlsAt(q) /\ SubSeq(q, 1, n)[i] = q[i + 0]
  <2>1. i \in 1..n /\ SubSeq(q, 1, n)[i].type = "Control"
    BY <1>2 DEF ControlsAt
  <2>2. i \in 1..n - 1 + 1 /\ 1 + i - 1 = i /\ i + 0 = i
    BY <2>1
  <2>3. SubSeq(q, 1, n)[i] = q[i]
    BY <1>2, <2>2
  <2> QED BY <1>1, <2>1, <2>2, <2>3 DEF ControlsAt
<1>4. 0 \in 0..1
  OBVIOUS
<1> QED BY <1>2, <1>3, <1>4 DEF Fewer

LEMMA ConcatControls ==
    ASSUME NEW r \in Seq(Message), NEW ms \in Seq(Message), ControlsAt(ms) = {}
    PROVE  /\ r \o ms \in Seq(Message)
           /\ ControlsAt(r \o ms) = ControlsAt(r)
           /\ \A i \in ControlsAt(r) : (r \o ms)[i] = r[i]
<1>1. /\ r \o ms \in Seq(Message)
      /\ Len(r \o ms) = Len(r) + Len(ms)
      /\ \A i \in 1..Len(r) + Len(ms) :
            (r \o ms)[i] = IF i <= Len(r) THEN r[i] ELSE ms[i - Len(r)]
      /\ Len(r) \in Nat /\ Len(ms) \in Nat
  BY ConcatProperties, LenProperties
<1>2. ASSUME NEW i \in ControlsAt(r)
      PROVE  i \in ControlsAt(r \o ms) /\ (r \o ms)[i] = r[i]
  <2>1. i \in 1..Len(r) /\ r[i].type = "Control"
    BY DEF ControlsAt
  <2>2. i \in 1..Len(r) + Len(ms) /\ i <= Len(r)
    BY <1>1, <2>1
  <2> QED BY <1>1, <2>1, <2>2 DEF ControlsAt
<1>3. ASSUME NEW i \in ControlsAt(r \o ms)
      PROVE  i \in ControlsAt(r)
  <2>1. i \in 1..Len(r) + Len(ms) /\ (r \o ms)[i].type = "Control"
    BY <1>1 DEF ControlsAt
  <2>2. CASE i <= Len(r)
    <3>1. i \in 1..Len(r) /\ (r \o ms)[i] = r[i]
      BY <1>1, <2>1, <2>2
    <3> QED BY <2>1, <3>1 DEF ControlsAt
  <2>3. CASE ~(i <= Len(r))
    <3>1. i - Len(r) \in 1..Len(ms) /\ (r \o ms)[i] = ms[i - Len(r)]
      BY <1>1, <2>1, <2>3
    <3>2. i - Len(r) \in ControlsAt(ms)
      BY <2>1, <3>1 DEF ControlsAt
    <3> QED BY <3>2
  <2> QED BY <2>2, <2>3
<1> QED BY <1>1, <1>2, <1>3

LEMMA FewerConcat ==
    ASSUME NEW q, NEW r \in Seq(Message), NEW ms \in Seq(Message),
           Fewer(r, q), ControlsAt(ms) = {}
    PROVE  r \o ms \in Seq(Message) /\ Fewer(r \o ms, q)
<1>1. PICK k \in 0..1 :
         \A i \in ControlsAt(r) : i + k \in ControlsAt(q) /\ r[i] = q[i + k]
  BY DEF Fewer
<1>2. \A i \in ControlsAt(r \o ms) : i + k \in ControlsAt(q) /\ (r \o ms)[i] = q[i + k]
  <2> DEFINE c == r \o ms
  <2>1. ControlsAt(c) = ControlsAt(r) /\ \A i \in ControlsAt(r) : c[i] = r[i]
    BY ConcatControls
  <2> HIDE DEF c
  <2>2. \A i \in ControlsAt(c) : i + k \in ControlsAt(q) /\ c[i] = q[i + k]
    BY <1>1, <2>1
  <2> QED BY <2>2 DEF c
<1> QED BY <1>2, ConcatControls DEF Fewer

LEMMA OneMessage ==
    ASSUME NEW m
    PROVE  ControlsAt(<<m>>) = IF m.type = "Control" THEN {1} ELSE {}
<1>1. 1..Len(<<m>>) = {1} /\ <<m>>[1] = m
  OBVIOUS
<1> QED BY <1>1 DEF ControlsAt

\* The control messages on every wire are those that were, or fewer.
AllFewer(w) ==
    /\ w \in Wires
    /\ \A s \in Sockets, e \in Ends : Fewer(w[s][e], wire[s][e])

LEMMA FewerWire ==
    ASSUME NEW w, AllFewer(w), NEW s \in Sockets, NEW e \in Ends,
           NEW r \in Seq(Message), Fewer(r, wire[s][e])
    PROVE  AllFewer([w EXCEPT ![s][e] = r])
<1> DEFINE v == [w EXCEPT ![s][e] = r]
<1>1. v \in Wires
  BY DEF AllFewer, Wires
<1>2. ASSUME NEW t \in Sockets, NEW f \in Ends
      PROVE  Fewer(v[t][f], wire[t][f])
  <2>1. CASE t = s /\ f = e
    <3>1. v[t][f] = r
      BY <2>1 DEF AllFewer, Wires
    <3> QED BY <2>1, <3>1
  <2>2. CASE ~(t = s /\ f = e)
    <3>1. v[t][f] = w[t][f]
      BY <2>2 DEF AllFewer, Wires
    <3> QED BY <3>1 DEF AllFewer
  <2> QED BY <2>1, <2>2
<1> QED BY <1>1, <1>2 DEF AllFewer

LEMMA FewerSocket ==
    ASSUME ProtocolInv, NEW s \in Sockets, NEW qs \in [Ends -> Seq(Message)],
           \A e \in Ends : Fewer(qs[e], wire[s][e])
    PROVE  AllFewer([wire EXCEPT ![s] = qs])
<1> DEFINE v == [wire EXCEPT ![s] = qs]
<1>1. v \in Wires
  BY WiresFacts DEF Wires
<1>2. ASSUME NEW t \in Sockets, NEW f \in Ends
      PROVE  Fewer(v[t][f], wire[t][f])
  <2>1. wire[t][f] \in Seq(Message)
    BY WiresFacts DEF Wires
  <2>2. CASE t = s
    BY <2>2, WiresFacts DEF Wires
  <2>3. CASE t # s
    <3>1. v[t][f] = wire[t][f]
      BY <2>3, WiresFacts DEF Wires
    <3> QED BY <2>1, <3>1, FewerSame
  <2> QED BY <2>2, <2>3
<1> QED BY <1>1, <1>2 DEF AllFewer

LEMMA FewerWritten ==
    ASSUME NEW w, AllFewer(w), NEW s \in Sockets, NEW e \in Ends,
           NEW ms \in Seq(Message), ControlsAt(ms) = {}
    PROVE  AllFewer(Written(w, s, e, ms))
<1>1. PICK d \in Ends : d = Other(e)
  BY EndsFacts
<1>2. w[s][d] \in Seq(Message) /\ Fewer(w[s][d], wire[s][d])
  BY <1>1 DEF AllFewer, Wires
<1>3. w[s][d] \o ms \in Seq(Message) /\ Fewer(w[s][d] \o ms, wire[s][d])
  BY <1>2, FewerConcat
<1>4. AllFewer([w EXCEPT ![s][d] = w[s][d] \o ms])
  BY <1>3, FewerWire
<1>5. Written(w, s, e, ms) = IF link'[s] = "open" THEN [w EXCEPT ![s][d] = w[s][d] \o ms] ELSE w
  BY <1>1 DEF Written
<1> QED BY <1>4, <1>5

LEMMA FewerUnchanged == ASSUME ProtocolInv PROVE AllFewer(wire)
BY WiresFacts, FewerSame DEF AllFewer, Wires

\* One message is read from a wire.
LEMMA FewerRead ==
    ASSUME ProtocolInv, NEW s \in Sockets, NEW e \in Ends, wire[s][e] # <<>>
    PROVE  AllFewer([wire EXCEPT ![s][e] = Tail(@)])
<1>1. wire[s][e] \in Seq(Message)
  BY WiresFacts DEF Wires
<1>2. Tail(wire[s][e]) \in Seq(Message) /\ Fewer(Tail(wire[s][e]), wire[s][e])
  BY <1>1, FewerTail
<1>3. AllFewer([wire EXCEPT ![s][e] = Tail(wire[s][e])])
  BY <1>2, FewerUnchanged, FewerWire
<1> QED BY <1>3

LEMMA NoControlsIn ==
    ASSUME ProtocolInv, NEW e \in Ends
    PROVE  /\ <<>> \in Seq(Message) /\ ControlsAt(<<>>) = {}
           /\ unack[e] \in Seq(Message) /\ ControlsAt(unack[e]) = {}
           /\ Resumption(e) \in Seq(Message) /\ ControlsAt(Resumption(e)) = {}
           /\ \A t \in {"Ack", "KeepAlive", "ReplayRequest", "Disconnect"}, ack \in {0, inId[e]} :
                <<Bare(t, ack)>> \in Seq(Message) /\ ControlsAt(<<Bare(t, ack)>>) = {}
<1>1. <<>> \in Seq(Message) /\ ControlsAt(<<>>) = {}
  BY DEF ControlsAt
<1>2. unack[e] \in Seq(Message) /\ ControlsAt(unack[e]) = {}
  <2>1. \A i \in 1..Len(unack[e]) : unack[e][i].type = "Regular"
    BY DEF ProtocolInv, Queues, Queued
  <2> QED BY <2>1, QueueGenuine DEF ControlsAt
<1>3. ASSUME NEW t \in {"Ack", "KeepAlive", "ReplayRequest", "Disconnect"},
             NEW ack \in {0, inId[e]}
      PROVE  <<Bare(t, ack)>> \in Seq(Message) /\ ControlsAt(<<Bare(t, ack)>>) = {}
  <2>1. ack \in Nat
    BY Types DEF NumberTypes
  <2>2. Bare(t, ack).type # "Control"
    BY <2>1, MessageFacts
  <2> QED BY <2>2, OwnMessage, OneMessage
<1>4. Resumption(e) \in Seq(Message) /\ ControlsAt(Resumption(e)) = {}
  <2>1. <<Bare("Ack", inId[e])>> \in Seq(Message) /\ ControlsAt(<<Bare("Ack", inId[e])>>) = {}
    BY <1>3
  <2> QED BY <1>2, <2>1, ConcatControls DEF Resumption
<1> QED BY <1>1, <1>2, <1>3, <1>4


\* Steps that put no control message on any wire.
LEMMA DisposeFewer ==
    ASSUME ProtocolInv, NEW e \in Ends,
           NEW farewell \in {<<>>, <<Bare("Disconnect", 0)>>}, Dispose(e, farewell)
    PROVE  AllFewer(wire')
<1> DEFINE s == socket[e]
           qs == [d \in Ends |-> IF d = e THEN <<>>
                                 ELSE IF link[s] = "open" THEN wire[s][d] \o farewell
                                 ELSE wire[s][d]]
<1>1. s \in Sockets /\ wire' = [wire EXCEPT ![s] = qs]
  BY Types DEF NumberTypes, Dispose
<1>2. farewell \in Seq(Message) /\ ControlsAt(farewell) = {}
  BY NoControlsIn
<1>3. ASSUME NEW d \in Ends
      PROVE  qs[d] \in Seq(Message) /\ Fewer(qs[d], wire[s][d])
  <2>1. wire[s][d] \in Seq(Message)
    BY <1>1, WiresFacts DEF Wires
  <2>2. CASE d = e
    <3>1. qs[d] = <<>>
      BY <2>2
    <3> QED BY <3>1, NoControlsIn, FewerEmpty
  <2>3. CASE d # e
    <3>1. wire[s][d] \o farewell \in Seq(Message) /\ Fewer(wire[s][d] \o farewell, wire[s][d])
      BY <1>2, <2>1, FewerSame, FewerConcat
    <3>2. qs[d] = IF link[s] = "open" THEN wire[s][d] \o farewell ELSE wire[s][d]
      BY <2>3
    <3> QED BY <2>1, <3>1, <3>2, FewerSame
  <2> QED BY <2>2, <2>3
<1>4. qs \in [Ends -> Seq(Message)]
  BY <1>3
<1> HIDE DEF s, qs
<1> QED BY <1>1, <1>3, <1>4, FewerSocket

LEMMA ProtocolFewer ==
    ASSUME ProtocolInv, NEW e \in Ends, Protocol(e)
    PROVE  AllFewer(wire')
<1>0. socket[e] \in Sockets /\ AllFewer(wire)
  BY Types, FewerUnchanged DEF NumberTypes
<1>1. ASSUME NEW types, Arrives(e, types)
      PROVE  AllFewer(Taken(e))
  <2>1. wire[socket[e]][e] # <<>>
    BY <1>1 DEF Arrives, Incoming
  <2> QED BY <1>0, <2>1, FewerRead DEF Taken
<1>2. CASE Send(e)
  <2>1. PICK m : /\ m \in Message /\ m.type = "Regular"
                 /\ wire' = wire \/ wire' = Written(wire, socket[e], e, <<m>>)
    <3> DEFINE id == Len(sent[e]) + 1
               m == Regular(id, inId[e], Script[e][id])
    <3>1. id \in Nat /\ inId[e] \in Nat /\ id \in 1..Len(Script[e]) /\ Script[e] \in Seq(Data)
      BY <1>2, ScriptAssumption, Types DEF Send, NumberTypes
    <3>2. m \in Message /\ m.type = "Regular"
      BY <3>1, ElementOfSeq, MessageFacts
    <3>3. wire' = wire \/ wire' = Written(wire, socket[e], e, <<m>>)
      BY <1>2 DEF Send, Write
    <3> QED BY <3>2, <3>3
  <2>2. <<m>> \in Seq(Message) /\ ControlsAt(<<m>>) = {}
    BY <2>1, OneMessage
  <2> QED BY <1>0, <2>1, <2>2, FewerWritten
<1>3. CASE ReceiveNext(e) \/ ReceiveAgain(e) \/ ReceiveControl(e) \/ ReceiveAck(e)
  BY <1>1, <1>3 DEF ReceiveNext, ReceiveAgain, ReceiveControl, ReceiveAck
<1>4. CASE ReceiveGap(e)
  <2>1. AllFewer(Taken(e))
    BY <1>1, <1>4 DEF ReceiveGap
  <2>2. AllFewer(Written(Taken(e), socket[e], e, <<Bare("ReplayRequest", 0)>>))
    BY <1>0, <2>1, NoControlsIn, FewerWritten
  <2> QED BY <1>4, <2>1, <2>2 DEF ReceiveGap
<1>5. CASE ReceiveReplayRequest(e)
  <2>1. AllFewer(Taken(e))
    BY <1>1, <1>5 DEF ReceiveReplayRequest
  <2>2. AllFewer(Written(Taken(e), socket[e], e, unack[e]))
    BY <1>0, <2>1, NoControlsIn, FewerWritten
  <2> QED BY <1>5, <2>2 DEF ReceiveReplayRequest
<1>6. CASE AckTimerFires(e) \/ SendKeepAlive(e)
  <2>1. AllFewer(Written(wire, socket[e], e, <<Bare("Ack", inId[e])>>))
    BY <1>0, NoControlsIn, FewerWritten
  <2>2. AllFewer(Written(wire, socket[e], e, <<Bare("KeepAlive", inId[e])>>))
    BY <1>0, NoControlsIn, FewerWritten
  <2> QED BY <1>0, <1>6, <2>1, <2>2 DEF AckTimerFires, SendKeepAlive, Write
<1>7. CASE ReplayAllowed(e)
  BY <1>0, <1>7 DEF ReplayAllowed
<1> QED BY <1>2, <1>3, <1>4, <1>5, <1>6, <1>7 DEF Protocol

LEMMA BreakFewer ==
    ASSUME ProtocolInv, NEW s \in Sockets, Break(s)
    PROVE  AllFewer(wire')
<1>1. PICK n \in 0..Len(wire[s]["c"]), k \in 0..Len(wire[s]["s"]) :
         wire' = [wire EXCEPT ![s] =
                    [e \in Ends |-> SubSeq(wire[s][e], 1, IF e = "c" THEN n ELSE k)]]
  BY DEF Break
<1> DEFINE qs == [e \in Ends |-> SubSeq(wire[s][e], 1, IF e = "c" THEN n ELSE k)]
<1>2. ASSUME NEW d \in Ends
      PROVE  qs[d] \in Seq(Message) /\ Fewer(qs[d], wire[s][d])
  <2>1. wire[s][d] \in Seq(Message)
    BY WiresFacts DEF Wires
  <2>2. d = "c" \/ d = "s"
    BY EndsFacts
  <2>3. CASE d = "c"
    <3>1. qs[d] = SubSeq(wire[s][d], 1, n)
      BY <2>3
    <3> QED BY <2>1, <2>3, <3>1, FewerPrefix
  <2>4. CASE d = "s"
    <3>1. qs[d] = SubSeq(wire[s][d], 1, k)
      BY <2>4
    <3> QED BY <2>1, <2>4, <3>1, FewerPrefix
  <2> QED BY <2>2, <2>3, <2>4
<1>3. qs \in [Ends -> Seq(Message)]
  BY <1>2
<1>4. wire' = [wire EXCEPT ![s] = qs]
  BY <1>1
<1> HIDE DEF qs
<1> QED BY <1>2, <1>3, <1>4, FewerSocket

-----------------------------------------------------------------------------
\* A step that adds no control message to the client's socket, and leaves the
\* client's loop where it is or where it waits for nothing.
Calm ==
    /\ socket'["c"] = socket["c"] /\ control'["c"] = control["c"]
    /\ wire' \in Wires
    /\ \A d \in Ends : Fewer(wire'[socket["c"]][d], wire[socket["c"]][d])
    /\ Heard => Heard'
    /\ gone["s"] => gone'["s"]
    /\ handshake'[socket["c"]] = handshake[socket["c"]]
       \/ /\ handshake'[socket["c"]] # "auth"
          /\ handshake[socket["c"]] = "auth" => ControlsAt(wire'[socket["c"]]["s"]) = {}
    /\ phase' = phase \/ phase' \notin {"sign", "answer", "up"}

LEMMA CalmStep ==
    ASSUME ProtocolInv, HandshakeInv, Calm
    PROVE  HandshakeInv'
<1> DEFINE c == socket["c"]
<1>1. /\ socket'["c"] = c /\ control'["c"] = control["c"]
      /\ Heard => Heard'
      /\ gone["s"] => gone'["s"]
      /\ handshake'[c] = handshake[c]
         \/ /\ handshake'[c] # "auth"
            /\ handshake[c] = "auth" => ControlsAt(wire'[c]["s"]) = {}
      /\ phase' \in {"sign", "answer", "up"} => phase' = phase
  BY DEF Calm
<1>2. /\ wire[c]["c"] \in Seq(Message) /\ wire'[c]["c"] \in Seq(Message)
      /\ wire[c]["s"] \in Seq(Message) /\ wire'[c]["s"] \in Seq(Message)
      /\ Fewer(wire'[c]["c"], wire[c]["c"]) /\ Fewer(wire'[c]["s"], wire[c]["s"])
  BY Types, WiresFacts DEF NumberTypes, Wires, Calm
<1>3. ToClient = wire[c]["c"] /\ FromClient = wire[c]["s"]
      /\ ToClient' = wire'[c]["c"] /\ FromClient' = wire'[c]["s"]
  BY <1>1 DEF ToClient, FromClient
<1>4. /\ ControlsAt(ToClient) = {} => ControlsAt(ToClient') = {}
      /\ (\A i, j \in ControlsAt(ToClient) : i = j) => \A i, j \in ControlsAt(ToClient') : i = j
      /\ \A i \in ControlsAt(ToClient') : \E j \in ControlsAt(ToClient) : ToClient'[i] = ToClient[j]
  <2> DEFINE q == wire[c]["c"]
             r == wire'[c]["c"]
  <2>1. q \in Seq(Message) /\ r \in Seq(Message) /\ Fewer(r, q) /\ ToClient = q /\ ToClient' = r
    BY <1>2, <1>3
  <2> HIDE DEF q, r
  <2>2. /\ ControlsAt(q) = {} => ControlsAt(r) = {}
        /\ (\A i, j \in ControlsAt(q) : i = j) => \A i, j \in ControlsAt(r) : i = j
        /\ \A i \in ControlsAt(r) : \E j \in ControlsAt(q) : r[i] = q[j]
    BY <2>1, FewerFacts
  <2> QED BY <2>1, <2>2
<1>5. /\ ControlsAt(FromClient) = {} => ControlsAt(FromClient') = {}
      /\ (\A i, j \in ControlsAt(FromClient) : i = j) => \A i, j \in ControlsAt(FromClient') : i = j
  BY <1>2, <1>3, FewerFacts
<1> DEFINE StillTrue(d) == (d = "ok" /\ Heard') \/ (d = "error" /\ gone'["s"])
<1>6. \A d : TrueAnswer(d) => StillTrue(d)
  BY <1>1 DEF TrueAnswer
<1> HIDE DEF c
<1>7. AwaitsSign'
  <2> SUFFICES ASSUME phase' = "sign"
               PROVE  /\ \A i \in ControlsAt(ToClient') : ToClient'[i].data = "sign"
                      /\ \A i \in 1..Len(control'["c"]) : control'["c"][i] = "sign"
                      /\ \A i, j \in ControlsAt(ToClient') : i = j
                      /\ \A i, j \in ControlsAt(FromClient') : i = j
                      /\ Len(control'["c"]) <= 1
                      /\ control'["c"] # <<>> => ControlsAt(ToClient') = {}
                      /\ IF handshake'[c] = "auth"
                         THEN ControlsAt(ToClient') = {} /\ control'["c"] = <<>>
                         ELSE ControlsAt(FromClient') = {}
    BY <1>1 DEF AwaitsSign, ControlsAt
  <2>1. /\ \A i \in ControlsAt(ToClient) : ToClient[i].data = "sign"
        /\ \A i \in 1..Len(control["c"]) : control["c"][i] = "sign"
        /\ \A i, j \in ControlsAt(ToClient) : i = j
        /\ \A i, j \in ControlsAt(FromClient) : i = j
        /\ Len(control["c"]) <= 1
        /\ control["c"] # <<>> => ControlsAt(ToClient) = {}
        /\ IF handshake[c] = "auth"
           THEN ControlsAt(ToClient) = {} /\ control["c"] = <<>>
           ELSE ControlsAt(FromClient) = {}
    BY <1>1 DEF HandshakeInv, AwaitsSign, c
  <2>2. \A i \in ControlsAt(ToClient') : ToClient'[i].data = "sign"
    BY <1>4, <2>1
  <2>3. IF handshake'[c] = "auth"
        THEN ControlsAt(ToClient') = {} /\ control'["c"] = <<>>
        ELSE ControlsAt(FromClient') = {}
    BY <1>1, <1>3, <1>4, <1>5, <2>1
  <2> QED BY <1>1, <1>4, <1>5, <2>1, <2>2, <2>3
<1>8. AwaitsAnswer'
  <2> SUFFICES ASSUME phase' = "answer"
               PROVE  /\ handshake'[c] # "auth"
                      /\ \A i \in ControlsAt(ToClient') : StillTrue(ToClient'[i].data)
                      /\ \A i \in 1..Len(control'["c"]) : StillTrue(control'["c"][i])
    BY <1>1 DEF AwaitsAnswer, ControlsAt, TrueAnswer
  <2>1. /\ handshake[c] # "auth"
        /\ \A i \in ControlsAt(ToClient) : TrueAnswer(ToClient[i].data)
        /\ \A i \in 1..Len(control["c"]) : TrueAnswer(control["c"][i])
    BY <1>1 DEF HandshakeInv, AwaitsAnswer, c
  <2>2. \A i \in ControlsAt(ToClient') : StillTrue(ToClient'[i].data)
    <3> HIDE DEF StillTrue
    <3> QED BY <1>4, <1>6, <2>1
  <2>3. \A i \in 1..Len(control'["c"]) : StillTrue(control'["c"][i])
    <3> HIDE DEF StillTrue
    <3> QED BY <1>1, <1>6, <2>1
  <2> QED BY <1>1, <2>1, <2>2, <2>3
<1>9. ClientIsHeard'
  BY <1>1 DEF HandshakeInv, ClientIsHeard, Heard
<1> QED BY <1>7, <1>8, <1>9 DEF HandshakeInv


\* Most steps are calm because they leave the sockets where they are.
LEMMA CalmWhen ==
    ASSUME ProtocolInv, AllFewer(wire'), UNCHANGED socket, control'["c"] = control["c"],
           \A t \in Sockets : link[t] # "open" => link'[t] # "open",
           gone["s"] => gone'["s"], UNCHANGED handshake,
           phase' = phase \/ phase' \notin {"sign", "answer", "up"}
    PROVE  Calm
<1>1. socket["c"] \in Sockets
  BY Types, WiresFacts DEF NumberTypes
<1>2. wire' \in Wires /\ \A d \in Ends : Fewer(wire'[socket["c"]][d], wire[socket["c"]][d])
  BY <1>1 DEF AllFewer
<1>3. Heard => Heard'
  BY <1>1 DEF Heard
<1> QED BY <1>2, <1>3 DEF Calm

LEMMA DisposeLinks ==
    ASSUME ProtocolInv, NEW e \in Ends, NEW farewell, Dispose(e, farewell)
    PROVE  /\ UNCHANGED <<socket, control>>
           /\ \A t \in Sockets : link[t] # "open" => link'[t] # "open"
           /\ gone["s"] => gone'["s"]
<1>1. /\ UNCHANGED <<socket, control>>
      /\ link' = [link EXCEPT ![socket[e]] = IF @ = "open" THEN "closed" ELSE @]
      /\ gone' = [gone EXCEPT ![e] = TRUE]
  BY DEF Dispose
<1>2. \A t \in Sockets : link[t] # "open" => link'[t] # "open"
  BY <1>1, WiresFacts
<1>3. gone["s"] => gone'["s"]
  BY <1>1, WiresFacts DEF ProtocolInv, ProtocolTypeOK
<1> QED BY <1>1, <1>2, <1>3

LEMMA CalmEvents ==
    ASSUME ProtocolInv, NEW e \in Ends,
           \/ Protocol(e) /\ ~(e = "c" /\ ReceiveControl(e))
           \/ UnackTimerEnds(e) \/ SocketTimeout(e) \/ SocketClosed(e)
    PROVE  Calm
<1>1. CASE Protocol(e) /\ ~(e = "c" /\ ReceiveControl(e))
  <2>1. AllFewer(wire')
    BY <1>1, ProtocolFewer
  <2>2. UNCHANGED <<socket, link, gone, handshake, phase>>
    BY <1>1 DEF Protocol, connectionVars, Send, ReceiveNext, ReceiveAgain, ReceiveGap,
       ReceiveControl, ReceiveAck, ReceiveReplayRequest, AckTimerFires, SendKeepAlive,
       ReplayAllowed, Write
  <2>3. control'["c"] = control["c"]
    <3>1. CASE ReceiveControl(e)
      <4>1. e # "c" /\ \E d : control' = [control EXCEPT ![e] = d]
        BY <1>1, <3>1 DEF ReceiveControl
      <4> QED BY <4>1, WiresFacts
    <3>2. CASE ~ReceiveControl(e)
      BY <1>1, <3>2 DEF Protocol, Send, ReceiveNext, ReceiveAgain, ReceiveGap, ReceiveAck,
         ReceiveReplayRequest, AckTimerFires, SendKeepAlive, ReplayAllowed
    <3> QED BY <3>1, <3>2
  <2> QED BY <2>1, <2>2, <2>3, CalmWhen
<1>2. CASE UnackTimerEnds(e) \/ SocketTimeout(e) \/ SocketClosed(e)
  <2>1. UNCHANGED <<socket, link, gone, handshake, control, wire>>
        /\ phase' \in {phase, "sleep"}
    BY <1>2 DEF UnackTimerEnds, SocketTimeout, SocketClosed, UnackTimerFires, connectionVars,
       protocolVars
  <2> QED BY <2>1, FewerUnchanged, CalmWhen
<1> QED BY <1>1, <1>2

LEMMA CalmEnds ==
    ASSUME ProtocolInv, \/ Refused \/ GraceTimeOver \/ Quit \/ AttemptTimesOut
                        \/ Disconnected \/ GraceExpires \/ OtherClientConnects
    PROVE  Calm
<1>0. "c" \in Ends /\ "s" \in Ends
  BY WiresFacts
<1>1. CASE Refused \/ GraceTimeOver \/ Quit \/ Disconnected \/ GraceExpires
  <2>1. PICK e \in Ends, farewell \in {<<>>, <<Bare("Disconnect", 0)>>} : Dispose(e, farewell)
    BY <1>0, <1>1 DEF Refused, GraceTimeOver, GiveUp, Quit, Disconnected, ReceiveDisconnect,
       GraceExpires
  <2>2. UNCHANGED handshake /\ phase' \in {phase, "failed", "quit"}
    BY <1>1 DEF Refused, GraceTimeOver, GiveUp, Quit, Disconnected, GraceExpires, CleanResources
  <2> QED BY <2>1, <2>2, DisposeFewer, DisposeLinks, CalmWhen
<1>2. CASE AttemptTimesOut \/ OtherClientConnects
  <2>1. UNCHANGED <<socket, link, gone, handshake, control, wire>>
        /\ phase' \in {phase, "sleep"}
    BY <1>2 DEF AttemptTimesOut, OtherClientConnects, protocolVars
  <2> QED BY <2>1, FewerUnchanged, CalmWhen
<1> QED BY <1>1, <1>2

LEMMA CalmNetwork ==
    ASSUME ProtocolInv, NEW s \in Sockets,
           Break(s) \/ TcpGivesUp(s) \/ \E e \in Ends : LoseRegular(s, e)
    PROVE  Calm
<1>1. UNCHANGED <<socket, control, gone, handshake, phase>>
  BY DEF Break, TcpGivesUp, LoseRegular, Network
<1>2. \A t \in Sockets : link[t] # "open" => link'[t] # "open"
  BY WiresFacts DEF Break, TcpGivesUp, LoseRegular
<1>3. AllFewer(wire')
  BY BreakFewer, FewerUnchanged, FewerRead DEF TcpGivesUp, LoseRegular
<1> QED BY <1>1, <1>2, <1>3, CalmWhen

\* A step of the handshake on s, or of its end, does not touch another socket.
LEMMA CalmElsewhere ==
    ASSUME ProtocolInv, NEW s \in Sockets, s # socket["c"], handshake \in [Sockets -> HandshakeStates],
           Authenticate(s) \/ Reject(s)
    PROVE  Calm
<1>1. socket["c"] \in Sockets /\ wire \in Wires /\ link \in [Sockets -> LinkStates]
  BY Types, WiresFacts DEF NumberTypes
<1>2. wire' \in Wires
  BY HandshakeStep, RejectStep DEF Environment, Wires
<1>3. wire'[socket["c"]] = wire[socket["c"]]
  BY <1>1 DEF Authenticate, Reject, Answered, Written, Wires
<1>4. \A d \in Ends : Fewer(wire'[socket["c"]][d], wire[socket["c"]][d])
  BY <1>1, <1>3, FewerSame DEF Wires
<1>5. UNCHANGED <<socket, control, gone, phase>> /\ link'[socket["c"]] = link[socket["c"]]
  BY <1>1 DEF Authenticate, Reject, Stranger
<1>6. handshake'[socket["c"]] = handshake[socket["c"]]
  BY <1>1 DEF Authenticate, Reject
<1> QED BY <1>2, <1>4, <1>5, <1>6 DEF Calm, Heard

LEMMA CalmHandshakes ==
    ASSUME ProtocolInv, NEW s \in Sockets, handshake \in [Sockets -> HandshakeStates],
           HandshakeIgnores(s) \/ HandshakeEnds(s)
    PROVE  Calm
<1>0. /\ socket["c"] \in Sockets /\ wire \in Wires
  BY Types, WiresFacts DEF NumberTypes
<1>1. CASE HandshakeIgnores(s)
  <2>1. wire[s]["s"] # <<>> /\ wire' = Answered(s, <<>>)
        /\ UNCHANGED <<socket, link, control, gone, phase, handshake>>
    BY <1>1 DEF HandshakeIgnores, Stranger, connectionVars
  <2>2. AllFewer([wire EXCEPT ![s]["s"] = Tail(@)])
    BY <2>1, WiresFacts, FewerRead
  <2>3. AllFewer(wire')
    BY <2>1, <2>2, WiresFacts, NoControlsIn, FewerWritten DEF Answered
  <2> QED BY <2>1, <2>3, CalmWhen
<1>2. CASE HandshakeEnds(s)
  <2>1. UNCHANGED <<socket, link, control, gone, phase, wire>>
        /\ wire[s]["s"] = <<>> /\ handshake' = [handshake EXCEPT ![s] = "none"]
    BY <1>2 DEF HandshakeEnds, protocolVars
  <2>2. \A d \in Ends : Fewer(wire'[socket["c"]][d], wire[socket["c"]][d])
    BY <1>0, <2>1, FewerSame DEF Wires
  <2>3. handshake'[socket["c"]] = handshake[socket["c"]]
        \/ /\ handshake'[socket["c"]] # "auth"
           /\ handshake[socket["c"]] = "auth" => ControlsAt(wire'[socket["c"]]["s"]) = {}
    BY <1>0, <2>1, NoControlsIn, WiresFacts
  <2> QED BY <1>0, <2>1, <2>2, <2>3 DEF Calm, Heard
<1> QED BY <1>1, <1>2


\* The steps that are not calm, one by one.
LEMMA AttemptHeard ==
    ASSUME ProtocolInv, handshake \in [Sockets -> HandshakeStates], Attempt
    PROVE  HandshakeInv'
<1>1. PICK s \in Sockets : /\ BeginAcceptReconnection("c", s, <<ControlMessage("auth")>>)
                           /\ handshake' = [handshake EXCEPT ![s] = "auth"]
                           /\ phase' = "sign"
  BY DEF Attempt
<1>2. "c" \in Ends /\ "s" \in Ends /\ socket["c"] \in Sockets /\ wire \in Wires
      /\ socket \in [Ends -> Sockets] /\ control \in [Ends -> Seq(Control)]
  BY Types, WiresFacts DEF NumberTypes, ProtocolInv, ProtocolTypeOK
<1>3. socket'["c"] = s /\ control'["c"] = <<>> /\ handshake'[s] = "auth"
  BY <1>1, <1>2 DEF BeginAcceptReconnection
<1>4. wire'[s]["c"] = <<>> /\ wire'[s]["s"] = <<ControlMessage("auth")>>
  <2>1. Unread("c") \in [Sockets -> [Ends -> Seq(Message)]]
    BY <1>2, NoControlsIn DEF Unread, Wires
  <2>2. wire' = [Unread("c") EXCEPT ![s] =
                   [d \in Ends |-> IF d = "c" THEN <<>> ELSE <<ControlMessage("auth")>>]]
    BY <1>1 DEF BeginAcceptReconnection
  <2> QED BY <1>2, <2>1, <2>2
<1>5. ControlsAt(wire'[s]["c"]) = {} /\ \A i, j \in ControlsAt(wire'[s]["s"]) : i = j
  <2>1. ControlsAt(<<>>) = {}
    BY <1>2, NoControlsIn
  <2>2. \A i, j \in ControlsAt(<<ControlMessage("auth")>>) : i = j
    BY OneMessage
  <2> QED BY <1>4, <2>1, <2>2
<1>6. ToClient' = wire'[s]["c"] /\ FromClient' = wire'[s]["s"]
  BY <1>3 DEF ToClient, FromClient
<1>7. AwaitsSign'
  <2>1. ControlsAt(ToClient)' = {} /\ (\A i, j \in ControlsAt(FromClient) : i = j)'
    BY <1>5, <1>6 DEF ControlsAt
  <2>2. Len(control'["c"]) = 0
    BY <1>3
  <2> QED BY <1>3, <2>1, <2>2 DEF AwaitsSign
<1> QED BY <1>1, <1>7 DEF HandshakeInv, AwaitsAnswer, ClientIsHeard

LEMMA ControlHeard ==
    ASSUME ProtocolInv, HandshakeInv, ReceiveControl("c"), UNCHANGED connectionVars,
           ~ListenerCalled
    PROVE  HandshakeInv'
<1> DEFINE q == wire[socket["c"]]["c"]
           d == Head(q).data
<1>1. "c" \in Ends /\ "s" \in Ends /\ socket["c"] \in Sockets /\ wire \in Wires
      /\ control \in [Ends -> Seq(Control)] /\ q \in Seq(Message) /\ control["c"] \in Seq(Control)
  BY Types, WiresFacts DEF NumberTypes, Wires
<1>2. /\ q # <<>> /\ Head(q).type = "Control"
      /\ control' = [control EXCEPT !["c"] = Append(@, d)]
      /\ wire' = [wire EXCEPT ![socket["c"]]["c"] = Tail(@)]
      /\ UNCHANGED <<socket, link, gone, phase, handshake>>
  BY DEF ReceiveControl, Arrives, Arrived, Incoming, Taken, connectionVars
<1>3. /\ Head(q) = q[1] /\ 1 \in ControlsAt(q)
      /\ \A i \in ControlsAt(Tail(q)) : i + 1 \in ControlsAt(q) /\ Tail(q)[i] = q[i + 1]
      /\ Tail(q) \in Seq(Message)
  BY <1>1, <1>2, FewerTail DEF ControlsAt
<1>4. wire'[socket["c"]]["c"] = Tail(q) /\ wire'[socket["c"]]["s"] = wire[socket["c"]]["s"]
  BY <1>1, <1>2 DEF Wires
<1>5. ToClient = q /\ ToClient' = Tail(q) /\ FromClient' = FromClient
      /\ control'["c"] = Append(control["c"], d)
  BY <1>1, <1>2, <1>4 DEF ToClient, FromClient
<1>6. d = q[1].data
  BY <1>3
<1> HIDE DEF q, d
<1>7. CASE phase = "sign"
  <2>1. /\ \A i \in ControlsAt(q) : q[i].data = "sign"
        /\ \A i, j \in ControlsAt(q) : i = j
        /\ \A i, j \in ControlsAt(FromClient) : i = j
        /\ ~(handshake[socket["c"]] = "auth")
        /\ control["c"] = <<>>
        /\ ControlsAt(FromClient) = {}
    BY <1>3, <1>5, <1>7 DEF HandshakeInv, AwaitsSign
  <2>2. ControlsAt(Tail(q)) = {}
    <3> SUFFICES ASSUME NEW i \in ControlsAt(Tail(q)) PROVE FALSE
      OBVIOUS
    <3>1. i + 1 = 1
      BY <1>3, <2>1
    <3>2. i \in 1..Len(Tail(q))
      BY DEF ControlsAt
    <3> QED BY <3>1, <3>2
  <2>3. d = "sign"
    BY <1>3, <1>6, <2>1
  <2>4. control'["c"] = <<d>>
    BY <1>5, <2>1
  <2>5. Len(control'["c"]) = 1 /\ \A i \in 1..Len(control'["c"]) : control'["c"][i] = d
    BY <2>4
  <2>6. ControlsAt(ToClient)' = {} /\ ControlsAt(FromClient)' = {}
    BY <1>5, <2>1, <2>2 DEF ControlsAt
  <2>7. AwaitsSign'
    BY <1>2, <2>1, <2>3, <2>5, <2>6 DEF AwaitsSign
  <2> QED BY <1>2, <1>7, <2>7 DEF HandshakeInv, AwaitsAnswer, ClientIsHeard
<1>8. CASE phase = "answer"
  <2>1. /\ handshake[socket["c"]] # "auth"
        /\ \A i \in ControlsAt(q) : TrueAnswer(q[i].data)
        /\ \A i \in 1..Len(control["c"]) : TrueAnswer(control["c"][i])
    BY <1>5, <1>8 DEF HandshakeInv, AwaitsAnswer
  <2>2. TrueAnswer(d) /\ \A i \in ControlsAt(Tail(q)) : TrueAnswer(Tail(q)[i].data)
    BY <1>3, <1>6, <2>1
  <2>3. \A i \in 1..Len(control'["c"]) : TrueAnswer(control'["c"][i])
    <3>1. control'["c"] = <<d>>
      <4>1. control["c"] = <<>>
        BY <1>8 DEF ListenerCalled
      <4> QED BY <1>5, <4>1
    <3>2. \A i \in 1..Len(control'["c"]) : control'["c"][i] = d
      BY <3>1
    <3> QED BY <2>2, <3>2
  <2>4. Heard' <=> Heard
    BY <1>2 DEF Heard
  <2>5. AwaitsAnswer'
    <3>1. handshake'[socket'["c"]] # "auth"
      BY <1>2, <2>1
    <3>2. \A i \in ControlsAt(ToClient') :
             (ToClient'[i].data = "ok" /\ Heard') \/ (ToClient'[i].data = "error" /\ gone'["s"])
      BY <1>2, <1>5, <2>2, <2>4 DEF TrueAnswer
    <3>3. \A i \in 1..Len(control'["c"]) :
             (control'["c"][i] = "ok" /\ Heard') \/ (control'["c"][i] = "error" /\ gone'["s"])
      BY <1>2, <2>3, <2>4 DEF TrueAnswer
    <3> QED BY <3>1, <3>2, <3>3 DEF AwaitsAnswer, TrueAnswer, ControlsAt
  <2> QED BY <1>2, <1>8, <2>5 DEF HandshakeInv, AwaitsSign, ClientIsHeard
<1>9. CASE phase \notin {"sign", "answer"}
  <2>1. Heard' <=> Heard
    BY <1>2 DEF Heard
  <2> QED BY <1>2, <1>9, <2>1 DEF HandshakeInv, AwaitsSign, AwaitsAnswer, ClientIsHeard, Heard
<1> QED BY <1>7, <1>8, <1>9

LEMMA SignedHeard ==
    ASSUME ProtocolInv, HandshakeInv, handshake \in [Sockets -> HandshakeStates], Signed
    PROVE  HandshakeInv'
<1>1. "c" \in Ends /\ "s" \in Ends /\ socket["c"] \in Sockets /\ wire \in Wires
      /\ control \in [Ends -> Seq(Control)] /\ Other("c") = "s" /\ control["c"] \in Seq(Control)
  BY Types, WiresFacts DEF NumberTypes
<1>2. /\ phase = "sign" /\ control["c"] # <<>>
      /\ control' = [control EXCEPT !["c"] = Tail(@)]
      /\ wire' = Written(wire, socket["c"], "c", <<ControlMessage("connectionType")>>)
      /\ phase' = "answer" /\ UNCHANGED <<socket, handshake>>
  BY DEF Signed, ListenerCalled, Write
<1>3. /\ handshake[socket["c"]] # "auth" /\ ControlsAt(ToClient) = {} /\ Len(control["c"]) <= 1
  BY <1>2 DEF HandshakeInv, AwaitsSign
<1>4. Len(control'["c"]) = 0
  <2>1. Len(control["c"]) \in Nat /\ Len(control["c"]) # 0
        /\ Len(Tail(control["c"])) = Len(control["c"]) - 1
    BY <1>1, <1>2, HeadTailProperties, LenProperties, EmptySeq
  <2> QED BY <1>1, <1>2, <1>3, <2>1
<1>5. ToClient' = ToClient
  BY <1>1, <1>2 DEF ToClient, Written, Wires
<1>6. ControlsAt(ToClient)' = {}
  BY <1>3, <1>5 DEF ControlsAt
<1>7. AwaitsAnswer'
  BY <1>2, <1>3, <1>4, <1>6 DEF AwaitsAnswer
<1> QED BY <1>2, <1>7 DEF HandshakeInv, AwaitsSign, ClientIsHeard

LEMMA ReconnectedHeard ==
    ASSUME ProtocolInv, HandshakeInv, Reconnected
    PROVE  HandshakeInv'
<1>1. /\ phase = "answer" /\ control["c"] # <<>> /\ Head(control["c"]) # "error"
      /\ UNCHANGED <<socket, link>> /\ phase' = "up"
  BY DEF Reconnected, ListenerCalled, EndAcceptReconnection, Write
<1>2. 1 \in 1..Len(control["c"]) /\ Head(control["c"]) = control["c"][1]
  <2>1. control["c"] \in Seq(Control)
    BY WiresFacts
  <2> QED BY <1>1, <2>1, HeadTailProperties, LenProperties, EmptySeq
<1>3. Heard
  BY <1>1, <1>2 DEF HandshakeInv, AwaitsAnswer, TrueAnswer
<1> QED BY <1>1, <1>3 DEF HandshakeInv, AwaitsSign, AwaitsAnswer, ClientIsHeard, Heard

\* What a message appended to a queue adds to it.
LEMMA AppendControls ==
    ASSUME NEW r \in Seq(Message), NEW m \in Message
    PROVE  /\ r \o <<m>> \in Seq(Message)
           /\ \A i \in ControlsAt(r \o <<m>>) :
                 \/ i \in ControlsAt(r) /\ (r \o <<m>>)[i] = r[i]
                 \/ i = Len(r) + 1 /\ (r \o <<m>>)[i] = m
<1>1. <<m>> \in Seq(Message) /\ Len(<<m>>) = 1 /\ <<m>>[1] = m
  OBVIOUS
<1>2. /\ r \o <<m>> \in Seq(Message)
      /\ Len(r \o <<m>>) = Len(r) + 1
      /\ \A i \in 1..Len(r) + 1 :
            (r \o <<m>>)[i] = IF i <= Len(r) THEN r[i] ELSE <<m>>[i - Len(r)]
      /\ Len(r) \in Nat
  BY <1>1, ConcatProperties, LenProperties
<1>3. ASSUME NEW i \in ControlsAt(r \o <<m>>)
      PROVE  \/ i \in ControlsAt(r) /\ (r \o <<m>>)[i] = r[i]
             \/ i = Len(r) + 1 /\ (r \o <<m>>)[i] = m
  <2>1. i \in 1..Len(r) + 1 /\ (r \o <<m>>)[i].type = "Control"
    BY <1>2 DEF ControlsAt
  <2>2. CASE i <= Len(r)
    <3>1. i \in 1..Len(r) /\ (r \o <<m>>)[i] = r[i]
      BY <1>2, <2>1, <2>2
    <3> QED BY <2>1, <3>1 DEF ControlsAt
  <2>3. CASE ~(i <= Len(r))
    <3>1. i = Len(r) + 1 /\ i - Len(r) = 1
      BY <1>2, <2>1, <2>3
    <3> QED BY <1>1, <1>2, <2>1, <2>3, <3>1
  <2> QED BY <2>2, <2>3
<1> QED BY <1>2, <1>3


LEMMA AuthenticateHeard ==
    ASSUME ProtocolInv, HandshakeInv, handshake \in [Sockets -> HandshakeStates],
           Authenticate(socket["c"])
    PROVE  HandshakeInv'
<1> DEFINE c == socket["c"]
           m == ControlMessage("sign")
<1>1. "c" \in Ends /\ "s" \in Ends /\ c \in Sockets /\ wire \in Wires /\ Other("s") = "c"
      /\ wire[c]["s"] \in Seq(Message) /\ wire[c]["c"] \in Seq(Message)
  BY Types, WiresFacts DEF NumberTypes, Wires
<1>2. /\ handshake[c] = "auth" /\ wire[c]["s"] # <<>> /\ Head(wire[c]["s"]).type = "Control"
      /\ wire' = Written([wire EXCEPT ![c]["s"] = Tail(@)], c, "s", <<m>>)
      /\ handshake' = [handshake EXCEPT ![c] = "connectionType"]
      /\ UNCHANGED <<socket, link, gone, phase, control>>
  BY DEF Authenticate, Request, Answered, Stranger
<1>3. m \in Message /\ m.data = "sign"
  <2>1. "sign" \in Control
    BY ControlAssumption
  <2> QED BY <2>1, MessageFacts
<1> HIDE DEF m
<1>4. /\ wire'[c]["s"] = Tail(wire[c]["s"])
      /\ wire'[c]["c"] = wire[c]["c"] \/ wire'[c]["c"] = wire[c]["c"] \o <<m>>
  BY <1>1, <1>2 DEF Written, Wires
<1>5. ToClient = wire[c]["c"] /\ FromClient = wire[c]["s"]
      /\ ToClient' = wire'[c]["c"] /\ FromClient' = wire'[c]["s"] /\ handshake'[c] # "auth"
  BY <1>1, <1>2 DEF ToClient, FromClient
<1> HIDE DEF c
<1>6. phase # "answer"
  BY <1>2 DEF HandshakeInv, AwaitsAnswer, c
<1>7. CASE phase = "sign"
  <2>1. /\ \A i, j \in ControlsAt(FromClient) : i = j
        /\ ControlsAt(ToClient) = {} /\ control["c"] = <<>>
    BY <1>2, <1>7 DEF HandshakeInv, AwaitsSign, c
  <2>2. ControlsAt(FromClient') = {}
    <3>1. /\ Head(wire[c]["s"]) = wire[c]["s"][1] /\ 1 \in 1..Len(wire[c]["s"])
          /\ \A i \in ControlsAt(Tail(wire[c]["s"])) : i + 1 \in ControlsAt(wire[c]["s"])
      BY <1>1, <1>2, FewerTail
    <3>2. 1 \in ControlsAt(FromClient)
      BY <1>2, <1>5, <3>1 DEF ControlsAt
    <3> SUFFICES ASSUME NEW i \in ControlsAt(FromClient') PROVE FALSE
      OBVIOUS
    <3>3. i + 1 = 1
      BY <1>4, <1>5, <2>1, <3>1, <3>2
    <3>4. i \in 1..Len(FromClient')
      BY DEF ControlsAt
    <3> QED BY <3>3, <3>4
  <2>3. \A i \in ControlsAt(ToClient') : ToClient'[i] = m /\ i = Len(wire[c]["c"]) + 1
    <3>1. CASE ToClient' = wire[c]["c"]
      BY <1>5, <2>1, <3>1
    <3>2. CASE ToClient' = wire[c]["c"] \o <<m>>
      BY <1>1, <1>3, <1>5, <2>1, <3>2, AppendControls
    <3> QED BY <1>4, <1>5, <3>1, <3>2
  <2>4. /\ \A i \in ControlsAt(ToClient') : ToClient'[i].data = "sign"
        /\ \A i, j \in ControlsAt(ToClient') : i = j
    BY <1>3, <2>3
  <2>5. Len(control'["c"]) = 0 /\ control'["c"] = <<>>
    BY <1>2, <2>1
  <2>6. /\ (\A i \in ControlsAt(ToClient) : ToClient[i].data = "sign")'
        /\ (\A i, j \in ControlsAt(ToClient) : i = j)'
        /\ (ControlsAt(FromClient) = {})'
    BY <2>2, <2>4 DEF ControlsAt
  <2>7. handshake'[socket'["c"]] # "auth"
    BY <1>2, <1>5 DEF c
  <2>8. AwaitsSign'
    BY <2>5, <2>6, <2>7 DEF AwaitsSign
  <2> QED BY <1>2, <1>7, <2>8 DEF HandshakeInv, AwaitsAnswer, ClientIsHeard
<1>8. CASE phase \notin {"sign", "answer"}
  BY <1>2, <1>8 DEF HandshakeInv, AwaitsSign, AwaitsAnswer, ClientIsHeard
<1> QED BY <1>6, <1>7, <1>8

LEMMA Regrouped ==
    ASSUME NEW a \in Seq(Message), NEW b \in Seq(Message), NEW c \in Seq(Message)
    PROVE  a \o (b \o c) = (a \o b) \o c
<1>1. (a \o b) \o c = a \o (b \o c)
  BY ConcatAssociative
<1> QED BY <1>1

\* A server that reads the connection type has been sent it by a client that
\* waits for the answer, or has left the socket.
LEMMA AsksFirst ==
    ASSUME ProtocolInv, HandshakeInv, handshake[socket["c"]] = "connectionType",
           wire[socket["c"]]["s"] # <<>>, Request(socket["c"]).type = "Control"
    PROVE  phase # "sign"
<1>1. wire[socket["c"]]["s"] \in Seq(Message)
  BY Types, WiresFacts DEF NumberTypes, Wires
<1>2. 1 \in ControlsAt(FromClient)
  BY <1>1, FewerTail DEF Request, ControlsAt, FromClient
<1> QED BY <1>2 DEF HandshakeInv, AwaitsSign

\* What the server's last words of a handshake on the client's socket say is so.
LEMMA AnswerHeard ==
    ASSUME ProtocolInv, HandshakeInv, phase # "sign", NEW m \in Message, NEW ms \in Seq(Message),
           ControlsAt(ms) = {}, m.data = "ok" => Heard', m.data = "error" => gone'["s"],
           m.data \in {"ok", "error"}, Heard => Heard', gone["s"] => gone'["s"],
           UNCHANGED phase, socket'["c"] = socket["c"], control'["c"] = control["c"],
           handshake'[socket["c"]] # "auth",
           ToClient' = ToClient \/ ToClient' = (ToClient \o <<m>>) \o ms
    PROVE  HandshakeInv'
<1>1. ToClient \in Seq(Message)
  BY Types, WiresFacts DEF NumberTypes, Wires, ToClient
<1> DEFINE StillTrue(d) == (d = "ok" /\ Heard') \/ (d = "error" /\ gone'["s"])
<1>2. CASE phase = "answer"
  <2>1. /\ \A i \in ControlsAt(ToClient) : TrueAnswer(ToClient[i].data)
        /\ \A i \in 1..Len(control["c"]) : TrueAnswer(control["c"][i])
    BY <1>2 DEF HandshakeInv, AwaitsAnswer
  <2>2. (\A d : TrueAnswer(d) => StillTrue(d)) /\ StillTrue(m.data)
    BY DEF TrueAnswer
  <2> HIDE DEF StillTrue
  <2>3. \A i \in 1..Len(control'["c"]) : StillTrue(control'["c"][i])
    BY <2>1, <2>2
  <2>4. \A i \in ControlsAt(ToClient') : StillTrue(ToClient'[i].data)
    <3>1. CASE ToClient' = ToClient
      BY <2>1, <2>2, <3>1
    <3>2. CASE ToClient' = (ToClient \o <<m>>) \o ms
      <4> DEFINE r == ToClient \o <<m>>
      <4>1. /\ r \in Seq(Message)
            /\ \A i \in ControlsAt(r) : \/ i \in ControlsAt(ToClient) /\ r[i] = ToClient[i]
                                        \/ r[i] = m
        BY <1>1, AppendControls
      <4> HIDE DEF r
      <4>2. ControlsAt(r \o ms) = ControlsAt(r) /\ \A i \in ControlsAt(r) : (r \o ms)[i] = r[i]
        BY <4>1, ConcatControls
      <4>3. ToClient' = r \o ms
        BY <3>2 DEF r
      <4> DEFINE x == r \o ms
      <4>4. ToClient' = x /\ ControlsAt(x) = ControlsAt(r) /\ \A i \in ControlsAt(r) : x[i] = r[i]
        BY <4>2, <4>3
      <4> HIDE DEF x
      <4> QED BY <2>1, <2>2, <4>1, <4>4
    <3> QED BY <3>1, <3>2
  <2>5. AwaitsAnswer'
    BY <2>3, <2>4 DEF AwaitsAnswer, TrueAnswer, StillTrue, ControlsAt
  <2> QED BY <1>2, <2>5 DEF HandshakeInv, AwaitsSign, ClientIsHeard
<1>3. CASE phase # "answer"
  BY <1>3 DEF HandshakeInv, AwaitsSign, AwaitsAnswer, ClientIsHeard, Heard
<1> QED BY <1>2, <1>3

LEMMA ReconnectWires ==
    ASSUME ProtocolInv, NEW s \in Sockets, Reconnect(s)
    PROVE  /\ wire' \in Wires
           /\ \A t \in Sockets : t # s => wire'[t]["c"] = wire[t]["c"]
           /\ \A t \in Sockets : t # s => wire'[t]["s"] \in {wire[t]["s"], <<>>}
           /\ \/ wire'[s]["c"] = wire[s]["c"]
              \/ wire'[s]["c"] = wire[s]["c"] \o (<<ControlMessage("ok")>> \o Resumption("s"))
<1> DEFINE taken == [Unread("s") EXCEPT ![s]["s"] = Tail(Unread("s")[s]["s"])]
           words == <<ControlMessage("ok")>> \o Resumption("s")
<1>1. "c" \in Ends /\ "s" \in Ends /\ wire \in Wires /\ Other("s") = "c" /\ socket["s"] \in Sockets
  BY Types, WiresFacts DEF NumberTypes
<1>2. s # socket["s"] /\ wire[s]["s"] # <<>> /\ wire' = Written(taken, s, "s", words)
  BY DEF Reconnect, AcceptReconnection
<1>3. /\ taken \in Wires
      /\ \A t \in Sockets : taken[t]["c"] = wire[t]["c"]
      /\ \A t \in Sockets : t # s => taken[t]["s"] \in {wire[t]["s"], <<>>}
  <2>1. /\ Unread("s") \in Wires
        /\ \A t \in Sockets : Unread("s")[t]["c"] = wire[t]["c"]
        /\ \A t \in Sockets : Unread("s")[t]["s"] = IF t = socket["s"] THEN <<>> ELSE wire[t]["s"]
    BY <1>1, NoControlsIn DEF Unread, Wires
  <2>2. Tail(Unread("s")[s]["s"]) \in Seq(Message)
    <3>1. Unread("s")[s]["s"] = wire[s]["s"] /\ wire[s]["s"] \in Seq(Message)
      BY <1>1, <1>2, <2>1 DEF Wires
    <3> QED BY <1>2, <3>1, FewerTail
  <2>3. PICK r \in Seq(Message) : r = Tail(Unread("s")[s]["s"])
    BY <2>2
  <2>4. PICK u \in Wires : u = Unread("s")
    BY <2>1
  <2>5. taken = [u EXCEPT ![s]["s"] = r]
    BY <2>3, <2>4
  <2>6. /\ [u EXCEPT ![s]["s"] = r] \in Wires
        /\ \A t \in Sockets : [u EXCEPT ![s]["s"] = r][t]["c"] = u[t]["c"]
        /\ \A t \in Sockets : t # s => [u EXCEPT ![s]["s"] = r][t]["s"] = u[t]["s"]
    BY <1>1 DEF Wires
  <2> QED BY <2>1, <2>4, <2>5, <2>6
<1>4. words \in Seq(Message)
  <2>1. <<ControlMessage("ok")>> \in Seq(Message)
    BY ControlAssumption, OneControl
  <2> QED BY <1>1, <2>1, NoControlsIn, ConcatProperties
<1> HIDE DEF taken, words
<1>5. wire' = IF link'[s] = "open" THEN [taken EXCEPT ![s]["c"] = @ \o words] ELSE taken
  BY <1>1, <1>2 DEF Written
<1>6. taken[s]["c"] \o words \in Seq(Message)
  BY <1>1, <1>3, <1>4, ConcatProperties DEF Wires
<1>7. CASE link'[s] = "open"
  <2>1. wire' = [taken EXCEPT ![s]["c"] = taken[s]["c"] \o words]
    BY <1>5, <1>7
  <2>2. wire' \in Wires
    BY <1>1, <1>3, <1>6, <2>1 DEF Wires
  <2>3. /\ \A t \in Sockets : t # s => wire'[t] = taken[t]
        /\ wire'[s]["c"] = taken[s]["c"] \o words
    BY <1>1, <1>3, <2>1 DEF Wires
  <2> QED BY <1>3, <2>2, <2>3 DEF words
<1>8. CASE link'[s] # "open"
  BY <1>3, <1>5, <1>8
<1> QED BY <1>7, <1>8

LEMMA ReconnectHeard ==
    ASSUME ProtocolInv, HandshakeInv, handshake \in [Sockets -> HandshakeStates],
           NEW s \in Sockets, Reconnect(s)
    PROVE  HandshakeInv'
<1>1. "c" \in Ends /\ "s" \in Ends /\ wire \in Wires /\ socket \in [Ends -> Sockets]
      /\ link \in [Sockets -> LinkStates] /\ control \in [Ends -> Seq(Control)]
      /\ socket["c"] \in Sockets /\ socket["s"] \in Sockets
  BY WiresFacts DEF ProtocolInv, ProtocolTypeOK
<1>2. /\ handshake[s] = "connectionType" /\ wire[s]["s"] # <<>> /\ Request(s).type = "Control"
      /\ control' = [control EXCEPT !["s"] = <<>>]
      /\ socket' = [socket EXCEPT !["s"] = s]
      /\ link' = [link EXCEPT ![socket["s"]] = IF @ = "open" THEN "closed" ELSE @]
      /\ handshake' = [handshake EXCEPT ![s] = "none"]
      /\ UNCHANGED <<gone, phase>>
  BY DEF Reconnect, AcceptReconnection
<1>3. socket'["c"] = socket["c"] /\ socket'["s"] = s /\ control'["c"] = control["c"]
  BY <1>1, <1>2
<1>4. Heard => Heard'
  <2>1. CASE socket["c"] = s
    BY <1>3, <2>1 DEF Heard
  <2>2. CASE socket["c"] = socket["s"]
    BY <1>1, <1>2, <1>3, <2>2 DEF Heard
  <2>3. CASE link[socket["c"]] # "open"
    BY <1>1, <1>2, <1>3, <2>3 DEF Heard
  <2> QED BY <2>1, <2>2, <2>3 DEF Heard
<1>5. CASE socket["c"] = s
  <2> DEFINE m == ControlMessage("ok")
             ms == Resumption("s")
  <2>1. phase # "sign"
    BY <1>2, <1>5, AsksFirst
  <2>2. m \in Message /\ m.data = "ok" /\ ms \in Seq(Message) /\ ControlsAt(ms) = {}
        /\ <<m>> \in Seq(Message)
    <3>1. m \in Message /\ m.data = "ok"
      BY ControlAssumption, MessageFacts
    <3>2. ms \in Seq(Message) /\ ControlsAt(ms) = {}
      BY <1>1, NoControlsIn
    <3>3. <<m>> \in Seq(Message)
      BY ControlAssumption, OneControl
    <3> QED BY <3>1, <3>2, <3>3
  <2>3. Heard'
    BY <1>3, <1>5 DEF Heard
  <2>4. ToClient' = ToClient \/ ToClient' = (ToClient \o <<m>>) \o ms
    <3>1. ToClient \in Seq(Message) /\ ToClient = wire[s]["c"] /\ ToClient' = wire'[s]["c"]
      BY <1>1, <1>3, <1>5 DEF ToClient, Wires
    <3>2. ToClient' = ToClient \/ ToClient' = ToClient \o (<<m>> \o ms)
      BY <3>1, ReconnectWires
    <3>3. ToClient \o (<<m>> \o ms) = (ToClient \o <<m>>) \o ms
      BY <2>2, <3>1, Regrouped
    <3> QED BY <3>2, <3>3
  <2>5. handshake'[socket["c"]] # "auth"
    BY <1>2, <1>5
  <2> HIDE DEF m, ms
  <2> QED BY <1>2, <1>3, <2>1, <2>2, <2>3, <2>4, <2>5, AnswerHeard
<1>6. CASE socket["c"] # s
  <2>1. /\ wire' \in Wires /\ wire'[socket["c"]]["c"] = wire[socket["c"]]["c"]
        /\ wire'[socket["c"]]["s"] \in {wire[socket["c"]]["s"], <<>>}
        /\ \A d \in Ends : wire[socket["c"]][d] \in Seq(Message)
    BY <1>1, <1>6, ReconnectWires DEF Wires
  <2>2. ASSUME NEW d \in Ends
        PROVE  Fewer(wire'[socket["c"]][d], wire[socket["c"]][d])
    <3>1. wire'[socket["c"]][d] \in {wire[socket["c"]][d], <<>>}
      BY <2>1, EndsFacts
    <3> QED BY <2>1, <3>1, NoControlsIn, FewerEmpty, FewerSame
  <2>3. Calm
    BY <1>1, <1>2, <1>3, <1>4, <1>6, <2>1, <2>2 DEF Calm
  <2> QED BY <2>3, CalmStep
<1> QED BY <1>5, <1>6

LEMMA RejectHeard ==
    ASSUME ProtocolInv, HandshakeInv, handshake \in [Sockets -> HandshakeStates],
           Reject(socket["c"])
    PROVE  HandshakeInv'
<1> DEFINE c == socket["c"]
           m == ControlMessage("error")
<1>1. "c" \in Ends /\ "s" \in Ends /\ c \in Sockets /\ wire \in Wires
      /\ link \in [Sockets -> LinkStates] /\ wire[c]["c"] \in Seq(Message)
  BY Types, WiresFacts DEF NumberTypes, Wires
<1>2. /\ handshake[c] = "connectionType" /\ wire[c]["s"] # <<>> /\ Request(c).type = "Control"
      /\ gone["s"] /\ UNCHANGED <<socket, gone, control, phase>>
      /\ link' = [link EXCEPT ![c] = IF @ = "open" THEN "closed" ELSE @]
      /\ handshake' = [handshake EXCEPT ![c] = "rejected"]
  BY DEF Reject
<1>3. wire'[c]["c"] = IF link[c] = "open" THEN Append(wire[c]["c"], m) ELSE wire[c]["c"]
  BY <1>1 DEF Reject, Wires
<1>4. m \in Message /\ m.data = "error"
  BY ControlAssumption, MessageFacts
<1>5. ToClient = wire[c]["c"] /\ ToClient' = wire'[c]["c"]
  BY <1>2 DEF ToClient
<1>6. ToClient' = ToClient \/ ToClient' = (ToClient \o <<m>>) \o <<>>
  <2>1. Append(wire[c]["c"], m) = wire[c]["c"] \o <<m>>
    BY <1>1, <1>4, AppendIsConcat
  <2>2. wire[c]["c"] \o <<m>> \in Seq(Message)
    BY <1>1, <1>4, AppendControls
  <2>3. (wire[c]["c"] \o <<m>>) \o <<>> = wire[c]["c"] \o <<m>>
    BY <2>2, ConcatEmptySeq
  <2> QED BY <1>3, <1>5, <2>1, <2>3
<1>7. Heard => Heard'
  BY <1>1, <1>2 DEF Heard
<1>8. phase # "sign"
  BY <1>2, AsksFirst
<1>9. handshake'[c] # "auth"
  BY <1>1, <1>2
<1>10. <<>> \in Seq(Message) /\ ControlsAt(<<>>) = {}
  BY <1>1, NoControlsIn
<1> HIDE DEF m
<1> QED BY <1>2, <1>4, <1>6, <1>7, <1>8, <1>9, <1>10, AnswerHeard


LEMMA HandshakesStep ==
    ConnectionInv /\ HandshakeInv /\ [Next]_vars => HandshakeInv'
<1> SUFFICES ASSUME ConnectionInv, HandshakeInv, [Next]_vars
             PROVE  HandshakeInv'
  OBVIOUS
<1>0. ProtocolInv /\ handshake \in [Sockets -> HandshakeStates] /\ "c" \in Ends /\ "s" \in Ends
  BY WiresFacts DEF ConnectionInv, ConnectionTypes
<1>1. CASE \E e \in Idle : Protocol(e) \/ UnackTimerEnds(e) \/ SocketTimeout(e) \/ SocketClosed(e)
  <2>1. PICK e \in Idle : Protocol(e) \/ UnackTimerEnds(e) \/ SocketTimeout(e) \/ SocketClosed(e)
    BY <1>1
  <2>2. e \in Ends /\ (e = "c" => ~ListenerCalled)
    BY DEF Idle
  <2>3. CASE Protocol(e) /\ e = "c" /\ ReceiveControl(e)
    BY <1>0, <2>2, <2>3, ControlHeard DEF Protocol
  <2>4. CASE ~(Protocol(e) /\ e = "c" /\ ReceiveControl(e))
    BY <1>0, <2>1, <2>2, <2>4, CalmEvents, CalmStep
  <2> QED BY <2>3, <2>4
<1>2. CASE ClientNext
  BY <1>0, <1>2, AttemptHeard, SignedHeard, ReconnectedHeard, CalmEnds, CalmStep DEF ClientNext
<1>3. CASE ServerNext
  BY <1>0, <1>3, CalmEnds, CalmStep DEF ServerNext
<1>4. CASE \E s \in Sockets : HandshakeNext(s) \/ Break(s) \/ TcpGivesUp(s)
  <2>1. PICK s \in Sockets : HandshakeNext(s) \/ Break(s) \/ TcpGivesUp(s)
    BY <1>4
  <2>2. CASE Authenticate(s)
    BY <1>0, <2>2, AuthenticateHeard, CalmElsewhere, CalmStep
  <2>3. CASE Reject(s)
    BY <1>0, <2>3, RejectHeard, CalmElsewhere, CalmStep
  <2>4. CASE Reconnect(s)
    BY <1>0, <2>4, ReconnectHeard
  <2>5. CASE HandshakeIgnores(s) \/ HandshakeEnds(s)
    BY <1>0, <2>5, CalmHandshakes, CalmStep
  <2>6. CASE Break(s) \/ TcpGivesUp(s)
    BY <1>0, <2>6, CalmNetwork, CalmStep
  <2> QED BY <2>1, <2>2, <2>3, <2>4, <2>5, <2>6 DEF HandshakeNext
<1>5. CASE \E s \in Sockets, e \in Ends : LoseRegular(s, e)
  BY <1>0, <1>5, CalmNetwork, CalmStep
<1>6. CASE UNCHANGED vars
  <2>1. UNCHANGED <<socket, link, gone, handshake, control, wire, phase>>
    BY <1>6 DEF vars, protocolVars, connectionVars
  <2>2. Calm
    BY <1>0, <2>1, FewerUnchanged, CalmWhen
  <2> QED BY <1>0, <2>2, CalmStep
<1> QED BY <1>1, <1>2, <1>3, <1>4, <1>5, <1>6 DEF Next

LEMMA HandshakesInvariant == Spec => [](ConnectionInv /\ HandshakeInv)
<1>1. Init => HandshakeInv
  <2>1. Init => socket["c"] = socket["s"]
    BY EndsFacts DEF Init, ProtocolInit
  <2> QED BY <2>1 DEF Init, HandshakeInv, AwaitsSign, AwaitsAnswer, ClientIsHeard
<1> QED BY <1>1, HandshakesStep, ConnectionInvariants, PTL DEF Spec

\* A client that takes itself for connected is, or its socket has ended: no
\* answer to an attempt that timed out is taken for one to a later attempt
\* (remoteAgentConnection.ts, ipc.net.ts 936-975).
THEOREM ConnectedIsHeard == Spec => []ClientIsHeard
<1>1. HandshakeInv => ClientIsHeard
  BY DEF HandshakeInv
<1> QED BY <1>1, HandshakesInvariant, PTL

\* An attempt ends in a permanent failure only if the server has disposed of
\* the connection.
THEOREM RefusalsAreFinal == Spec => RefusedOnlyWhenGone
<1>1. ConnectionInv /\ HandshakeInv /\ [Next]_vars
      => [(phase \in {"sign", "answer"} /\ phase' = "failed") => gone["s"]]_vars
  <2> SUFFICES ASSUME ConnectionInv, HandshakeInv, Next,
                      phase \in {"sign", "answer"}, phase' = "failed"
               PROVE  gone["s"]
    OBVIOUS
  <2>1. Refused
    <3>1. phase' # phase /\ phase # "sleep" /\ phase # "up"
      OBVIOUS
    <3>2. ~(\E e \in Idle : Protocol(e) \/ UnackTimerEnds(e) \/ SocketTimeout(e) \/ SocketClosed(e))
      BY <3>1 DEF Protocol, UnackTimerEnds, SocketTimeout, SocketClosed, connectionVars
    <3>3. ~ServerNext
      BY <3>1 DEF ServerNext, Disconnected, GraceExpires, CleanResources, OtherClientConnects
    <3>4. ~(\E s \in Sockets : HandshakeNext(s) \/ Break(s) \/ TcpGivesUp(s))
      BY <3>1 DEF HandshakeNext, Authenticate, HandshakeIgnores, Reconnect, Reject,
         HandshakeEnds, Break, TcpGivesUp, Network, connectionVars
    <3>5. ~(\E s \in Sockets, e \in Ends : LoseRegular(s, e))
      BY <3>1 DEF LoseRegular, Network
    <3>6. ~(Attempt \/ Signed \/ Reconnected \/ AttemptTimesOut \/ GraceTimeOver \/ Quit)
      BY <3>1 DEF Attempt, Signed, Reconnected, AttemptTimesOut, GraceTimeOver, Quit
    <3> QED BY <3>2, <3>3, <3>4, <3>5, <3>6 DEF Next, ClientNext
  <2>2. control["c"] # <<>>
        /\ IF phase = "sign" THEN Head(control["c"]) # "sign" ELSE Head(control["c"]) = "error"
    BY <2>1 DEF Refused, ListenerCalled
  <2>3. 1 \in 1..Len(control["c"]) /\ Head(control["c"]) = control["c"][1]
    <3>1. control["c"] \in Seq(Control)
      BY WiresFacts DEF ConnectionInv
    <3> QED BY <2>2, <3>1, HeadTailProperties, LenProperties, EmptySeq
  <2>4. CASE phase = "sign"
    BY <2>2, <2>3, <2>4 DEF HandshakeInv, AwaitsSign
  <2>5. CASE phase = "answer"
    BY <2>2, <2>3, <2>5 DEF HandshakeInv, AwaitsAnswer, TrueAnswer
  <2> QED BY <2>4, <2>5
<1> QED BY <1>1, HandshakesInvariant, PTL DEF Spec, RefusedOnlyWhenGone
=============================================================================
