----------------------------- MODULE McpProofs -----------------------------
(***************************************************************************)
(* Proofs about two parts of the MCP server, which share nothing: the      *)
(* terminals of TerminalBridge and the clients of LanguageServers.         *)
(***************************************************************************)
EXTENDS TerminalBridge, LanguageServers, SequenceTheorems, FiniteSetTheorems, TLAPS

----------------------------------------------------------------------------
(* TerminalBridge: the inductive invariant.                                *)

UpMessages ==
  [type : {"create"}, by : Callers] \cup [type : {"list"}]
    \cup [type : {"input", "kill"}, id : Nat, by : Callers]
DownMessages ==
  [type : {"created"}, id : Nat] \cup [type : {"terminals"}]
    \cup [type : {"data"}, id : Nat, chunk : Chunks]
Terms == [by : Callers, home : 0 .. MaxSockets, jobs : Seq(Callers), n : Nat]

BridgeTypes ==
  /\ sock \in [Sockets -> {"unused", "opening", "open", "closing", "closed"}]
  /\ ws \in 0 .. MaxSockets /\ connected \in BOOLEAN
  /\ up \in [Sockets -> Seq(UpMessages)] /\ down \in [Sockets -> Seq(DownMessages)]
  /\ terms \in Seq(Terms)
  /\ pendingCreates \in Seq(Callers)
  /\ call \in [Callers -> {"new", "creating", "exec", "done", "failed"}]
  /\ got \in [Callers -> Nat]
  /\ outputBuffers \in [Ids -> SUBSET Chunks] /\ taken \in [Ids -> SUBSET Chunks]
  /\ result \in [Callers -> SUBSET Chunks]
  /\ slot \in Listers \cup {None}
  /\ list \in [Listers -> {"new", "waiting", "answered", "rejected"}]
  /\ timers \subseteq Listers
  /\ beat \in [Beats -> {"idle", "login", "connecting"}]
  /\ awaits \in [Beats -> 0 .. MaxSockets]
  /\ failures \in 0 .. 2 /\ asked \in 0 .. MaxSockets /\ crossed \in BOOLEAN

\* Whatever names a terminal names one that the server has made.
IdsExist ==
  /\ \A w \in Sockets : \A i \in DOMAIN up[w] :
       up[w][i].type \in {"input", "kill"} => up[w][i].id \in DOMAIN terms
  /\ \A w \in Sockets : \A i \in DOMAIN down[w] :
       down[w][i].type \in {"created", "data"} => down[w][i].id \in DOMAIN terms
  /\ \A c \in Callers : got[c] # 0 => got[c] \in DOMAIN terms

\* A call asks once, and gets one terminal at most.
OneTerminalEach ==
  /\ \A i, j \in DOMAIN terms : terms[i].by = terms[j].by => i = j
  /\ \A i \in DOMAIN terms : call[terms[i].by] # "new"
  /\ \A w \in Sockets : \A i \in DOMAIN up[w] : up[w][i].type = "create" =>
       /\ call[up[w][i].by] # "new"
       /\ \A j \in DOMAIN terms : terms[j].by # up[w][i].by
       /\ \A v \in Sockets : \A j \in DOMAIN up[v] :
            up[v][j].type = "create" /\ up[v][j].by = up[w][i].by => v = w /\ j = i
  /\ \A p, q \in DOMAIN pendingCreates : pendingCreates[p] = pendingCreates[q] => p = q
  /\ \A p \in DOMAIN pendingCreates : call[pendingCreates[p]] # "new"

\* Requests are on their way on open sockets only, answers also where a socket
\* is closing, and a terminal belongs to a socket that was open.
OnlyOpenCarry ==
  /\ \A w \in Sockets : /\ sock[w] # "open" => up[w] = <<>>
                        /\ sock[w] \notin {"open", "closing"} => down[w] = <<>>
  /\ \A i \in DOMAIN terms :
       terms[i].home # 0 => sock[terms[i].home] \in {"open", "closing", "closed"}

Asks(w, i, c) == i \in DOMAIN up[w] /\ up[w][i].type = "create" /\ up[w][i].by = c
Answers(w, i, c) ==
  i \in DOMAIN down[w] /\ down[w][i].type = "created" /\ terms[down[w][i].id].by = c

Carried(w, c) == \E i \in Nat : Asks(w, i, c) \/ Answers(w, i, c)

\* The queue of creations is that of socket w: first the answers on their way,
\* in their order, then the requests, and last those that are lost, of which
\* there are none as long as w is open.
QueueOf(w) ==
  /\ sock[w] \in {"open", "closing", "closed"}
  /\ \A c \in Callers : Carried(w, c) => \E p \in DOMAIN pendingCreates : pendingCreates[p] = c
  /\ \A p, q \in DOMAIN pendingCreates :
       p < q /\ Carried(w, pendingCreates[q]) => Carried(w, pendingCreates[p])
  /\ sock[w] = "open" => \A p \in DOMAIN pendingCreates : Carried(w, pendingCreates[p])
  /\ \A p, q \in DOMAIN pendingCreates : \A i, j \in Nat :
       LET c == pendingCreates[p]
           d == pendingCreates[q] IN
       \/ i < j /\ Answers(w, i, c) /\ Answers(w, j, d)
       \/ i < j /\ Asks(w, i, c) /\ Asks(w, j, d)
       \/ Answers(w, i, c) /\ Asks(w, j, d)
       => p < q

InStep ==
  ~crossed =>
    /\ \A v \in Sockets : v # asked => \A c \in Callers : ~Carried(v, c)
    /\ IF asked = 0 THEN pendingCreates = <<>> ELSE QueueOf(asked)

\* What has arrived of the output of a terminal, and what is on its way.
Arrived(id, k) == \E y \in outputBuffers[id] \cup taken[id] : y.n = k
Flies(w, i, id, k) ==
  i \in DOMAIN down[w] /\ down[w][i].type = "data" /\ down[w][i].id = id /\ down[w][i].chunk.n = k

\* Output arrives in its order, and none is left out before some that arrives.
OutputInOrder ==
  /\ \A id \in Ids : \A x \in outputBuffers[id] \cup taken[id] :
       \A k \in 1 .. x.n : Arrived(id, k)
  /\ \A w \in Sockets, id \in Ids, i \in Nat, n \in Nat : Flies(w, i, id, n) =>
       \A k \in 1 .. n - 1 : Arrived(id, k) \/ \E j \in 1 .. i - 1 : Flies(w, j, id, k)
  /\ \A id \in DOMAIN terms : terms[id].home # 0 /\ sock[terms[id].home] = "open" =>
       \A k \in 1 .. terms[id].n :
         Arrived(id, k) \/ \E j \in Nat : Flies(terms[id].home, j, id, k)

ResultsAreLast == \A c \in Callers : result[c] # {} => call[c] = "done" /\ got[c] # 0

BridgeInv ==
  /\ BridgeTypes /\ IdsExist /\ OneTerminalEach /\ OnlyOpenCarry /\ ConnectedIsHonest
  /\ InStep /\ OnlyOwnTerminal /\ OutputInOrder /\ ResultsAreLast /\ OutputIsWhole

----------------------------------------------------------------------------
(* What a step does to queues of messages.                                 *)

\* Each queue keeps its messages in their order, but for the head of the one
\* of w, and gets some of N.
Moved(f, g, w, N) ==
  \A v \in Sockets :
    /\ \A i \in DOMAIN g[v] :
         \/ v = w /\ i + 1 \in DOMAIN f[v] /\ g[v][i] = f[v][i + 1]
         \/ v # w /\ i \in DOMAIN f[v] /\ g[v][i] = f[v][i]
         \/ g[v][i] \in N
    /\ \A i \in DOMAIN f[v] :
         \/ v = w /\ i = 1
         \/ v = w /\ i - 1 \in DOMAIN g[v] /\ g[v][i - 1] = f[v][i]
         \/ v # w /\ i \in DOMAIN g[v] /\ g[v][i] = f[v][i]

LEMMA QueueAppend ==
  ASSUME NEW S, NEW s \in Seq(S), NEW x \in S
  PROVE  /\ Append(s, x) \in Seq(S) /\ Append(s, x) # <<>>
         /\ Len(s) \in Nat /\ DOMAIN s = 1 .. Len(s)
         /\ DOMAIN Append(s, x) = 1 .. Len(s) + 1
         /\ \A i \in 1 .. Len(s) : Append(s, x)[i] = s[i]
         /\ Append(s, x)[Len(s) + 1] = x
OBVIOUS

LEMMA QueueTail ==
  ASSUME NEW S, NEW s \in Seq(S), s # <<>>
  PROVE  /\ Tail(s) \in Seq(S) /\ Head(s) \in S /\ Head(s) = s[1]
         /\ Len(s) \in Nat /\ Len(s) >= 1 /\ DOMAIN s = 1 .. Len(s)
         /\ DOMAIN Tail(s) = 1 .. Len(s) - 1
         /\ \A i \in 1 .. Len(s) - 1 : Tail(s)[i] = s[i + 1]
OBVIOUS

LEMMA QueueElements ==
  ASSUME NEW S, NEW s \in Seq(S)
  PROVE  /\ Len(s) \in Nat /\ DOMAIN s = 1 .. Len(s) /\ DOMAIN s \subseteq Nat
         /\ \A i \in DOMAIN s : s[i] \in S
OBVIOUS

\* What the types say of messages, terminals and the queue of creations.
LEMMA ElementTypes ==
  ASSUME BridgeTypes
  PROVE  /\ \A w \in Sockets : /\ up[w] \in Seq(UpMessages) /\ down[w] \in Seq(DownMessages)
                               /\ DOMAIN up[w] \subseteq Nat /\ DOMAIN down[w] \subseteq Nat
         /\ \A w \in Sockets : \A i \in DOMAIN up[w] :
              up[w][i].type = "create" => up[w][i].by \in Callers
         /\ \A i \in DOMAIN terms : terms[i].by \in Callers /\ terms[i].home \in 0 .. MaxSockets
                                   /\ terms[i].n \in Nat /\ i \in Nat
         /\ \A p \in DOMAIN pendingCreates : pendingCreates[p] \in Callers /\ p \in Nat
<1>1. \A w \in Sockets : up[w] \in Seq(UpMessages) /\ down[w] \in Seq(DownMessages)
  BY DEF BridgeTypes
<1>2. \A w \in Sockets : DOMAIN up[w] \subseteq Nat /\ DOMAIN down[w] \subseteq Nat
  BY <1>1, QueueElements
<1>3. ASSUME NEW w \in Sockets, NEW i \in DOMAIN up[w], up[w][i].type = "create"
      PROVE  up[w][i].by \in Callers
  <2>1. up[w][i] \in UpMessages
    BY <1>1, QueueElements
  <2> QED BY <1>3, <2>1 DEF UpMessages
<1>4. ASSUME NEW i \in DOMAIN terms
      PROVE  /\ terms[i].by \in Callers /\ terms[i].home \in 0 .. MaxSockets
             /\ terms[i].n \in Nat /\ i \in Nat
  <2>1. terms[i] \in Terms /\ i \in Nat
    BY QueueElements DEF BridgeTypes
  <2> QED BY <2>1 DEF Terms
<1>5. \A p \in DOMAIN pendingCreates : pendingCreates[p] \in Callers /\ p \in Nat
  BY QueueElements DEF BridgeTypes
<1> QED BY <1>1, <1>2, <1>3, <1>4, <1>5

LEMMA MovedNot ==
  ASSUME NEW S, NEW f \in [Sockets -> Seq(S)] PROVE Moved(f, f, 0, {})
BY BridgeAssumption DEF Moved, Sockets

LEMMA MovedAppend ==
  ASSUME NEW S, NEW f \in [Sockets -> Seq(S)], NEW w \in Sockets, NEW x \in S,
         NEW g, g = [f EXCEPT ![w] = Append(@, x)]
  PROVE  Moved(f, g, 0, {x}) /\ g \in [Sockets -> Seq(S)]
<1>1. /\ g[w] = Append(f[w], x) /\ \A v \in Sockets : v # w => g[v] = f[v]
      /\ f[w] \in Seq(S) /\ 0 \notin Sockets
  BY BridgeAssumption DEF Sockets
<1>2. g \in [Sockets -> Seq(S)]
  BY QueueAppend
<1> QED BY <1>1, <1>2, QueueAppend DEF Moved

LEMMA MovedTail ==
  ASSUME NEW S, NEW f \in [Sockets -> Seq(S)], NEW w \in Sockets, f[w] # <<>>,
         NEW g, g = [f EXCEPT ![w] = Tail(@)]
  PROVE  Moved(f, g, w, {}) /\ g \in [Sockets -> Seq(S)]
<1>1. /\ g[w] = Tail(f[w]) /\ \A v \in Sockets : v # w => g[v] = f[v]
      /\ f[w] \in Seq(S)
  OBVIOUS
<1>2. g \in [Sockets -> Seq(S)]
  BY QueueTail
<1>3. \A i \in DOMAIN g[w] : i + 1 \in DOMAIN f[w] /\ g[w][i] = f[w][i + 1]
  BY <1>1, QueueTail
<1>4. \A i \in DOMAIN f[w] : i # 1 => i - 1 \in DOMAIN g[w] /\ g[w][i - 1] = f[w][i]
  BY <1>1, QueueTail
<1> QED BY <1>1, <1>2, <1>3, <1>4 DEF Moved

LEMMA SentMoves ==
  ASSUME BridgeTypes, ConnectedIsHonest, HasSocket, NEW m \in UpMessages,
         up' = Sent(ws, m)
  PROVE  /\ up' \in [Sockets -> Seq(UpMessages)] /\ Moved(up, up', 0, {m})
         /\ ws \in Sockets /\ sock[ws] \in {"open", "closing"}
         /\ up' = IF sock[ws] = "open" THEN [up EXCEPT ![ws] = Append(@, m)] ELSE up
         /\ \A v \in Sockets : sock[v] # "open" => up'[v] = up[v]
<1>1. /\ ws \in Sockets /\ sock[ws] \in {"open", "closing"} /\ 0 \notin Sockets
      /\ up \in [Sockets -> Seq(UpMessages)]
  BY BridgeAssumption DEF BridgeTypes, ConnectedIsHonest, HasSocket, Sockets
<1>2. up' = IF sock[ws] = "open" THEN [up EXCEPT ![ws] = Append(@, m)] ELSE up
  BY <1>1 DEF Sent
<1>3. CASE sock[ws] = "open"
  <2>1. up' = [up EXCEPT ![ws] = Append(@, m)]
    BY <1>2, <1>3
  <2>2. \A v \in Sockets : sock[v] # "open" => up'[v] = up[v]
    BY <1>1, <1>3, <2>1
  <2> QED BY <1>1, <1>2, <1>3, <2>1, <2>2, MovedAppend
<1>4. CASE sock[ws] # "open"
  <2>1. up' = up
    BY <1>2, <1>4
  <2>2. Moved(up, up', 0, {m})
    BY <1>1, <2>1 DEF Moved
  <2> QED BY <1>1, <1>2, <1>4, <2>1, <2>2
<1> QED BY <1>3, <1>4

----------------------------------------------------------------------------
(* What the parts of the invariant survive.                                *)

LEMMA IdsExistKept ==
  ASSUME IdsExist, NEW v0, NEW v1, NEW M, NEW N,
         Moved(up, up', v0, M), Moved(down, down', v1, N),
         DOMAIN terms \subseteq DOMAIN terms',
         \A x \in M : x.type \in {"input", "kill"} => x.id \in DOMAIN terms',
         \A x \in N : x.type \in {"created", "data"} => x.id \in DOMAIN terms',
         \A c \in Callers : got'[c] = got[c] \/ got'[c] \in DOMAIN terms'
  PROVE  IdsExist'
<1>1. ASSUME NEW w \in Sockets, NEW i \in DOMAIN up'[w], up'[w][i].type \in {"input", "kill"}
      PROVE  up'[w][i].id \in DOMAIN terms'
  <2>1. \/ \E j \in DOMAIN up[w] : up'[w][i] = up[w][j]
        \/ up'[w][i] \in M
    BY DEF Moved
  <2> QED BY <1>1, <2>1 DEF IdsExist
<1>2. ASSUME NEW w \in Sockets, NEW i \in DOMAIN down'[w],
             down'[w][i].type \in {"created", "data"}
      PROVE  down'[w][i].id \in DOMAIN terms'
  <2>1. \/ \E j \in DOMAIN down[w] : down'[w][i] = down[w][j]
        \/ down'[w][i] \in N
    BY DEF Moved
  <2> QED BY <1>2, <2>1 DEF IdsExist
<1>3. \A c \in Callers : got'[c] # 0 => got'[c] \in DOMAIN terms'
  BY DEF IdsExist
<1> QED BY <1>1, <1>2, <1>3 DEF IdsExist

LEMMA OneTerminalEachKept ==
  ASSUME OneTerminalEach, BridgeTypes, BridgeTypes', NEW v0, NEW M, Moved(up, up', v0, M),
         \A x \in M : x.type # "create",
         DOMAIN terms' = DOMAIN terms, \A i \in DOMAIN terms : terms'[i].by = terms[i].by,
         \/ pendingCreates' = pendingCreates
         \/ pendingCreates # <<>> /\ pendingCreates' = Tail(pendingCreates),
         \A c \in Callers : call[c] # "new" => call'[c] # "new"
  PROVE  OneTerminalEach'
<1>1. \A i, j \in DOMAIN terms' : terms'[i].by = terms'[j].by => i = j
  BY DEF OneTerminalEach
<1>2. \A i \in DOMAIN terms' : call'[terms'[i].by] # "new"
  <2>1. \A i \in DOMAIN terms : terms[i].by \in Callers
    BY ElementTypes
  <2> QED BY <2>1 DEF OneTerminalEach
<1>3. ASSUME NEW w \in Sockets, NEW i \in DOMAIN up'[w], up'[w][i].type = "create"
      PROVE  \E k \in DOMAIN up[w] : /\ up[w][k] = up'[w][i] /\ up[w][k].by \in Callers
                                     /\ k = IF w = v0 THEN i + 1 ELSE i
  <2>1. \E k \in DOMAIN up[w] : up[w][k] = up'[w][i] /\ k = IF w = v0 THEN i + 1 ELSE i
    BY <1>3 DEF Moved
  <2>2. PICK k \in DOMAIN up[w] : up[w][k] = up'[w][i] /\ k = IF w = v0 THEN i + 1 ELSE i
    BY <2>1
  <2> QED BY <1>3, <2>2, ElementTypes
<1>4. ASSUME NEW w \in Sockets, NEW i \in DOMAIN up'[w], up'[w][i].type = "create"
      PROVE  /\ call'[up'[w][i].by] # "new"
             /\ \A j \in DOMAIN terms' : terms'[j].by # up'[w][i].by
             /\ \A v \in Sockets : \A j \in DOMAIN up'[v] :
                  up'[v][j].type = "create" /\ up'[v][j].by = up'[w][i].by => v = w /\ j = i
  <2>1. PICK k \in DOMAIN up[w] : /\ up[w][k] = up'[w][i] /\ up[w][k].by \in Callers
                                  /\ k = IF w = v0 THEN i + 1 ELSE i
    BY <1>3, <1>4
  <2>2. ASSUME NEW v \in Sockets, NEW j \in DOMAIN up'[v], up'[v][j].type = "create",
               up'[v][j].by = up'[w][i].by
        PROVE  v = w /\ j = i
    <3>1. PICK l \in DOMAIN up[v] : /\ up[v][l] = up'[v][j]
                                    /\ l = IF v = v0 THEN j + 1 ELSE j
      BY <1>3, <2>2
    <3>2. v = w /\ l = k
      BY <1>4, <2>1, <2>2, <3>1 DEF OneTerminalEach
    <3>3. i \in Nat /\ j \in Nat
      <4>1. up'[w] \in Seq(UpMessages) /\ up'[v] \in Seq(UpMessages)
        BY DEF BridgeTypes
      <4> QED BY <4>1, QueueElements
    <3> QED BY <2>1, <3>1, <3>2, <3>3
  <2> QED BY <1>4, <2>1, <2>2 DEF OneTerminalEach
<1>5. \A p \in DOMAIN pendingCreates' :
        \/ pendingCreates' = pendingCreates
        \/ p + 1 \in DOMAIN pendingCreates /\ pendingCreates'[p] = pendingCreates[p + 1] /\ p \in Nat
  <2>1. pendingCreates \in Seq(Callers)
    BY DEF BridgeTypes
  <2>2. CASE pendingCreates # <<>> /\ pendingCreates' = Tail(pendingCreates)
    BY <2>1, <2>2, QueueTail
  <2> QED BY <2>2
<1>6. \A p \in DOMAIN pendingCreates : pendingCreates[p] \in Callers
  BY ElementTypes
<1>7. \A p, q \in DOMAIN pendingCreates' : pendingCreates'[p] = pendingCreates'[q] => p = q
  BY <1>5 DEF OneTerminalEach
<1>8. \A p \in DOMAIN pendingCreates' : call'[pendingCreates'[p]] # "new"
  BY <1>5, <1>6 DEF OneTerminalEach
<1> QED BY <1>1, <1>2, <1>4, <1>7, <1>8 DEF OneTerminalEach

\* The requests and answers of creations move with their queues.
LEMMA CreationsMove ==
  ASSUME BridgeTypes, BridgeTypes', IdsExist,
         NEW v0, NEW v1, NEW M, NEW N,
         Moved(up, up', v0, M), Moved(down, down', v1, N),
         \A x \in M : x.type # "create", \A x \in N : x.type # "created",
         v0 \in Sockets => up[v0][1].type # "create",
         v1 \in Sockets => down[v1][1].type # "created",
         \A i \in DOMAIN terms : terms'[i].by = terms[i].by,
         NEW w \in Sockets
  PROVE  \E a, b \in {0, 1} :
           /\ \A c : \A i \in Nat : Asks(w, i, c)' => Asks(w, i + a, c)
           /\ \A c : \A i \in Nat : Asks(w, i, c) => i - a \in Nat /\ Asks(w, i - a, c)'
           /\ \A c : \A i \in Nat : Answers(w, i, c)' => Answers(w, i + b, c)
           /\ \A c : \A i \in Nat : Answers(w, i, c) => i - b \in Nat /\ Answers(w, i - b, c)'
<1>1. PICK a \in {0, 1} : a = IF w = v0 THEN 1 ELSE 0
  OBVIOUS
<1>2. PICK b \in {0, 1} : b = IF w = v1 THEN 1 ELSE 0
  OBVIOUS
<1>3. /\ DOMAIN up[w] \subseteq Nat /\ DOMAIN up'[w] \subseteq Nat
      /\ DOMAIN down[w] \subseteq Nat /\ DOMAIN down'[w] \subseteq Nat
  <2>1. up'[w] \in Seq(UpMessages) /\ down'[w] \in Seq(DownMessages)
    BY DEF BridgeTypes
  <2> QED BY <2>1, QueueElements, ElementTypes
<1>4. \A c : \A i \in Nat : Asks(w, i, c)' => Asks(w, i + a, c)
  BY <1>1, <1>3 DEF Moved, Asks
<1>5. \A c : \A i \in Nat : Asks(w, i, c) => i - a \in Nat /\ Asks(w, i - a, c)'
  BY <1>1, <1>3 DEF Moved, Asks
<1>6. \A c : \A i \in Nat : Answers(w, i, c)' => Answers(w, i + b, c)
  <2> SUFFICES ASSUME NEW c, NEW i \in Nat, Answers(w, i, c)' PROVE Answers(w, i + b, c)
    OBVIOUS
  <2>1. /\ i \in DOMAIN down'[w] /\ down'[w][i].type = "created"
        /\ terms'[down'[w][i].id].by = c
    BY DEF Answers
  <2>2. i + b \in DOMAIN down[w] /\ down[w][i + b] = down'[w][i]
    BY <1>2, <1>3, <2>1 DEF Moved
  <2>3. down[w][i + b].id \in DOMAIN terms
    BY <2>1, <2>2 DEF IdsExist
  <2> QED BY <2>1, <2>2, <2>3 DEF Answers
<1>7. \A c : \A i \in Nat : Answers(w, i, c) => i - b \in Nat /\ Answers(w, i - b, c)'
  <2> SUFFICES ASSUME NEW c, NEW i \in Nat, Answers(w, i, c)
               PROVE  i - b \in Nat /\ Answers(w, i - b, c)'
    OBVIOUS
  <2>1. i \in DOMAIN down[w] /\ down[w][i].type = "created" /\ terms[down[w][i].id].by = c
    BY DEF Answers
  <2>2. i - b \in DOMAIN down'[w] /\ down'[w][i - b] = down[w][i]
    BY <1>2, <1>3, <2>1 DEF Moved
  <2>3. down[w][i].id \in DOMAIN terms
    BY <2>1 DEF IdsExist
  <2> QED BY <1>3, <2>1, <2>2, <2>3 DEF Answers
<1> QED BY <1>4, <1>5, <1>6, <1>7

\* How the queue of a socket is shown to be in order after a step.
LEMMA QueueAfter ==
  ASSUME NEW k, sock'[k] \in {"open", "closing", "closed"},
         \A c \in Callers : Carried(k, c)' =>
           \E p \in DOMAIN pendingCreates' : pendingCreates'[p] = c,
         \A p, q \in DOMAIN pendingCreates' : \A c, d :
           p < q /\ c = pendingCreates'[p] /\ d = pendingCreates'[q] /\ Carried(k, d)' =>
             Carried(k, c)',
         sock'[k] = "open" =>
           \A p \in DOMAIN pendingCreates' : \A c : c = pendingCreates'[p] => Carried(k, c)',
         \A p, q \in DOMAIN pendingCreates' : \A c, d : \A i, j \in Nat :
           /\ c = pendingCreates'[p] /\ d = pendingCreates'[q]
           /\ \/ i < j /\ Answers(k, i, c)' /\ Answers(k, j, d)'
              \/ i < j /\ Asks(k, i, c)' /\ Asks(k, j, d)'
              \/ Answers(k, i, c)' /\ Asks(k, j, d)'
           => p < q
  PROVE  QueueOf(k)'
<1>1. \A p, q \in DOMAIN pendingCreates' :
        p < q /\ Carried(k, pendingCreates[q])' => Carried(k, pendingCreates[p])'
  OBVIOUS
<1>2. sock'[k] = "open" =>
        \A p \in DOMAIN pendingCreates' : Carried(k, pendingCreates[p])'
  OBVIOUS
<1>3. \A p, q \in DOMAIN pendingCreates' : \A i, j \in Nat :
        \/ i < j /\ Answers(k, i, pendingCreates[p])' /\ Answers(k, j, pendingCreates[q])'
        \/ i < j /\ Asks(k, i, pendingCreates[p])' /\ Asks(k, j, pendingCreates[q])'
        \/ Answers(k, i, pendingCreates[p])' /\ Asks(k, j, pendingCreates[q])'
        => p < q
  OBVIOUS
<1> QED BY <1>1, <1>2, <1>3 DEF QueueOf

LEMMA InStepKept ==
  ASSUME InStep, BridgeTypes, BridgeTypes', IdsExist,
         NEW v0, NEW v1, NEW M, NEW N,
         Moved(up, up', v0, M), Moved(down, down', v1, N),
         \A x \in M : x.type # "create", \A x \in N : x.type # "created",
         v0 \in Sockets => up[v0][1].type # "create",
         v1 \in Sockets => down[v1][1].type # "created",
         \A i \in DOMAIN terms : terms'[i].by = terms[i].by,
         UNCHANGED <<pendingCreates, asked, crossed>>,
         \A v \in Sockets : sock[v] \in {"open", "closing", "closed"} => sock'[v] = sock[v]
  PROVE  InStep'
<1> SUFFICES ASSUME ~crossed PROVE InStep'
  BY DEF InStep
<1>0. UNCHANGED <<pendingCreates, asked, crossed>>
  OBVIOUS
<1>1. ASSUME NEW v \in Sockets, v # asked, NEW c \in Callers
      PROVE  ~Carried(v, c)'
  <2> SUFFICES ASSUME NEW i \in Nat PROVE ~Asks(v, i, c)' /\ ~Answers(v, i, c)'
    BY DEF Carried
  <2>1. PICK a, b \in {0, 1} :
          /\ Asks(v, i, c)' => Asks(v, i + a, c)
          /\ Answers(v, i, c)' => Answers(v, i + b, c)
    BY CreationsMove
  <2>2. i + a \in Nat /\ i + b \in Nat
    OBVIOUS
  <2> QED BY <1>1, <2>1, <2>2 DEF InStep, Carried
<1>2. ASSUME NEW k, k = asked, k # 0 PROVE QueueOf(k)'
  <2>1. k \in Sockets /\ QueueOf(k)
    BY <1>2, BridgeAssumption DEF InStep, BridgeTypes, Sockets
  <2>2. PICK a, b \in {0, 1} :
           /\ \A c : \A i \in Nat : Asks(k, i, c)' => Asks(k, i + a, c)
           /\ \A c : \A i \in Nat : Asks(k, i, c) => i - a \in Nat /\ Asks(k, i - a, c)'
           /\ \A c : \A i \in Nat : Answers(k, i, c)' => Answers(k, i + b, c)
           /\ \A c : \A i \in Nat : Answers(k, i, c) => i - b \in Nat /\ Answers(k, i - b, c)'
    BY <2>1, CreationsMove
  <2>3. /\ pendingCreates' = pendingCreates
        /\ \A i \in Nat : i + a \in Nat /\ i + b \in Nat
        /\ sock'[k] = sock[k]
    BY <2>1 DEF QueueOf
  <2>4. \A c : Carried(k, c)' <=> Carried(k, c)
    BY <2>2, <2>3 DEF Carried
  <2>6. ASSUME NEW p \in DOMAIN pendingCreates, NEW q \in DOMAIN pendingCreates,
               NEW c, c = pendingCreates[p], NEW d, d = pendingCreates[q],
               NEW i \in Nat, NEW j \in Nat,
               \/ i < j /\ Answers(k, i, c)' /\ Answers(k, j, d)'
               \/ i < j /\ Asks(k, i, c)' /\ Asks(k, j, d)'
               \/ Answers(k, i, c)' /\ Asks(k, j, d)'
        PROVE  p < q
    <3>1. \/ i + b < j + b /\ Answers(k, i + b, c) /\ Answers(k, j + b, d)
          \/ i + a < j + a /\ Asks(k, i + a, c) /\ Asks(k, j + a, d)
          \/ Answers(k, i + b, c) /\ Asks(k, j + a, d)
      BY <2>2, <2>6
    <3> QED BY <2>1, <2>3, <2>6, <3>1 DEF QueueOf
  <2>7. /\ \A c \in Callers : Carried(k, c)' =>
             \E p \in DOMAIN pendingCreates' : pendingCreates'[p] = c
        /\ \A p, q \in DOMAIN pendingCreates' : \A c, d :
             p < q /\ c = pendingCreates'[p] /\ d = pendingCreates'[q] /\ Carried(k, d)' =>
               Carried(k, c)'
        /\ sock'[k] = "open" =>
             \A p \in DOMAIN pendingCreates' : \A c : c = pendingCreates'[p] => Carried(k, c)'
        /\ sock'[k] \in {"open", "closing", "closed"}
    BY <2>1, <2>3, <2>4 DEF QueueOf
  <2> QED BY <2>3, <2>6, <2>7, QueueAfter
<1>3. asked = 0 => pendingCreates' = <<>>
  BY <1>0 DEF InStep
<1>4. ASSUME asked # 0 PROVE QueueOf(asked)'
  BY <1>0, <1>2, <1>4
<1> QED BY <1>0, <1>1, <1>3, <1>4 DEF InStep

\* Terminals of different calls are not more than calls.
LEMMA DistinctBounded ==
  ASSUME NEW t \in Seq(Terms), \A i, j \in DOMAIN t : t[i].by = t[j].by => i = j
  PROVE  Len(t) <= Cardinality(Callers) /\ DOMAIN t \subseteq Ids
<1> DEFINE f == [i \in 1 .. Len(t) |-> t[i].by]
<1>1. /\ DOMAIN t = 1 .. Len(t) /\ Len(t) \in Nat /\ \A i \in DOMAIN t : t[i] \in Terms
      /\ Cardinality(Callers) \in Nat /\ IsFiniteSet(Callers)
  BY QueueElements, BridgeAssumption, FS_CardinalityType
<1>2. f \in Injection(1 .. Len(t), Callers)
  <2>1. f \in [1 .. Len(t) -> Callers]
    BY <1>1 DEF Terms
  <2> QED BY <1>1, <2>1 DEF Injection, IsInjective
<1>3. Cardinality(1 .. Len(t)) <= Cardinality(Callers)
  BY <1>1, <1>2, FS_Injection
<1>4. Cardinality(1 .. Len(t)) = Len(t)
  <2>1. Cardinality(1 .. Len(t)) = IF 1 > Len(t) THEN 0 ELSE Len(t) - 1 + 1
    <3>1. 1 \in Int /\ Len(t) \in Int
      BY <1>1
    <3> QED BY <3>1, FS_Interval, Zenon
  <2> QED BY <1>1, <2>1
<1> QED BY <1>1, <1>3, <1>4 DEF Ids

LEMMA TerminalsBounded ==
  ASSUME BridgeTypes, OneTerminalEach
  PROVE  Len(terms) <= Cardinality(Callers) /\ DOMAIN terms \subseteq Ids
BY DistinctBounded DEF BridgeTypes, OneTerminalEach

LEMMA OutputMoves ==
  ASSUME BridgeTypes, BridgeTypes', NEW v1, NEW N, Moved(down, down', v1, N),
         \A x \in N : x.type # "data", v1 \in Sockets => down[v1][1].type # "data",
         NEW w \in Sockets
  PROVE  \E b \in {0, 1} :
           /\ \A id, k : \A i \in Nat : Flies(w, i, id, k)' => Flies(w, i + b, id, k)
           /\ \A id, k : \A i \in Nat :
                Flies(w, i, id, k) => i - b \in Nat \ {0} /\ Flies(w, i - b, id, k)'
<1>2. PICK b \in {0, 1} : b = IF w = v1 THEN 1 ELSE 0
  OBVIOUS
<1>3. DOMAIN down[w] \subseteq Nat \ {0} /\ DOMAIN down'[w] \subseteq Nat \ {0}
  <2>1. down'[w] \in Seq(DownMessages) /\ down[w] \in Seq(DownMessages)
    BY DEF BridgeTypes
  <2> QED BY <2>1, QueueElements
<1>4. \A id, k : \A i \in Nat : Flies(w, i, id, k)' => Flies(w, i + b, id, k)
  BY <1>2, <1>3 DEF Moved, Flies
<1>5. \A id, k : \A i \in Nat :
        Flies(w, i, id, k) => i - b \in Nat \ {0} /\ Flies(w, i - b, id, k)'
  BY <1>2, <1>3 DEF Moved, Flies
<1> QED BY <1>4, <1>5

LEMMA OutputInOrderKept ==
  ASSUME OutputInOrder, BridgeTypes, BridgeTypes',
         NEW v1, NEW N, Moved(down, down', v1, N),
         \A x \in N : x.type # "data", v1 \in Sockets => down[v1][1].type # "data",
         \A id \in Ids : outputBuffers'[id] \cup taken'[id] = outputBuffers[id] \cup taken[id],
         DOMAIN terms' \subseteq Ids,
         \A id \in DOMAIN terms' :
           \/ /\ id \in DOMAIN terms /\ terms'[id].n = terms[id].n
              /\ terms'[id].home \in {terms[id].home, 0}
           \/ terms'[id].n = 0,
         \A v \in Sockets : sock'[v] = "open" => sock[v] = "open"
  PROVE  OutputInOrder'
<1>1. \A id \in Ids : \A k : Arrived(id, k) <=> Arrived(id, k)'
  BY DEF Arrived
<1>2. \A id \in Ids : \A x \in outputBuffers'[id] \cup taken'[id] :
        \A k \in 1 .. x.n : Arrived(id, k)'
  BY <1>1 DEF OutputInOrder
<1>3. ASSUME NEW w \in Sockets, NEW id \in Ids, NEW i \in Nat, NEW n \in Nat,
             Flies(w, i, id, n)', NEW k \in 1 .. n - 1
      PROVE  Arrived(id, k)' \/ \E j \in 1 .. i - 1 : Flies(w, j, id, k)'
  <2>1. PICK b \in {0, 1} :
          /\ \A l : \A j \in Nat : Flies(w, j, id, l)' => Flies(w, j + b, id, l)
          /\ \A l : \A j \in Nat :
               Flies(w, j, id, l) => j - b \in Nat \ {0} /\ Flies(w, j - b, id, l)'
    BY OutputMoves
  <2>2. Flies(w, i + b, id, n) /\ i + b \in Nat
    BY <1>3, <2>1
  <2>3. Arrived(id, k) \/ \E j \in 1 .. i + b - 1 : Flies(w, j, id, k)
    BY <2>2 DEF OutputInOrder
  <2>4. ASSUME NEW j \in 1 .. i + b - 1, Flies(w, j, id, k)
        PROVE  \E l \in 1 .. i - 1 : Flies(w, l, id, k)'
    <3>1. j - b \in Nat \ {0} /\ Flies(w, j - b, id, k)'
      BY <2>1, <2>4
    <3> QED BY <3>1
  <2> QED BY <1>1, <2>3, <2>4
<1>4. ASSUME NEW id \in DOMAIN terms', NEW h, h = terms'[id].home, h # 0, sock'[h] = "open",
             NEW k \in 1 .. terms'[id].n
      PROVE  Arrived(id, k)' \/ \E j \in Nat : Flies(h, j, id, k)'
  <2>1. /\ id \in DOMAIN terms /\ terms'[id].n = terms[id].n /\ terms[id].home = h
        /\ id \in Ids
    BY <1>4
  <2>2. h \in Sockets /\ sock[h] = "open"
    BY <1>4, <2>1, ElementTypes, BridgeAssumption DEF Sockets
  <2>3. Arrived(id, k) \/ \E j \in Nat : Flies(h, j, id, k)
    BY <1>4, <2>1, <2>2 DEF OutputInOrder
  <2>4. ASSUME NEW j \in Nat, Flies(h, j, id, k) PROVE \E l \in Nat : Flies(h, l, id, k)'
    BY <2>2, <2>4, OutputMoves
  <2> QED BY <1>1, <2>1, <2>3, <2>4
<1>5. \A id \in DOMAIN terms' : terms'[id].home # 0 /\ sock'[terms'[id].home] = "open" =>
        \A k \in 1 .. terms'[id].n :
          Arrived(id, k)' \/ \E j \in Nat : Flies(terms[id].home, j, id, k)'
  BY <1>4
<1> QED BY <1>2, <1>3, <1>5 DEF OutputInOrder

LEMMA ResultsKept ==
  ASSUME BridgeTypes, OneTerminalEach, IdsExist, ResultsAreLast, OutputIsWhole,
         result' = result,
         \A c \in Callers : call[c] = "done" => call'[c] = "done" /\ got'[c] = got[c],
         \A id \in Ids : taken[id] \subseteq taken'[id]
  PROVE  ResultsAreLast' /\ OutputIsWhole'
<1>1. ASSUME NEW c \in Callers, result[c] # {}
      PROVE  /\ call[c] = "done" /\ call'[c] = "done" /\ got'[c] = got[c] /\ got[c] # 0
             /\ taken[got[c]] \subseteq taken'[got[c]]
  BY <1>1, TerminalsBounded DEF ResultsAreLast, IdsExist
<1>2. ResultsAreLast'
  BY <1>1 DEF ResultsAreLast
<1>3. OutputIsWhole'
  <2> SUFFICES ASSUME NEW c \in Callers, NEW x \in result[c], x.mark = c, NEW k \in 1 .. x.n
               PROVE  \E y \in result[c] \cup taken'[got'[c]] : y.n = k
    BY DEF OutputIsWhole
  <2>1. \E y \in result[c] \cup taken[got[c]] : y.n = k
    BY DEF OutputIsWhole
  <2> QED BY <1>1, <2>1
<1> QED BY <1>2, <1>3

LEMMA OnlyOwnTerminalKept ==
  ASSUME OnlyOwnTerminal, IdsExist, NEW v0, NEW M, Moved(up, up', v0, M),
         ~crossed' => ~crossed, \A i \in DOMAIN terms : terms'[i].by = terms[i].by,
         \A x \in M : ~crossed /\ x.type \in {"input", "kill"} => terms'[x.id].by = x.by,
         \A c \in Callers : \/ got'[c] = got[c]
                            \/ ~crossed => terms'[got'[c]].by = c
  PROVE  OnlyOwnTerminal'
<1> SUFFICES ASSUME ~crossed, ~crossed' PROVE OnlyOwnTerminal'
  BY DEF OnlyOwnTerminal
<1>1. \A c \in Callers : got'[c] # 0 => terms'[got'[c]].by = c
  BY DEF OnlyOwnTerminal, IdsExist
<1>2. ASSUME NEW w \in Sockets, NEW i \in DOMAIN up'[w], up'[w][i].type \in {"input", "kill"}
      PROVE  terms'[up'[w][i].id].by = up'[w][i].by
  <2>1. \/ \E j \in DOMAIN up[w] : up'[w][i] = up[w][j]
        \/ up'[w][i] \in M
    BY DEF Moved
  <2> QED BY <1>2, <2>1 DEF OnlyOwnTerminal, IdsExist
<1> QED BY <1>1, <1>2 DEF OnlyOwnTerminal

----------------------------------------------------------------------------
(* The steps that bring no creation, no output and no result.              *)

LEMMA QuietKeepsBridge ==
  ASSUME BridgeInv, BridgeTypes', NEW v0, NEW v1, NEW M, NEW N,
         Moved(up, up', v0, M), Moved(down, down', v1, N),
         \A x \in M : x.type = "list", \A x \in N : x.type = "terminals",
         v0 \in Sockets => up[v0][1].type # "create",
         v1 \in Sockets => down[v1][1].type = "terminals",
         DOMAIN terms' = DOMAIN terms,
         \A i \in DOMAIN terms : /\ terms'[i].by = terms[i].by /\ terms'[i].n = terms[i].n
                                 /\ terms'[i].home \in {terms[i].home, 0},
         UNCHANGED <<ws, pendingCreates, got, asked, crossed, result>>,
         \A c \in Callers : /\ call[c] # "new" => call'[c] # "new"
                            /\ call[c] = "done" => call'[c] = "done",
         \A id \in Ids : /\ outputBuffers'[id] \cup taken'[id] = outputBuffers[id] \cup taken[id]
                         /\ taken[id] \subseteq taken'[id],
         connected' = connected,
         \A v \in Sockets :
           /\ sock'[v] = sock[v] \/ (sock[v] = "unused" /\ sock'[v] = "opening")
           /\ sock[v] # "open" => up'[v] = up[v]
           /\ sock[v] \notin {"open", "closing"} => down'[v] = down[v]
  PROVE  BridgeInv'
<1>0. /\ BridgeTypes /\ IdsExist /\ OneTerminalEach /\ OnlyOpenCarry /\ ConnectedIsHonest
      /\ InStep /\ OnlyOwnTerminal /\ OutputInOrder /\ ResultsAreLast /\ OutputIsWhole
  BY DEF BridgeInv
<1>1. IdsExist'
  BY <1>0, IdsExistKept
<1>2. OneTerminalEach'
  <2>1. \A x \in M : x.type # "create"
    OBVIOUS
  <2>2. /\ \A c \in Callers : call[c] # "new" => call'[c] # "new"
        /\ \A i \in DOMAIN terms : terms'[i].by = terms[i].by
        /\ pendingCreates' = pendingCreates
    OBVIOUS
  <2> QED BY <1>0, <2>1, <2>2, OneTerminalEachKept
<1>3. OnlyOpenCarry'
  <2>1. \A w \in Sockets : /\ sock'[w] # "open" => up'[w] = <<>>
                           /\ sock'[w] \notin {"open", "closing"} => down'[w] = <<>>
    BY <1>0 DEF OnlyOpenCarry
  <2>2. ASSUME NEW i \in DOMAIN terms', terms'[i].home # 0
        PROVE  sock'[terms'[i].home] \in {"open", "closing", "closed"}
    <3>1. terms'[i].home = terms[i].home /\ terms[i].home \in Sockets
      BY <1>0, <2>2, ElementTypes, BridgeAssumption DEF Sockets
    <3> QED BY <1>0, <2>2, <3>1 DEF OnlyOpenCarry
  <2> QED BY <2>1, <2>2 DEF OnlyOpenCarry
<1>4. ConnectedIsHonest'
  <2>1. ws # 0 => ws \in Sockets
    BY <1>0, BridgeAssumption DEF BridgeTypes, Sockets
  <2> QED BY <1>0, <2>1 DEF ConnectedIsHonest, HasSocket
<1>5. InStep'
  BY <1>0, InStepKept
<1>6. OnlyOwnTerminal'
  BY <1>0, OnlyOwnTerminalKept
<1>7. OutputInOrder'
  <2>1. DOMAIN terms' \subseteq Ids
    BY <1>0, TerminalsBounded
  <2> QED BY <1>0, <2>1, OutputInOrderKept
<1>8. ResultsAreLast' /\ OutputIsWhole'
  BY <1>0, ResultsKept
<1> QED BY <1>1, <1>2, <1>3, <1>4, <1>5, <1>6, <1>7, <1>8 DEF BridgeInv

LEMMA TermChanged ==
  ASSUME terms \in Seq(Terms), NEW id \in DOMAIN terms, NEW e \in Terms,
         NEW t, t = [terms EXCEPT ![id] = e]
  PROVE  /\ t \in Seq(Terms) /\ DOMAIN t = DOMAIN terms
         /\ \A j \in DOMAIN terms : t[j] = IF j = id THEN e ELSE terms[j]
BY QueueElements, ExceptSeq

LEMMA HeadTypes ==
  ASSUME BridgeTypes, IdsExist, NEW w \in Sockets
  PROVE  /\ up[w] # <<>> => /\ Head(up[w]) = up[w][1] /\ 1 \in DOMAIN up[w]
                            /\ Head(up[w]) \in UpMessages
         /\ down[w] # <<>> => /\ Head(down[w]) = down[w][1] /\ 1 \in DOMAIN down[w]
                              /\ Head(down[w]) \in DownMessages
<1>1. up[w] \in Seq(UpMessages) /\ down[w] \in Seq(DownMessages)
  BY DEF BridgeTypes
<1>2. up[w] # <<>> => /\ Head(up[w]) = up[w][1] /\ 1 \in DOMAIN up[w]
                      /\ Head(up[w]) \in UpMessages
  BY <1>1, QueueTail
<1>3. down[w] # <<>> => /\ Head(down[w]) = down[w][1] /\ 1 \in DOMAIN down[w]
                        /\ Head(down[w]) \in DownMessages
  BY <1>1, QueueTail
<1> QED BY <1>2, <1>3

LEMMA IdleKeepsBridge ==
  ASSUME BridgeInv,
         \/ \E b \in Beats : Beat(b) \/ Login(b)
         \/ \E c \in Callers : CreateTimeout(c)
         \/ \E l \in Listers : ListTimeout(l)
         \/ \E id \in Ids : Read(id)
  PROVE  BridgeInv'
<1>1. /\ UNCHANGED <<up, down, ws, connected, terms, pendingCreates, got, result, asked, crossed>>
      /\ Moved(up, up', 0, {}) /\ Moved(down, down', 0, {}) /\ 0 \notin Sockets
  <2>1. UNCHANGED <<up, down, ws, connected, terms, pendingCreates, got, result, asked, crossed>>
    BY DEF Beat, Login, CreateTimeout, ListTimeout, Read, wire, calls, histories
  <2>2. up \in [Sockets -> Seq(UpMessages)] /\ down \in [Sockets -> Seq(DownMessages)]
    BY DEF BridgeInv, BridgeTypes
  <2> QED BY <2>1, <2>2, MovedNot, BridgeAssumption DEF Sockets
<1>2. CASE \E b \in Beats : Beat(b)
  <2>1. UNCHANGED <<sock, call, outputBuffers, taken, slot, list, timers, awaits>>
    BY <1>2 DEF Beat, wire, calls, lists
  <2>2. beat' \in [Beats -> {"idle", "login", "connecting"}] /\ failures' \in 0 .. 2
    <3>1. PICK b \in Beats : Beat(b)
      BY <1>2
    <3>2. failures \in 0 .. 2 /\ beat \in [Beats -> {"idle", "login", "connecting"}]
      BY DEF BridgeInv, BridgeTypes
    <3>3. failures' \in 0 .. 2
      BY <3>1, <3>2 DEF Beat
    <3>4. beat' = beat \/ beat' = [beat EXCEPT ![b] = "login"]
      BY <3>1 DEF Beat
    <3> QED BY <3>2, <3>3, <3>4
  <2>3. BridgeTypes'
    BY <1>1, <2>1, <2>2 DEF BridgeInv, BridgeTypes
  <2> QED BY <1>1, <2>1, <2>3, QuietKeepsBridge
<1>3. CASE \E b \in Beats : Login(b)
  <2>1. UNCHANGED <<call, outputBuffers, taken, slot, list, timers, failures>>
    BY <1>3 DEF Login, calls, lists
  <2>2. /\ beat' \in [Beats -> {"idle", "login", "connecting"}]
        /\ awaits' \in [Beats -> 0 .. MaxSockets]
        /\ sock' \in [Sockets -> {"unused", "opening", "open", "closing", "closed"}]
        /\ \A v \in Sockets : sock'[v] = sock[v] \/ (sock[v] = "unused" /\ sock'[v] = "opening")
    <3>1. PICK b \in Beats : Login(b)
      BY <1>3
    <3>2. /\ beat \in [Beats -> {"idle", "login", "connecting"}]
          /\ awaits \in [Beats -> 0 .. MaxSockets]
          /\ sock \in [Sockets -> {"unused", "opening", "open", "closing", "closed"}]
          /\ Sockets \subseteq 0 .. MaxSockets
      BY DEF BridgeInv, BridgeTypes, Sockets
    <3>3. CASE beat' = [beat EXCEPT ![b] = "idle"] /\ UNCHANGED <<sock, awaits>>
      BY <3>2, <3>3
    <3>4. CASE \E w \in Sockets :
                 /\ sock[w] = "unused" /\ sock' = [sock EXCEPT ![w] = "opening"]
                 /\ beat' = [beat EXCEPT ![b] = "connecting"]
                 /\ awaits' = [awaits EXCEPT ![b] = w]
      BY <3>2, <3>4
    <3> QED BY <3>1, <3>3, <3>4 DEF Login
  <2>3. BridgeTypes'
    BY <1>1, <2>1, <2>2 DEF BridgeInv, BridgeTypes
  <2> QED BY <1>1, <2>1, <2>2, <2>3, QuietKeepsBridge
<1>4. CASE \E c \in Callers : CreateTimeout(c)
  <2>1. UNCHANGED <<sock, outputBuffers, taken, slot, list, timers, beat, awaits, failures>>
    BY <1>4 DEF CreateTimeout, wire, lists, hearts
  <2>2. /\ call' \in [Callers -> {"new", "creating", "exec", "done", "failed"}]
        /\ \A c \in Callers : /\ call[c] # "new" => call'[c] # "new"
                              /\ call[c] = "done" => call'[c] = "done"
    <3>1. PICK d \in Callers : call[d] = "creating" /\ call' = [call EXCEPT ![d] = "failed"]
      BY <1>4 DEF CreateTimeout
    <3>2. call \in [Callers -> {"new", "creating", "exec", "done", "failed"}]
      BY DEF BridgeInv, BridgeTypes
    <3> QED BY <3>1, <3>2
  <2>3. BridgeTypes'
    BY <1>1, <2>1, <2>2 DEF BridgeInv, BridgeTypes
  <2> QED BY <1>1, <2>1, <2>2, <2>3, QuietKeepsBridge
<1>5. CASE \E l \in Listers : ListTimeout(l)
  <2>1. UNCHANGED <<sock, call, outputBuffers, taken, beat, awaits, failures>>
    BY <1>5 DEF ListTimeout, wire, calls, hearts
  <2>2. /\ slot' \in Listers \cup {None} /\ timers' \subseteq Listers
        /\ list' \in [Listers -> {"new", "waiting", "answered", "rejected"}]
    <3>1. PICK l \in Listers :
            /\ slot' = None /\ timers' = timers \ {l}
            /\ list' = [list EXCEPT ![l] = "rejected"] \/ list' = list
      BY <1>5 DEF ListTimeout
    <3>2. timers \subseteq Listers /\ list \in [Listers -> {"new", "waiting", "answered", "rejected"}]
      BY DEF BridgeInv, BridgeTypes
    <3> QED BY <3>1, <3>2
  <2>3. BridgeTypes'
    BY <1>1, <2>1, <2>2 DEF BridgeInv, BridgeTypes
  <2> QED BY <1>1, <2>1, <2>3, QuietKeepsBridge
<1>6. CASE \E id \in Ids : Read(id)
  <2>1. UNCHANGED <<sock, call, slot, list, timers, beat, awaits, failures>>
    BY <1>6 DEF Read, wire, calls, lists, hearts
  <2>2. /\ outputBuffers' \in [Ids -> SUBSET Chunks] /\ taken' \in [Ids -> SUBSET Chunks]
        /\ \A id \in Ids :
             /\ outputBuffers'[id] \cup taken'[id] = outputBuffers[id] \cup taken[id]
             /\ taken[id] \subseteq taken'[id]
    BY <1>6 DEF Read, BridgeInv, BridgeTypes
  <2>3. BridgeTypes'
    BY <1>1, <2>1, <2>2 DEF BridgeInv, BridgeTypes
  <2> QED BY <1>1, <2>1, <2>2, <2>3, QuietKeepsBridge
<1> QED BY <1>2, <1>3, <1>4, <1>5, <1>6

LEMMA CarryingOpen ==
  ASSUME BridgeInv, NEW w \in Sockets
  PROVE  /\ up[w] # <<>> => sock[w] = "open"
         /\ down[w] # <<>> => sock[w] \in {"open", "closing"}
BY DEF BridgeInv, OnlyOpenCarry

LEMMA ListKeepsBridge ==
  ASSUME BridgeInv, NEW l \in Listers, List(l) PROVE BridgeInv'
<1>1. BridgeTypes /\ ConnectedIsHonest /\ HasSocket
  BY DEF BridgeInv, List
<1>2. /\ up' = Sent(ws, [type |-> "list"]) /\ [type |-> "list"] \in UpMessages
      /\ list' = [list EXCEPT ![l] = "waiting"] /\ slot' = l /\ timers' = timers \cup {l}
      /\ UNCHANGED <<sock, down, ws, connected, terms, calls, outputBuffers, taken, hearts, histories>>
  BY DEF List, UpMessages
<1>3. /\ up' \in [Sockets -> Seq(UpMessages)] /\ Moved(up, up', 0, {[type |-> "list"]})
      /\ \A v \in Sockets : sock[v] # "open" => up'[v] = up[v]
  BY <1>1, <1>2, SentMoves
<1>4. Moved(down, down', 0, {}) /\ 0 \notin Sockets
  BY <1>1, <1>2, MovedNot, BridgeAssumption DEF BridgeTypes, Sockets
<1>5. BridgeTypes'
  <2>1. /\ list' \in [Listers -> {"new", "waiting", "answered", "rejected"}]
        /\ slot' \in Listers \cup {None} /\ timers' \subseteq Listers
    BY <1>1, <1>2 DEF BridgeTypes
  <2> QED BY <1>1, <1>2, <1>3, <2>1 DEF BridgeTypes, calls, hearts, histories
<1> QED BY <1>2, <1>3, <1>4, <1>5, QuietKeepsBridge DEF calls, hearts, histories

LEMMA TerminalsKeepsBridge ==
  ASSUME BridgeInv, NEW w \in Sockets, Terminals(w) PROVE BridgeInv'
<1>1. BridgeTypes /\ IdsExist
  BY DEF BridgeInv
<1>2. /\ down[w] # <<>> /\ Head(down[w]).type = "terminals"
      /\ down' = [down EXCEPT ![w] = Tail(@)] /\ slot' = None
      /\ list' = IF slot = None THEN list ELSE [list EXCEPT ![slot] = "answered"]
      /\ UNCHANGED <<sock, up, ws, connected, terms, pendingCreates, call, got, result,
                     outputBuffers, taken, timers, beat, awaits, failures, asked, crossed>>
  BY DEF Terminals, calls, hearts, histories
<1>3. /\ down' \in [Sockets -> Seq(DownMessages)] /\ Moved(down, down', w, {})
      /\ sock[w] \in {"open", "closing"} /\ \A v \in Sockets : v # w => down'[v] = down[v]
      /\ down[w][1].type = "terminals"
  BY <1>1, <1>2, MovedTail, CarryingOpen, HeadTypes DEF BridgeTypes
<1>4. Moved(up, up', 0, {}) /\ 0 \notin Sockets
  BY <1>1, <1>2, MovedNot, BridgeAssumption DEF BridgeTypes, Sockets
<1>5. BridgeTypes'
  <2>1. list' \in [Listers -> {"new", "waiting", "answered", "rejected"}]
        /\ slot' \in Listers \cup {None}
    BY <1>1, <1>2 DEF BridgeTypes
  <2> QED BY <1>1, <1>2, <1>3, <2>1 DEF BridgeTypes
<1>6. /\ \A v \in Sockets : /\ sock'[v] = sock[v]
                            /\ sock[v] # "open" => up'[v] = up[v]
                            /\ sock[v] \notin {"open", "closing"} => down'[v] = down[v]
      /\ \A c \in Callers : /\ call[c] # "new" => call'[c] # "new"
                            /\ call[c] = "done" => call'[c] = "done"
      /\ \A id \in Ids : /\ outputBuffers'[id] \cup taken'[id] = outputBuffers[id] \cup taken[id]
                         /\ taken[id] \subseteq taken'[id]
      /\ \A i \in DOMAIN terms : /\ terms'[i].by = terms[i].by /\ terms'[i].n = terms[i].n
                                 /\ terms'[i].home \in {terms[i].home, 0}
  BY <1>2, <1>3
<1>7. /\ UNCHANGED <<ws, pendingCreates, got, asked, crossed, result>> /\ connected' = connected
      /\ DOMAIN terms' = DOMAIN terms
  BY <1>2
<1>8. w \in Sockets => down[w][1].type = "terminals"
  BY <1>3
<1>9. Moved(down, down', w, {}) /\ Moved(up, up', 0, {})
  BY <1>3, <1>4
<1> QED BY <1>4, <1>5, <1>6, <1>7, <1>8, <1>9, QuietKeepsBridge

LEMMA ServeQuietKeepsBridge ==
  ASSUME BridgeInv, NEW w \in Sockets, Serve(w), Head(up[w]).type # "create"
  PROVE  BridgeInv'
<1>1. BridgeTypes /\ IdsExist
  BY DEF BridgeInv
<1>2. /\ up[w] # <<>> /\ up' = [up EXCEPT ![w] = Tail(@)]
      /\ UNCHANGED <<sock, ws, connected, pendingCreates, call, got, result,
                     outputBuffers, taken, slot, list, timers, beat, awaits, failures,
                     asked, crossed>>
  BY DEF Serve, calls, lists, hearts, histories
<1>3. /\ up' \in [Sockets -> Seq(UpMessages)] /\ Moved(up, up', w, {})
      /\ sock[w] = "open" /\ \A v \in Sockets : v # w => up'[v] = up[v]
  BY <1>1, <1>2, MovedTail, CarryingOpen DEF BridgeTypes
<1>4. PICK m \in UpMessages : m = Head(up[w]) /\ m = up[w][1] /\ 1 \in DOMAIN up[w]
  BY <1>1, <1>2, HeadTypes
<1>5. 0 \notin Sockets /\ down \in [Sockets -> Seq(DownMessages)] /\ Moved(down, down, 0, {})
      /\ terms \in Seq(Terms)
  BY <1>1, MovedNot, BridgeAssumption DEF BridgeTypes, Sockets
<1>6. ASSUME /\ down' \in [Sockets -> Seq(DownMessages)]
             /\ \A v \in Sockets : v # w => down'[v] = down[v],
             NEW N, Moved(down, down', 0, N), \A x \in N : x.type = "terminals",
             terms' \in Seq(Terms), DOMAIN terms' = DOMAIN terms,
             \A i \in DOMAIN terms : /\ terms'[i].by = terms[i].by /\ terms'[i].n = terms[i].n
                                     /\ terms'[i].home \in {terms[i].home, 0}
      PROVE  BridgeInv'
  <2>1. BridgeTypes'
    BY <1>1, <1>2, <1>3, <1>6 DEF BridgeTypes
  <2>2. /\ \A v \in Sockets : /\ sock'[v] = sock[v]
                              /\ sock[v] # "open" => up'[v] = up[v]
                              /\ sock[v] \notin {"open", "closing"} => down'[v] = down[v]
        /\ \A c \in Callers : /\ call[c] # "new" => call'[c] # "new"
                              /\ call[c] = "done" => call'[c] = "done"
        /\ \A id \in Ids : /\ outputBuffers'[id] \cup taken'[id] = outputBuffers[id] \cup taken[id]
                           /\ taken[id] \subseteq taken'[id]
    BY <1>2, <1>3, <1>6
  <2>3. /\ UNCHANGED <<ws, pendingCreates, got, asked, crossed, result>> /\ connected' = connected
        /\ DOMAIN terms' = DOMAIN terms
    BY <1>2, <1>6
  <2>4. w \in Sockets => up[w][1].type # "create"
    BY <1>4
  <2>5. 0 \in Sockets => down[0][1].type = "terminals"
    BY <1>5
  <2>6. Moved(up, up', w, {}) /\ Moved(down, down', 0, N)
    BY <1>3, <1>6
  <2> QED BY <1>6, <2>1, <2>2, <2>3, <2>4, <2>5, <2>6, QuietKeepsBridge
<1>7. CASE m.type = "list"
  <2>1. PICK x \in DownMessages : x = [type |-> "terminals"] /\ x.type = "terminals"
    <3>1. [type |-> "terminals"] \in DownMessages
      BY DEF DownMessages
    <3> QED BY <3>1
  <2>2. down' = [down EXCEPT ![w] = Append(@, x)] /\ terms' = terms
    BY <1>4, <1>7, <2>1 DEF Serve
  <2>3. down' \in [Sockets -> Seq(DownMessages)] /\ Moved(down, down', 0, {x})
    BY <1>5, <2>1, <2>2, MovedAppend
  <2> QED BY <1>5, <1>6, <2>1, <2>2, <2>3
<1>8. CASE m.type \in {"input", "kill"}
  <2>1. /\ m.id \in DOMAIN terms /\ m.by \in Callers /\ down' = down
        /\ \/ terms' = [terms EXCEPT ![m.id].jobs = Append(@, m.by)]
           \/ terms' = [terms EXCEPT ![m.id].home = 0]
    BY <1>1, <1>4, <1>8 DEF Serve, IdsExist, UpMessages
  <2>2. PICK id \in DOMAIN terms : id = m.id
    BY <2>1
  <2>3. terms[id] \in Terms
    BY <1>5, QueueElements
  <2>4. PICK e \in Terms : /\ e.by = terms[id].by /\ e.n = terms[id].n
                           /\ e.home \in {terms[id].home, 0}
                           /\ terms' = [terms EXCEPT ![id] = e]
    <3>1. CASE terms' = [terms EXCEPT ![id].jobs = Append(@, m.by)]
      <4> DEFINE e == [terms[id] EXCEPT !.jobs = Append(@, m.by)]
      <4>1. Append(terms[id].jobs, m.by) \in Seq(Callers)
        BY <2>1, <2>3, QueueAppend DEF Terms
      <4>2. /\ e \in Terms /\ e.by = terms[id].by /\ e.n = terms[id].n
            /\ e.home = terms[id].home
        BY <2>3, <4>1 DEF Terms
      <4>3. terms' = [terms EXCEPT ![id] = e]
        BY <3>1
      <4> QED BY <4>2, <4>3
    <3>2. CASE terms' = [terms EXCEPT ![id].home = 0]
      <4> DEFINE e == [terms[id] EXCEPT !.home = 0]
      <4>1. e \in Terms /\ e.by = terms[id].by /\ e.n = terms[id].n /\ e.home = 0
        BY <2>3, BridgeAssumption DEF Terms
      <4>2. terms' = [terms EXCEPT ![id] = e]
        BY <3>2
      <4> QED BY <4>1, <4>2
    <3> QED BY <2>1, <2>2, <3>1, <3>2
  <2>5. /\ terms' \in Seq(Terms) /\ DOMAIN terms' = DOMAIN terms
        /\ \A j \in DOMAIN terms : terms'[j] = IF j = id THEN e ELSE terms[j]
    BY <1>5, <2>4, TermChanged
  <2>6. \A i \in DOMAIN terms : /\ terms'[i].by = terms[i].by /\ terms'[i].n = terms[i].n
                                 /\ terms'[i].home \in {terms[i].home, 0}
    BY <2>4, <2>5
  <2> QED BY <1>5, <1>6, <2>1, <2>5, <2>6
<1> QED BY <1>4, <1>7, <1>8 DEF UpMessages

----------------------------------------------------------------------------
(* Creations.                                                              *)

LEMMA CreateKeepsOneEach ==
  ASSUME BridgeInv, NEW c \in Callers, Create(c) PROVE OneTerminalEach'
<1>1. BridgeTypes /\ OneTerminalEach /\ ConnectedIsHonest /\ HasSocket
  BY DEF BridgeInv, Create
<1>2. PICK m \in UpMessages : m = [type |-> "create", by |-> c]
  <2>1. [type |-> "create", by |-> c] \in UpMessages
    BY DEF UpMessages
  <2> QED BY <2>1
<1>3. /\ call[c] = "new" /\ call' = [call EXCEPT ![c] = "creating"]
      /\ pendingCreates' = Append(pendingCreates, c) /\ up' = Sent(ws, m) /\ terms' = terms
  BY <1>2 DEF Create
<1>4. ws \in Sockets /\ up' = IF sock[ws] = "open" THEN [up EXCEPT ![ws] = Append(@, m)] ELSE up
  BY <1>1, <1>3, SentMoves
<1>5. PICK k \in Sockets : k = ws
  BY <1>4
<1>6. \A d \in Callers : call'[d] # "new" <=> call[d] # "new" \/ d = c
  BY <1>3 DEF BridgeTypes, BridgeInv
<1>7. \/ up' = up
      \/ /\ \A v \in Sockets : v # k => up'[v] = up[v]
         /\ DOMAIN up'[k] = DOMAIN up[k] \cup {Len(up[k]) + 1}
         /\ Len(up[k]) + 1 \notin DOMAIN up[k]
         /\ \A i \in DOMAIN up[k] : up'[k][i] = up[k][i]
         /\ up'[k][Len(up[k]) + 1] = m
  <2> SUFFICES ASSUME sock[ws] = "open" PROVE up' = up \/
         /\ \A v \in Sockets : v # k => up'[v] = up[v]
         /\ DOMAIN up'[k] = DOMAIN up[k] \cup {Len(up[k]) + 1}
         /\ Len(up[k]) + 1 \notin DOMAIN up[k]
         /\ \A i \in DOMAIN up[k] : up'[k][i] = up[k][i]
         /\ up'[k][Len(up[k]) + 1] = m
    BY <1>4
  <2>1. up[k] \in Seq(UpMessages) /\ up'[k] = Append(up[k], m)
    BY <1>1, <1>4, <1>5 DEF BridgeTypes
  <2>2. \A v \in Sockets : v # k => up'[v] = up[v]
    BY <1>1, <1>4, <1>5 DEF BridgeTypes
  <2> QED BY <2>1, <2>2, QueueAppend
<1>8. /\ DOMAIN pendingCreates' = DOMAIN pendingCreates \cup {Len(pendingCreates) + 1}
      /\ \A p \in DOMAIN pendingCreates : pendingCreates'[p] = pendingCreates[p]
      /\ pendingCreates'[Len(pendingCreates) + 1] = c
  <2>1. pendingCreates \in Seq(Callers)
    BY <1>1 DEF BridgeTypes
  <2> QED BY <1>3, <2>1, QueueAppend
<1>9. \A p \in DOMAIN pendingCreates' :
        \/ p \in DOMAIN pendingCreates /\ pendingCreates'[p] = pendingCreates[p]
           /\ pendingCreates[p] \in Callers /\ call[pendingCreates[p]] # "new"
        \/ p = Len(pendingCreates) + 1 /\ pendingCreates'[p] = c
  BY <1>1, <1>8, ElementTypes DEF OneTerminalEach
<1>10. \A w \in Sockets : \A i \in DOMAIN up'[w] : up'[w][i].type = "create" =>
         \/ /\ i \in DOMAIN up[w] /\ up'[w][i] = up[w][i] /\ up[w][i].by \in Callers
            /\ call[up[w][i].by] # "new"
         \/ w = k /\ i = Len(up[k]) + 1 /\ up'[w][i].by = c
  BY <1>1, <1>2, <1>7, ElementTypes DEF OneTerminalEach
<1>11. \A i \in DOMAIN terms : terms[i].by \in Callers /\ call[terms[i].by] # "new"
  BY <1>1, ElementTypes DEF OneTerminalEach
<1>12. /\ \A p, q \in DOMAIN pendingCreates' : pendingCreates'[p] = pendingCreates'[q] => p = q
       /\ \A p \in DOMAIN pendingCreates' : call'[pendingCreates'[p]] # "new"
  BY <1>1, <1>3, <1>6, <1>9 DEF OneTerminalEach
<1>13. ASSUME NEW w \in Sockets, NEW i \in DOMAIN up'[w], up'[w][i].type = "create"
       PROVE  /\ call'[up'[w][i].by] # "new"
              /\ \A j \in DOMAIN terms' : terms'[j].by # up'[w][i].by
              /\ \A v \in Sockets : \A j \in DOMAIN up'[v] :
                   up'[v][j].type = "create" /\ up'[v][j].by = up'[w][i].by => v = w /\ j = i
  BY <1>1, <1>3, <1>6, <1>10, <1>11, <1>13 DEF OneTerminalEach
<1>14. /\ \A i, j \in DOMAIN terms' : terms'[i].by = terms'[j].by => i = j
       /\ \A i \in DOMAIN terms' : call'[terms'[i].by] # "new"
  BY <1>1, <1>3, <1>6, <1>11 DEF OneTerminalEach
<1> QED BY <1>12, <1>13, <1>14 DEF OneTerminalEach

LEMMA CreateKeepsInStep ==
  ASSUME BridgeInv, NEW c \in Callers, Create(c) PROVE InStep'
<1>1. /\ BridgeTypes /\ OneTerminalEach /\ ConnectedIsHonest /\ HasSocket /\ InStep
      /\ IdsExist /\ OnlyOpenCarry
  BY DEF BridgeInv, Create
<1>2. PICK m \in UpMessages : m = [type |-> "create", by |-> c]
  <2>1. [type |-> "create", by |-> c] \in UpMessages
    BY DEF UpMessages
  <2> QED BY <2>1
<1>3. /\ call[c] = "new" /\ pendingCreates' = Append(pendingCreates, c) /\ up' = Sent(ws, m)
      /\ asked' = ws /\ crossed' = (crossed \/ (pendingCreates # <<>> /\ asked # ws))
      /\ UNCHANGED <<sock, down, terms>>
  BY <1>2 DEF Create
<1>4. /\ ws \in Sockets /\ sock[ws] \in {"open", "closing"} /\ ws # 0
      /\ up' = IF sock[ws] = "open" THEN [up EXCEPT ![ws] = Append(@, m)] ELSE up
  BY <1>1, <1>3, SentMoves DEF HasSocket
<1>5. PICK k \in Sockets : k = ws
  BY <1>4
<1>. PICK L \in Nat : L = Len(up[k]) /\ DOMAIN up[k] = 1 .. L
  <2>1. up[k] \in Seq(UpMessages)
    BY <1>1 DEF BridgeTypes
  <2> QED BY <2>1, QueueElements
<1>. PICK Z : Z = Len(pendingCreates)
  OBVIOUS
<1>7. /\ DOMAIN pendingCreates' = 1 .. Z + 1 /\ DOMAIN pendingCreates = 1 .. Z /\ Z \in Nat
      /\ \A p \in 1 .. Z : pendingCreates'[p] = pendingCreates[p]
      /\ pendingCreates'[Z + 1] = c
  <2>1. pendingCreates \in Seq(Callers)
    BY <1>1 DEF BridgeTypes
  <2> QED BY <1>3, <2>1, QueueAppend
<1>8. SUFFICES ASSUME ~crossed' PROVE InStep'
  BY DEF InStep
\* The queue is that of the socket of the request, or empty.
<1>9. QueueOf(k) /\ \A v \in Sockets : v # k => \A d \in Callers : ~Carried(v, d)
  <2>0. ~crossed
    BY <1>3, <1>8
  <2>1. CASE asked = k
    <3>1. k # 0
      BY <1>4, <1>5
    <3> QED BY <1>1, <2>0, <2>1, <3>1 DEF InStep
  <2>2. CASE pendingCreates = <<>>
    <3>1. DOMAIN pendingCreates = {}
      BY <2>2
    <3>2. \A v \in Sockets : v = asked => \A d \in Callers : ~Carried(v, d)
      BY <1>1, <2>0, <3>1, BridgeAssumption DEF InStep, QueueOf, Sockets
    <3>3. \A v \in Sockets : \A d \in Callers : ~Carried(v, d)
      BY <1>1, <2>0, <3>2 DEF InStep
    <3>4. sock[k] \in {"open", "closing", "closed"}
      BY <1>4, <1>5
    <3> QED BY <3>1, <3>3, <3>4 DEF QueueOf
  <2> QED BY <1>3, <1>5, <1>8, <2>1, <2>2
<1>10. \A v \in Sockets : \A d, i : Answers(v, i, d)' <=> Answers(v, i, d)
  BY <1>3 DEF Answers
<1>11. \A v \in Sockets : \A d, i :
         Asks(v, i, d)' <=> Asks(v, i, d) \/ (v = k /\ i = L + 1 /\ d = c /\ sock[k] = "open")
  <2>1. CASE sock[k] # "open"
    <3>1. up' = up
      BY <1>4, <1>5, <2>1
    <3> QED BY <2>1, <3>1 DEF Asks
  <2>2. CASE sock[k] = "open"
    <3>1. /\ \A v \in Sockets : v # k => up'[v] = up[v]
          /\ DOMAIN up'[k] = DOMAIN up[k] \cup {L + 1}
          /\ \A i \in DOMAIN up[k] : up'[k][i] = up[k][i]
          /\ up'[k][L + 1] = m
      <4>1. up[k] \in Seq(UpMessages) /\ up'[k] = Append(up[k], m)
        BY <1>1, <1>4, <1>5, <2>2 DEF BridgeTypes
      <4>2. \A v \in Sockets : v # k => up'[v] = up[v]
        BY <1>1, <1>4, <1>5, <2>2 DEF BridgeTypes
      <4> QED BY <4>1, <4>2, QueueAppend
    <3> SUFFICES ASSUME NEW v \in Sockets, NEW d, NEW i
                 PROVE Asks(v, i, d)' <=> Asks(v, i, d) \/ (v = k /\ i = L + 1 /\ d = c)
      BY <2>2
    <3>2. CASE v # k
      BY <3>1, <3>2 DEF Asks
    <3>3. CASE v = k /\ i # L + 1
      BY <3>1, <3>3 DEF Asks
    <3>4. CASE v = k /\ i = L + 1
      BY <1>2, <3>1, <3>4 DEF Asks
    <3> QED BY <3>2, <3>3, <3>4
  <2> QED BY <2>1, <2>2
\* The caller is new: nothing on its way is about it, and it is not queued.
<1>12. \A v \in Sockets : \A i : ~Asks(v, i, c) /\ ~Answers(v, i, c)
  BY <1>1, <1>3 DEF Asks, Answers, OneTerminalEach, IdsExist
<1>13. \A p \in 1 .. Z : pendingCreates[p] # c
  BY <1>1, <1>3, <1>7 DEF OneTerminalEach
<1>6. \A v \in Sockets : \A d :
        Carried(v, d)' <=> Carried(v, d) \/ (v = k /\ d = c /\ sock[k] = "open")
  <2>1. L + 1 \in Nat
    OBVIOUS
  <2> QED BY <1>10, <1>11, <2>1 DEF Carried
<1>14. QueueOf(k)'
  <2>1. ASSUME NEW d \in Callers, Carried(k, d)'
        PROVE  \E p \in 1 .. Z + 1 : pendingCreates'[p] = d
    <3>1. CASE d = c
      BY <1>7, <3>1
    <3>2. CASE d # c
      <4>1. \E p \in 1 .. Z : pendingCreates[p] = d
        BY <1>6, <1>7, <1>9, <2>1, <3>2 DEF QueueOf
      <4> QED BY <1>7, <4>1
    <3> QED BY <3>1, <3>2
  <2>2. ASSUME NEW p \in 1 .. Z + 1, NEW q \in 1 .. Z + 1, NEW d, NEW e, p < q,
               d = pendingCreates'[p], e = pendingCreates'[q], Carried(k, e)'
        PROVE  Carried(k, d)'
    <3>0. p \in 1 .. Z /\ d = pendingCreates[p]
      BY <1>7, <2>2
    <3>1. CASE q = Z + 1
      <4>1. e = c /\ ~Carried(k, c)
        BY <1>7, <1>12, <2>2, <3>1 DEF Carried
      <4>2. Carried(k, d)
        BY <1>6, <1>7, <1>9, <2>2, <3>0, <4>1 DEF QueueOf
      <4> QED BY <1>6, <4>2
    <3>2. CASE q \in 1 .. Z
      <4>1. e = pendingCreates[q] /\ e # c
        BY <1>7, <1>13, <2>2, <3>2
      <4>2. Carried(k, d)
        BY <1>6, <1>7, <1>9, <2>2, <3>0, <3>2, <4>1 DEF QueueOf
      <4> QED BY <1>6, <4>2
    <3> QED BY <1>7, <3>1, <3>2
  <2>3. ASSUME NEW p \in 1 .. Z + 1, NEW q \in 1 .. Z + 1, NEW i \in Nat, NEW j \in Nat,
               NEW d, NEW e, d = pendingCreates'[p], e = pendingCreates'[q],
               \/ i < j /\ Answers(k, i, d)' /\ Answers(k, j, e)'
               \/ i < j /\ Asks(k, i, d)' /\ Asks(k, j, e)'
               \/ Answers(k, i, d)' /\ Asks(k, j, e)'
        PROVE  p < q
    <3>1. CASE p \in 1 .. Z /\ q \in 1 .. Z
      <4>1. d = pendingCreates[p] /\ e = pendingCreates[q] /\ d # c /\ e # c
        BY <1>7, <1>13, <2>3, <3>1
      <4>2. \/ i < j /\ Answers(k, i, d) /\ Answers(k, j, e)
            \/ i < j /\ Asks(k, i, d) /\ Asks(k, j, e)
            \/ Answers(k, i, d) /\ Asks(k, j, e)
        BY <1>10, <1>11, <2>3, <4>1
      <4> QED BY <1>7, <1>9, <3>1, <4>1, <4>2 DEF QueueOf
    <3>2. CASE p = Z + 1
      <4>1. d = c
        BY <1>7, <2>3, <3>2
      <4>2. Asks(k, i, d)' /\ Asks(k, j, e)' /\ i < j /\ i = L + 1
        BY <1>10, <1>11, <1>12, <2>3, <4>1
      <4>3. Asks(k, j, e) \/ j = L + 1
        BY <1>11, <4>2
      <4>4. j \in 1 .. L + 1
        BY <4>3 DEF Asks
      <4> QED BY <4>2, <4>4
    <3>3. CASE p \in 1 .. Z /\ q = Z + 1
      BY <1>7, <3>3
    <3> QED BY <1>7, <3>1, <3>2, <3>3
  <2>4. ASSUME sock'[k] = "open", NEW p \in 1 .. Z + 1, NEW d, d = pendingCreates'[p]
        PROVE  Carried(k, d)'
    <3>0. sock[k] = "open"
      BY <1>3, <2>4
    <3>1. CASE p = Z + 1
      BY <1>6, <1>7, <2>4, <3>0, <3>1
    <3>2. CASE p \in 1 .. Z
      <4>1. Carried(k, d)
        BY <1>7, <1>9, <2>4, <3>0, <3>2 DEF QueueOf
      <4> QED BY <1>6, <4>1
    <3> QED BY <1>7, <3>1, <3>2
  <2>5. sock'[k] \in {"open", "closing", "closed"}
    BY <1>3, <1>4, <1>5
  <2> QED BY <1>7, <2>1, <2>2, <2>3, <2>4, <2>5, QueueAfter
<1>15. \A v \in Sockets : v # k => \A d \in Callers : ~Carried(v, d)'
  BY <1>6, <1>9
<1>16. asked' = k /\ k # 0
  BY <1>3, <1>4, <1>5
<1> QED BY <1>14, <1>15, <1>16 DEF InStep

LEMMA CreateKeepsBridge ==
  ASSUME BridgeInv, NEW c \in Callers, Create(c) PROVE BridgeInv'
<1>0. /\ BridgeTypes /\ IdsExist /\ OneTerminalEach /\ OnlyOpenCarry /\ ConnectedIsHonest
      /\ OnlyOwnTerminal /\ OutputInOrder /\ ResultsAreLast /\ OutputIsWhole
  BY DEF BridgeInv
<1>1. PICK m \in UpMessages : m = [type |-> "create", by |-> c]
  <2>1. [type |-> "create", by |-> c] \in UpMessages
    BY DEF UpMessages
  <2> QED BY <2>1
<1>2. /\ HasSocket /\ call[c] = "new" /\ call' = [call EXCEPT ![c] = "creating"]
      /\ pendingCreates' = Append(pendingCreates, c) /\ up' = Sent(ws, m)
      /\ UNCHANGED <<sock, down, ws, connected, terms, got, result, outputBuffers, taken,
                     slot, list, timers, beat, awaits, failures>>
      /\ asked' = ws /\ crossed' = (crossed \/ (pendingCreates # <<>> /\ asked # ws))
  BY <1>1 DEF Create, lists, hearts
<1>3. /\ up' \in [Sockets -> Seq(UpMessages)] /\ Moved(up, up', 0, {m}) /\ ws \in Sockets
      /\ \A v \in Sockets : sock[v] # "open" => up'[v] = up[v]
  BY <1>0, <1>2, SentMoves
<1>4. Moved(down, down', 0, {}) /\ 0 \notin Sockets
  BY <1>0, <1>2, MovedNot, BridgeAssumption DEF BridgeTypes, Sockets
<1>5. BridgeTypes'
  <2>1. pendingCreates' \in Seq(Callers)
    BY <1>0, <1>2, QueueAppend DEF BridgeTypes
  <2>2. call' \in [Callers -> {"new", "creating", "exec", "done", "failed"}]
    BY <1>0, <1>2 DEF BridgeTypes
  <2> QED BY <1>0, <1>2, <1>3, <2>1, <2>2 DEF BridgeTypes
<1>6. IdsExist'
  <2>1. m.type \notin {"input", "kill"}
    BY <1>1
  <2> QED BY <1>0, <1>2, <1>3, <1>4, <2>1, IdsExistKept
<1>7. OnlyOpenCarry' /\ ConnectedIsHonest'
  BY <1>0, <1>2, <1>3 DEF OnlyOpenCarry, ConnectedIsHonest, HasSocket
<1>8. OnlyOwnTerminal'
  <2>1. m.type \notin {"input", "kill"}
    BY <1>1
  <2> QED BY <1>0, <1>2, <1>3, <2>1, OnlyOwnTerminalKept
<1>9. OutputInOrder'
  <2>1. DOMAIN terms' \subseteq Ids
    BY <1>0, <1>2, TerminalsBounded
  <2> QED BY <1>0, <1>2, <1>4, <1>5, <2>1, OutputInOrderKept
<1>10. ResultsAreLast' /\ OutputIsWhole'
  <2>1. \A d \in Callers : call[d] = "done" => call'[d] = "done" /\ got'[d] = got[d]
    BY <1>0, <1>2 DEF BridgeTypes
  <2> QED BY <1>0, <1>2, <2>1, ResultsKept
<1> QED BY <1>5, <1>6, <1>7, <1>8, <1>9, <1>10, CreateKeepsOneEach, CreateKeepsInStep
        DEF BridgeInv

\* An answer is for the head of the queue, as long as no creation was asked for
\* over another socket than one that was in the queue.
LEMMA AnswerToHead ==
  ASSUME BridgeInv, ~crossed, NEW w \in Sockets,
         down[w] # <<>>, Head(down[w]).type = "created"
  PROVE  /\ w = asked /\ QueueOf(w) /\ pendingCreates # <<>>
         /\ Head(pendingCreates) = terms[Head(down[w]).id].by
         /\ Head(pendingCreates) = pendingCreates[1]
         /\ Answers(w, 1, pendingCreates[1])
<1>1. BridgeTypes /\ IdsExist /\ InStep /\ w # 0 /\ w \in Nat
  BY BridgeAssumption DEF BridgeInv, Sockets
<1>2. down[w][1] = Head(down[w]) /\ 1 \in DOMAIN down[w]
  BY <1>1, HeadTypes
<1>3. PICK c \in Callers : c = terms[down[w][1].id].by
  BY <1>1, <1>2, ElementTypes DEF IdsExist
<1>4. Answers(w, 1, c)
  BY <1>2, <1>3 DEF Answers
<1>4a. Carried(w, c)
  BY <1>4 DEF Carried
<1>5. w = asked
  BY <1>1, <1>4a DEF InStep
<1>6. QueueOf(w)
  BY <1>1, <1>5 DEF InStep
<1>7. PICK p \in DOMAIN pendingCreates : pendingCreates[p] = c
  BY <1>4a, <1>6 DEF QueueOf
<1>8. /\ DOMAIN pendingCreates = 1 .. Len(pendingCreates) /\ Len(pendingCreates) \in Nat
      /\ pendingCreates \in Seq(Callers)
  BY <1>1, QueueElements DEF BridgeTypes
<1>9. 1 \in DOMAIN pendingCreates /\ p \in Nat /\ p >= 1
  BY <1>7, <1>8
<1>9a. Carried(w, pendingCreates[1])
  <2>1. CASE p = 1
    BY <1>4a, <1>7, <2>1
  <2>2. CASE 1 < p
    BY <1>4a, <1>6, <1>7, <1>9, <2>2 DEF QueueOf
  <2> QED BY <1>9, <2>1, <2>2
<1>10. PICK j \in Nat : \/ Asks(w, j, pendingCreates[1])
                        \/ Answers(w, j, pendingCreates[1])
  BY <1>9a DEF Carried
<1>11. pendingCreates[1] = c
  <2>1. CASE Asks(w, j, pendingCreates[1])
    <3>1. p < 1
      BY <1>4, <1>6, <1>7, <1>9, <2>1 DEF QueueOf
    <3> QED BY <1>9, <3>1
  <2>2. CASE Answers(w, j, pendingCreates[1]) /\ j # 1
    <3>1. 1 < j
      <4>1. down[w] \in Seq(DownMessages) /\ j \in DOMAIN down[w]
        BY <1>1, <2>2 DEF BridgeTypes, Answers
      <4> QED BY <2>2, <4>1, QueueElements
    <3>2. p < 1
      BY <1>4, <1>6, <1>7, <1>9, <2>2, <3>1 DEF QueueOf
    <3> QED BY <1>9, <3>2
  <2>3. CASE Answers(w, j, pendingCreates[1]) /\ j = 1
    BY <1>4, <2>3 DEF Answers
  <2> QED BY <1>10, <2>1, <2>2, <2>3
<1>12. pendingCreates # <<>> /\ Head(pendingCreates) = pendingCreates[1]
  BY <1>8, <1>9, QueueTail, EmptySeq
<1> QED BY <1>2, <1>3, <1>4, <1>5, <1>6, <1>11, <1>12

LEMMA CreatedKeepsInStep ==
  ASSUME BridgeInv, BridgeTypes', NEW w \in Sockets, Created(w), NEW M, Moved(up, up', 0, M),
         \A x \in M : x.type # "create"
  PROVE InStep'
<1>1. BridgeTypes /\ OneTerminalEach /\ InStep /\ IdsExist
  BY DEF BridgeInv
<1>2. /\ down[w] # <<>> /\ Head(down[w]).type = "created"
      /\ down' = [down EXCEPT ![w] = Tail(@)]
      /\ pendingCreates' = IF pendingCreates = <<>> THEN <<>> ELSE Tail(pendingCreates)
      /\ UNCHANGED <<sock, terms, asked, crossed>>
  BY DEF Created, histories
<1>3. SUFFICES ASSUME ~crossed PROVE InStep'
  BY <1>2 DEF InStep
<1>4. /\ w = asked /\ QueueOf(w) /\ pendingCreates # <<>>
      /\ Answers(w, 1, pendingCreates[1])
  BY <1>2, <1>3, AnswerToHead
<1>5. PICK Z \in Nat : Z = Len(pendingCreates)
  BY <1>1, QueueElements DEF BridgeTypes
<1>6. /\ DOMAIN pendingCreates = 1 .. Z /\ DOMAIN pendingCreates' = 1 .. Z - 1 /\ Z >= 1
      /\ \A p \in 1 .. Z - 1 : pendingCreates'[p] = pendingCreates[p + 1]
  <2>1. pendingCreates \in Seq(Callers) /\ pendingCreates' = Tail(pendingCreates)
    BY <1>1, <1>2, <1>4 DEF BridgeTypes
  <2> QED BY <1>4, <1>5, <2>1, QueueTail
<1>7. Moved(down, down', w, {}) /\ 0 \notin Sockets
  <2>1. down \in [Sockets -> Seq(DownMessages)] /\ 0 \notin Sockets
    BY <1>1, BridgeAssumption DEF BridgeTypes, Sockets
  <2> QED BY <1>2, <2>1, MovedTail
<1>8. \A v \in Sockets : /\ DOMAIN down[v] \subseteq Nat \ {0}
                         /\ DOMAIN down'[v] \subseteq Nat \ {0}
                         /\ DOMAIN up[v] \subseteq Nat /\ DOMAIN up'[v] \subseteq Nat
  <2>1. \A v \in Sockets : /\ down[v] \in Seq(DownMessages) /\ down'[v] \in Seq(DownMessages)
                           /\ up[v] \in Seq(UpMessages) /\ up'[v] \in Seq(UpMessages)
    BY <1>1 DEF BridgeTypes
  <2> QED BY <2>1, QueueElements
<1>9. \A v \in Sockets : \A d : \A i \in Nat : Asks(v, i, d)' <=> Asks(v, i, d)
  BY <1>7, <1>8 DEF Asks, Moved
<1>10. \A d : \A i \in Nat : Answers(w, i, d)' => Answers(w, i + 1, d)
  BY <1>2, <1>7, <1>8 DEF Answers, Moved
<1>11. \A d : \A i \in Nat : Answers(w, i, d) /\ i # 1 => i - 1 \in Nat /\ Answers(w, i - 1, d)'
  BY <1>2, <1>7, <1>8 DEF Answers, Moved
<1>12. \A v \in Sockets : v # w => \A d : \A i \in Nat : Answers(v, i, d)' => Answers(v, i, d)
  BY <1>2, <1>7, <1>8 DEF Answers, Moved
<1>13. asked' = w /\ w # 0
  BY <1>2, <1>4, BridgeAssumption DEF Sockets
<1>14. \A d : Carried(w, d)' => Carried(w, d)
  BY <1>9, <1>10 DEF Carried
\* Whatever else is carried still is.
<1>15. ASSUME NEW p \in 1 .. Z - 1, NEW d, d = pendingCreates[p + 1], Carried(w, d)
       PROVE  Carried(w, d)'
  <2>1. PICK i \in Nat : Asks(w, i, d) \/ Answers(w, i, d)
    BY <1>15 DEF Carried
  <2>2. CASE Asks(w, i, d)
    BY <1>9, <2>2 DEF Carried
  <2>3. CASE Answers(w, i, d)
    <3>1. i # 1
      <4> SUFFICES ASSUME i = 1 PROVE FALSE
        OBVIOUS
      <4>1. d = pendingCreates[1]
        BY <1>4, <2>3 DEF Answers
      <4>2. p + 1 \in 1 .. Z /\ 1 \in 1 .. Z /\ pendingCreates[p + 1] = pendingCreates[1]
        BY <1>6, <1>15, <4>1
      <4>3. \A x, y \in 1 .. Z : pendingCreates[x] = pendingCreates[y] => x = y
        BY <1>1, <1>6 DEF OneTerminalEach
      <4>4. p + 1 = 1
        BY <4>2, <4>3
      <4> QED BY <4>4
    <3> QED BY <1>11, <2>3, <3>1 DEF Carried
  <2> QED BY <2>1, <2>2, <2>3
<1>16. QueueOf(w)'
  <2>0. \A x, y \in 1 .. Z :
          x < y /\ Carried(w, pendingCreates[y]) => Carried(w, pendingCreates[x])
    BY <1>4, <1>6 DEF QueueOf
  <2>1. ASSUME NEW d \in Callers, Carried(w, d)'
        PROVE  \E p \in 1 .. Z - 1 : pendingCreates'[p] = d
    <3>0. PICK i \in Nat : Asks(w, i, d)' \/ Answers(w, i, d)'
      BY <2>1 DEF Carried
    <3>1. Asks(w, i, d) \/ (Answers(w, i + 1, d) /\ 1 < i + 1)
      <4>1. CASE Asks(w, i, d)'
        BY <1>9, <4>1
      <4>2. CASE Answers(w, i, d)'
        <5>1. i \in DOMAIN down'[w]
          BY <4>2 DEF Answers
        <5>2. 1 < i + 1
          BY <1>8, <5>1
        <5> QED BY <1>10, <4>2, <5>2
      <4> QED BY <3>0, <4>1, <4>2
    <3>2. PICK p \in 1 .. Z : pendingCreates[p] = d
      BY <1>4, <1>6, <1>14, <2>1 DEF QueueOf
    <3>3. 1 < p
      BY <1>4, <1>6, <3>1, <3>2 DEF QueueOf
    <3>4. p - 1 \in 1 .. Z - 1 /\ pendingCreates'[p - 1] = d
      BY <1>6, <3>2, <3>3
    <3> QED BY <3>4
  <2>2. ASSUME NEW p \in 1 .. Z - 1, NEW q \in 1 .. Z - 1, NEW d, NEW e, p < q,
               d = pendingCreates'[p], e = pendingCreates'[q], Carried(w, e)'
        PROVE  Carried(w, d)'
    <3>1. PICK x \in 1 .. Z, y \in 1 .. Z :
            x = p + 1 /\ y = q + 1 /\ d = pendingCreates[x] /\ e = pendingCreates[y] /\ x < y
      BY <1>6, <2>2
    <3>2. Carried(w, d)
      BY <1>14, <2>0, <2>2, <3>1
    <3> QED BY <1>15, <3>1, <3>2
  <2>3. ASSUME NEW p \in 1 .. Z - 1, NEW q \in 1 .. Z - 1, NEW i \in Nat, NEW j \in Nat,
               NEW d, NEW e, d = pendingCreates'[p], e = pendingCreates'[q],
               \/ i < j /\ Answers(w, i, d)' /\ Answers(w, j, e)'
               \/ i < j /\ Asks(w, i, d)' /\ Asks(w, j, e)'
               \/ Answers(w, i, d)' /\ Asks(w, j, e)'
        PROVE  p < q
    <3>1. /\ p + 1 \in 1 .. Z /\ d = pendingCreates[p + 1]
          /\ q + 1 \in 1 .. Z /\ e = pendingCreates[q + 1]
      BY <1>6, <2>3
    <3>2. \/ i + 1 < j + 1 /\ Answers(w, i + 1, d) /\ Answers(w, j + 1, e)
          \/ i < j /\ Asks(w, i, d) /\ Asks(w, j, e)
          \/ Answers(w, i + 1, d) /\ Asks(w, j, e)
      BY <1>9, <1>10, <2>3
    <3>3. PICK a \in 1 .. Z, b \in 1 .. Z, g \in Nat, h \in Nat :
            a = p + 1 /\ b = q + 1 /\ g = i + 1 /\ h = j + 1
      BY <3>1
    <3>4. /\ d = pendingCreates[a] /\ e = pendingCreates[b]
          /\ \/ g < h /\ Answers(w, g, d) /\ Answers(w, h, e)
             \/ i < j /\ Asks(w, i, d) /\ Asks(w, j, e)
             \/ Answers(w, g, d) /\ Asks(w, j, e)
      BY <3>1, <3>2, <3>3
    <3>5. a < b
      BY <1>4, <1>6, <3>4 DEF QueueOf
    <3> QED BY <3>3, <3>5
  <2>4. ASSUME sock'[w] = "open", NEW p \in 1 .. Z - 1, NEW d, d = pendingCreates'[p]
        PROVE  Carried(w, d)'
    <3>1. PICK x \in 1 .. Z : x = p + 1 /\ d = pendingCreates[x]
      BY <1>6, <2>4
    <3>2. Carried(w, d)
      BY <1>2, <1>4, <1>6, <2>4, <3>1 DEF QueueOf
    <3> QED BY <1>15, <3>1, <3>2
  <2>5. sock'[w] \in {"open", "closing", "closed"}
    BY <1>2, <1>4 DEF QueueOf
  <2> QED BY <1>6, <2>1, <2>2, <2>3, <2>4, <2>5, QueueAfter
<1>17. \A v \in Sockets : v # w => \A d \in Callers : ~Carried(v, d)'
  BY <1>1, <1>3, <1>4, <1>9, <1>12 DEF InStep, Carried
<1> QED BY <1>13, <1>16, <1>17 DEF InStep

LEMMA CreatedKeepsBridge ==
  ASSUME BridgeInv, NEW w \in Sockets, Created(w) PROVE BridgeInv'
<1>0. /\ BridgeTypes /\ IdsExist /\ OneTerminalEach /\ OnlyOpenCarry /\ ConnectedIsHonest
      /\ OnlyOwnTerminal /\ OutputInOrder /\ ResultsAreLast /\ OutputIsWhole
  BY DEF BridgeInv
<1>1. PICK id : id = Head(down[w]).id
  OBVIOUS
<1>2. PICK c : c = Head(pendingCreates)
  OBVIOUS
<1>3. PICK resolves \in BOOLEAN : resolves = (pendingCreates # <<>> /\ call[c] = "creating")
  OBVIOUS
<1>4. /\ down[w] # <<>> /\ Head(down[w]).type = "created"
      /\ down' = [down EXCEPT ![w] = Tail(@)]
      /\ pendingCreates' = IF pendingCreates = <<>> THEN <<>> ELSE Tail(pendingCreates)
      /\ got' = IF resolves THEN [got EXCEPT ![c] = id] ELSE got
      /\ call' = IF resolves
                 THEN [call EXCEPT ![c] = IF HasSocket THEN "exec" ELSE "failed"] ELSE call
      /\ up' = IF resolves /\ HasSocket
               THEN Sent(ws, [type |-> "input", id |-> id, by |-> c]) ELSE up
      /\ UNCHANGED <<sock, ws, connected, terms, result, outputBuffers, taken,
                     slot, list, timers, beat, awaits, failures, asked, crossed>>
  BY <1>1, <1>2, <1>3 DEF Created, lists, hearts, histories
<1>5. id \in DOMAIN terms /\ id \in Nat /\ id # 0 /\ down[w][1].type = "created"
  <2>1. Head(down[w]) = down[w][1] /\ 1 \in DOMAIN down[w]
    BY <1>0, <1>4, HeadTypes
  <2>2. id \in DOMAIN terms
    BY <1>0, <1>1, <1>4, <2>1 DEF IdsExist
  <2>3. terms \in Seq(Terms)
    BY <1>0 DEF BridgeTypes
  <2> QED BY <1>4, <2>1, <2>2, <2>3, QueueElements
<1>6. /\ pendingCreates' \in Seq(Callers)
      /\ pendingCreates' = pendingCreates
         \/ (pendingCreates # <<>> /\ pendingCreates' = Tail(pendingCreates))
      /\ resolves => c \in Callers /\ call[c] = "creating"
  <2>1. pendingCreates \in Seq(Callers)
    BY <1>0 DEF BridgeTypes
  <2> QED BY <1>2, <1>3, <1>4, <2>1, QueueTail
<1>7. /\ call' \in [Callers -> {"new", "creating", "exec", "done", "failed"}]
      /\ got' \in [Callers -> Nat]
      /\ \A d \in Callers : call[d] # "new" => call'[d] # "new"
      /\ \A d \in Callers : call[d] = "done" => call'[d] = "done" /\ got'[d] = got[d]
      /\ \A d \in Callers : got'[d] = got[d] \/ (got'[d] = id /\ d = c /\ resolves)
  <2>1. /\ call \in [Callers -> {"new", "creating", "exec", "done", "failed"}]
        /\ got \in [Callers -> Nat]
    BY <1>0 DEF BridgeTypes
  <2> QED BY <1>4, <1>5, <1>6, <2>1
<1>8. PICK M : /\ Moved(up, up', 0, M) /\ up' \in [Sockets -> Seq(UpMessages)]
               /\ \A x \in M : x.type = "input" /\ x.id = id /\ x.by = c /\ resolves
               /\ \A v \in Sockets : sock[v] # "open" => up'[v] = up[v]
  <2>1. up \in [Sockets -> Seq(UpMessages)]
    BY <1>0 DEF BridgeTypes
  <2>2. CASE ~(resolves /\ HasSocket)
    <3>1. up' = up
      BY <1>4, <2>2
    <3>2. Moved(up, up', 0, {}) /\ up' \in [Sockets -> Seq(UpMessages)]
      BY <2>1, <3>1, MovedNot
    <3>3. /\ \A x \in {} : x.type = "input" /\ x.id = id /\ x.by = c /\ resolves
          /\ \A v \in Sockets : sock[v] # "open" => up'[v] = up[v]
      BY <3>1
    <3> QED BY <3>2, <3>3
  <2>3. CASE resolves /\ HasSocket
    <3>1. [type |-> "input", id |-> id, by |-> c] \in UpMessages
      BY <1>5, <1>6, <2>3 DEF UpMessages
    <3>2. PICK m \in UpMessages : m = [type |-> "input", id |-> id, by |-> c]
      BY <3>1
    <3>3. m.type = "input" /\ m.id = id /\ m.by = c
      BY <3>2
    <3>4. up' = Sent(ws, m)
      BY <1>4, <2>3, <3>2
    <3>5. /\ up' \in [Sockets -> Seq(UpMessages)] /\ Moved(up, up', 0, {m})
          /\ \A v \in Sockets : sock[v] # "open" => up'[v] = up[v]
      BY <1>0, <2>3, <3>4, SentMoves
    <3> QED BY <2>3, <3>3, <3>5
  <2> QED BY <2>2, <2>3
<1>9. /\ Moved(down, down', w, {}) /\ down' \in [Sockets -> Seq(DownMessages)]
      /\ 0 \notin Sockets /\ \A v \in Sockets : v # w => down'[v] = down[v]
  <2>1. down \in [Sockets -> Seq(DownMessages)] /\ 0 \notin Sockets
    BY <1>0, BridgeAssumption DEF BridgeTypes, Sockets
  <2> QED BY <1>4, <2>1, MovedTail
<1>10. BridgeTypes'
  BY <1>0, <1>4, <1>6, <1>7, <1>8, <1>9 DEF BridgeTypes
<1>11. IdsExist'
  <2>1. \A x \in M : x.type \in {"input", "kill"} => x.id \in DOMAIN terms'
    BY <1>4, <1>5, <1>8
  <2>2. DOMAIN terms \subseteq DOMAIN terms'
    BY <1>4
  <2>3. \A d \in Callers : got'[d] = got[d] \/ got'[d] \in DOMAIN terms'
    BY <1>4, <1>5, <1>7
  <2>4. Moved(up, up', 0, M) /\ Moved(down, down', w, {})
    BY <1>8, <1>9
  <2> QED BY <1>0, <2>1, <2>2, <2>3, <2>4, IdsExistKept
<1>12. OneTerminalEach'
  <2>1. \A x \in M : x.type # "create"
    BY <1>8
  <2>2. DOMAIN terms' = DOMAIN terms /\ \A i \in DOMAIN terms : terms'[i].by = terms[i].by
    BY <1>4
  <2> QED BY <1>0, <1>6, <1>7, <1>8, <1>10, <2>1, <2>2, OneTerminalEachKept
<1>13. OnlyOpenCarry' /\ ConnectedIsHonest'
  <2>1. sock[w] \in {"open", "closing"}
    BY <1>4, CarryingOpen
  <2> QED BY <1>0, <1>4, <1>8, <1>9, <2>1 DEF OnlyOpenCarry, ConnectedIsHonest, HasSocket
<1>14. InStep'
  <2>1. \A x \in M : x.type # "create"
    BY <1>8
  <2> QED BY <1>8, <1>10, <2>1, CreatedKeepsInStep
<1>15. OnlyOwnTerminal'
  <2>1. ~crossed /\ resolves => terms[id].by = c
    BY <1>1, <1>2, <1>3, <1>4, AnswerToHead
  <2>2. \A x \in M : ~crossed /\ x.type \in {"input", "kill"} => terms'[x.id].by = x.by
    BY <1>4, <1>8, <2>1
  <2>3. \A d \in Callers : \/ got'[d] = got[d]
                           \/ ~crossed => terms'[got'[d]].by = d
    BY <1>4, <1>7, <2>1
  <2> QED BY <1>0, <1>4, <1>8, <2>2, <2>3, OnlyOwnTerminalKept
<1>16. OutputInOrder'
  <2>1. DOMAIN terms' \subseteq Ids
    BY <1>0, <1>4, TerminalsBounded
  <2>2. w \in Sockets => down[w][1].type # "data"
    BY <1>5
  <2>3. /\ \A id2 \in Ids :
             outputBuffers'[id2] \cup taken'[id2] = outputBuffers[id2] \cup taken[id2]
        /\ \A id2 \in DOMAIN terms' :
             \/ /\ id2 \in DOMAIN terms /\ terms'[id2].n = terms[id2].n
                /\ terms'[id2].home \in {terms[id2].home, 0}
             \/ terms'[id2].n = 0
        /\ \A v \in Sockets : sock'[v] = "open" => sock[v] = "open"
    BY <1>4
  <2>4. Moved(down, down', w, {})
    BY <1>9
  <2> QED BY <1>0, <1>10, <2>1, <2>2, <2>3, <2>4, OutputInOrderKept
<1>17. ResultsAreLast' /\ OutputIsWhole'
  BY <1>0, <1>4, <1>7, ResultsKept
<1> QED BY <1>10, <1>11, <1>12, <1>13, <1>14, <1>15, <1>16, <1>17 DEF BridgeInv

\* The server makes terminal id for c, as the last answer so far on w.
Made(w, c, L, id) ==
  /\ c \in Callers /\ L \in Nat /\ id \in Nat \ {0} /\ sock[w] = "open" /\ 0 \notin Sockets
  /\ Asks(w, 1, c) /\ up[w][1].type = "create"
  /\ Moved(up, up', w, {}) /\ up' \in [Sockets -> Seq(UpMessages)]
  /\ \A v \in Sockets : v # w => up'[v] = up[v] /\ down'[v] = down[v]
  /\ \E x \in DownMessages :
       /\ x = [type |-> "created", id |-> id] /\ x.type = "created" /\ x.id = id
       /\ Moved(down, down', 0, {x}) /\ down' \in [Sockets -> Seq(DownMessages)]
       /\ down'[w][L + 1] = x
  /\ DOMAIN down'[w] = DOMAIN down[w] \cup {L + 1} /\ DOMAIN down[w] = 1 .. L
  /\ \A i \in 1 .. L : down'[w][i] = down[w][i]
  /\ terms' \in Seq(Terms) /\ DOMAIN terms' = DOMAIN terms \cup {id} /\ id \notin DOMAIN terms
  /\ \A i \in DOMAIN terms : terms'[i] = terms[i]
  /\ terms'[id].by = c /\ terms'[id].home = w /\ terms'[id].n = 0
  /\ UNCHANGED <<sock, ws, connected, pendingCreates, call, got, result, outputBuffers,
                 taken, slot, list, timers, beat, awaits, failures, asked, crossed>>

LEMMA MadeFacts ==
  ASSUME BridgeInv, NEW w \in Sockets, Serve(w), Head(up[w]).type = "create"
  PROVE  \E c, L, id : Made(w, c, L, id)
<1>. PICK c : c = Head(up[w]).by
  OBVIOUS
<1>. PICK L : L = Len(down[w])
  OBVIOUS
<1>. PICK id : id = Len(terms) + 1
  OBVIOUS
<1>1. BridgeTypes /\ IdsExist
  BY DEF BridgeInv
<1>2. /\ up[w] # <<>> /\ up' = [up EXCEPT ![w] = Tail(@)]
      /\ terms' = Append(terms, [by |-> c, home |-> w, jobs |-> <<>>, n |-> 0])
      /\ down' = [down EXCEPT ![w] = Append(@, [type |-> "created", id |-> id])]
      /\ UNCHANGED <<sock, ws, connected, pendingCreates, call, got, result, outputBuffers,
                     taken, slot, list, timers, beat, awaits, failures, asked, crossed>>
  BY DEF Serve, calls, lists, hearts, histories
<1>3. /\ up \in [Sockets -> Seq(UpMessages)] /\ down \in [Sockets -> Seq(DownMessages)]
      /\ terms \in Seq(Terms) /\ 0 \notin Sockets
  BY <1>1, BridgeAssumption DEF BridgeTypes, Sockets
<1>4. c \in Callers /\ Asks(w, 1, c) /\ up[w][1].type = "create" /\ sock[w] = "open"
  BY <1>1, <1>2, HeadTypes, ElementTypes, CarryingOpen DEF Asks
<1>5. Moved(up, up', w, {}) /\ up' \in [Sockets -> Seq(UpMessages)]
  BY <1>2, <1>3, MovedTail
<1>6. terms' \in Seq(Terms) /\ DOMAIN terms' = DOMAIN terms \cup {id} /\ id \notin DOMAIN terms
      /\ (\A i \in DOMAIN terms : terms'[i] = terms[i]) /\ id \in Nat \ {0}
      /\ terms'[id].by = c /\ terms'[id].home = w /\ terms'[id].n = 0
  <2>1. [by |-> c, home |-> w, jobs |-> <<>>, n |-> 0] \in Terms
    <3>1. w \in 0 .. MaxSockets /\ <<>> \in Seq(Callers)
      BY BridgeAssumption, EmptySeq DEF Sockets
    <3> QED BY <1>4, <3>1 DEF Terms
  <2>2. PICK t \in Terms : t = [by |-> c, home |-> w, jobs |-> <<>>, n |-> 0]
    BY <2>1
  <2>3. t.by = c /\ t.home = w /\ t.n = 0
    BY <2>2
  <2>4. terms' = Append(terms, t)
    BY <1>2, <2>2
  <2>5. /\ Append(terms, t) \in Seq(Terms) /\ Len(terms) \in Nat
        /\ DOMAIN terms = 1 .. Len(terms)
        /\ DOMAIN Append(terms, t) = 1 .. Len(terms) + 1
        /\ \A i \in 1 .. Len(terms) : Append(terms, t)[i] = terms[i]
        /\ Append(terms, t)[Len(terms) + 1] = t
    BY <1>3, QueueAppend
  <2> QED BY <2>3, <2>4, <2>5
<1>7. PICK x \in DownMessages : x = [type |-> "created", id |-> id]
  <2>1. [type |-> "created", id |-> id] \in DownMessages
    BY <1>6 DEF DownMessages
  <2> QED BY <2>1
<1>8. x.type = "created" /\ x.id = id
  BY <1>7
<1>9. down' = [down EXCEPT ![w] = Append(@, x)]
  BY <1>2, <1>7
<1>10. Moved(down, down', 0, {x}) /\ down' \in [Sockets -> Seq(DownMessages)]
  BY <1>3, <1>9, MovedAppend
<1>11. /\ L \in Nat /\ DOMAIN down'[w] = DOMAIN down[w] \cup {L + 1} /\ DOMAIN down[w] = 1 .. L
       /\ \A i \in 1 .. L : down'[w][i] = down[w][i]
       /\ down'[w][L + 1] = x
  <2>1. down[w] \in Seq(DownMessages) /\ down'[w] = Append(down[w], x)
    BY <1>3, <1>9
  <2> QED BY <2>1, QueueAppend
<1>12. \A v \in Sockets : v # w => up'[v] = up[v] /\ down'[v] = down[v]
  BY <1>2, <1>3
<1>13. \E y \in DownMessages :
         /\ y = [type |-> "created", id |-> id] /\ y.type = "created" /\ y.id = id
         /\ Moved(down, down', 0, {y}) /\ down' \in [Sockets -> Seq(DownMessages)]
         /\ down'[w][L + 1] = y
  BY <1>7, <1>8, <1>10, <1>11
<1>14. Made(w, c, L, id)
  BY <1>2, <1>3, <1>4, <1>5, <1>6, <1>11, <1>12, <1>13 DEF Made
<1> QED BY <1>14

LEMMA MadeKeepsOneEach ==
  ASSUME BridgeInv, BridgeTypes', NEW w \in Sockets, Serve(w), Head(up[w]).type = "create"
  PROVE  OneTerminalEach'
<1>1. BridgeTypes /\ OneTerminalEach
  BY DEF BridgeInv
<1>2. PICK c, L, id : Made(w, c, L, id)
  BY MadeFacts
<1>3. /\ c \in Callers /\ Asks(w, 1, c) /\ up[w][1].type = "create" /\ Moved(up, up', w, {})
      /\ DOMAIN terms' = DOMAIN terms \cup {id} /\ id \notin DOMAIN terms
      /\ \A i \in DOMAIN terms : terms'[i] = terms[i]
      /\ terms'[id].by = c /\ UNCHANGED <<pendingCreates, call>>
  BY <1>2 DEF Made
<1>4. /\ call[c] # "new" /\ \A j \in DOMAIN terms : terms[j].by # c
      /\ \A v \in Sockets : \A j \in DOMAIN up[v] :
           up[v][j].type = "create" /\ up[v][j].by = c => v = w /\ j = 1
  BY <1>1, <1>3 DEF OneTerminalEach, Asks
<1>5. /\ \A i, j \in DOMAIN terms' : terms'[i].by = terms'[j].by => i = j
      /\ \A i \in DOMAIN terms' : call'[terms'[i].by] # "new"
  BY <1>1, <1>3, <1>4 DEF OneTerminalEach
<1>6. \A v \in Sockets : DOMAIN up'[v] \subseteq Nat \ {0}
  <2>1. \A v \in Sockets : up'[v] \in Seq(UpMessages)
    BY DEF BridgeTypes
  <2> QED BY <2>1, QueueElements
<1>7. ASSUME NEW v \in Sockets, NEW i \in DOMAIN up'[v]
      PROVE  \E k \in DOMAIN up[v] : /\ up'[v][i] = up[v][k]
                                     /\ k = IF v = w THEN i + 1 ELSE i
                                     /\ ~(v = w /\ k = 1) /\ i \in Nat
  BY <1>3, <1>6 DEF Moved
<1>8. ASSUME NEW v \in Sockets, NEW i \in DOMAIN up'[v], up'[v][i].type = "create"
      PROVE  /\ call'[up'[v][i].by] # "new"
             /\ \A j \in DOMAIN terms' : terms'[j].by # up'[v][i].by
             /\ \A u \in Sockets : \A j \in DOMAIN up'[u] :
                  up'[u][j].type = "create" /\ up'[u][j].by = up'[v][i].by => u = v /\ j = i
  <2>1. PICK k \in DOMAIN up[v] : /\ up'[v][i] = up[v][k] /\ k = IF v = w THEN i + 1 ELSE i
                                  /\ ~(v = w /\ k = 1) /\ i \in Nat
    BY <1>7
  <2>2. up[v][k].by # c
    BY <1>4, <1>8, <2>1
  <2>3. /\ call'[up'[v][i].by] # "new"
        /\ \A j \in DOMAIN terms' : terms'[j].by # up'[v][i].by
    BY <1>1, <1>3, <1>8, <2>1, <2>2 DEF OneTerminalEach
  <2>4. ASSUME NEW u \in Sockets, NEW j \in DOMAIN up'[u], up'[u][j].type = "create",
               up'[u][j].by = up'[v][i].by
        PROVE  u = v /\ j = i
    <3>1. PICK l \in DOMAIN up[u] : /\ up'[u][j] = up[u][l] /\ l = IF u = w THEN j + 1 ELSE j
                                    /\ j \in Nat
      BY <1>7
    <3>2. u = v /\ l = k
      BY <1>1, <1>8, <2>1, <2>4, <3>1 DEF OneTerminalEach
    <3> QED BY <2>1, <3>1, <3>2
  <2> QED BY <2>3, <2>4
<1>9. /\ \A p, q \in DOMAIN pendingCreates' : pendingCreates'[p] = pendingCreates'[q] => p = q
      /\ \A p \in DOMAIN pendingCreates' : call'[pendingCreates'[p]] # "new"
  BY <1>1, <1>3 DEF OneTerminalEach
<1> QED BY <1>5, <1>8, <1>9 DEF OneTerminalEach

LEMMA MadeKeepsInStep ==
  ASSUME BridgeInv, BridgeTypes', NEW w \in Sockets, Serve(w), Head(up[w]).type = "create"
  PROVE  InStep'
<1>1. BridgeTypes /\ OneTerminalEach /\ InStep /\ IdsExist /\ w # 0
  BY BridgeAssumption DEF BridgeInv, Sockets
<1>2. PICK c, L, id : Made(w, c, L, id)
  BY MadeFacts
<1>3. /\ c \in Callers /\ L \in Nat /\ sock[w] = "open"
      /\ Asks(w, 1, c) /\ Moved(up, up', w, {})
      /\ \A v \in Sockets : v # w => up'[v] = up[v] /\ down'[v] = down[v]
      /\ DOMAIN down'[w] = DOMAIN down[w] \cup {L + 1} /\ DOMAIN down[w] = 1 .. L
      /\ \A i \in 1 .. L : down'[w][i] = down[w][i]
      /\ \A i \in DOMAIN terms : terms'[i] = terms[i]
      /\ terms'[id].by = c
      /\ UNCHANGED <<sock, pendingCreates, asked, crossed>>
      /\ down'[w][L + 1].type = "created" /\ down'[w][L + 1].id = id
  BY <1>2 DEF Made
<1>4. SUFFICES ASSUME ~crossed PROVE InStep'
  BY <1>3 DEF InStep
<1>5. w = asked /\ QueueOf(w)
  <2>1. Carried(w, c)
    BY <1>3 DEF Carried
  <2> QED BY <1>1, <1>3, <1>4, <2>1 DEF InStep
<1>6. \A v \in Sockets : DOMAIN up'[v] \subseteq Nat \ {0} /\ DOMAIN up[v] \subseteq Nat \ {0}
  <2>1. \A v \in Sockets : up'[v] \in Seq(UpMessages) /\ up[v] \in Seq(UpMessages)
    BY <1>1 DEF BridgeTypes
  <2> QED BY <2>1, QueueElements
<1>7. \A d : \A i \in Nat : Asks(w, i, d)' => Asks(w, i + 1, d) /\ 1 < i + 1
  BY <1>3, <1>6 DEF Asks, Moved
<1>8. \A d : \A i \in Nat : Asks(w, i, d) =>
        (i = 1 /\ d = c) \/ (i - 1 \in Nat /\ Asks(w, i - 1, d)')
  BY <1>3, <1>6 DEF Asks, Moved
<1>9. \A d : \A i \in Nat : Answers(w, i, d)' <=> Answers(w, i, d) \/ (i = L + 1 /\ d = c)
  <2> SUFFICES ASSUME NEW d, NEW i \in Nat
               PROVE  Answers(w, i, d)' <=> Answers(w, i, d) \/ (i = L + 1 /\ d = c)
    OBVIOUS
  <2>1. CASE i = L + 1
    BY <1>3, <2>1 DEF Answers
  <2>2. CASE i # L + 1
    <3>1. i \in DOMAIN down'[w] <=> i \in DOMAIN down[w]
      BY <1>3, <2>2
    <3>2. i \in DOMAIN down[w] => down'[w][i] = down[w][i]
      BY <1>3
    <3>3. i \in DOMAIN down[w] /\ down[w][i].type = "created" =>
            terms'[down[w][i].id] = terms[down[w][i].id]
      BY <1>1, <1>3 DEF IdsExist
    <3> QED BY <2>2, <3>1, <3>2, <3>3 DEF Answers
  <2> QED BY <2>1, <2>2
<1>10. \A d : \A i \in Nat : Answers(w, i, d) => i <= L
  BY <1>3 DEF Answers
<1>11. \A v \in Sockets : v # w => \A d, i : /\ Asks(v, i, d)' <=> Asks(v, i, d)
                                             /\ Answers(v, i, d)' <=> Answers(v, i, d)
  <2> SUFFICES ASSUME NEW v \in Sockets, v # w, NEW d, NEW i
               PROVE  /\ Asks(v, i, d)' <=> Asks(v, i, d)
                      /\ Answers(v, i, d)' <=> Answers(v, i, d)
    OBVIOUS
  <2>1. i \in DOMAIN down[v] /\ down[v][i].type = "created" =>
          terms'[down[v][i].id] = terms[down[v][i].id]
    BY <1>1, <1>3 DEF IdsExist
  <2> QED BY <1>3, <2>1 DEF Asks, Answers
<1>12. asked' = w /\ pendingCreates' = pendingCreates /\ L + 1 \in Nat
  BY <1>3, <1>5
<1>13. \A d : Carried(w, d)' <=> Carried(w, d)
  <2>1. \A d : Carried(w, d) => Carried(w, d)'
    BY <1>8, <1>9, <1>12 DEF Carried
  <2>2. \A d : Carried(w, d)' => Carried(w, d)
    BY <1>3, <1>7, <1>9 DEF Carried
  <2> QED BY <2>1, <2>2
<1>14. QueueOf(w)'
  <2>3. ASSUME NEW p \in DOMAIN pendingCreates, NEW q \in DOMAIN pendingCreates,
               NEW i \in Nat, NEW j \in Nat,
               NEW d, NEW e, d = pendingCreates[p], e = pendingCreates[q],
               \/ i < j /\ Answers(w, i, d)' /\ Answers(w, j, e)'
               \/ i < j /\ Asks(w, i, d)' /\ Asks(w, j, e)'
               \/ Answers(w, i, d)' /\ Asks(w, j, e)'
        PROVE  p < q
    <3>1. \E g, h \in Nat :
            \/ g < h /\ Answers(w, g, d) /\ Answers(w, h, e)
            \/ g < h /\ Asks(w, g, d) /\ Asks(w, h, e)
            \/ Answers(w, g, d) /\ Asks(w, h, e)
      <4>1. CASE i < j /\ Answers(w, i, d)' /\ Answers(w, j, e)'
        <5>1. Answers(w, i, d)
          BY <1>3, <1>9, <1>10, <4>1
        <5> QED BY <1>3, <1>9, <4>1, <5>1
      <4>2. CASE i < j /\ Asks(w, i, d)' /\ Asks(w, j, e)'
        <5>1. i + 1 \in Nat /\ j + 1 \in Nat /\ i + 1 < j + 1
          BY <4>2
        <5> QED BY <1>7, <4>2, <5>1
      <4>3. CASE Answers(w, i, d)' /\ Asks(w, j, e)'
        <5>1. j + 1 \in Nat /\ Asks(w, j + 1, e) /\ 1 < j + 1
          BY <1>7, <4>3
        <5>2. Answers(w, i, d) \/ Asks(w, 1, d)
          BY <1>3, <1>9, <4>3
        <5> QED BY <5>1, <5>2
      <4> QED BY <2>3, <4>1, <4>2, <4>3
    <3> QED BY <1>5, <2>3, <3>1 DEF QueueOf
  <2>4. /\ \A d \in Callers : Carried(w, d)' =>
             \E p \in DOMAIN pendingCreates' : pendingCreates'[p] = d
        /\ \A p, q \in DOMAIN pendingCreates' : \A d, e :
             p < q /\ d = pendingCreates'[p] /\ e = pendingCreates'[q] /\ Carried(w, e)' =>
               Carried(w, d)'
        /\ sock'[w] = "open" =>
             \A p \in DOMAIN pendingCreates' : \A d : d = pendingCreates'[p] => Carried(w, d)'
        /\ sock'[w] \in {"open", "closing", "closed"}
    BY <1>3, <1>5, <1>12, <1>13 DEF QueueOf
  <2> QED BY <1>12, <2>3, <2>4, QueueAfter
<1>15. \A v \in Sockets : v # w => \A d \in Callers : ~Carried(v, d)'
  BY <1>1, <1>4, <1>5, <1>11 DEF InStep, Carried
<1> QED BY <1>1, <1>12, <1>14, <1>15 DEF InStep

LEMMA MadeKeepsBridge ==
  ASSUME BridgeInv, NEW w \in Sockets, Serve(w), Head(up[w]).type = "create"
  PROVE  BridgeInv'
<1>0. /\ BridgeTypes /\ IdsExist /\ OneTerminalEach /\ OnlyOpenCarry /\ ConnectedIsHonest
      /\ OnlyOwnTerminal /\ OutputInOrder /\ ResultsAreLast /\ OutputIsWhole
  BY DEF BridgeInv
<1>1. PICK c, L, id : Made(w, c, L, id)
  BY MadeFacts
<1>2. /\ sock[w] = "open" /\ 0 \notin Sockets
      /\ Moved(up, up', w, {}) /\ up' \in [Sockets -> Seq(UpMessages)]
      /\ \A v \in Sockets : v # w => up'[v] = up[v] /\ down'[v] = down[v]
      /\ terms' \in Seq(Terms) /\ DOMAIN terms' = DOMAIN terms \cup {id} /\ id \notin DOMAIN terms
      /\ \A i \in DOMAIN terms : terms'[i] = terms[i]
      /\ terms'[id].home = w /\ terms'[id].n = 0
      /\ UNCHANGED <<sock, ws, connected, pendingCreates, call, got, result, outputBuffers,
                     taken, slot, list, timers, beat, awaits, failures, asked, crossed>>
  BY <1>1 DEF Made
<1>3. PICK x \in DownMessages :
        /\ x.type = "created" /\ x.id = id
        /\ Moved(down, down', 0, {x}) /\ down' \in [Sockets -> Seq(DownMessages)]
  BY <1>1 DEF Made
<1>4. BridgeTypes'
  BY <1>0, <1>2, <1>3 DEF BridgeTypes
<1>5. OneTerminalEach' /\ InStep'
  BY <1>4, MadeKeepsOneEach, MadeKeepsInStep
<1>6. IdsExist'
  <2>1. DOMAIN terms \subseteq DOMAIN terms' /\ id \in DOMAIN terms'
    BY <1>2
  <2>2. \A y \in {x} : y.type \in {"created", "data"} => y.id \in DOMAIN terms'
    BY <1>3, <2>1
  <2>3. \A d \in Callers : got'[d] = got[d]
    BY <1>2
  <2>4. Moved(up, up', w, {}) /\ Moved(down, down', 0, {x})
    BY <1>2, <1>3
  <2> QED BY <1>0, <2>1, <2>2, <2>3, <2>4, IdsExistKept
<1>7. OnlyOpenCarry' /\ ConnectedIsHonest'
  BY <1>0, <1>2 DEF OnlyOpenCarry, ConnectedIsHonest, HasSocket
<1>8. OnlyOwnTerminal'
  <2>1. /\ \A i \in DOMAIN terms : terms'[i].by = terms[i].by
        /\ \A d \in Callers : got'[d] = got[d]
        /\ crossed' = crossed /\ Moved(up, up', w, {})
    BY <1>2
  <2> QED BY <1>0, <2>1, OnlyOwnTerminalKept
<1>9. OutputInOrder'
  <2>1. DOMAIN terms' \subseteq Ids
    BY <1>2, <1>5, DistinctBounded DEF OneTerminalEach
  <2>2. /\ 0 \in Sockets => down[0][1].type # "data"
        /\ \A y \in {x} : y.type # "data"
    BY <1>2, <1>3
  <2>3. /\ \A i \in Ids :
             outputBuffers'[i] \cup taken'[i] = outputBuffers[i] \cup taken[i]
        /\ \A i \in DOMAIN terms' :
             \/ /\ i \in DOMAIN terms /\ terms'[i].n = terms[i].n
                /\ terms'[i].home \in {terms[i].home, 0}
             \/ terms'[i].n = 0
        /\ \A v \in Sockets : sock'[v] = "open" => sock[v] = "open"
    BY <1>2
  <2>4. Moved(down, down', 0, {x})
    BY <1>3
  <2> QED BY <1>0, <1>4, <2>1, <2>2, <2>3, <2>4, OutputInOrderKept
<1>10. ResultsAreLast' /\ OutputIsWhole'
  BY <1>0, <1>2, ResultsKept
<1> QED BY <1>4, <1>5, <1>6, <1>7, <1>8, <1>9, <1>10 DEF BridgeInv

----------------------------------------------------------------------------
(* Sockets that open and close.                                            *)

LEMMA SettleTypes ==
  ASSUME BridgeTypes, NEW w \in Sockets, Settle(w)
  PROVE  /\ beat' \in [Beats -> {"idle", "login", "connecting"}]
         /\ awaits' \in [Beats -> 0 .. MaxSockets] /\ failures' \in 0 .. 2
<1>1. 0 \in 0 .. MaxSockets
  BY BridgeAssumption
<1>2. /\ beat \in [Beats -> {"idle", "login", "connecting"}]
      /\ awaits \in [Beats -> 0 .. MaxSockets] /\ failures \in 0 .. 2
  BY DEF BridgeTypes
<1>3. beat' \in [Beats -> {"idle", "login", "connecting"}]
  BY <1>2 DEF Settle
<1>4. awaits' \in [Beats -> 0 .. MaxSockets]
  BY <1>1, <1>2 DEF Settle
<1>5. failures' \in 0 .. 2
  BY <1>2 DEF Settle
<1> QED BY <1>3, <1>4, <1>5

LEMMA OpenKeepsBridge ==
  ASSUME BridgeInv, NEW w \in Sockets, Open(w) PROVE BridgeInv'
<1>0. /\ BridgeTypes /\ IdsExist /\ OneTerminalEach /\ OnlyOpenCarry /\ ConnectedIsHonest
      /\ InStep /\ OnlyOwnTerminal /\ OutputInOrder /\ ResultsAreLast /\ OutputIsWhole
  BY DEF BridgeInv
<1>1. /\ sock[w] = "opening" /\ sock' = [sock EXCEPT ![w] = "open"]
      /\ ws' = w /\ connected' = TRUE /\ Settle(w)
      /\ UNCHANGED <<up, down, terms, pendingCreates, call, got, result, outputBuffers, taken,
                     slot, list, timers, asked, crossed>>
  BY DEF Open, calls, lists, histories
<1>2. /\ sock' \in [Sockets -> {"unused", "opening", "open", "closing", "closed"}]
      /\ \A v \in Sockets : sock'[v] = IF v = w THEN "open" ELSE sock[v]
      /\ w \in 0 .. MaxSockets /\ w # 0
  BY <1>0, <1>1, BridgeAssumption DEF BridgeTypes, Sockets
<1>3. BridgeTypes'
  <2>1. /\ beat' \in [Beats -> {"idle", "login", "connecting"}]
        /\ awaits' \in [Beats -> 0 .. MaxSockets] /\ failures' \in 0 .. 2
    BY <1>0, <1>1, SettleTypes
  <2> QED BY <1>0, <1>1, <1>2, <2>1 DEF BridgeTypes
<1>4. IdsExist' /\ OneTerminalEach'
  BY <1>0, <1>1 DEF IdsExist, OneTerminalEach
<1>5. \A i \in DOMAIN terms : terms[i].home # 0 => terms[i].home \in Sockets /\ terms[i].home # w
  BY <1>0, <1>1, ElementTypes, BridgeAssumption DEF OnlyOpenCarry, Sockets
<1>6. OnlyOpenCarry' /\ ConnectedIsHonest'
  BY <1>0, <1>1, <1>2, <1>5 DEF OnlyOpenCarry, ConnectedIsHonest, HasSocket
<1>7. InStep'
  <2>1. /\ up \in [Sockets -> Seq(UpMessages)] /\ down \in [Sockets -> Seq(DownMessages)]
        /\ 0 \notin Sockets
    BY <1>0, BridgeAssumption DEF BridgeTypes, Sockets
  <2>2. Moved(up, up', 0, {}) /\ Moved(down, down', 0, {})
    BY <1>1, <2>1, MovedNot
  <2>3. /\ \A i \in DOMAIN terms : terms'[i].by = terms[i].by
        /\ UNCHANGED <<pendingCreates, asked, crossed>>
        /\ \A v \in Sockets : sock[v] \in {"open", "closing", "closed"} => sock'[v] = sock[v]
    BY <1>1, <1>2
  <2> QED BY <1>0, <1>3, <2>1, <2>2, <2>3, InStepKept
<1>8. OnlyOwnTerminal'
  BY <1>0, <1>1 DEF OnlyOwnTerminal
<1>9. OutputInOrder'
  <2>1. \A id, k : Arrived(id, k)' <=> Arrived(id, k)
    BY <1>1 DEF Arrived
  <2>2. \A v, i, id, k : Flies(v, i, id, k)' <=> Flies(v, i, id, k)
    BY <1>1 DEF Flies
  <2>3. ASSUME NEW id \in DOMAIN terms, NEW h, h = terms[id].home, h # 0, sock'[h] = "open",
               NEW k \in 1 .. terms[id].n
        PROVE  Arrived(id, k)' \/ \E j \in Nat : Flies(h, j, id, k)'
    <3>1. sock[h] = "open"
      BY <1>2, <1>5, <2>3
    <3> QED BY <1>0, <2>1, <2>2, <2>3, <3>1 DEF OutputInOrder
  <2>4. \A id \in DOMAIN terms' : terms'[id].home # 0 /\ sock'[terms'[id].home] = "open" =>
          \A k \in 1 .. terms'[id].n :
            Arrived(id, k)' \/ \E j \in Nat : Flies(terms[id].home, j, id, k)'
    BY <1>1, <2>3
  <2> QED BY <1>0, <1>1, <2>1, <2>2, <2>4 DEF OutputInOrder
<1>10. ResultsAreLast' /\ OutputIsWhole'
  BY <1>0, <1>1, ResultsKept
<1> QED BY <1>3, <1>4, <1>6, <1>7, <1>8, <1>9, <1>10 DEF BridgeInv

\* A socket ends in two steps: first its requests are lost, then its answers.
LEMMA EndKeepsBridge ==
  ASSUME BridgeInv, NEW w \in Sockets, Closing(w) \/ Close(w) PROVE BridgeInv'
<1>0. /\ BridgeTypes /\ IdsExist /\ OneTerminalEach /\ OnlyOpenCarry /\ ConnectedIsHonest
      /\ InStep /\ OnlyOwnTerminal /\ OutputInOrder /\ ResultsAreLast /\ OutputIsWhole
  BY DEF BridgeInv
<1>1. UNCHANGED <<ws, terms, pendingCreates, call, got, result, outputBuffers, taken,
                  slot, list, timers, asked, crossed>>
  BY DEF Closing, Close, calls, lists, histories
<1>2. /\ up \in [Sockets -> Seq(UpMessages)] /\ down \in [Sockets -> Seq(DownMessages)]
      /\ sock \in [Sockets -> {"unused", "opening", "open", "closing", "closed"}]
      /\ <<>> \in Seq(UpMessages) /\ <<>> \in Seq(DownMessages) /\ DOMAIN <<>> = {}
  BY <1>0, EmptySeq DEF BridgeTypes
<1>3. /\ sock' \in [Sockets -> {"unused", "opening", "open", "closing", "closed"}]
      /\ \A v \in Sockets : v # w => sock'[v] = sock[v]
      /\ connected' \in BOOLEAN
      /\ beat' \in [Beats -> {"idle", "login", "connecting"}]
      /\ awaits' \in [Beats -> 0 .. MaxSockets] /\ failures' \in 0 .. 2
      /\ up' \in [Sockets -> Seq(UpMessages)] /\ down' \in [Sockets -> Seq(DownMessages)]
      /\ up'[w] = <<>> /\ \A v \in Sockets : v # w => up'[v] = up[v] /\ down'[v] = down[v]
      /\ \/ sock'[w] = "closing" /\ connected' = connected /\ down'[w] = down[w]
         \/ sock'[w] = "closed" /\ ~connected' /\ down'[w] = <<>>
  <2>1. CASE Closing(w)
    <3>1. /\ sock' = [sock EXCEPT ![w] = "closing"] /\ up' = [up EXCEPT ![w] = <<>>]
          /\ UNCHANGED <<down, connected, beat, awaits, failures>>
      BY <2>1 DEF Closing, hearts
    <3>2. /\ connected' \in BOOLEAN /\ beat' \in [Beats -> {"idle", "login", "connecting"}]
          /\ awaits' \in [Beats -> 0 .. MaxSockets] /\ failures' \in 0 .. 2
      BY <1>0, <3>1 DEF BridgeTypes
    <3> QED BY <1>2, <3>1, <3>2
  <2>2. CASE Close(w)
    <3>1. /\ sock[w] # "open" /\ sock' = [sock EXCEPT ![w] = "closed"] /\ connected' = FALSE
          /\ down' = [down EXCEPT ![w] = <<>>] /\ up' = up /\ Settle(w)
      BY <2>2 DEF Close
    <3>2. up[w] = <<>>
      BY <1>0, <3>1 DEF OnlyOpenCarry
    <3>3. /\ beat' \in [Beats -> {"idle", "login", "connecting"}]
          /\ awaits' \in [Beats -> 0 .. MaxSockets] /\ failures' \in 0 .. 2
      BY <1>0, <3>1, SettleTypes
    <3> QED BY <1>2, <3>1, <3>2, <3>3
  <2> QED BY <2>1, <2>2
<1>4. BridgeTypes'
  BY <1>0, <1>1, <1>3 DEF BridgeTypes
<1>5. IdsExist' /\ OneTerminalEach'
  <2>1. \A v \in Sockets : /\ DOMAIN up'[v] \subseteq DOMAIN up[v]
                           /\ \A i \in DOMAIN up'[v] : up'[v][i] = up[v][i]
                           /\ DOMAIN down'[v] \subseteq DOMAIN down[v]
                           /\ \A i \in DOMAIN down'[v] : down'[v][i] = down[v][i]
    BY <1>2, <1>3
  <2>2. IdsExist'
    BY <1>0, <1>1, <2>1 DEF IdsExist
  <2>3. OneTerminalEach'
    BY <1>0, <1>1, <2>1 DEF OneTerminalEach
  <2> QED BY <2>2, <2>3
<1>6. \A i \in DOMAIN terms : terms[i].home # 0 => terms[i].home \in Sockets
  BY <1>0, ElementTypes, BridgeAssumption DEF Sockets
<1>7. OnlyOpenCarry' /\ ConnectedIsHonest'
  <2>1. OnlyOpenCarry'
    BY <1>0, <1>1, <1>3, <1>6 DEF OnlyOpenCarry
  <2>2. ws # 0 => ws \in Sockets
    BY <1>0, BridgeAssumption DEF BridgeTypes, Sockets
  <2>3. ConnectedIsHonest'
    BY <1>0, <1>1, <1>3, <2>2 DEF ConnectedIsHonest, HasSocket
  <2> QED BY <2>1, <2>3
<1>8. \A v \in Sockets :
        /\ \A i, c : Asks(v, i, c)' <=> Asks(v, i, c) /\ v # w
        /\ \/ \A i, c : Answers(v, i, c)' <=> Answers(v, i, c)
           \/ v = w /\ \A i, c : ~Answers(v, i, c)'
  BY <1>1, <1>2, <1>3 DEF Asks, Answers
<1>9. InStep'
  <2> SUFFICES ASSUME ~crossed PROVE InStep'
    BY <1>1 DEF InStep
  <2>1. \A v \in Sockets : v # asked => \A c \in Callers : ~Carried(v, c)'
    BY <1>0, <1>8 DEF InStep, Carried
  <2>2. ASSUME NEW k, k = asked, k # 0 PROVE QueueOf(k)'
    <3>1. k \in Sockets /\ QueueOf(k)
      BY <1>0, <2>2, BridgeAssumption DEF BridgeTypes, InStep, Sockets
    <3>2. \A i, c : (Asks(k, i, c)' => Asks(k, i, c)) /\ (Answers(k, i, c)' => Answers(k, i, c))
      BY <1>8, <3>1
    <3>3. \A c : Carried(k, c)' => Carried(k, c)
      BY <3>2 DEF Carried
    <3>4. ASSUME NEW p \in DOMAIN pendingCreates, NEW q \in DOMAIN pendingCreates, p < q,
                 NEW c, NEW d, c = pendingCreates[p], d = pendingCreates[q], Carried(k, d)'
          PROVE  Carried(k, c)'
      <4>1. Carried(k, c)
        BY <3>1, <3>3, <3>4 DEF QueueOf
      <4>2. PICK i \in Nat : Asks(k, i, c) \/ Answers(k, i, c)
        BY <4>1 DEF Carried
      <4>3. PICK j \in Nat : Asks(k, j, d)' \/ Answers(k, j, d)'
        BY <3>4 DEF Carried
      <4>4. CASE k # w
        BY <1>8, <3>1, <4>2, <4>4 DEF Carried
      <4>5. CASE k = w
        <5>1. /\ Answers(k, j, d) /\ \A x, y : Answers(k, x, y)' <=> Answers(k, x, y)
          BY <1>8, <3>1, <4>3, <4>5
        <5>2. ~Asks(k, i, c)
          <6> SUFFICES ASSUME Asks(k, i, c) PROVE FALSE
            OBVIOUS
          <6>1. q < p
            BY <3>1, <3>4, <5>1 DEF QueueOf
          <6>2. p \in Nat /\ q \in Nat
            BY <1>0, ElementTypes
          <6> QED BY <3>4, <6>1, <6>2
        <5> QED BY <4>2, <5>1, <5>2 DEF Carried
      <4> QED BY <4>4, <4>5
    <3>5. sock'[k] = "open" => \A p \in DOMAIN pendingCreates : \A c :
            c = pendingCreates[p] => Carried(k, c)'
      <4> SUFFICES ASSUME sock'[k] = "open", NEW p \in DOMAIN pendingCreates,
                          NEW c, c = pendingCreates[p]
                   PROVE  Carried(k, c)'
        OBVIOUS
      <4>1. k # w /\ sock[k] = "open"
        BY <1>3, <3>1
      <4>2. Carried(k, c)
        BY <3>1, <4>1 DEF QueueOf
      <4> QED BY <1>8, <3>1, <4>1, <4>2 DEF Carried
    <3>6. /\ sock'[k] \in {"open", "closing", "closed"} /\ pendingCreates' = pendingCreates
          /\ \A c \in Callers : Carried(k, c)' =>
               \E p \in DOMAIN pendingCreates : pendingCreates[p] = c
      BY <1>1, <1>3, <3>1, <3>3 DEF QueueOf
    <3>7. ASSUME NEW p \in DOMAIN pendingCreates, NEW q \in DOMAIN pendingCreates,
                 NEW c, NEW d, c = pendingCreates[p], d = pendingCreates[q],
                 NEW i \in Nat, NEW j \in Nat,
                 \/ i < j /\ Answers(k, i, c)' /\ Answers(k, j, d)'
                 \/ i < j /\ Asks(k, i, c)' /\ Asks(k, j, d)'
                 \/ Answers(k, i, c)' /\ Asks(k, j, d)'
          PROVE  p < q
      BY <3>1, <3>2, <3>7 DEF QueueOf
    <3> QED BY <3>4, <3>5, <3>6, <3>7, QueueAfter
  <2>3. asked = 0 => pendingCreates' = <<>>
    BY <1>0, <1>1 DEF InStep
  <2> QED BY <1>1, <2>1, <2>2, <2>3 DEF InStep
<1>10. OnlyOwnTerminal'
  <2>1. \A v \in Sockets : /\ DOMAIN up'[v] \subseteq DOMAIN up[v]
                           /\ \A i \in DOMAIN up'[v] : up'[v][i] = up[v][i]
    BY <1>2, <1>3
  <2> QED BY <1>0, <1>1, <2>1 DEF OnlyOwnTerminal
<1>11. OutputInOrder'
  <2>1. \A id, k : Arrived(id, k)' <=> Arrived(id, k)
    BY <1>1 DEF Arrived
  <2>2. \A v \in Sockets :
          \/ \A i, id, k : Flies(v, i, id, k)' <=> Flies(v, i, id, k)
          \/ v = w /\ \A i, id, k : ~Flies(v, i, id, k)'
    BY <1>2, <1>3 DEF Flies
  <2>3. ASSUME NEW id \in DOMAIN terms, NEW h, h = terms[id].home, h # 0, sock'[h] = "open",
               NEW k \in 1 .. terms[id].n
        PROVE  Arrived(id, k)' \/ \E j \in Nat : Flies(h, j, id, k)'
    <3>1. h \in Sockets /\ h # w /\ sock[h] = "open"
      BY <1>3, <1>6, <2>3
    <3> QED BY <1>0, <2>1, <2>2, <2>3, <3>1 DEF OutputInOrder
  <2>4. \A id \in DOMAIN terms' : terms'[id].home # 0 /\ sock'[terms'[id].home] = "open" =>
          \A k \in 1 .. terms'[id].n :
            Arrived(id, k)' \/ \E j \in Nat : Flies(terms[id].home, j, id, k)'
    BY <1>1, <2>3
  <2>5. \A v \in Sockets, id \in Ids, i \in Nat, n \in Nat : Flies(v, i, id, n)' =>
          \A k \in 1 .. n - 1 : Arrived(id, k)' \/ \E j \in 1 .. i - 1 : Flies(v, j, id, k)'
    BY <1>0, <2>1, <2>2 DEF OutputInOrder
  <2>6. \A id \in Ids : \A x \in outputBuffers'[id] \cup taken'[id] :
          \A k \in 1 .. x.n : Arrived(id, k)'
    BY <1>0, <1>1, <2>1 DEF OutputInOrder
  <2> QED BY <2>4, <2>5, <2>6 DEF OutputInOrder
<1>12. ResultsAreLast' /\ OutputIsWhole'
  BY <1>0, <1>1, ResultsKept
<1> QED BY <1>4, <1>5, <1>7, <1>9, <1>10, <1>11, <1>12 DEF BridgeInv

----------------------------------------------------------------------------
(* Output.                                                                 *)

\* Data takes chunk x of terminal id from the queue of w.
LEMMA DataKeepsOrder ==
  ASSUME BridgeInv, BridgeTypes', NEW w \in Sockets, NEW id \in Ids, NEW x \in Chunks,
         Moved(down, down', w, {}), Flies(w, 1, id, x.n),
         outputBuffers' = [outputBuffers EXCEPT ![id] = @ \cup {x}],
         UNCHANGED <<sock, terms, taken>>
  PROVE  OutputInOrder'
<1>1. BridgeTypes /\ OutputInOrder /\ OneTerminalEach
  BY DEF BridgeInv
<1>2. \A i \in Ids : outputBuffers'[i] = IF i = id THEN outputBuffers[i] \cup {x}
                                         ELSE outputBuffers[i]
  BY <1>1 DEF BridgeTypes
<1>3. \A i \in Ids : \A k : Arrived(i, k)' <=> Arrived(i, k) \/ (i = id /\ k = x.n)
  BY <1>2 DEF Arrived
<1>4. \A v \in Sockets : DOMAIN down[v] \subseteq Nat \ {0} /\ DOMAIN down'[v] \subseteq Nat \ {0}
  <2>1. \A v \in Sockets : down[v] \in Seq(DownMessages) /\ down'[v] \in Seq(DownMessages)
    BY <1>1 DEF BridgeTypes
  <2> QED BY <2>1, QueueElements
<1>5. \A v \in Sockets : \E b \in {0, 1} :
        /\ \A i, k : \A j \in Nat : Flies(v, j, i, k)' => Flies(v, j + b, i, k)
        /\ \A i, k : \A j \in Nat : Flies(v, j, i, k) =>
             (i = id /\ k = x.n) \/ (j - b \in Nat \ {0} /\ Flies(v, j - b, i, k)')
  <2> SUFFICES ASSUME NEW v \in Sockets
               PROVE  \E b \in {0, 1} :
                 /\ \A i, k : \A j \in Nat : Flies(v, j, i, k)' => Flies(v, j + b, i, k)
                 /\ \A i, k : \A j \in Nat : Flies(v, j, i, k) =>
                      (i = id /\ k = x.n) \/ (j - b \in Nat \ {0} /\ Flies(v, j - b, i, k)')
    OBVIOUS
  <2>1. PICK b \in {0, 1} : b = IF v = w THEN 1 ELSE 0
    OBVIOUS
  <2>2. \A i, k : \A j \in Nat : Flies(v, j, i, k)' => Flies(v, j + b, i, k)
    BY <1>4, <2>1 DEF Flies, Moved
  <2>3. \A i, k : \A j \in Nat : Flies(v, j, i, k) =>
          (i = id /\ k = x.n) \/ (j - b \in Nat \ {0} /\ Flies(v, j - b, i, k)')
    BY <1>4, <2>1 DEF Flies, Moved
  <2> QED BY <2>2, <2>3
<1>6. ASSUME NEW i \in Ids, NEW y \in outputBuffers'[i] \cup taken'[i], NEW k \in 1 .. y.n
      PROVE  Arrived(i, k)'
  <2>1. CASE y \in outputBuffers[i] \cup taken[i]
    BY <1>1, <1>3, <2>1 DEF OutputInOrder
  <2>2. CASE i = id /\ y = x /\ k = x.n
    BY <1>3, <2>2
  <2>3. CASE i = id /\ y = x /\ k # x.n
    <3>1. k \in 1 .. x.n - 1 /\ x.n \in Nat
      BY <2>3 DEF Chunks
    <3>2. Arrived(id, k) \/ \E j \in 1 .. 1 - 1 : Flies(w, j, id, k)
      BY <1>1, <3>1 DEF OutputInOrder
    <3> QED BY <1>3, <2>3, <3>2
  <2> QED BY <1>2, <2>1, <2>2, <2>3
<1>7. ASSUME NEW v \in Sockets, NEW i \in Ids, NEW j \in Nat, NEW n \in Nat,
             Flies(v, j, i, n)', NEW k \in 1 .. n - 1
      PROVE  Arrived(i, k)' \/ \E l \in 1 .. j - 1 : Flies(v, l, i, k)'
  <2>1. PICK b \in {0, 1} :
        /\ \A m : \A l \in Nat : Flies(v, l, i, m)' => Flies(v, l + b, i, m)
        /\ \A m : \A l \in Nat : Flies(v, l, i, m) =>
             (i = id /\ m = x.n) \/ (l - b \in Nat \ {0} /\ Flies(v, l - b, i, m)')
    BY <1>5
  <2>2. Flies(v, j + b, i, n) /\ j + b \in Nat
    BY <1>7, <2>1
  <2>3. Arrived(i, k) \/ \E l \in 1 .. j + b - 1 : Flies(v, l, i, k)
    BY <1>1, <2>2 DEF OutputInOrder
  <2>4. ASSUME NEW l \in 1 .. j + b - 1, Flies(v, l, i, k)
        PROVE  Arrived(i, k)' \/ \E g \in 1 .. j - 1 : Flies(v, g, i, k)'
    <3>1. (i = id /\ k = x.n) \/ (l - b \in Nat \ {0} /\ Flies(v, l - b, i, k)')
      BY <2>1, <2>4
    <3> QED BY <1>3, <3>1
  <2> QED BY <1>3, <2>3, <2>4
<1>8. ASSUME NEW i \in DOMAIN terms, NEW h, h = terms[i].home, h # 0, sock[h] = "open",
             NEW k \in 1 .. terms[i].n
      PROVE  Arrived(i, k)' \/ \E j \in Nat : Flies(h, j, i, k)'
  <2>1. h \in Sockets /\ i \in Ids
    BY <1>1, <1>8, ElementTypes, TerminalsBounded, BridgeAssumption DEF Sockets
  <2>2. Arrived(i, k) \/ \E j \in Nat : Flies(h, j, i, k)
    BY <1>1, <1>8 DEF OutputInOrder
  <2>3. ASSUME NEW j \in Nat, Flies(h, j, i, k)
        PROVE  Arrived(i, k)' \/ \E l \in Nat : Flies(h, l, i, k)'
    BY <1>3, <1>5, <2>1, <2>3
  <2> QED BY <1>3, <2>1, <2>2, <2>3
<1>9. \A i \in DOMAIN terms' : terms'[i].home # 0 /\ sock'[terms'[i].home] = "open" =>
        \A k \in 1 .. terms'[i].n :
          Arrived(i, k)' \/ \E j \in Nat : Flies(terms[i].home, j, i, k)'
  BY <1>8
<1> QED BY <1>6, <1>7, <1>9 DEF OutputInOrder

LEMMA DataKeepsBridge ==
  ASSUME BridgeInv, NEW w \in Sockets, Data(w) PROVE BridgeInv'
<1>0. /\ BridgeTypes /\ IdsExist /\ OneTerminalEach /\ OnlyOpenCarry /\ ConnectedIsHonest
      /\ InStep /\ OnlyOwnTerminal /\ OutputInOrder /\ ResultsAreLast /\ OutputIsWhole
  BY DEF BridgeInv
<1>1. down[w] # <<>> /\ Head(down[w]).type = "data" /\ down' = [down EXCEPT ![w] = Tail(@)]
      /\ UNCHANGED <<sock, ws, connected, terms, pendingCreates, got, taken,
                     slot, list, timers, beat, awaits, failures, asked, crossed>>
  BY DEF Data, lists, hearts, histories
<1>2. /\ Head(down[w]) \in DownMessages /\ Head(down[w]) = down[w][1] /\ 1 \in DOMAIN down[w]
  BY <1>0, <1>1, HeadTypes
<1>3. PICK id \in DOMAIN terms, x \in Chunks : id = down[w][1].id /\ x = down[w][1].chunk
  BY <1>0, <1>1, <1>2 DEF DownMessages, IdsExist
<1>4. PICK buffer : buffer = outputBuffers[id] \cup {x}
  OBVIOUS
<1>5. PICK found \in SUBSET {c \in Callers : call[c] = "exec" /\ got[c] = id} :
        /\ outputBuffers' = [outputBuffers EXCEPT ![id] = buffer]
        /\ result' = [c \in Callers |-> IF c \in found THEN buffer ELSE result[c]]
        /\ \E late \in SUBSET {c \in Callers : call[c] = "exec"} :
             call' = [c \in Callers |-> IF c \in found THEN "done"
                                        ELSE IF c \in late THEN "failed" ELSE call[c]]
        /\ up' = IF found # {} /\ HasSocket
                 THEN Sent(ws, [type |-> "kill", id |-> id, by |-> CHOOSE c \in found : TRUE])
                 ELSE up
  <2>1. PICK m : m = Head(down[w])
    OBVIOUS
  <2>2. m.id = id /\ m.chunk = x
    BY <1>2, <1>3, <2>1
  <2>3. Buffered(outputBuffers[m.id], m.chunk) = buffer
    BY <1>4, <2>2 DEF Buffered
  <2>4. PICK listening : listening = {c \in Callers : call[c] = "exec" /\ got[c] = m.id}
    OBVIOUS
  <2>5. PICK hits : hits = {c \in listening :
                              \E y \in Buffered(outputBuffers[m.id], m.chunk) : y.mark = c}
    OBVIOUS
  <2>6. /\ outputBuffers' = [outputBuffers EXCEPT ![m.id] = Buffered(outputBuffers[m.id], m.chunk)]
        /\ result' = [c \in Callers |-> IF c \in hits
                                        THEN Buffered(outputBuffers[m.id], m.chunk) ELSE result[c]]
    BY <2>1, <2>4, <2>5 DEF Data
  <2>7. PICK late \in SUBSET (listening \ hits) :
          call' = [c \in Callers |-> IF c \in hits THEN "done"
                                     ELSE IF c \in late THEN "failed" ELSE call[c]]
    <3> DEFINE Listen(y) == {c \in Callers : call[c] = "exec" /\ got[c] = y.id}
               Hit(y) == {c \in Listen(y) :
                            \E z \in Buffered(outputBuffers[y.id], y.chunk) : z.mark = c}
               Ends(y, L, H) ==
                 \E late \in SUBSET (L \ H) :
                   call' = [c \in Callers |-> IF c \in H THEN "done"
                                              ELSE IF c \in late THEN "failed" ELSE call[c]]
    <3>1. Ends(Head(down[w]), Listen(Head(down[w])), Hit(Head(down[w])))
      BY Zenon DEF Data
    <3>2. listening = Listen(m)
      BY <2>4
    <3>3. hits = Hit(m)
      BY <2>5, <3>2
    <3>4. Ends(m, listening, hits)
      <4> HIDE DEF Listen, Hit, Ends
      <4> QED BY <2>1, <3>1, <3>2, <3>3
    <3> QED BY <3>4
  <2>8. up' = IF hits # {} /\ HasSocket
              THEN Sent(ws, [type |-> "kill", id |-> m.id, by |-> CHOOSE c \in hits : TRUE])
              ELSE up
    BY <2>1, <2>4, <2>5 DEF Data
  <2>9. late \in SUBSET {c \in Callers : call[c] = "exec"}
    BY <2>4
  <2>10. hits \in SUBSET {c \in Callers : call[c] = "exec" /\ got[c] = id}
    BY <2>2, <2>4, <2>5
  <2> QED BY <2>2, <2>3, <2>6, <2>7, <2>8, <2>9, <2>10
<1>6. id \in Ids /\ id \in Nat /\ id # 0
  <2>1. terms \in Seq(Terms)
    BY <1>0 DEF BridgeTypes
  <2> QED BY <1>0, <2>1, QueueElements, TerminalsBounded
<1>7. /\ outputBuffers' \in [Ids -> SUBSET Chunks] /\ result' \in [Callers -> SUBSET Chunks]
      /\ buffer \subseteq Chunks
  <2>1. outputBuffers \in [Ids -> SUBSET Chunks] /\ result \in [Callers -> SUBSET Chunks]
    BY <1>0 DEF BridgeTypes
  <2> QED BY <1>4, <1>5, <1>6, <2>1
<1>8. /\ call' \in [Callers -> {"new", "creating", "exec", "done", "failed"}]
      /\ \A c \in Callers : call[c] # "new" => call'[c] # "new"
      /\ \A c \in Callers : call[c] = "done" => call'[c] = "done" /\ c \notin found
      /\ \A c \in found : call'[c] = "done" /\ got[c] = id /\ c \in Callers
  <2>1. call \in [Callers -> {"new", "creating", "exec", "done", "failed"}]
    BY <1>0 DEF BridgeTypes
  <2> QED BY <1>5, <2>1
<1>9. PICK M : /\ Moved(up, up', 0, M) /\ up' \in [Sockets -> Seq(UpMessages)]
               /\ \A m \in M : m.type = "kill" /\ m.id = id /\ m.by \in found
               /\ \A v \in Sockets : sock[v] # "open" => up'[v] = up[v]
  <2>1. up \in [Sockets -> Seq(UpMessages)]
    BY <1>0 DEF BridgeTypes
  <2>2. CASE ~(found # {} /\ HasSocket)
    <3>1. up' = up /\ Moved(up, up', 0, {})
      BY <1>5, <2>1, <2>2, MovedNot
    <3>2. \A m \in {} : m.type = "kill" /\ m.id = id /\ m.by \in found
      OBVIOUS
    <3> QED BY <2>1, <3>1, <3>2
  <2>3. CASE found # {} /\ HasSocket
    <3>1. PICK c \in found : c = CHOOSE d \in found : TRUE
      BY <2>3
    <3>2. [type |-> "kill", id |-> id, by |-> c] \in UpMessages
      BY <1>6, <1>8 DEF UpMessages
    <3>3. PICK m \in UpMessages : m = [type |-> "kill", id |-> id, by |-> c]
      BY <3>2
    <3>4. m.type = "kill" /\ m.id = id /\ m.by = c
      BY <3>3
    <3>5. up' = Sent(ws, m)
      BY <1>5, <2>3, <3>1, <3>3
    <3>6. /\ up' \in [Sockets -> Seq(UpMessages)] /\ Moved(up, up', 0, {m})
          /\ \A v \in Sockets : sock[v] # "open" => up'[v] = up[v]
      BY <1>0, <2>3, <3>5, SentMoves
    <3> QED BY <3>4, <3>6
  <2> QED BY <2>2, <2>3
<1>10. /\ Moved(down, down', w, {}) /\ down' \in [Sockets -> Seq(DownMessages)]
       /\ 0 \notin Sockets /\ \A v \in Sockets : v # w => down'[v] = down[v]
  <2>1. down \in [Sockets -> Seq(DownMessages)] /\ 0 \notin Sockets
    BY <1>0, BridgeAssumption DEF BridgeTypes, Sockets
  <2> QED BY <1>1, <2>1, MovedTail
<1>11. BridgeTypes'
  BY <1>0, <1>1, <1>7, <1>8, <1>9, <1>10 DEF BridgeTypes
<1>12. IdsExist'
  <2>1. \A m \in M : m.type \in {"input", "kill"} => m.id \in DOMAIN terms'
    BY <1>1, <1>3, <1>9
  <2>2. DOMAIN terms \subseteq DOMAIN terms' /\ \A d \in Callers : got'[d] = got[d]
    BY <1>1
  <2>3. Moved(up, up', 0, M) /\ Moved(down, down', w, {})
    BY <1>9, <1>10
  <2> QED BY <1>0, <2>1, <2>2, <2>3, IdsExistKept
<1>13. OneTerminalEach'
  <2>1. \A m \in M : m.type # "create"
    BY <1>9
  <2>2. /\ DOMAIN terms' = DOMAIN terms /\ \A i \in DOMAIN terms : terms'[i].by = terms[i].by
        /\ pendingCreates' = pendingCreates
    BY <1>1
  <2> QED BY <1>0, <1>8, <1>9, <1>11, <2>1, <2>2, OneTerminalEachKept
<1>14. OnlyOpenCarry' /\ ConnectedIsHonest'
  <2>1. sock[w] \in {"open", "closing"}
    BY <1>1, CarryingOpen
  <2> QED BY <1>0, <1>1, <1>9, <1>10, <2>1 DEF OnlyOpenCarry, ConnectedIsHonest, HasSocket
<1>15. InStep'
  <2>1. \A m \in M : m.type # "create"
    BY <1>9
  <2>2. /\ \A i \in DOMAIN terms : terms'[i].by = terms[i].by
        /\ UNCHANGED <<pendingCreates, asked, crossed, sock>>
    BY <1>1
  <2>3. /\ 0 \in Sockets => up[0][1].type # "create"
        /\ w \in Sockets => down[w][1].type # "created"
    BY <1>1, <1>2, <1>10
  <2>4. Moved(up, up', 0, M) /\ Moved(down, down', w, {})
    BY <1>9, <1>10
  <2> QED BY <1>0, <1>11, <2>1, <2>2, <2>3, <2>4, InStepKept
<1>16. OnlyOwnTerminal'
  <2>1. ASSUME NEW m \in M, ~crossed PROVE terms'[m.id].by = m.by
    <3>1. m.id = id /\ m.by \in Callers /\ got[m.by] = id /\ id # 0
      BY <1>6, <1>8, <1>9
    <3>2. terms[got[m.by]].by = m.by
      BY <1>0, <2>1, <3>1 DEF OnlyOwnTerminal
    <3> QED BY <1>1, <3>1, <3>2
  <2>2. /\ \A i \in DOMAIN terms : terms'[i].by = terms[i].by
        /\ \A d \in Callers : got'[d] = got[d]
        /\ crossed' = crossed /\ Moved(up, up', 0, M)
    BY <1>1, <1>9
  <2> QED BY <1>0, <2>1, <2>2, OnlyOwnTerminalKept
<1>17. OutputInOrder'
  <2>1. Flies(w, 1, id, x.n)
    BY <1>1, <1>2, <1>3 DEF Flies
  <2> QED BY <1>1, <1>4, <1>5, <1>6, <1>10, <1>11, <2>1, DataKeepsOrder
<1>18. ResultsAreLast'
  BY <1>0, <1>1, <1>5, <1>6, <1>8 DEF ResultsAreLast
<1>19. OutputIsWhole'
  <2> SUFFICES ASSUME NEW c \in Callers, NEW y \in result'[c], y.mark = c, NEW k \in 1 .. y.n
               PROVE  \E z \in result'[c] \cup taken'[got'[c]] : z.n = k
    BY DEF OutputIsWhole
  <2>1. CASE c \in found
    <3>1. /\ result'[c] = buffer /\ outputBuffers'[id] = buffer /\ got'[c] = id
      BY <1>0, <1>1, <1>5, <1>6, <1>8, <2>1 DEF BridgeTypes
    <3>2. Arrived(id, k)'
      BY <1>6, <1>17, <3>1 DEF OutputInOrder
    <3> QED BY <3>1, <3>2 DEF Arrived
  <2>2. CASE c \notin found
    BY <1>0, <1>1, <1>5, <2>2 DEF OutputIsWhole
  <2> QED BY <2>1, <2>2
<1> QED BY <1>11, <1>12, <1>13, <1>14, <1>15, <1>16, <1>17, <1>18, <1>19 DEF BridgeInv

\* Write puts the next chunk of terminal id at the end of its home's queue.
LEMMA WriteKeepsOrder ==
  ASSUME BridgeInv, BridgeTypes', NEW id \in DOMAIN terms, NEW h \in Sockets,
         h = terms[id].home, sock[h] = "open", NEW m \in DownMessages,
         m.type = "data", m.id = id, m.chunk.n = terms[id].n + 1,
         down' = [down EXCEPT ![h] = Append(@, m)], DOMAIN terms' = DOMAIN terms,
         \A j \in DOMAIN terms : /\ terms'[j].home = terms[j].home
                                 /\ terms'[j].n = IF j = id THEN terms[id].n + 1 ELSE terms[j].n,
         UNCHANGED <<sock, outputBuffers, taken>>
  PROVE  OutputInOrder'
<1>1. BridgeTypes /\ OutputInOrder
  BY DEF BridgeInv
<1>2. down[h] \in Seq(DownMessages) /\ h # 0
  BY <1>1, BridgeAssumption DEF BridgeTypes, Sockets
<1>3. PICK L \in Nat : L = Len(down[h])
  BY <1>2, QueueElements
<1>4. /\ DOMAIN down[h] = 1 .. L /\ DOMAIN down'[h] = 1 .. L + 1 /\ down'[h][L + 1] = m
      /\ \A j \in 1 .. L : down'[h][j] = down[h][j]
      /\ \A v \in Sockets : v # h => down'[v] = down[v]
  <2>1. down'[h] = Append(down[h], m) /\ \A v \in Sockets : v # h => down'[v] = down[v]
    BY <1>1 DEF BridgeTypes
  <2> QED BY <1>2, <1>3, <2>1, QueueAppend
<1>5. /\ terms[id].n \in Nat /\ \A j \in DOMAIN terms : terms[j].home \in 0 .. MaxSockets
  BY <1>1, ElementTypes
<1>5a. PICK n0 \in Nat : n0 = terms[id].n
  BY <1>5
<1>6. \A v \in Sockets, j \in Nat : \A i, k : Flies(v, j, i, k) => Flies(v, j, i, k)'
  BY <1>4 DEF Flies
<1>7. \A v \in Sockets, j \in Nat : \A i, k : Flies(v, j, i, k)' =>
        Flies(v, j, i, k) \/ (v = h /\ j = L + 1 /\ i = id /\ k = n0 + 1)
  BY <1>4, <1>5a DEF Flies
<1>8. Flies(h, L + 1, id, n0 + 1)'
  BY <1>4, <1>5a DEF Flies
<1>8a. \A j, i, k : Flies(h, j, i, k) => j \in 1 .. L
  BY <1>4 DEF Flies
<1>9. \A i \in Ids : \A k : Arrived(i, k)' <=> Arrived(i, k)
  BY DEF Arrived
<1>10. ASSUME NEW k \in 1 .. terms[id].n
       PROVE  Arrived(id, k) \/ \E j \in 1 .. L : Flies(h, j, id, k)
  <2>1. Arrived(id, k) \/ \E j \in Nat : Flies(h, j, id, k)
    BY <1>1, <1>2 DEF OutputInOrder
  <2> QED BY <1>8a, <2>1
<1>11. DOMAIN terms \subseteq Ids
  <2>1. OneTerminalEach
    BY DEF BridgeInv
  <2> QED BY <1>1, <2>1, TerminalsBounded
<1>12. \A i \in Ids : \A x \in outputBuffers'[i] \cup taken'[i] : \A k \in 1 .. x.n : Arrived(i, k)'
  BY <1>1, <1>9 DEF OutputInOrder
<1>13. ASSUME NEW v \in Sockets, NEW i \in Ids, NEW j \in Nat, NEW n \in Nat,
              Flies(v, j, i, n)', NEW k \in 1 .. n - 1
       PROVE  Arrived(i, k)' \/ \E l \in 1 .. j - 1 : Flies(v, l, i, k)'
  <2>1. CASE Flies(v, j, i, n)
    <3>1. Arrived(i, k) \/ \E l \in 1 .. j - 1 : Flies(v, l, i, k)
      BY <1>1, <2>1 DEF OutputInOrder
    <3> QED BY <1>6, <1>9, <3>1
  <2>2. CASE v = h /\ j = L + 1 /\ i = id /\ n = n0 + 1
    <3>1. k \in 1 .. terms[id].n /\ j - 1 = L
      BY <1>5a, <2>2
    <3>2. Arrived(id, k) \/ \E l \in 1 .. L : Flies(h, l, id, k)
      BY <1>10, <3>1
    <3> QED BY <1>6, <1>9, <1>11, <2>2, <3>1, <3>2
  <2> QED BY <1>7, <1>13, <2>1, <2>2
<1>14. ASSUME NEW i \in DOMAIN terms, NEW g \in Sockets, g = terms[i].home, sock[g] = "open",
              NEW k \in 1 .. terms'[i].n
       PROVE  Arrived(i, k)' \/ \E j \in Nat : Flies(g, j, i, k)'
  <2>1. CASE i = id /\ k = n0 + 1
    <3>1. g = h /\ L + 1 \in Nat
      BY <1>14, <2>1
    <3> QED BY <1>8, <2>1, <3>1
  <2>2. CASE ~(i = id /\ k = n0 + 1)
    <3>1. k \in 1 .. terms[i].n /\ g # 0
      BY <1>5, <1>5a, <1>14, <2>2, BridgeAssumption DEF Sockets
    <3>2. Arrived(i, k) \/ \E j \in Nat : Flies(g, j, i, k)
      BY <1>1, <1>14, <3>1 DEF OutputInOrder
    <3> QED BY <1>6, <1>9, <1>11, <3>2
  <2> QED BY <2>1, <2>2
<1>15. ASSUME NEW i \in DOMAIN terms', terms'[i].home # 0, sock'[terms'[i].home] = "open",
              NEW k \in 1 .. terms'[i].n
       PROVE  Arrived(i, k)' \/ \E j \in Nat : Flies(terms[i].home, j, i, k)'
  <2>1. PICK g \in Sockets : g = terms[i].home
    BY <1>5, <1>15 DEF Sockets
  <2>2. Arrived(i, k)' \/ \E j \in Nat : Flies(g, j, i, k)'
    BY <1>14, <1>15, <2>1
  <2>3. g = terms'[i].home
    BY <1>15, <2>1
  <2> QED BY <2>2, <2>3
<1> QED BY <1>12, <1>13, <1>15 DEF OutputInOrder

LEMMA WriteKeepsBridge ==
  ASSUME BridgeInv, NEW id \in Ids, Write(id) PROVE BridgeInv'
<1>0. /\ BridgeTypes /\ IdsExist /\ OneTerminalEach /\ OnlyOpenCarry /\ ConnectedIsHonest
      /\ InStep /\ OnlyOwnTerminal /\ OutputInOrder /\ ResultsAreLast /\ OutputIsWhole
  BY DEF BridgeInv
<1>1. /\ id \in DOMAIN terms /\ terms[id].home # 0 /\ sock[terms[id].home] = "open"
      /\ UNCHANGED <<sock, up, ws, connected, pendingCreates, call, got, result, outputBuffers,
                     taken, slot, list, timers, beat, awaits, failures, asked, crossed>>
  BY DEF Write, calls, lists, hearts, histories
<1>2. PICK h \in Sockets : h = terms[id].home
  BY <1>0, <1>1, ElementTypes, BridgeAssumption DEF Sockets
<1>3. PICK t \in Terms : t = terms[id]
  BY <1>0, <1>1, QueueElements DEF BridgeTypes
<1>4. PICK e \in Terms, mark \in Callers \cup {None} :
        /\ e.by = t.by /\ e.home = t.home /\ e.n = t.n + 1
        /\ terms' = [terms EXCEPT ![id] = e] /\ Wrote(id, mark)
  <2>0. t.by \in Callers /\ t.home \in 0 .. MaxSockets /\ t.jobs \in Seq(Callers) /\ t.n \in Nat
    BY DEF Terms
  <2>1. CASE Wrote(id, None) /\ terms' = [terms EXCEPT ![id].n = @ + 1]
    <3>0. [by |-> t.by, home |-> t.home, jobs |-> t.jobs, n |-> t.n + 1] \in Terms
      BY <2>0 DEF Terms
    <3>1. PICK e \in Terms : e = [by |-> t.by, home |-> t.home, jobs |-> t.jobs, n |-> t.n + 1]
      BY <3>0
    <3>2. [t EXCEPT !.n = @ + 1] = e
      BY <3>1 DEF Terms
    <3>3. terms' = [terms EXCEPT ![id] = e]
      BY <1>3, <2>1, <3>2
    <3> QED BY <2>1, <3>1, <3>3
  <2>2. CASE /\ t.jobs # <<>> /\ Wrote(id, Head(t.jobs))
             /\ terms' = [terms EXCEPT ![id].n = @ + 1, ![id].jobs = Tail(@)]
    <3>1. Head(t.jobs) \in Callers /\ Tail(t.jobs) \in Seq(Callers)
      BY <2>0, <2>2, QueueTail
    <3>0. [by |-> t.by, home |-> t.home, jobs |-> Tail(t.jobs), n |-> t.n + 1] \in Terms
      BY <2>0, <3>1 DEF Terms
    <3>2. PICK e \in Terms :
            e = [by |-> t.by, home |-> t.home, jobs |-> Tail(t.jobs), n |-> t.n + 1]
      BY <3>0
    <3>3. [[t EXCEPT !.n = @ + 1] EXCEPT !.jobs = Tail(@)] = e
      <4>1. PICK f : f = [t EXCEPT !.n = @ + 1]
        OBVIOUS
      <4>2. f = [by |-> t.by, home |-> t.home, jobs |-> t.jobs, n |-> t.n + 1]
        BY <4>1 DEF Terms
      <4>3. f \in Terms
        BY <2>0, <4>2 DEF Terms
      <4>4. [f EXCEPT !.jobs = Tail(@)] =
              [by |-> f.by, home |-> f.home, jobs |-> Tail(f.jobs), n |-> f.n]
        <5>1. PICK q : q = Tail(f.jobs)
          OBVIOUS
        <5>2. [f EXCEPT !.jobs = q] = [by |-> f.by, home |-> f.home, jobs |-> q, n |-> f.n]
          BY <4>3 DEF Terms
        <5> QED BY <5>1, <5>2
      <4> QED BY <3>2, <4>1, <4>2, <4>4
    <3>4. terms' = [terms EXCEPT ![id] = e]
      <4>1. terms \in Seq(Terms) /\ id \in DOMAIN terms
        BY <1>0, <1>1 DEF BridgeTypes
      <4> QED BY <1>3, <2>2, <3>3, <4>1
    <3> QED BY <2>2, <3>1, <3>2, <3>4
  <2> QED BY <1>3, <2>1, <2>2 DEF Write
<1>5. /\ terms' \in Seq(Terms) /\ DOMAIN terms' = DOMAIN terms
      /\ \A j \in DOMAIN terms : /\ terms'[j].by = terms[j].by /\ terms'[j].home = terms[j].home
                                 /\ terms'[j].n = IF j = id THEN terms[id].n + 1 ELSE terms[j].n
  <2>1. terms \in Seq(Terms)
    BY <1>0 DEF BridgeTypes
  <2>2. /\ terms' \in Seq(Terms) /\ DOMAIN terms' = DOMAIN terms
        /\ \A j \in DOMAIN terms : terms'[j] = IF j = id THEN e ELSE terms[j]
    BY <1>1, <1>4, <2>1, TermChanged
  <2> QED BY <1>3, <1>4, <2>2
<1>6. PICK m \in DownMessages :
        /\ m.type = "data" /\ m.id = id /\ m.chunk.n = terms[id].n + 1
        /\ down' = [down EXCEPT ![h] = Append(@, m)]
  <2>1. terms[id].n \in Nat /\ id \in Nat
    BY <1>0, <1>1, ElementTypes
  <2>5. [n |-> terms[id].n + 1, mark |-> mark] \in Chunks
    BY <2>1 DEF Chunks
  <2>2. PICK x \in Chunks : x = [n |-> terms[id].n + 1, mark |-> mark]
    BY <2>5
  <2>6. [type |-> "data", id |-> id, chunk |-> x] \in DownMessages
    BY <2>1 DEF DownMessages
  <2>3. PICK m \in DownMessages : m = [type |-> "data", id |-> id, chunk |-> x]
    BY <2>6
  <2>4. down' = [down EXCEPT ![h] = Append(@, m)]
    BY <1>2, <1>4, <2>2, <2>3 DEF Wrote
  <2> QED BY <2>2, <2>3, <2>4
<1>7. /\ Moved(down, down', 0, {m}) /\ down' \in [Sockets -> Seq(DownMessages)] /\ 0 \notin Sockets
      /\ Moved(up, up', 0, {}) /\ \A v \in Sockets : v # h => down'[v] = down[v]
  <2>1. /\ down \in [Sockets -> Seq(DownMessages)] /\ up \in [Sockets -> Seq(UpMessages)]
        /\ 0 \notin Sockets
    BY <1>0, BridgeAssumption DEF BridgeTypes, Sockets
  <2>2. Moved(up, up', 0, {})
    BY <1>1, <2>1, MovedNot
  <2>3. Moved(down, down', 0, {m}) /\ down' \in [Sockets -> Seq(DownMessages)]
    <3>1. PICK D : D = down'
      OBVIOUS
    <3>2. D = [down EXCEPT ![h] = Append(@, m)]
      BY <1>6, <3>1
    <3>3. Moved(down, D, 0, {m}) /\ D \in [Sockets -> Seq(DownMessages)]
      BY <2>1, <3>2, MovedAppend
    <3> QED BY <3>1, <3>3
  <2> QED BY <1>6, <2>1, <2>2, <2>3
<1>8. BridgeTypes'
  BY <1>0, <1>1, <1>5, <1>7 DEF BridgeTypes
<1>9. IdsExist'
  <2>1. \A y \in {m} : y.type \in {"created", "data"} => y.id \in DOMAIN terms'
    BY <1>1, <1>5, <1>6
  <2>2. DOMAIN terms \subseteq DOMAIN terms' /\ \A d \in Callers : got'[d] = got[d]
    BY <1>1, <1>5
  <2> QED BY <1>0, <1>7, <2>1, <2>2, IdsExistKept
<1>10. OneTerminalEach'
  <2>1. /\ \A i \in DOMAIN terms : terms'[i].by = terms[i].by
        /\ pendingCreates' = pendingCreates /\ call' = call
    BY <1>1, <1>5
  <2> QED BY <1>0, <1>5, <1>7, <1>8, <2>1, OneTerminalEachKept
<1>11. OnlyOpenCarry' /\ ConnectedIsHonest'
  BY <1>0, <1>1, <1>2, <1>5, <1>7 DEF OnlyOpenCarry, ConnectedIsHonest, HasSocket
<1>12. InStep'
  <2>1. \A y \in {m} : y.type # "created"
    BY <1>6
  <2>2. /\ \A i \in DOMAIN terms : terms'[i].by = terms[i].by
        /\ UNCHANGED <<pendingCreates, asked, crossed, sock>>
    BY <1>1, <1>5
  <2>3. Moved(up, up', 0, {}) /\ Moved(down, down', 0, {m}) /\ 0 \notin Sockets
    BY <1>7
  <2> QED BY <1>0, <1>8, <2>1, <2>2, <2>3, InStepKept
<1>13. OnlyOwnTerminal'
  <2>1. /\ \A i \in DOMAIN terms : terms'[i].by = terms[i].by
        /\ \A d \in Callers : got'[d] = got[d]
        /\ crossed' = crossed /\ Moved(up, up', 0, {})
    BY <1>1, <1>5, <1>7
  <2> QED BY <1>0, <2>1, OnlyOwnTerminalKept
<1>14. OutputInOrder'
  <2>1. sock[h] = "open" /\ UNCHANGED <<sock, outputBuffers, taken>>
    BY <1>1, <1>2
  <2>2. \A j \in DOMAIN terms : /\ terms'[j].home = terms[j].home
                                /\ terms'[j].n = IF j = id THEN terms[id].n + 1 ELSE terms[j].n
    BY <1>5
  <2> QED BY <1>1, <1>2, <1>5, <1>6, <1>8, <2>1, <2>2, WriteKeepsOrder
<1>15. ResultsAreLast' /\ OutputIsWhole'
  BY <1>0, <1>1, ResultsKept
<1> QED BY <1>8, <1>9, <1>10, <1>11, <1>12, <1>13, <1>14, <1>15 DEF BridgeInv

----------------------------------------------------------------------------
(* The invariant, and what it gives.                                       *)

LEMMA BridgeInit == Init => BridgeInv
<1> SUFFICES ASSUME Init PROVE BridgeInv
  OBVIOUS
<1>1. /\ up = [w \in Sockets |-> <<>>] /\ down = [w \in Sockets |-> <<>>]
      /\ terms = <<>> /\ pendingCreates = <<>> /\ got = [c \in Callers |-> 0]
      /\ outputBuffers = [i \in Ids |-> {}] /\ taken = [i \in Ids |-> {}]
      /\ result = [c \in Callers |-> {}] /\ ws = 0
  BY DEF Init
<1>2. /\ DOMAIN terms = {} /\ DOMAIN pendingCreates = {}
      /\ \A w \in Sockets : DOMAIN up[w] = {} /\ DOMAIN down[w] = {}
  BY <1>1
<1>3. BridgeTypes
  <2>1. /\ sock \in [Sockets -> {"unused", "opening", "open", "closing", "closed"}]
        /\ ws \in 0 .. MaxSockets /\ connected \in BOOLEAN
        /\ call \in [Callers -> {"new", "creating", "exec", "done", "failed"}]
    <3>1. /\ sock = [w \in Sockets |-> IF w = 1 THEN "opening" ELSE "unused"]
          /\ ws = 0 /\ connected = FALSE /\ call = [c \in Callers |-> "new"]
          /\ MaxSockets \in Nat
      BY BridgeAssumption DEF Init
    <3>2. sock \in [Sockets -> {"unused", "opening", "open", "closing", "closed"}]
      BY <3>1
    <3>3. call \in [Callers -> {"new", "creating", "exec", "done", "failed"}]
      BY <3>1
    <3>4. ws \in 0 .. MaxSockets
      BY <3>1
    <3>5. connected \in BOOLEAN
      BY Zenon DEF Init
    <3> QED BY <3>2, <3>3, <3>4, <3>5
  <2>2. /\ list \in [Listers -> {"new", "waiting", "answered", "rejected"}]
        /\ slot \in Listers \cup {None} /\ timers \subseteq Listers
        /\ beat \in [Beats -> {"idle", "login", "connecting"}]
        /\ awaits \in [Beats -> 0 .. MaxSockets] /\ failures \in 0 .. 2
        /\ asked \in 0 .. MaxSockets /\ crossed \in BOOLEAN
    <3>1. /\ slot = None /\ list = [l \in Listers |-> "new"] /\ timers = {}
          /\ beat = [b \in Beats |-> "idle"] /\ awaits = [b \in Beats |-> 0]
          /\ failures = 0 /\ asked = 0 /\ crossed = FALSE /\ MaxSockets \in Nat
      BY BridgeAssumption DEF Init
    <3>2. awaits \in [Beats -> 0 .. MaxSockets]
      <4>1. 0 \in 0 .. MaxSockets
        BY <3>1
      <4> QED BY <3>1, <4>1
    <3>3. beat \in [Beats -> {"idle", "login", "connecting"}]
      BY <3>1
    <3>4. list \in [Listers -> {"new", "waiting", "answered", "rejected"}]
      BY <3>1
    <3>5. /\ slot \in Listers \cup {None} /\ timers \subseteq Listers /\ failures \in 0 .. 2
          /\ asked \in 0 .. MaxSockets
      BY <3>1
    <3>6. crossed \in BOOLEAN
      BY Zenon DEF Init
    <3> QED BY <3>2, <3>3, <3>4, <3>5, <3>6
  <2>3. /\ up \in [Sockets -> Seq(UpMessages)] /\ down \in [Sockets -> Seq(DownMessages)]
        /\ terms \in Seq(Terms) /\ pendingCreates \in Seq(Callers)
    BY <1>1
  <2>4. /\ got \in [Callers -> Nat] /\ outputBuffers \in [Ids -> SUBSET Chunks]
        /\ taken \in [Ids -> SUBSET Chunks] /\ result \in [Callers -> SUBSET Chunks]
    BY <1>1
  <2> QED BY <2>1, <2>2, <2>3, <2>4 DEF BridgeTypes
<1>4. IdsExist /\ OneTerminalEach
  BY <1>1, <1>2 DEF IdsExist, OneTerminalEach
<1>5. OnlyOpenCarry /\ ConnectedIsHonest
  BY <1>1, <1>2 DEF OnlyOpenCarry, ConnectedIsHonest, HasSocket
<1>6. InStep
  <2>1. \A v \in Sockets, c \in Callers : ~Carried(v, c)
    BY <1>2 DEF Asks, Answers, Carried
  <2>2. asked = 0
    BY DEF Init
  <2> QED BY <1>1, <2>1, <2>2 DEF InStep
<1>7. OnlyOwnTerminal
  BY <1>1, <1>2 DEF OnlyOwnTerminal
<1>8. OutputInOrder
  <2>1. \A w \in Sockets, i \in Nat : \A id, k : ~Flies(w, i, id, k)
    BY <1>2 DEF Flies
  <2> QED BY <1>1, <1>2, <2>1 DEF OutputInOrder
<1>9. ResultsAreLast /\ OutputIsWhole
  BY <1>1 DEF ResultsAreLast, OutputIsWhole
<1> QED BY <1>3, <1>4, <1>5, <1>6, <1>7, <1>8, <1>9 DEF BridgeInv

LEMMA BridgeStutter ==
  ASSUME BridgeInv, UNCHANGED vars PROVE BridgeInv'
<1>1. UNCHANGED <<sock, ws, connected, up, down, terms, pendingCreates, call, got,
                  outputBuffers, taken, result, slot, list, timers, beat, awaits,
                  failures, asked, crossed>>
  BY DEF vars, wire, calls, lists, hearts, histories
<1>2. BridgeTypes' /\ IdsExist' /\ OneTerminalEach'
  BY <1>1 DEF BridgeInv, BridgeTypes, IdsExist, OneTerminalEach
<1>3. OnlyOpenCarry' /\ ConnectedIsHonest' /\ OnlyOwnTerminal'
  BY <1>1 DEF BridgeInv, OnlyOpenCarry, ConnectedIsHonest, HasSocket, OnlyOwnTerminal
<1>4. InStep'
  <2>1. \A w, i, c : (Asks(w, i, c)' <=> Asks(w, i, c)) /\ (Answers(w, i, c)' <=> Answers(w, i, c))
    BY <1>1 DEF Asks, Answers
  <2>2. \A w, c : Carried(w, c)' <=> Carried(w, c)
    BY <2>1 DEF Carried
  <2>3. QueueOf(asked)' <=> QueueOf(asked)
    BY <1>1, <2>1, <2>2 DEF QueueOf
  <2>4. InStep
    BY DEF BridgeInv
  <2> QED BY <1>1, <2>2, <2>3, <2>4 DEF InStep
<1>5. OutputInOrder' /\ ResultsAreLast' /\ OutputIsWhole'
  BY <1>1 DEF BridgeInv, OutputInOrder, Arrived, Flies, ResultsAreLast, OutputIsWhole
<1> QED BY <1>2, <1>3, <1>4, <1>5 DEF BridgeInv

LEMMA BridgeNext == BridgeInv /\ [Next]_vars => BridgeInv'
<1> SUFFICES ASSUME BridgeInv, [Next]_vars PROVE BridgeInv'
  OBVIOUS
<1>1. ASSUME NEW w \in Sockets, Open(w) \/ Closing(w) \/ Close(w) \/ Receive(w)
      PROVE  BridgeInv'
  BY <1>1, OpenKeepsBridge, EndKeepsBridge, CreatedKeepsBridge, DataKeepsBridge,
     TerminalsKeepsBridge DEF Receive
<1>2. ASSUME NEW w \in Sockets, Serve(w) PROVE BridgeInv'
  BY <1>2, MadeKeepsBridge, ServeQuietKeepsBridge
<1>3. ASSUME NEW b \in Beats, Beat(b) \/ Login(b) PROVE BridgeInv'
  BY <1>3, IdleKeepsBridge
<1>4. ASSUME NEW c \in Callers, Create(c) \/ CreateTimeout(c) PROVE BridgeInv'
  BY <1>4, CreateKeepsBridge, IdleKeepsBridge
<1>5. ASSUME NEW l \in Listers, List(l) \/ ListTimeout(l) PROVE BridgeInv'
  BY <1>5, ListKeepsBridge, IdleKeepsBridge
<1>6. ASSUME NEW id \in Ids, Read(id) \/ Write(id) PROVE BridgeInv'
  BY <1>6, IdleKeepsBridge, WriteKeepsBridge
<1>7. CASE UNCHANGED vars
  BY <1>7, BridgeStutter
<1> QED BY <1>1, <1>2, <1>3, <1>4, <1>5, <1>6, <1>7 DEF Next

LEMMA BridgeInvariant == Spec => []BridgeInv
BY BridgeInit, BridgeNext, PTL DEF Spec

\* Every terminal belongs to a call, so no more of them are made than there
\* are calls, and every id, message and buffer is of its type
\* (TerminalWebSocket.ts 13-93).
THEOREM BridgeTyped == Spec => []TypeOK
<1>1. BridgeInv => TypeOK
  <2> SUFFICES ASSUME BridgeInv PROVE TypeOK
    OBVIOUS
  <2>1. BridgeTypes /\ OneTerminalEach /\ IdsExist
    BY DEF BridgeInv
  <2>2. ASSUME NEW w \in Sockets
        PROVE  /\ \A m \in {up[w][i] : i \in DOMAIN up[w]} :
                    m.type \in {"create", "input", "kill", "list"}
               /\ \A m \in {down[w][i] : i \in DOMAIN down[w]} :
                    m.type \in {"created", "data", "terminals"}
    <3>1. /\ \A i \in DOMAIN up[w] : up[w][i] \in UpMessages
          /\ \A i \in DOMAIN down[w] : down[w][i] \in DownMessages
      BY <2>1, ElementTypes, QueueElements
    <3>2. \A m \in UpMessages : m.type \in {"create", "input", "kill", "list"}
      BY DEF UpMessages
    <3>3. \A m \in DownMessages : m.type \in {"created", "data", "terminals"}
      BY DEF DownMessages
    <3> QED BY <3>1, <3>2, <3>3
  <2>3. Len(terms) <= Cardinality(Callers) /\ DOMAIN terms \subseteq Ids
    BY <2>1, TerminalsBounded
  <2>4. got \in [Callers -> Ids \cup {0}]
    BY <2>1, <2>3 DEF BridgeTypes, IdsExist
  <2>5. \A i \in Ids : outputBuffers[i] \cup taken[i] \subseteq Chunks
    BY <2>1 DEF BridgeTypes
  <2> QED BY <2>1, <2>2, <2>3, <2>4, <2>5 DEF TypeOK, BridgeTypes
<1> QED BY <1>1, BridgeInvariant, PTL

\* A request goes to a socket whose end has not been reported, and as long as
\* no creation is asked for while the queue holds one of another socket, the
\* answers that carry no number find the calls that they belong to, over
\* sockets that end at any moment: every command and every kill is for the
\* terminal of its call (TerminalWebSocket.ts 24-87, 137-142).
THEOREM RequestsGoHome == Spec => []RequestsArrive
<1>1. BridgeInv => RequestsArrive
  BY DEF BridgeInv, RequestsArrive
<1> QED BY <1>1, BridgeInvariant, PTL

\* Whatever sockets come and go, what an exec returns is, with what read()
\* took, every chunk that its terminal wrote up to the sentinel
\* (TerminalWebSocket.ts 60-78, 89-93, 160-167).
THEOREM OutputArrivesWhole == Spec => []OutputIsWhole
<1>1. BridgeInv => OutputIsWhole
  BY DEF BridgeInv
<1> QED BY <1>1, BridgeInvariant, PTL

----------------------------------------------------------------------------
(* LanguageServers: the inductive invariant.                               *)

Messages == [type : {"initialize", "initialized", "didOpen", "request"}, id : Nat,
             by : Calls]

ServersTypes ==
  /\ alive \in BOOLEAN /\ clients \in Calls \cup {NoCall}
  /\ proc \in [Calls -> {"none", "running", "dead"}]
  /\ pending \in [Calls -> Seq(Calls \cup {NoCall})]
  /\ written \in [Calls -> Seq(Messages)]
  /\ said \in [Calls -> Seq(Nat)]
  /\ short \in [Calls -> BOOLEAN]
  /\ pc \in [Calls -> Stages]
  /\ at \in [Calls -> Calls \cup {NoCall}]
  /\ notices \in 0 .. MaxNotices

\* A number that was written, and all the more one that was answered, is one
\* that the client has given out.
NumbersAreGiven ==
  \A k \in Calls :
    /\ answered[k] \subseteq Requests(k)
    /\ \A i \in DOMAIN written[k] : written[k][i].id \in 0 .. LastId(k)

\* Every call has its client from its first step on, and waits there only.
CallsArePlaced ==
  /\ alive => \A c \in Calls : at[c] = NoCall <=> pc[c] = "new"
  /\ \A k \in Calls : \A i \in DOMAIN pending[k] :
       pending[k][i] # NoCall => at[pending[k][i]] = k

\* A client that is used has a call behind it, which has made it.
ClientsAreMade ==
  \A k \in Calls :
    /\ pc[k] = "new" => pending[k] = <<>> /\ clients # k /\ \A c \in Calls : at[c] # k
    /\ pending[k] # <<>> => Len(written[k]) >= 1

\* As long as initialize() waits for its answer it is the only one to write.
StartsAlone ==
  \A k \in Calls : pending[k] # <<>> /\ pending[k][1] # NoCall =>
    pending[k][1] = k /\ Len(written[k]) = 1

\* A client that is in the table, or that a call is about to use, was
\* initialized, and its server was told so if it lived.
Ready(k) ==
  /\ pending[k] # <<>> /\ pending[k][1] = NoCall
  /\ proc[k] = "running" => Len(written[k]) >= 2
UsedAreReady ==
  \A k \in Calls :
    clients = k \/ (\E c \in Calls : at[c] = k /\ pc[c] = "reading") => Ready(k)

ServersInv ==
  /\ ServersTypes /\ NumbersAreGiven /\ CallsArePlaced
  /\ ClientsAreMade /\ StartsAlone /\ UsedAreReady /\ ProtocolOrder

----------------------------------------------------------------------------
LEMMA SeqAppend ==
  ASSUME NEW S, NEW s \in Seq(S), NEW x \in S
  PROVE  /\ Append(s, x) \in Seq(S) /\ Len(Append(s, x)) = Len(s) + 1
         /\ Append(s, x) # <<>>
         /\ \A i \in 1 .. Len(s) : Append(s, x)[i] = s[i]
         /\ Append(s, x)[Len(s) + 1] = x
         /\ DOMAIN Append(s, x) = 1 .. Len(s) + 1 /\ DOMAIN s = 1 .. Len(s)
         /\ Len(s) \in Nat
OBVIOUS

LEMMA SeqTwoMore ==
  ASSUME NEW S, NEW s \in Seq(S), NEW x \in S, NEW y \in S
  PROVE  LET t == s \o <<x>> \o <<y>> IN
         /\ t \in Seq(S) /\ Len(t) = Len(s) + 2
         /\ \A i \in 1 .. Len(s) : t[i] = s[i]
         /\ t[Len(s) + 1] = x /\ t[Len(s) + 2] = y
OBVIOUS

LEMMA SeqOneMore ==
  ASSUME NEW S, NEW s \in Seq(S), NEW x \in S
  PROVE  LET t == s \o <<x>> \o <<>> IN
         /\ t \in Seq(S) /\ Len(t) = Len(s) + 1
         /\ \A i \in 1 .. Len(s) : t[i] = s[i]
         /\ t[Len(s) + 1] = x
<1>1. s \o <<x>> \in Seq(S)
  OBVIOUS
<1>2. (s \o <<x>>) \o <<>> = s \o <<x>>
  BY <1>1, ConcatEmptySeq
<1> QED BY <1>2

LEMMA SeqSingle ==
  ASSUME NEW x
  PROVE  <<x>> # <<>> /\ Len(<<x>>) = 1 /\ <<x>>[1] = x /\ DOMAIN <<x>> = 1 .. 1
OBVIOUS

LEMMA SeqTail ==
  ASSUME NEW S, NEW s \in Seq(S), s # <<>>
  PROVE  Tail(s) \in Seq(S) /\ Head(s) \in S
OBVIOUS

LEMMA ServersInitially == ASSUME ServersInit PROVE ServersInv
<1> USE ServersAssumption DEF ServersInit
<1>1. ServersTypes
  BY DEF ServersTypes, Stages
<1>2. NumbersAreGiven /\ CallsArePlaced /\ ClientsAreMade
  BY DEF NumbersAreGiven, CallsArePlaced, ClientsAreMade, Requests, LastId
<1>3. StartsAlone /\ UsedAreReady /\ ProtocolOrder
  BY DEF StartsAlone, UsedAreReady, ProtocolOrder
<1> QED BY <1>1, <1>2, <1>3 DEF ServersInv

LEMMA CrashKeepsServers == ASSUME ServersInv, Crash PROVE ServersInv'
<1>0. notices \in 0 .. MaxNotices
  BY DEF ServersInv, ServersTypes
<1> USE ServersAssumption DEF Crash
<1>1. ServersTypes'
  <2>1. notices' \in 0 .. MaxNotices
    BY <1>0
  <2>2. \A S : <<>> \in Seq(S)
    OBVIOUS
  <2>3. pending' \in [Calls -> Seq(Calls \cup {NoCall})] /\ written' \in [Calls -> Seq(Messages)]
        /\ said' \in [Calls -> Seq(Nat)]
    BY <2>2
  <2> QED BY <2>1, <2>3 DEF ServersTypes, Stages
<1>2. NumbersAreGiven' /\ CallsArePlaced' /\ ClientsAreMade'
  BY DEF NumbersAreGiven, CallsArePlaced, ClientsAreMade, Requests, LastId
<1>3. StartsAlone' /\ UsedAreReady' /\ ProtocolOrder'
  BY DEF StartsAlone, UsedAreReady, ProtocolOrder
<1> QED BY <1>1, <1>2, <1>3 DEF ServersInv

\* A step that writes nothing and asks nothing.
LEMMA QuietKeepsServers ==
  ASSUME ServersInv, ServersTypes', UNCHANGED <<pending, written, clients, at>>,
         \A c \in Calls : /\ pc'[c] = "reading" => pc[c] = "reading"
                          /\ pc'[c] = "new" <=> pc[c] = "new",
         \A k \in Calls : /\ proc'[k] = "running" => proc[k] = "running"
                          /\ answered'[k] \subseteq Requests(k),
         alive' = alive
  PROVE  ServersInv'
<1>1. NumbersAreGiven' /\ ProtocolOrder' /\ StartsAlone' /\ CallsArePlaced'
  BY DEF ServersInv, NumbersAreGiven, ProtocolOrder, StartsAlone, CallsArePlaced,
         Requests, LastId
<1>2. ClientsAreMade' /\ UsedAreReady'
  BY DEF ServersInv, ClientsAreMade, UsedAreReady, Ready
<1> QED BY <1>1, <1>2 DEF ServersInv

LEMMA StartClientKeepsServers ==
  ASSUME ServersInv, NEW c \in Calls, alive, pc[c] = "new", StartClient(c),
         UNCHANGED <<alive, notices>>
  PROVE  ServersInv'
<1> DEFINE m == Message("initialize", 1, c)
<1>1. /\ clients = NoCall /\ at' = [at EXCEPT ![c] = c]
      /\ pc' = [pc EXCEPT ![c] = "starting"] /\ proc' = [proc EXCEPT ![c] = "running"]
      /\ written' = [written EXCEPT ![c] = <<m>>]
      /\ pending' = [pending EXCEPT ![c] = Append(@, c)]
      /\ UNCHANGED <<clients, said, answered, short, alive, notices>>
  BY DEF StartClient, Awaiting
<1>2. m \in Messages /\ m.type = "initialize" /\ m.id = 1
  BY DEF Message, Messages
<1> HIDE DEF m
<1>3. pending[c] = <<>> /\ (\A d \in Calls : at[d] # c) /\ c # NoCall
  BY ServersAssumption DEF ServersInv, ClientsAreMade
<1>4. /\ \A k \in Calls : k # c => pending'[k] = pending[k] /\ written'[k] = written[k]
                                 /\ proc'[k] = proc[k] /\ pc'[k] = pc[k] /\ at'[k] = at[k]
      /\ at'[c] = c /\ pc'[c] = "starting" /\ pending'[c] = <<c>> /\ written'[c] = <<m>>
  BY <1>1, <1>3 DEF ServersInv, ServersTypes
<1>5. ServersTypes'
  BY <1>1, <1>2, <1>3 DEF ServersInv, ServersTypes, Stages
<1>6. NumbersAreGiven'
  <2> SUFFICES ASSUME NEW k \in Calls
               PROVE  /\ answered[k] \subseteq Requests(k)'
                      /\ \A i \in DOMAIN written'[k] : written'[k][i].id \in 0 .. LastId(k)'
    BY <1>1 DEF NumbersAreGiven
  <2>1. CASE k # c
    BY <1>4, <2>1 DEF ServersInv, NumbersAreGiven, Requests, LastId
  <2>2. CASE k = c
    <3>1. answered[k] = {}
      <4>1. LastId(k) = 0
        BY <1>3, <2>2 DEF LastId
      <4>2. Requests(k) = {}
        BY <4>1 DEF ServersInv, NumbersAreGiven, Requests
      <4> QED BY <4>2 DEF ServersInv, NumbersAreGiven
    <3> QED BY <1>2, <1>4, <2>2, <3>1 DEF LastId
  <2> QED BY <2>1, <2>2
<1>7. CallsArePlaced'
  <2>1. \A d \in Calls : at'[d] = NoCall <=> pc'[d] = "new"
    BY <1>3, <1>4 DEF ServersInv, CallsArePlaced
  <2>2. ASSUME NEW k \in Calls, NEW i \in DOMAIN pending'[k], pending'[k][i] # NoCall
        PROVE  at'[pending'[k][i]] = k
    <3>1. CASE k = c
      BY <1>4, <2>2, <3>1
    <3>2. CASE k # c
      <4>1. at[pending[k][i]] = k /\ pending[k][i] \in Calls
        BY <1>4, <2>2, <3>2 DEF ServersInv, ServersTypes, CallsArePlaced
      <4>2. pending[k][i] # c
        BY <4>1, ServersAssumption DEF ServersInv, CallsArePlaced
      <4> QED BY <1>4, <3>2, <4>1, <4>2
    <3> QED BY <3>1, <3>2
  <2> QED BY <2>1, <2>2 DEF CallsArePlaced
<1>8. ClientsAreMade'
  BY <1>1, <1>3, <1>4 DEF ServersInv, ClientsAreMade
<1>9. StartsAlone'
  <2> SUFFICES ASSUME NEW k \in Calls, pending'[k] # <<>> /\ pending'[k][1] # NoCall
               PROVE  pending'[k][1] = k /\ Len(written'[k]) = 1
    BY DEF StartsAlone
  <2>1. CASE k = c
    BY <1>4, <2>1, SeqSingle
  <2>2. CASE k # c
    BY <1>4, <2>2 DEF ServersInv, StartsAlone
  <2> QED BY <2>1, <2>2
<1>10. UsedAreReady'
  <2> SUFFICES ASSUME NEW k \in Calls,
                      clients = k \/ \E d \in Calls : at'[d] = k /\ pc'[d] = "reading"
               PROVE  Ready(k)'
    BY <1>1 DEF UsedAreReady
  <2>1. k # c
    BY <1>1, <1>3, <1>4
  <2>2. clients = k \/ \E d \in Calls : at[d] = k /\ pc[d] = "reading"
    BY <1>4, <2>1
  <2> QED BY <1>4, <2>1, <2>2 DEF ServersInv, UsedAreReady, Ready
<1>11. ProtocolOrder'
  <2> SUFFICES ASSUME NEW k \in Calls, NEW i \in DOMAIN written'[k]
               PROVE  LET w == written'[k][i] IN
                      /\ i = 1 <=> w.type = "initialize"
                      /\ i = 2 <=> w.type = "initialized"
                      /\ w.type = "request" =>
                           \E j \in 1 .. i - 1 : written'[k][j].type = "didOpen"
                                                 /\ written'[k][j].by = w.by
    BY DEF ProtocolOrder
  <2>1. CASE k # c
    BY <1>4, <2>1 DEF ServersInv, ProtocolOrder
  <2>2. CASE k = c
    BY <1>2, <1>4, <2>2
  <2> QED BY <2>1, <2>2
<1> QED BY <1>5, <1>6, <1>7, <1>8, <1>9, <1>10, <1>11 DEF ServersInv

LEMMA FindClientKeepsServers ==
  ASSUME ServersInv, NEW c \in Calls, alive, pc[c] = "new", FindClient(c),
         UNCHANGED <<alive, notices>>
  PROVE  ServersInv'
<1>1. /\ clients # NoCall /\ at' = [at EXCEPT ![c] = clients]
      /\ pc' = [pc EXCEPT ![c] = "reading"]
      /\ UNCHANGED <<clientVars, alive, notices>>
  BY DEF FindClient
<1>2. clients \in Calls /\ pc[clients] # "new"
  BY <1>1 DEF ServersInv, ServersTypes, ClientsAreMade
<1>3. /\ \A d \in Calls : d # c => pc'[d] = pc[d] /\ at'[d] = at[d]
      /\ pc'[c] = "reading" /\ at'[c] = clients
  BY <1>1 DEF ServersInv, ServersTypes
<1>4. ServersTypes'
  BY <1>1, <1>2 DEF ServersInv, ServersTypes, Stages, clientVars
<1>5. NumbersAreGiven' /\ StartsAlone' /\ ProtocolOrder'
  BY <1>1 DEF ServersInv, NumbersAreGiven, StartsAlone, ProtocolOrder, Requests, LastId,
              clientVars
<1>6. CallsArePlaced'
  <2>1. at[c] = NoCall
    BY DEF ServersInv, CallsArePlaced
  <2>2. ASSUME NEW k \in Calls, NEW i \in DOMAIN pending[k], pending[k][i] # NoCall
        PROVE  at'[pending[k][i]] = k
    <3>1. at[pending[k][i]] = k /\ pending[k][i] \in Calls
      BY <2>2 DEF ServersInv, ServersTypes, CallsArePlaced
    <3> QED BY <1>3, <2>1, <3>1, ServersAssumption
  <2> QED BY <1>1, <1>2, <1>3, <2>2 DEF ServersInv, CallsArePlaced, clientVars
<1>7. ClientsAreMade'
  BY <1>1, <1>2, <1>3 DEF ServersInv, ClientsAreMade, clientVars
<1>8. UsedAreReady'
  <2> SUFFICES ASSUME NEW k \in Calls,
                      clients = k \/ \E d \in Calls : at'[d] = k /\ pc'[d] = "reading"
               PROVE  Ready(k)
    BY <1>1 DEF UsedAreReady, Ready, clientVars
  <2>1. clients = k \/ \E d \in Calls : at[d] = k /\ pc[d] = "reading"
    BY <1>3
  <2> QED BY <2>1 DEF ServersInv, UsedAreReady
<1> QED BY <1>4, <1>5, <1>6, <1>7, <1>8 DEF ServersInv

\* A caller that has read its file is placed at a client that is ready.
LEMMA ReadFileAtClient ==
  ASSUME ServersInv, NEW c \in Calls, ReadFile(c), NEW k \in Calls, k = at[c],
         NEW n, n = Len(written[k]), NEW last, last = LastId(k)
  PROVE  ServersInv'
<1> DEFINE o == Message("didOpen", 0, c)
           q == Message("request", last + 1, c)
<1>1. /\ alive /\ pc[c] = "reading"
      /\ written' = IF proc[k] = "running"
                    THEN [written EXCEPT ![k] = @ \o <<o>> \o Asked(c)]
                    ELSE written
      /\ UNCHANGED <<alive, clients, proc, said, answered, short, at, notices>>
  BY DEF ReadFile, Opened
<1>2. Ready(k)
  BY <1>1 DEF ServersInv, UsedAreReady
<1>3. last \in Nat /\ last # 0 /\ written[k] \in Seq(Messages) /\ n \in Nat
      /\ pending[k] \in Seq(Calls \cup {NoCall})
  BY <1>2, EmptySeq, LenProperties DEF ServersInv, ServersTypes, Ready, LastId
<1>4. o \in Messages /\ q \in Messages /\ o.type = "didOpen" /\ o.id = 0 /\ o.by = c
      /\ q.type = "request" /\ q.id = last + 1 /\ q.by = c
  BY <1>3 DEF Message, Messages
<1>5. /\ pc' \in [Calls -> Stages] /\ pc'[c] \notin {"new", "reading"}
      /\ \A d \in Calls : d # c => pc'[d] = pc[d]
      /\ pending' \in [Calls -> Seq(Calls \cup {NoCall})]
      /\ \A j \in Calls : j # k => pending'[j] = pending[j]
      /\ \/ pending'[k] = pending[k]
         \/ pending'[k] = Append(pending[k], c) /\ c \notin Diagnosing
  <2>1. CASE c \in Diagnosing
    BY <2>1 DEF ReadFile, ServersInv, ServersTypes, Stages
  <2>2. CASE c \notin Diagnosing
    <3>1. pc' = [pc EXCEPT ![c] = "asking"] /\ pending' = [pending EXCEPT ![k] = Append(@, c)]
      BY <2>2 DEF ReadFile, Awaiting
    <3>2. Append(pending[k], c) \in Seq(Calls \cup {NoCall})
      BY <1>3
    <3> QED BY <1>2, <2>2, <3>1, <3>2 DEF ServersInv, ServersTypes, Stages
  <2> QED BY <2>1, <2>2
<1>6. /\ Len(pending'[k]) >= Len(pending[k]) /\ pending'[k] # <<>>
      /\ pending'[k][1] = NoCall
      /\ \A i \in DOMAIN pending'[k] :
           \/ i \in DOMAIN pending[k] /\ pending'[k][i] = pending[k][i]
           \/ pending'[k][i] = c
      /\ c \notin Diagnosing => Len(pending'[k]) = Len(pending[k]) + 1
  <2>1. pending[k][1] = NoCall /\ Len(pending[k]) \in Nat \ {0}
    BY <1>2, <1>3 DEF Ready, LastId
  <2>2. CASE pending'[k] = pending[k] /\ c \in Diagnosing
    BY <2>1, <2>2, <1>3
  <2>3. CASE pending'[k] = Append(pending[k], c)
    <3> QED BY <1>3, <2>1, <2>3, SeqAppend
  <2>4. c \notin Diagnosing => pending'[k] = Append(pending[k], c)
    <3>1. c \notin Diagnosing => pending' = [pending EXCEPT ![k] = Append(@, c)]
      BY DEF ReadFile, Awaiting
    <3> QED BY <3>1, <1>2 DEF ServersInv, ServersTypes
  <2> QED BY <1>5, <2>2, <2>3, <2>4
<1>7. /\ written' \in [Calls -> Seq(Messages)]
      /\ \A j \in Calls : j # k => written'[j] = written[j]
      /\ Len(written'[k]) >= n
      /\ \A i \in 1 .. n : written'[k][i] = written[k][i]
      /\ Len(written'[k]) > n => n >= 2 /\ written'[k][n + 1] = o
      /\ Len(written'[k]) > n + 1 => c \notin Diagnosing /\ written'[k][n + 2] = q
      /\ Len(written'[k]) <= n + 2
  <2>1. CASE proc[k] # "running"
    BY <1>1, <1>3, <2>1 DEF ServersInv, ServersTypes
  <2>2. CASE proc[k] = "running" /\ c \in Diagnosing
    <3> DEFINE t == written[k] \o <<o>> \o <<>>
    <3>1. written' = [written EXCEPT ![k] = t]
      BY <1>1, <2>2 DEF Asked
    <3>2. t \in Seq(Messages) /\ Len(t) = n + 1 /\ t[n + 1] = o
          /\ \A i \in 1 .. n : t[i] = written[k][i]
      <4> HIDE DEF o
      <4> QED BY <1>3, <1>4, SeqOneMore
    <3>3. n >= 2
      BY <1>2, <2>2 DEF Ready
    <3> HIDE DEF t, o
    <3> QED BY <1>2, <1>3, <3>1, <3>2, <3>3 DEF ServersInv, ServersTypes
  <2>3. CASE proc[k] = "running" /\ c \notin Diagnosing
    <3> DEFINE t == written[k] \o <<o>> \o <<q>>
    <3>1. written' = [written EXCEPT ![k] = t]
      BY <1>1, <2>3 DEF Asked
    <3>2. t \in Seq(Messages) /\ Len(t) = n + 2 /\ t[n + 1] = o /\ t[n + 2] = q
          /\ \A i \in 1 .. n : t[i] = written[k][i]
      <4> HIDE DEF o, q
      <4> QED BY <1>3, <1>4, SeqTwoMore
    <3>3. n >= 2
      BY <1>2, <2>3 DEF Ready
    <3> HIDE DEF t, o, q
    <3> QED BY <1>2, <1>3, <2>3, <3>1, <3>2, <3>3 DEF ServersInv, ServersTypes
  <2> QED BY <2>1, <2>2, <2>3
<1>8. DOMAIN written'[k] = 1 .. Len(written'[k]) /\ DOMAIN written[k] = 1 .. n
      /\ Len(written'[k]) \in Nat /\ LastId(k)' \in Nat /\ last <= LastId(k)'
  <2>1. written'[k] \in Seq(Messages) /\ pending'[k] \in Seq(Calls \cup {NoCall})
    BY <1>2, <1>5, <1>7
  <2>2. LastId(k)' = Len(pending'[k]) /\ last = Len(pending[k])
    BY DEF LastId
  <2> QED BY <1>3, <1>6, <2>1, <2>2
<1>8a. PICK N \in Nat : N = Len(written'[k]) /\ DOMAIN written'[k] = 1 .. N
  BY <1>8
<1>8b. n \in Nat /\ n <= N /\ N <= n + 2
  BY <1>3, <1>7, <1>8a
<1>8c. /\ \A i \in 1 .. N : i \in 1 .. n \/ i = n + 1 \/ i = n + 2
       /\ \A i \in 1 .. n : i \in 1 .. N
  BY <1>8b
<1> HIDE DEF o, q
<1>9. ServersTypes'
  BY <1>1, <1>5, <1>7 DEF ServersInv, ServersTypes
<1>10. NumbersAreGiven'
  <2> SUFFICES ASSUME NEW j \in Calls
               PROVE  /\ answered[j] \subseteq Requests(j)'
                      /\ \A i \in DOMAIN written'[j] : written'[j][i].id \in 0 .. LastId(j)'
    BY <1>1 DEF NumbersAreGiven
  <2>1. CASE j # k
    <3>1. pending'[j] = pending[j] /\ written'[j] = written[j]
      BY <1>5, <1>7, <2>1
    <3>2. Requests(j)' = Requests(j) /\ LastId(j)' = LastId(j)
      BY <3>1 DEF Requests, LastId
    <3> QED BY <3>1, <3>2 DEF ServersInv, NumbersAreGiven
  <2>2. CASE j = k
    <3>1. answered[j] \subseteq Requests(j)'
      <4>1. Requests(j) \subseteq Requests(j)'
        <5> SUFFICES ASSUME NEW i \in DOMAIN written[k]
                     PROVE  i \in DOMAIN written'[k] /\ written'[k][i].id = written[k][i].id
          BY <2>2 DEF Requests
        <5>1. i \in 1 .. n
          BY <1>8
        <5>2. i \in DOMAIN written'[k]
          BY <1>8a, <1>8c, <5>1
        <5>3. written'[k][i] = written[k][i]
          BY <1>7, <5>1
        <5> QED BY <5>2, <5>3
      <4> QED BY <4>1 DEF ServersInv, NumbersAreGiven
    <3>2. ASSUME NEW i \in 1 .. N
          PROVE  written'[k][i].id \in 0 .. LastId(k)'
      <4>1. CASE i \in 1 .. n
        <5>1. written[k][i].id \in 0 .. last
          BY <1>2, <1>8, <4>1 DEF ServersInv, NumbersAreGiven
        <5>2. written'[k][i] = written[k][i]
          BY <1>7, <4>1
        <5>3. \A x \in 0 .. last : x \in 0 .. LastId(k)'
          BY <1>3, <1>8
        <5> QED BY <5>1, <5>2, <5>3
      <4>2. CASE i = n + 1
        <5>0. Len(written'[k]) > n
          BY <1>8a, <1>8b, <4>2
        <5>1. written'[k][i] = o
          BY <1>7, <4>2, <5>0
        <5> QED BY <1>4, <1>8, <5>1
      <4>3. CASE i = n + 2
        <5>0. Len(written'[k]) > n + 1
          BY <1>8a, <1>8b, <4>3
        <5>1. written'[k][i] = q /\ c \notin Diagnosing
          BY <1>7, <4>3, <5>0
        <5>2. LastId(k)' = last + 1
          BY <1>1, <1>6, <5>1 DEF LastId
        <5> QED BY <1>3, <1>4, <5>1, <5>2
      <4>4. i \in 1 .. n \/ i = n + 1 \/ i = n + 2
        BY <1>8c
      <4> QED BY <4>1, <4>2, <4>3, <4>4
    <3> QED BY <1>8a, <2>2, <3>1, <3>2
  <2> QED BY <2>1, <2>2
<1>11. CallsArePlaced'
  <2>1. \A d \in Calls : at[d] = NoCall <=> pc'[d] = "new"
    BY <1>1, <1>5 DEF ServersInv, CallsArePlaced
  <2>2. ASSUME NEW j \in Calls, NEW i \in DOMAIN pending'[j], pending'[j][i] # NoCall
        PROVE  at[pending'[j][i]] = j
    <3>0. \A m \in Calls : \A x \in DOMAIN pending[m] :
            pending[m][x] # NoCall => at[pending[m][x]] = m
      BY DEF ServersInv, CallsArePlaced
    <3>1. CASE j # k
      <4>1. pending'[j] = pending[j]
        BY <1>5, <3>1
      <4> QED BY <2>2, <3>0, <4>1
    <3>2. CASE j = k
      <4>1. \/ i \in DOMAIN pending[k] /\ pending'[k][i] = pending[k][i]
            \/ pending'[k][i] = c
        BY <1>6, <2>2, <3>2
      <4> QED BY <2>2, <3>0, <3>2, <4>1
    <3> QED BY <3>1, <3>2
  <2> QED BY <1>1, <2>1, <2>2 DEF CallsArePlaced
<1>12. ClientsAreMade'
  <2>1. pc[k] # "new"
    BY <1>2 DEF ServersInv, ClientsAreMade
  <2>2. \A d \in Calls : pc'[d] = "new" => pc[d] = "new" /\ d # k
    BY <1>5, <2>1
  <2>3. Len(written'[k]) >= 1
    <3>1. n >= 1
      BY <1>2 DEF ServersInv, ClientsAreMade, Ready
    <3> QED BY <1>8a, <1>8b, <3>1
  <2>4. \A j \in Calls : j # k => written'[j] = written[j]
    BY <1>7
  <2>5. \A j \in Calls : j # k => pending'[j] = pending[j]
    BY <1>5
  <2> QED BY <1>1, <2>2, <2>3, <2>4, <2>5 DEF ServersInv, ClientsAreMade
<1>13. StartsAlone'
  <2> SUFFICES ASSUME NEW j \in Calls, pending'[j] # <<>> /\ pending'[j][1] # NoCall
               PROVE  pending'[j][1] = j /\ Len(written'[j]) = 1
    BY DEF StartsAlone
  <2>1. j # k
    BY <1>6
  <2>2. pending'[j] = pending[j] /\ written'[j] = written[j]
    BY <1>5, <1>7, <2>1
  <2> QED BY <2>2 DEF ServersInv, StartsAlone
<1>14. UsedAreReady'
  <2> SUFFICES ASSUME NEW j \in Calls,
                      clients = j \/ \E d \in Calls : at[d] = j /\ pc'[d] = "reading"
               PROVE  Ready(j)'
    BY <1>1 DEF UsedAreReady
  <2>1. Ready(j)
    BY <1>5 DEF ServersInv, UsedAreReady
  <2>2. CASE j # k
    BY <1>1, <1>5, <1>7, <2>1, <2>2 DEF Ready
  <2>3. CASE j = k
    <3>1. proc[k] = "running" => n >= 2
      BY <2>1, <2>3 DEF Ready
    <3>2. proc'[k] = "running" => Len(written'[k]) >= 2
      BY <1>1, <1>8a, <1>8b, <3>1
    <3> QED BY <1>6, <2>3, <3>2 DEF Ready
  <2> QED BY <2>2, <2>3
<1>15. ProtocolOrder'
  <2> SUFFICES ASSUME NEW j \in Calls, NEW i \in DOMAIN written'[j]
               PROVE  LET w == written'[j][i] IN
                      /\ i = 1 <=> w.type = "initialize"
                      /\ i = 2 <=> w.type = "initialized"
                      /\ w.type = "request" =>
                           \E l \in 1 .. i - 1 : written'[j][l].type = "didOpen"
                                                 /\ written'[j][l].by = w.by
    BY DEF ProtocolOrder
  <2>1. CASE j # k
    <3>1. written'[j] = written[j]
      BY <1>7, <2>1
    <3> QED BY <3>1 DEF ServersInv, ProtocolOrder
  <2>2. CASE j = k /\ i \in 1 .. n
    <3>1. LET w == written[k][i] IN
          /\ i = 1 <=> w.type = "initialize"
          /\ i = 2 <=> w.type = "initialized"
          /\ w.type = "request" =>
               \E l \in 1 .. i - 1 : written[k][l].type = "didOpen"
                                     /\ written[k][l].by = w.by
      BY <1>2, <1>8, <2>2 DEF ServersInv, ProtocolOrder
    <3>2. \A l \in 1 .. i : written'[k][l] = written[k][l]
      BY <1>3, <1>7, <2>2
    <3>3. i \in 1 .. i /\ \A l \in 1 .. i - 1 : l \in 1 .. i
      BY <1>8b, <2>2
    <3>4. written'[k][i] = written[k][i]
      BY <3>2, <3>3
    <3> QED BY <2>2, <3>1, <3>2, <3>3, <3>4
  <2>3. CASE j = k /\ i = n + 1
    <3>1. n >= 2 /\ written'[k][i] = o
      <4>1. Len(written'[k]) > n
        BY <1>8a, <1>8b, <2>3
      <4> QED BY <1>7, <2>3, <4>1
    <3> QED BY <1>3, <1>4, <2>3, <3>1
  <2>4. CASE j = k /\ i = n + 2
    <3>1. n >= 2 /\ written'[k][i] = q /\ written'[k][n + 1] = o
      <4>1. Len(written'[k]) > n + 1 /\ Len(written'[k]) > n
        BY <1>8a, <1>8b, <2>4
      <4> QED BY <1>7, <2>4, <4>1
    <3>2. n + 1 \in 1 .. i - 1
      BY <1>3, <2>4
    <3>3. i # 1 /\ i # 2
      BY <1>3, <2>4, <3>1
    <3> QED BY <1>4, <2>4, <3>1, <3>2, <3>3
  <2> QED BY <1>8a, <1>8c, <2>1, <2>2, <2>3, <2>4
<1> QED BY <1>9, <1>10, <1>11, <1>12, <1>13, <1>14, <1>15 DEF ServersInv

LEMMA ReadFileKeepsServers ==
  ASSUME ServersInv, NEW c \in Calls, ReadFile(c) PROVE ServersInv'
<1>1. at[c] \in Calls
  BY DEF ReadFile, ServersInv, ServersTypes, CallsArePlaced
<1> QED BY <1>1, ReadFileAtClient

\* A call gets its answer, or is told of a failure: it no longer waits, and the
\* client becomes ready where the answer is that of initialize().
LEMMA CallEnds ==
  ASSUME ServersInv, ServersTypes', alive, NEW k \in Calls, NEW id \in 1 .. LastId(k),
         NEW c \in Calls, c = pending[k][id],
         pending' = [pending EXCEPT ![k][id] = NoCall],
         NEW v \in Stages \ {"new"}, pc' = [pc EXCEPT ![c] = v],
         clients' \in {clients, k}, clients' # clients \/ v = "reading" => id = 1 /\ v = "reading",
         written' = IF id = 1 /\ v = "reading" /\ proc[k] = "running"
                    THEN [written EXCEPT ![k] = Append(@, Message("initialized", 0, c))]
                    ELSE written,
         UNCHANGED <<alive, proc, answered, at, notices>>
  PROVE  ServersInv'
<1> DEFINE m == Message("initialized", 0, c)
<1>1. /\ pending[k] \in Seq(Calls \cup {NoCall}) /\ DOMAIN pending[k] = 1 .. LastId(k)
      /\ LastId(k) \in Nat /\ pending[k] # <<>> /\ c # NoCall
  BY ServersAssumption, LenProperties, EmptySeq DEF ServersInv, ServersTypes, LastId
<1>2. /\ pending'[k] = [pending[k] EXCEPT ![id] = NoCall]
      /\ \A j \in Calls : j # k => pending'[j] = pending[j]
  BY DEF ServersInv, ServersTypes
<1>3. /\ pending'[k] # <<>> /\ Len(pending'[k]) = LastId(k)
      /\ DOMAIN pending'[k] = 1 .. LastId(k) /\ pending'[k][id] = NoCall
      /\ \A i \in 1 .. LastId(k) : i # id => pending'[k][i] = pending[k][i]
  <2>1. [pending[k] EXCEPT ![id] = NoCall] \in Seq(Calls \cup {NoCall})
        /\ Len([pending[k] EXCEPT ![id] = NoCall]) = LastId(k)
    BY <1>1, ExceptSeq DEF LastId
  <2>2. Len(pending'[k]) # 0
    BY <1>1, <1>2, <2>1
  <2> QED BY <1>1, <1>2, <2>1, <2>2, EmptySeq
<1>4. at[c] = k /\ pc[c] # "new"
  <2>1. at[c] = k
    BY <1>1 DEF ServersInv, CallsArePlaced
  <2> QED BY <2>1, ServersAssumption DEF ServersInv, CallsArePlaced
<1>5. pc'[c] = v /\ \A d \in Calls : d # c => pc'[d] = pc[d]
  BY DEF ServersInv, ServersTypes
<1>6. \A d \in Calls : pc'[d] = "new" <=> pc[d] = "new"
  BY <1>4, <1>5
<1>7. m \in Messages /\ m.type = "initialized" /\ m.id = 0
  BY DEF Message, Messages
<1>8. written[k] \in Seq(Messages) /\ Len(written[k]) \in Nat /\ DOMAIN written[k] = 1 .. Len(written[k])
  BY LenProperties DEF ServersInv, ServersTypes
<1>9. CASE id = 1 /\ v = "reading" /\ proc[k] = "running"
  <2>1. c = k /\ Len(written[k]) = 1
    BY <1>1, <1>9 DEF ServersInv, StartsAlone
  <2>2. \A j \in Calls : j # k => written'[j] = written[j]
    BY <1>9 DEF ServersInv, ServersTypes
  <2>3. written'[k] = Append(written[k], m)
    BY <1>9 DEF ServersInv, ServersTypes
  <2> HIDE DEF m
  <2>4. /\ Len(written'[k]) = 2 /\ DOMAIN written'[k] = 1 .. 2
        /\ written'[k][1] = written[k][1] /\ written'[k][2] = m
    BY <1>7, <1>8, <2>1, <2>3, SeqAppend
  <2>5. NumbersAreGiven'
    <3> SUFFICES ASSUME NEW j \in Calls
                 PROVE  /\ answered[j] \subseteq Requests(j)'
                        /\ \A i \in DOMAIN written'[j] : written'[j][i].id \in 0 .. LastId(j)'
      BY DEF NumbersAreGiven
    <3>1. CASE j # k
      <4>1. Requests(j)' = Requests(j) /\ LastId(j)' = LastId(j)
        BY <1>2, <2>2, <3>1 DEF Requests, LastId
      <4> QED BY <2>2, <3>1, <4>1 DEF ServersInv, NumbersAreGiven
    <3>2. CASE j = k
      <4>1. LastId(k)' = LastId(k)
        BY <1>3 DEF LastId
      <4>2. written[k][1].id \in 0 .. LastId(k)
        BY <1>8, <2>1 DEF ServersInv, NumbersAreGiven
      <4>3. Requests(k) \subseteq Requests(k)'
        BY <1>8, <2>1, <2>4 DEF Requests
      <4> QED BY <1>1, <1>7, <2>4, <3>2, <4>1, <4>2, <4>3 DEF ServersInv, NumbersAreGiven
    <3> QED BY <3>1, <3>2
  <2>6. ProtocolOrder'
    <3> SUFFICES ASSUME NEW j \in Calls, NEW i \in DOMAIN written'[j]
                 PROVE  LET w == written'[j][i] IN
                        /\ i = 1 <=> w.type = "initialize"
                        /\ i = 2 <=> w.type = "initialized"
                        /\ w.type = "request" =>
                             \E l \in 1 .. i - 1 : written'[j][l].type = "didOpen"
                                                   /\ written'[j][l].by = w.by
      BY DEF ProtocolOrder
    <3>1. CASE j # k
      BY <2>2, <3>1 DEF ServersInv, ProtocolOrder
    <3>2. CASE j = k
      <4>1. written[k][1].type = "initialize"
        BY <1>8, <2>1 DEF ServersInv, ProtocolOrder
      <4> QED BY <1>7, <2>4, <3>2, <4>1
    <3> QED BY <3>1, <3>2
  <2>7. \A j \in Calls : Len(written[j]) >= 1 => Len(written'[j]) >= 1
    BY <2>2, <2>4
  <2>8. Ready(k)' /\ \A j \in Calls : j # k => Ready(j)' = Ready(j)
    BY <1>2, <1>3, <1>9, <2>2, <2>4 DEF Ready
  <2> QED BY <2>2, <2>5, <2>6, <2>7, <2>8, <1>9, <1>1, <1>2, <1>3, <1>4, <1>5, <1>6
          DEF ServersInv, CallsArePlaced, ClientsAreMade, StartsAlone, UsedAreReady
<1>10. CASE ~(id = 1 /\ v = "reading" /\ proc[k] = "running")
  <2>1. written' = written
    BY <1>10
  <2>2. NumbersAreGiven'
    <3>1. ASSUME NEW j \in Calls PROVE LastId(j)' = LastId(j) /\ Requests(j)' = Requests(j)
      <4>1. LastId(j)' = LastId(j)
        BY <1>2, <1>3 DEF LastId
      <4> QED BY <2>1, <4>1 DEF Requests
    <3> QED BY <2>1, <3>1 DEF ServersInv, NumbersAreGiven
  <2>3. ProtocolOrder'
    BY <2>1 DEF ServersInv, ProtocolOrder
  <2>4. Ready(k) => Ready(k)'
    BY <1>1, <1>3, <2>1 DEF Ready
  <2>5. id = 1 /\ v = "reading" => Ready(k)'
    BY <1>3, <1>10, <2>1 DEF Ready
  <2>6. \A j \in Calls : j # k => Ready(j)' = Ready(j)
    BY <1>2, <2>1 DEF Ready
  <2> QED BY <2>1, <2>2, <2>3, <2>4, <2>5, <2>6, <1>1, <1>2, <1>3, <1>4, <1>5, <1>6
          DEF ServersInv, CallsArePlaced, ClientsAreMade, StartsAlone, UsedAreReady
<1> QED BY <1>9, <1>10

LEMMA HandleDataKeepsServers ==
  ASSUME ServersInv, NEW k \in Calls, HandleData(k) PROVE ServersInv'
<1>1. /\ alive /\ said' = [said EXCEPT ![k] = Tail(@)] /\ said[k] # <<>>
      /\ FallShort(k) \/ Handle(k, Head(said[k]))
      /\ UNCHANGED <<alive, proc, answered, at, notices>>
  BY DEF HandleData
<1>2. said' \in [Calls -> Seq(Nat)]
  BY <1>1, SeqTail DEF ServersInv, ServersTypes
<1>3. \A j \in Calls : answered[j] \subseteq Requests(j)
  BY DEF ServersInv, NumbersAreGiven
<1>4. CASE FallShort(k)
  <2>1. short' \in [Calls -> BOOLEAN] /\ UNCHANGED <<pc, written, clients, pending>>
    BY <1>4 DEF FallShort, ServersInv, ServersTypes
  <2>2. ServersTypes'
    BY <1>1, <1>2, <2>1 DEF ServersInv, ServersTypes
  <2> QED BY <1>1, <1>3, <2>1, <2>2, QuietKeepsServers
<1>5. ASSUME NEW id, id = Head(said[k]), Handle(k, id) PROVE ServersInv'
  <2>1. CASE ~(id \in 1 .. LastId(k) /\ pending[k][id] # NoCall)
    <3>1. UNCHANGED <<short, pc, written, clients, pending>>
      BY <1>5, <2>1 DEF Handle
    <3>2. ServersTypes'
      BY <1>1, <1>2, <3>1 DEF ServersInv, ServersTypes
    <3> QED BY <1>1, <1>3, <3>1, <3>2, QuietKeepsServers
  <2>2. CASE id \in 1 .. LastId(k) /\ pending[k][id] # NoCall
    <3>1. PICK c \in Calls : c = pending[k][id]
      BY <2>2, LenProperties DEF ServersInv, ServersTypes, LastId
    <3>2. /\ Resolve(k, id) \/ Reject(k, id)
          /\ pending' = [pending EXCEPT ![k][id] = NoCall] /\ UNCHANGED short
      BY <1>5, <2>2 DEF Handle
    <3>3. PICK v \in Stages \ {"new"} :
            /\ pc' = [pc EXCEPT ![c] = v]
            /\ clients' \in {clients, k}
            /\ clients' # clients \/ v = "reading" => id = 1 /\ v = "reading"
            /\ written' = IF id = 1 /\ v = "reading" /\ proc[k] = "running"
                          THEN [written EXCEPT ![k] = Append(@, Message("initialized", 0, c))]
                          ELSE written
      <4>0. {"reading", "done", "failed"} \subseteq Stages \ {"new"}
        BY DEF Stages
      <4>1. CASE Resolve(k, id) /\ id = 1
        <5>1. /\ pc' = [pc EXCEPT ![c] = "reading"] /\ clients' = k
              /\ written' = IF proc[k] = "running"
                            THEN [written EXCEPT ![k] = Append(@, Message("initialized", 0, c))]
                            ELSE written
          BY <3>1, <4>1 DEF Resolve
        <5> QED BY <4>0, <4>1, <5>1
      <4>2. CASE Resolve(k, id) /\ id # 1
        <5>1. pc' = [pc EXCEPT ![c] = "done"] /\ UNCHANGED <<clients, written>>
          BY <3>1, <4>2 DEF Resolve
        <5> QED BY <4>0, <4>2, <5>1
      <4>3. CASE Reject(k, id)
        <5>1. pc' = [pc EXCEPT ![c] = "failed"] /\ UNCHANGED <<clients, written>>
          BY <3>1, <4>3 DEF Reject
        <5> QED BY <4>0, <5>1
      <4> QED BY <3>2, <4>1, <4>2, <4>3
    <3>4. ServersTypes'
      <4>1. Message("initialized", 0, c) \in Messages
        BY DEF Message, Messages
      <4>2. Append(written[k], Message("initialized", 0, c)) \in Seq(Messages)
        BY <4>1, SeqAppend DEF ServersInv, ServersTypes
      <4>3. written' \in [Calls -> Seq(Messages)]
        BY <3>3, <4>2 DEF ServersInv, ServersTypes
      <4>4. [pending[k] EXCEPT ![id] = NoCall] \in Seq(Calls \cup {NoCall})
        <5>1. pending[k] \in Seq(Calls \cup {NoCall}) /\ id \in 1 .. Len(pending[k])
          BY <2>2 DEF ServersInv, ServersTypes, LastId
        <5> QED BY <5>1, ExceptSeq
      <4>5. pending' \in [Calls -> Seq(Calls \cup {NoCall})]
        BY <3>2, <4>4 DEF ServersInv, ServersTypes
      <4>6. pc' \in [Calls -> Stages] /\ clients' \in Calls \cup {NoCall}
        BY <3>3 DEF ServersInv, ServersTypes
      <4>7. /\ proc' \in [Calls -> {"none", "running", "dead"}] /\ short' \in [Calls -> BOOLEAN]
            /\ at' \in [Calls -> Calls \cup {NoCall}] /\ notices' \in 0 .. MaxNotices
            /\ alive' \in BOOLEAN
        BY <1>1, <3>2 DEF ServersInv, ServersTypes
      <4> QED BY <1>2, <4>3, <4>5, <4>6, <4>7 DEF ServersTypes
    <3> QED BY <1>1, <2>2, <3>1, <3>2, <3>3, <3>4, CallEnds
  <2> QED BY <2>1, <2>2
<1> QED BY <1>1, <1>4, <1>5

\* The steps that neither write nor ask.
LEMMA QuietSteps ==
  ASSUME ServersInv, NEW c \in Calls,
         \/ ReadFileFails(c) \/ Diagnose(c) \/ Die(c)
         \/ \E id \in 1 .. LastId(c) : Answer(c, id)
         \/ \E id \in 0 .. LastId(c) : Publish(c, id)
         \/ HandleDataShort(c) /\ ~Crash
  PROVE  ServersInv'
<1>1. \A k \in Calls : answered[k] \subseteq Requests(k)
  BY DEF ServersInv, NumbersAreGiven
<1>2. ServersTypes /\ pending[c] \in Seq(Calls \cup {NoCall}) /\ said[c] \in Seq(Nat)
  BY DEF ServersInv, ServersTypes
<1>3. CASE ReadFileFails(c) \/ Diagnose(c)
  <2>1. /\ pc[c] \in {"reading", "sleeping"} /\ UNCHANGED <<alive, clientVars, at, notices>>
        /\ \E v \in {"failed", "done"} : pc' = [pc EXCEPT ![c] = v]
    BY <1>3 DEF ReadFileFails, Diagnose
  <2>2. ServersTypes'
    BY <1>2, <2>1 DEF ServersTypes, Stages, clientVars
  <2> QED BY <1>1, <1>2, <2>1, <2>2, QuietKeepsServers DEF clientVars, ServersTypes
<1>4. CASE Die(c)
  <2>1. ServersTypes'
    BY <1>2, <1>4 DEF Die, ServersTypes
  <2> QED BY <1>1, <1>2, <1>4, <2>1, QuietKeepsServers DEF Die, ServersTypes
<1>5. ASSUME NEW id \in 1 .. LastId(c), Answer(c, id) PROVE ServersInv'
  <2>1. id \in Nat
    BY <1>2, LenProperties DEF LastId
  <2>2. Append(said[c], id) \in Seq(Nat)
    BY <1>2, <2>1, SeqAppend
  <2>3. ServersTypes'
    BY <1>2, <1>5, <2>2 DEF Answer, ServersTypes
  <2>4. \A k \in Calls : answered'[k] \subseteq Requests(k)
    <3>1. id \in Requests(c) /\ answered' = [answered EXCEPT ![c] = @ \cup {id}]
      BY <1>5 DEF Answer
    <3> QED BY <1>1, <3>1
  <2> QED BY <1>5, <2>3, <2>4, QuietKeepsServers DEF Answer
<1>6. ASSUME NEW id \in 0 .. LastId(c), Publish(c, id) PROVE ServersInv'
  <2>1. id \in Nat
    BY <1>2, LenProperties DEF LastId
  <2>2. Append(said[c], id) \in Seq(Nat)
    BY <1>2, <2>1, SeqAppend
  <2>3. ServersTypes'
    BY <1>2, <1>6, <2>2, ServersAssumption DEF Publish, ServersTypes
  <2> QED BY <1>1, <1>6, <2>3, QuietKeepsServers DEF Publish
<1>7. CASE HandleDataShort(c) /\ ~Crash
  <2>1. /\ said[c] # <<>> /\ said' = [said EXCEPT ![c] = Tail(@)]
        /\ UNCHANGED <<alive, clients, proc, pending, written, answered, short, pc, at, notices>>
    BY <1>7 DEF HandleDataShort
  <2>2. Tail(said[c]) \in Seq(Nat)
    BY <1>2, <2>1, SeqTail
  <2>3. ServersTypes'
    BY <1>2, <2>1, <2>2 DEF ServersTypes
  <2> QED BY <1>1, <2>1, <2>3, QuietKeepsServers
<1> QED BY <1>3, <1>4, <1>5, <1>6, <1>7

LEMMA ServersNextKeeps == ASSUME ServersInv, [ServersNext]_serverVars PROVE ServersInv'
<1>1. ASSUME NEW c \in Calls, GetClient(c) PROVE ServersInv'
  BY <1>1, FindClientKeepsServers, StartClientKeepsServers DEF GetClient
<1>2. ASSUME NEW c \in Calls, SpawnFails(c) \/ BreakPipe(c) \/ (HandleDataShort(c) /\ Crash)
      PROVE  ServersInv'
  BY <1>2, CrashKeepsServers DEF SpawnFails, BreakPipe
<1>3. ASSUME NEW c \in Calls, ReadFile(c) PROVE ServersInv'
  BY <1>3, ReadFileKeepsServers
<1>4. ASSUME NEW c \in Calls, HandleData(c) PROVE ServersInv'
  BY <1>4, HandleDataKeepsServers
<1>5. ASSUME NEW c \in Calls,
             \/ ReadFileFails(c) \/ Diagnose(c) \/ Die(c)
             \/ \E id \in 1 .. LastId(c) : Answer(c, id)
             \/ \E id \in 0 .. LastId(c) : Publish(c, id)
             \/ HandleDataShort(c) /\ ~Crash
      PROVE  ServersInv'
  BY <1>5, QuietSteps
<1>6. CASE UNCHANGED serverVars
  <2>1. UNCHANGED <<alive, clients, proc, pending, written, said, answered, short, pc, at,
                    notices>>
    BY <1>6 DEF serverVars, clientVars
  <2>2. ServersTypes' /\ \A k \in Calls : answered[k] \subseteq Requests(k)
    BY <2>1 DEF ServersInv, ServersTypes, NumbersAreGiven
  <2> QED BY <2>1, <2>2, QuietKeepsServers
<1> QED BY <1>1, <1>2, <1>3, <1>4, <1>5, <1>6 DEF ServersNext

LEMMA ServersInvariance == ServersSpec => []ServersInv
BY ServersInitially, ServersNextKeeps, PTL DEF ServersSpec

----------------------------------------------------------------------------
\* Clients, calls and numbers keep to their kinds: in particular a number is
\* written, and answered, only after the client has given it out, and a call
\* has its client from its first step on (LSPClient.ts 223-240, lsp.ts 28-43).
THEOREM ServersTyped == ServersSpec => []ServersTypeOK
<1>1. ServersInv => ServersTypeOK
  <2> SUFFICES ASSUME ServersInv PROVE ServersTypeOK
    OBVIOUS
  <2>1. ASSUME NEW k \in Calls
        PROVE  /\ \A i \in DOMAIN pending[k] : pending[k][i] \in Calls \cup {NoCall}
               /\ answered[k] \subseteq Requests(k) /\ Requests(k) \subseteq 1 .. LastId(k)
               /\ short[k] \in BOOLEAN
    <3>1. \A i \in DOMAIN pending[k] : pending[k][i] \in Calls \cup {NoCall}
      BY LenProperties DEF ServersInv, ServersTypes
    <3>2. LastId(k) \in Nat
      BY LenProperties DEF ServersInv, ServersTypes, LastId
    <3>3. Requests(k) \subseteq 1 .. LastId(k)
      BY <3>2 DEF ServersInv, NumbersAreGiven, Requests
    <3> QED BY <3>1, <3>3 DEF ServersInv, ServersTypes, NumbersAreGiven
  <2> QED BY <2>1 DEF ServersInv, ServersTypes, CallsArePlaced, ServersTypeOK
<1> QED BY <1>1, ServersInvariance, PTL

\* However many calls start servers and find one, in whatever order the
\* answers come, whichever servers die: each hears "initialize", then
\* "initialized", and of every file before it is asked about it
\* (lsp.ts 36-51, LSPClient.ts 120-141).
THEOREM ServersHearInOrder == ServersSpec => []ProtocolOrder
<1>1. ServersInv => ProtocolOrder
  BY DEF ServersInv
<1> QED BY <1>1, ServersInvariance, PTL

=============================================================================
