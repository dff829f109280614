----------------------- MODULE EditorSessionsProofs -----------------------
(***************************************************************************)
(* What a lookup answers is right for any number of hosts and lookups.     *)
(* The invariant says what the loop of a lookup has learnt so far: what it *)
(* has dropped is gone for good, and nothing that is left comes before the *)
(* candidate it is trying.                                                 *)
(***************************************************************************)
EXTENDS EditorSessions, TLAPS

USE NoHostAssumption

Add(h) == [what |-> "add", from |-> h]
Delete(h) == [what |-> "delete", from |-> h]

\* /add-session is posted once, by a host that is not yet registered, and
\* /delete-session by a host that has ended.
PostsInv ==
  /\ \A h \in Hosts : Add(h) \in posts => stamp[h] = 0 /\ host[h] # "new"
  /\ \A h \in Hosts : Delete(h) \in posts => host[h] = "exited"
  /\ \A h \in Hosts : host[h] = "new" => stamp[h] = 0
  /\ \A h \in entries : stamp[h] > 0

\* What the loop of a lookup relies on.
Known(l) ==
  /\ l.left \subseteq l.candidates
  /\ \A g \in l.candidates : stamp[g] > 0
  /\ \A g \in l.gone : host[g] = "exited"
  /\ \A g \in l.candidates \ l.left : host[g] = "exited" /\ g \notin entries

Trying(l) ==
  l.stage = "trying" =>
    /\ Best(l.file, l.at, l.left)
    /\ l.ok => l.at \notin l.gone
    /\ ~l.ok => host[l.at] = "exited"

Settled(l) ==
  l.stage \in {"answered", "opened", "refused"} =>
    IF l.at = NoHost THEN l.left = {}
                     ELSE Best(l.file, l.at, l.left) /\ l.at \notin l.gone

IInv ==
  /\ TypeOK
  /\ PostsInv
  /\ RunningStaysListed
  /\ \A q \in Lookups : Known(lookup[q]) /\ Trying(lookup[q]) /\ Settled(lookup[q])

----------------------------------------------------------------------------
\* A file is always there to initialise a lookup with.
LEMMA SomeFile == (CHOOSE f \in Files : TRUE) \in Files
  BY FilesAssumption

LEMMA InitIInv == Init => IInv
  BY SomeFile DEF Init, IInv, TypeOK, Posts, Idle, Stages, PostsInv, Add, Delete,
     RunningStaysListed, Known, Trying, Settled

----------------------------------------------------------------------------
(* The steps of hosts and server leave every lookup alone, and change      *)
(* nothing about a host that some lookup has among its candidates but that *)
(* it exits.                                                               *)

\* Steps that keep what a lookup knows: hosts only exit, entries are only
\* added with a new number, and a number, once given, stays.
Keeps ==
  /\ UNCHANGED lookup
  /\ \A h \in Hosts : host[h] = "exited" => host'[h] = "exited"
  /\ \A h \in Hosts : stamp[h] > 0 => stamp'[h] = stamp[h] /\ folders'[h] = folders[h]
  /\ \A h \in Hosts : h \in entries' /\ h \notin entries => stamp[h] = 0

LEMMA KeepsLookups ==
  ASSUME IInv, Keeps
  PROVE  \A q \in Lookups :
           Known(lookup[q])' /\ Trying(lookup[q])' /\ Settled(lookup[q])'
<1> SUFFICES ASSUME NEW q \in Lookups
             PROVE  Known(lookup[q])' /\ Trying(lookup[q])' /\ Settled(lookup[q])'
  OBVIOUS
<1> DEFINE l == lookup[q]
<1>0. l' = l
  BY DEF Keeps
<1>1. /\ l.candidates \subseteq Hosts /\ l.left \subseteq Hosts /\ l.gone \subseteq Hosts
      /\ l.at \in Hosts \cup {NoHost}
  BY DEF IInv, TypeOK
<1>2. Known(l) /\ Trying(l) /\ Settled(l)
  BY DEF IInv
<1> HIDE DEF l
<1>3. Known(l)'
  BY <1>0, <1>1, <1>2 DEF Keeps, Known
<1>4. \A h \in Hosts : Best(l.file, h, l.left) => Best(l.file, h, l.left)'
  BY <1>0, <1>1, <1>2 DEF Keeps, Known, Best, Ahead
<1>5. Trying(l)'
  BY <1>0, <1>1, <1>2, <1>4 DEF Trying, Known, Keeps, Best
<1>6. Settled(l)'
  BY <1>0, <1>1, <1>2, <1>4 DEF Settled
<1>7. QED
  BY <1>3, <1>5, <1>6 DEF l

\* One step per handler: it keeps the numbers and posts in order, and drops
\* no entry of a host that runs.
LEMMA HostIInv ==
  ASSUME NEW h \in Hosts, IInv, HostStep(h)
  PROVE  IInv'
<1> USE DEF IInv, TypeOK, PostsInv, RunningStaysListed, Posts, Add, Delete, registry
<1>1. CASE StartHost(h)
  <2>1. Keeps
    BY <1>1 DEF StartHost, Keeps
  <2>2. QED
    BY <1>1, <2>1, KeepsLookups DEF StartHost
<1>2. CASE TerminateHost(h)
  <2>1. Keeps
    BY <1>2 DEF TerminateHost, Keeps
  <2>2. QED
    BY <1>2, <2>1, KeepsLookups DEF TerminateHost
<1>3. CASE CrashHost(h)
  <2>1. Keeps
    BY <1>3 DEF CrashHost, Keeps
  <2>2. QED
    BY <1>3, <2>1, KeepsLookups DEF CrashHost
<1>4. QED
  BY <1>1, <1>2, <1>3 DEF HostStep

LEMMA ServerIInv ==
  ASSUME NEW h \in Hosts, IInv, ServerStep(h)
  PROVE  IInv'
<1> USE DEF IInv, TypeOK, PostsInv, RunningStaysListed, Posts, Add, Delete, registry
<1>1. CASE AddSession(h)
  <2>1. Keeps
    BY <1>1 DEF AddSession, Keeps
  <2>2. QED
    BY <1>1, <2>1, KeepsLookups DEF AddSession
<1>2. CASE DeleteSession(h)
  <2>1. Keeps
    BY <1>2 DEF DeleteSession, Keeps
  <2>2. QED
    BY <1>2, <2>1, KeepsLookups DEF DeleteSession
<1>3. QED
  BY <1>1, <1>2 DEF ServerStep

LEMMA LoseIInv == ASSUME IInv, LosePost PROVE IInv'
<1>1. Keeps
  BY DEF LosePost, Keeps, registry
<1>2. QED
  BY <1>1, KeepsLookups
  DEF LosePost, IInv, TypeOK, PostsInv, RunningStaysListed, Posts, Add, Delete, registry

----------------------------------------------------------------------------
(* The steps of a lookup.                                                  *)

\* What a record of a lookup may be.
LookupType == [stage : Stages, file : Files,
  candidates : SUBSET Hosts, left : SUBSET Hosts, gone : SUBSET Hosts,
  at : Hosts \cup {NoHost}, ok : BOOLEAN]

\* The part of the invariant that is not about lookups.
Registry ==
  /\ host \in [Hosts -> {"new", "up", "exited"}]
  /\ folders \in [Hosts -> SUBSET Files]
  /\ bare \subseteq Hosts /\ posts \subseteq Posts
  /\ entries \subseteq Hosts
  /\ stamp \in [Hosts -> 0 .. clock] /\ clock \in Nat
  /\ PostsInv
  /\ RunningStaysListed

Right(l) == l \in LookupType /\ Known(l) /\ Trying(l) /\ Settled(l)

LEMMA Parts == IInv <=> /\ Registry
                        /\ lookup \in [Lookups -> LookupType]
                        /\ \A q \in Lookups : Right(lookup[q])
  BY DEF IInv, TypeOK, Registry, LookupType, Right

\* The next turn of the loop, with S left of the candidates of l.
LEMMA TryRight ==
  ASSUME NEW q \in Lookups, NEW l \in LookupType, NEW S \in SUBSET l.candidates,
         Registry, lookup \in [Lookups -> LookupType],
         \A g \in l.candidates : stamp[g] > 0,
         \A g \in l.gone : host[g] = "exited",
         \A g \in l.candidates \ S : host[g] = "exited" /\ g \notin entries',
         entries' \subseteq entries,
         UNCHANGED <<host, folders, stamp>>,
         Try(q, l, S)
  PROVE  /\ lookup'[q] \in LookupType
         /\ Known(lookup[q])' /\ Trying(lookup[q])' /\ Settled(lookup[q])'
         /\ \A p \in Lookups \ {q} : lookup'[p] = lookup[p]
         /\ lookup' \in [Lookups -> LookupType]
<1>1. CASE S = {} /\ lookup' = [lookup EXCEPT ![q] =
               [l EXCEPT !.stage = "answered", !.left = {}, !.at = NoHost]]
  <2>1. /\ lookup'[q] = [l EXCEPT !.stage = "answered", !.left = {}, !.at = NoHost]
        /\ \A p \in Lookups \ {q} : lookup'[p] = lookup[p]
    BY <1>1
  <2>2. lookup'[q] \in LookupType
    BY <2>1 DEF LookupType, Stages
  <2>3. Known(lookup[q])' /\ Trying(lookup[q])' /\ Settled(lookup[q])'
    BY <1>1, <2>1 DEF Known, Trying, Settled, LookupType
  <2>4. QED
    BY <1>1, <2>1, <2>2, <2>3
<1>2. ASSUME NEW h \in S, Best(l.file, h, S),
             lookup' = [lookup EXCEPT ![q] = [l EXCEPT !.stage = "trying",
               !.left = S, !.at = h, !.ok = (host[h] = "up")]]
      PROVE  /\ lookup'[q] \in LookupType
             /\ Known(lookup[q])' /\ Trying(lookup[q])' /\ Settled(lookup[q])'
             /\ \A p \in Lookups \ {q} : lookup'[p] = lookup[p]
             /\ lookup' \in [Lookups -> LookupType]
  <2> DEFINE m == [l EXCEPT !.stage = "trying", !.left = S, !.at = h,
                            !.ok = (host[h] = "up")]
  <2>1. lookup'[q] = m /\ \A p \in Lookups \ {q} : lookup'[p] = lookup[p]
    BY <1>2
  <2>2. m \in LookupType
    BY <1>2 DEF LookupType, Stages
  <2>3. /\ m.file = l.file /\ m.candidates = l.candidates /\ m.gone = l.gone
        /\ m.left = S /\ m.at = h /\ m.stage = "trying" /\ m.ok = (host[h] = "up")
    BY DEF LookupType
  <2> HIDE DEF m
  <2>4. host[h] # "new" /\ h \in Hosts
    BY DEF Registry, PostsInv, LookupType
  <2>5. Known(lookup[q])'
    BY <2>1, <2>3 DEF Known
  <2>6. Best(l.file, h, S)'
    BY <1>2 DEF Best, Ahead
  <2>7. Trying(lookup[q])'
    BY <2>1, <2>3, <2>4, <2>6 DEF Trying, Registry
  <2>8. Settled(lookup[q])'
    BY <2>1, <2>3 DEF Settled
  <2>9. QED
    BY <1>2, <2>1, <2>2, <2>5, <2>7, <2>8 DEF m
<1>3. QED
  BY <1>1, <1>2 DEF Try, Best

\* A lookup disturbs another one at most by deleting a host that has gone.
LEMMA OthersRight ==
  ASSUME NEW p \in Lookups, IInv, lookup'[p] = lookup[p],
         entries' \subseteq entries, UNCHANGED <<host, folders, stamp>>
  PROVE  Known(lookup[p])' /\ Trying(lookup[p])' /\ Settled(lookup[p])'
<1>1. Known(lookup[p]) /\ Trying(lookup[p]) /\ Settled(lookup[p])
  BY DEF IInv
<1>2. QED
  BY <1>1 DEF Known, Trying, Settled, Best, Ahead

LEMMA RegistryKept ==
  ASSUME IInv, UNCHANGED <<host, folders, bare, posts, stamp, clock>>,
         entries' \subseteq entries,
         \A h \in entries \ entries' : host[h] = "exited"
  PROVE  Registry'
  BY DEF IInv, TypeOK, Registry, PostsInv, RunningStaysListed, Add, Delete

LEMMA AskIInv ==
  ASSUME NEW q \in Lookups, NEW file \in Files, IInv, Ask(q, file)
  PROVE  IInv'
<1> DEFINE l == [Idle EXCEPT !.file = file, !.candidates = entries,
                             !.gone = {h \in Hosts : host[h] = "exited"}]
<1>0. UNCHANGED <<host, folders, bare, posts, entries, stamp, clock>>
  BY DEF Ask, registry
<1>1. l \in LookupType /\ l.candidates = entries
      /\ l.gone = {h \in Hosts : host[h] = "exited"}
  BY SomeFile DEF Idle, LookupType, Stages, IInv, TypeOK
<1>2. Registry /\ lookup \in [Lookups -> LookupType]
  BY Parts
<1>3. /\ lookup'[q] \in LookupType
      /\ Known(lookup[q])' /\ Trying(lookup[q])' /\ Settled(lookup[q])'
      /\ \A p \in Lookups \ {q} : lookup'[p] = lookup[p]
      /\ lookup' \in [Lookups -> LookupType]
  <2>1. CASE Incomparable(entries)
    <3>1. lookup' = [lookup EXCEPT ![q].stage = "failed", ![q].file = file]
      BY <2>1 DEF Ask
    <3>2. /\ lookup'[q] = [lookup[q] EXCEPT !.stage = "failed", !.file = file]
          /\ \A p \in Lookups \ {q} : lookup'[p] = lookup[p]
      BY <1>2, <3>1
    <3>3. lookup[q] \in LookupType /\ Known(lookup[q])
      BY Parts DEF Right
    <3>4. lookup'[q] \in LookupType /\ lookup' \in [Lookups -> LookupType]
      BY <1>2, <3>1, <3>2, <3>3 DEF LookupType, Stages
    <3>5. Known(lookup[q])' /\ Trying(lookup[q])' /\ Settled(lookup[q])'
      BY <1>0, <3>2, <3>3 DEF Known, Trying, Settled, LookupType
    <3>6. QED
      BY <3>2, <3>4, <3>5
  <2>2. CASE ~Incomparable(entries)
    <3>1. Try(q, l, entries)
      BY <2>2 DEF Ask
    <3> HIDE DEF l
    <3>2. \A g \in l.candidates : stamp[g] > 0
      BY <1>1 DEF IInv, PostsInv
    <3>3. QED
      BY <1>0, <1>1, <1>2, <3>1, <3>2, TryRight
  <2>3. QED
    BY <2>1, <2>2
<1>4. \A p \in Lookups \ {q} : Known(lookup[p])' /\ Trying(lookup[p])' /\ Settled(lookup[p])'
  BY <1>0, <1>3, OthersRight
<1>5. Registry'
  BY <1>0, RegistryKept
<1>6. QED
  BY <1>3, <1>4, <1>5 DEF IInv, TypeOK, Registry, LookupType

LEMMA SettleIInv ==
  ASSUME NEW q \in Lookups, IInv, Settle(q)
  PROVE  IInv'
<1> DEFINE l == lookup[q]
<1>1. l \in LookupType /\ Known(l) /\ Trying(l) /\ l.stage = "trying"
  BY Parts DEF Right, Settle
<1>2. UNCHANGED <<host, folders, bare, posts, stamp, clock>>
  BY DEF Settle
<1>3. Registry /\ lookup \in [Lookups -> LookupType]
  BY Parts
<1>4. CASE l.ok /\ lookup' = [lookup EXCEPT ![q].stage = "answered"] /\ UNCHANGED entries
  <2>1. lookup'[q] = [l EXCEPT !.stage = "answered"]
        /\ \A p \in Lookups \ {q} : lookup'[p] = lookup[p]
    BY <1>3, <1>4
  <2>2. lookup'[q] \in LookupType /\ lookup' \in [Lookups -> LookupType]
    BY <1>1, <1>3, <1>4, <2>1 DEF LookupType, Stages
  <2>3. Known(lookup[q])' /\ Trying(lookup[q])' /\ Settled(lookup[q])'
    <3>1. Best(l.file, l.at, l.left)'
      BY <1>1, <1>2, <2>1 DEF Trying, Best, Ahead, LookupType
    <3>2. QED
      BY <1>1, <1>2, <1>4, <2>1, <3>1
      DEF Known, Trying, Settled, LookupType, Best, Ahead
  <2>4. \A p \in Lookups \ {q} : Known(lookup[p])' /\ Trying(lookup[p])' /\ Settled(lookup[p])'
    BY <1>2, <1>4, <2>1, OthersRight
  <2>5. Registry'
    BY <1>2, <1>4, RegistryKept
  <2>6. QED
    BY <2>2, <2>3, <2>4, <2>5 DEF IInv, TypeOK, Registry, LookupType
<1>5. CASE ~l.ok /\ entries' = entries \ {l.at} /\ Try(q, l, l.left \ {l.at})
  <2>1. host[l.at] = "exited"
    BY <1>1, <1>5 DEF Trying
  <2>2. /\ l.left \ {l.at} \in SUBSET l.candidates
        /\ \A g \in l.candidates : stamp[g] > 0
        /\ \A g \in l.gone : host[g] = "exited"
        /\ \A g \in l.candidates \ (l.left \ {l.at}) :
              host[g] = "exited" /\ g \notin entries'
    BY <1>1, <1>5, <2>1 DEF Known, LookupType
  <2> HIDE DEF l
  <2>3. /\ lookup'[q] \in LookupType
        /\ Known(lookup[q])' /\ Trying(lookup[q])' /\ Settled(lookup[q])'
        /\ \A p \in Lookups \ {q} : lookup'[p] = lookup[p]
        /\ lookup' \in [Lookups -> LookupType]
    BY <1>1, <1>2, <1>3, <1>5, <2>2, TryRight
  <2>4. \A p \in Lookups \ {q} : Known(lookup[p])' /\ Trying(lookup[p])' /\ Settled(lookup[p])'
    BY <1>2, <1>5, <2>3, OthersRight
  <2>5. Registry'
    BY <1>2, <1>5, <2>1, RegistryKept
  <2>6. QED
    BY <2>3, <2>4, <2>5 DEF IInv, TypeOK, Registry, LookupType
<1>6. QED
  BY <1>4, <1>5 DEF Settle

LEMMA OpenIInv ==
  ASSUME NEW q \in Lookups, IInv, Open(q)
  PROVE  IInv'
<1> DEFINE l == lookup[q]
<1> DEFINE s == IF host[l.at] = "up" THEN "opened" ELSE "refused"
<1>1. l \in LookupType /\ Known(l) /\ Settled(l) /\ l.stage = "answered" /\ l.at # NoHost
  BY Parts DEF Right, Open
<1>2. UNCHANGED <<host, folders, bare, posts, entries, stamp, clock>>
  BY DEF Open, registry
<1>3. Registry /\ lookup \in [Lookups -> LookupType]
  BY Parts
<1>4. /\ lookup' = [lookup EXCEPT ![q].stage = s]
      /\ lookup'[q] = [l EXCEPT !.stage = s]
      /\ \A p \in Lookups \ {q} : lookup'[p] = lookup[p]
  BY <1>3 DEF Open
<1>5. s \in {"opened", "refused"}
  OBVIOUS
<1> HIDE DEF s
<1>6. lookup'[q] \in LookupType /\ lookup' \in [Lookups -> LookupType]
  BY <1>1, <1>3, <1>4, <1>5 DEF LookupType, Stages
<1>7. Known(lookup[q])' /\ Trying(lookup[q])' /\ Settled(lookup[q])'
  <2>1. Best(l.file, l.at, l.left)'
    BY <1>1, <1>2, <1>4 DEF Settled, Best, Ahead, LookupType
  <2>2. QED
    BY <1>1, <1>2, <1>4, <1>5, <2>1
    DEF Known, Trying, Settled, LookupType, Best, Ahead
<1>8. \A p \in Lookups \ {q} : Known(lookup[p])' /\ Trying(lookup[p])' /\ Settled(lookup[p])'
  BY <1>2, <1>4, OthersRight
<1>9. Registry'
  BY <1>2, RegistryKept
<1>10. QED
  BY <1>6, <1>7, <1>8, <1>9 DEF IInv, TypeOK, Registry, LookupType

----------------------------------------------------------------------------
LEMMA NextIInv == IInv /\ [Next]_vars => IInv'
<1> SUFFICES ASSUME IInv, [Next]_vars PROVE IInv'
  OBVIOUS
<1>1. CASE UNCHANGED vars
  BY <1>1 DEF vars, registry, IInv, TypeOK, PostsInv, RunningStaysListed, Known,
     Trying, Settled, Best, Ahead
<1>2. CASE Next
  BY <1>2, HostIInv, ServerIInv, LoseIInv, AskIInv, SettleIInv, OpenIInv
  DEF Next, LookupStep
<1>3. QED
  BY <1>1, <1>2

THEOREM Inductive == Spec => []IInv
  BY InitIInv, NextIInv, PTL DEF Spec

\* Every variable of the registry, the hosts and the lookups stays in its range
\* (vscodeSocket.ts 86-144).
THEOREM TypeCorrect == Spec => []TypeOK
  BY Inductive, PTL DEF IInv

\* The answer of a lookup (vscodeSocket.ts 131-144) was registered and running
\* when the lookup began, and whatever would have been better is gone.
THEOREM AnswersAreBest == Spec => []AnswerIsHonest
<1>1. IInv => AnswerIsBest
  <2> SUFFICES ASSUME IInv, NEW q \in Lookups, Answered(q), lookup[q].at # NoHost
               PROVE  /\ lookup[q].at \in lookup[q].candidates \ lookup[q].gone
                      /\ \A g \in lookup[q].candidates :
                           Ahead(lookup[q].file, g, lookup[q].at) => host[g] = "exited"
    BY DEF AnswerIsBest
  <2>1. Known(lookup[q]) /\ Settled(lookup[q]) /\ lookup[q] \in LookupType
    BY Parts DEF Right
  <2>2. Best(lookup[q].file, lookup[q].at, lookup[q].left) /\ lookup[q].at \notin lookup[q].gone
    BY <2>1 DEF Settled, Answered
  <2>3. stamp \in [Hosts -> Nat]
    BY DEF IInv, TypeOK
  <2>4. \A g \in lookup[q].left : ~Ahead(lookup[q].file, g, lookup[q].at)
    BY <2>1, <2>2, <2>3 DEF Best, Ahead, LookupType
  <2>5. QED
    BY <2>1, <2>2, <2>4 DEF Known, Best
<1>2. IInv => NoneIsHonest
  BY DEF IInv, NoneIsHonest, Answered, Known, Settled
<1>3. IInv => AnswerIsHonest
  BY <1>1, <1>2 DEF AnswerIsHonest
<1>4. QED
  BY <1>3, Inductive, PTL

\* A registered host that runs is never dropped from the registry, by lookups
\* neither (vscodeSocket.ts 122-125, 139).
THEOREM RunningHostsStay == Spec => []RunningStaysListed
  BY Inductive, PTL DEF IInv

============================================================================
