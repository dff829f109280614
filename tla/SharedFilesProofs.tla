------------------------- MODULE SharedFilesProofs -------------------------
(***************************************************************************)
(* Proofs about two files that several actors write.                       *)
(*                                                                         *)
(* Where no two writes overlap and none is cut short, the settings of      *)
(* module Settings are what was last written, but for keys that a write    *)
(* has dropped for want of a read, and one check for updates runs at a     *)
(* time, for any number of requests, releases and kills.                   *)
(*                                                                         *)
(* Processes that start the proxies of module SocketProxy at the same time *)
(* take the path of one that listens only where both had chosen it.        *)
(***************************************************************************)
EXTENDS Settings, SocketProxy, TLAPS

----------------------------------------------------------------------------
(* Settings.                                                               *)

Active == {"cached", "asking", "merging", "emptying", "filling"}
Values == Folders \cup Releases \cup {Unset, Unknown}

\* A page load writes a folder or none, and a check that writes has a release.
ValuesFit ==
  /\ \A t \in Loads : value[t] \in Folders \cup {Unset}
  /\ \A t \in Checks :
       pc[t] \in {"merging", "emptying", "filling"} => value[t] \in Releases

\* As long as no write has begun during another, there is one at most, and the
\* file is empty while it is being filled.
WritesAlone ==
  "overlap" \notin spoilt =>
    /\ \A t, u \in Writing : t = u
    /\ \A t \in Filling : file = Empty

\* What a write is about to store is its own key and, unless it could not read
\* the file, what was last written to the other one, if that is not gone yet.
NothingLost ==
  spoilt = {} => \A t \in Writing :
    /\ next[t][KeyOf(t)] = value[t]
    /\ t \notin misread => \A k \in Keys \ (wiped \cup {KeyOf(t)}) : next[t][k] = saved[k]

SettingsInv ==
  /\ TypeOK /\ ValuesFit
  /\ WritesAlone /\ NothingLost
  /\ SettingsKept /\ NeverGarbled /\ OneRequest

----------------------------------------------------------------------------
LEMMA ParsedType == ASSUME TypeOK PROVE Parsed \in Stored
BY DEF TypeOK, Parsed, Stored, Blank

LEMMA WithType ==
  ASSUME NEW t \in Tasks, NEW s \in Stored, ValuesFit,
         pc[t] \in {"merging", "emptying", "filling"}
  PROVE  With(s, t) \in Stored
<1>1. CASE t \in Loads
  BY <1>1 DEF With, KeyOf, ValuesFit, Stored
<1>2. CASE t \in Checks /\ t \notin Loads
  BY <1>2 DEF With, KeyOf, ValuesFit, Stored
<1> QED BY <1>1, <1>2 DEF Tasks

\* What a request that ends leaves to the others.
LEMMA AnsweredKeeps ==
  ASSUME TypeOK, ValuesFit, OneRequest, NEW t \in Tasks, NEW v \in Values,
         t \in Loads => v \in Folders \cup {Unset},
         pc[t] \notin {"new", "joined", "done", "failed"}, Answered(t, v)
  PROVE  /\ pc' \in [Tasks -> {"new", "cached", "asking", "joined", "merging", "emptying",
                               "filling", "done", "failed"}]
         /\ value' \in [Tasks -> Values] /\ running' \in Checks \cup {Unset}
         /\ ValuesFit' /\ OneRequest'
         /\ \A u \in Tasks : pc'[u] \in Active => u # t /\ pc'[u] = pc[u] /\ value'[u] = value[u]
<1> DEFINE ends == {t} \cup {u \in Checks : pc[u] = "joined" /\ running = t}
<1>1. /\ pc' = [u \in Tasks |-> IF u \in ends THEN "done" ELSE pc[u]]
      /\ value' = [u \in Tasks |-> IF u \in ends THEN v ELSE value[u]]
      /\ running' = IF running = t THEN Unset ELSE running
  BY DEF Answered
<1>2. \A u \in Loads : u \in ends => u = t
  BY SettingsAssumption
<1>3. \A u \in Tasks : pc'[u] \in Active => u \notin ends /\ pc'[u] = pc[u]
  BY <1>1 DEF Active
<1>4. \A u \in Tasks : pc'[u] \in Active => u # t /\ pc'[u] = pc[u] /\ value'[u] = value[u]
  BY <1>1, <1>3
<1>5. /\ pc' \in [Tasks -> {"new", "cached", "asking", "joined", "merging", "emptying",
                            "filling", "done", "failed"}]
      /\ value' \in [Tasks -> Values] /\ running' \in Checks \cup {Unset}
  BY <1>1 DEF TypeOK, Values
<1>6. ValuesFit'
  <2>1. \A u \in Loads : value'[u] \in Folders \cup {Unset}
    BY <1>1, <1>2 DEF ValuesFit, Tasks
  <2>2. \A u \in Checks :
          pc'[u] \in {"merging", "emptying", "filling"} => value'[u] \in Releases
    BY <1>4 DEF ValuesFit, Tasks, Active
  <2> QED BY <2>1, <2>2 DEF ValuesFit
<1>7. OneRequest'
  <2> SUFFICES ASSUME NEW u \in Checks, pc'[u] \in Active PROVE running' = u
    BY DEF OneRequest, Active
  <2>1. u # t /\ pc[u] \in Active
    BY <1>4 DEF Tasks
  <2>2. running = u
    BY <2>1 DEF OneRequest, Active
  <2> QED BY <1>1, <2>1, <2>2
<1> HIDE DEF ends
<1> QED BY <1>4, <1>5, <1>6, <1>7

\* A step that touches neither the file nor a write, and begins none.
LEMMA OffTheFile ==
  ASSUME SettingsInv, TypeOK', ValuesFit', OneRequest',
         UNCHANGED <<file, next, histories>>,
         \A t \in Tasks : pc'[t] \in {"emptying", "filling"} =>
                             pc'[t] = pc[t] /\ value'[t] = value[t],
         \A t \in Tasks : pc[t] = "filling" => pc'[t] = "filling"
  PROVE  SettingsInv'
<1>1. Writing' \subseteq Writing /\ Filling' = Filling
  BY DEF Writing, Filling
<1>2. WritesAlone'
  BY <1>1 DEF SettingsInv, WritesAlone, histories
<1>3. NothingLost'
  <2>1. \A t \in Writing' : t \in Writing /\ value'[t] = value[t]
    BY <1>1 DEF Writing
  <2> QED BY <2>1 DEF SettingsInv, NothingLost, histories
<1>4. SettingsKept'
  BY <1>1 DEF SettingsInv, SettingsKept, Parsed, histories
<1> QED BY <1>2, <1>3, <1>4 DEF SettingsInv, NeverGarbled, histories

----------------------------------------------------------------------------
LEMMA SettingsInitially == ASSUME Init PROVE SettingsInv
<1> USE SettingsAssumption DEF Init
<1>1. TypeOK
  BY DEF TypeOK, Stored, Blank, Releases
<1>2. ValuesFit /\ OneRequest
  BY DEF ValuesFit, OneRequest, Tasks
<1>3. Writing = {} /\ Filling = {}
  BY DEF Writing, Filling
<1> QED
  BY <1>1, <1>2, <1>3, StoredAssumption
  DEF SettingsInv, WritesAlone, NothingLost, SettingsKept, NeverGarbled, Parsed

LEMMA MergeStep == ASSUME SettingsInv, NEW t \in Tasks, Merge(t) PROVE SettingsInv'
<1>1. PICK old \in ReadResults :
        /\ next' = [next EXCEPT ![t] = With(old, t)]
        /\ misread' = IF old = Parsed THEN misread ELSE misread \cup {t}
  BY DEF Merge
<1>2. /\ pc[t] = "merging" /\ pc' = [pc EXCEPT ![t] = "emptying"]
      /\ spoilt' = IF Writing = {} THEN spoilt ELSE spoilt \cup {"overlap"}
      /\ UNCHANGED <<file, value, running, latest, saved, wiped, crashes>>
  BY DEF Merge
<1>3. old \in Stored
  BY ParsedType DEF ReadResults, SettingsInv, Stored, Blank
<1>4. With(old, t) \in Stored
  BY <1>2, <1>3, WithType DEF SettingsInv
<1>5. TypeOK'
  BY <1>1, <1>2, <1>4 DEF SettingsInv, TypeOK
<1>6. ValuesFit' /\ OneRequest'
  BY <1>2 DEF SettingsInv, TypeOK, ValuesFit, OneRequest, Tasks
<1>7. Writing' = Writing \cup {t} /\ Filling' = Filling /\ Filling \subseteq Writing
  BY <1>2 DEF SettingsInv, TypeOK, Writing, Filling
<1>8. WritesAlone'
  BY <1>2, <1>7 DEF SettingsInv, WritesAlone
<1>9. NothingLost'
  <2> SUFFICES ASSUME spoilt' = {}
               PROVE  /\ next'[t][KeyOf(t)] = value[t]
                      /\ t \notin misread' =>
                           \A k \in Keys \ (wiped \cup {KeyOf(t)}) : next'[t][k] = saved[k]
    BY <1>2, <1>7 DEF NothingLost
  <2>1. spoilt = {} /\ Filling = {}
    BY <1>2, <1>7
  <2>2. \A k \in Keys \ wiped : Parsed[k] = saved[k]
    BY <2>1 DEF SettingsInv, SettingsKept
  <2>3. next'[t] = With(old, t) /\ (t \notin misread' => old = Parsed)
    BY <1>1 DEF SettingsInv, TypeOK
  <2>4. /\ With(old, t)[KeyOf(t)] = value[t]
        /\ \A k \in Keys \ {KeyOf(t)} : With(old, t)[k] = old[k]
    BY <1>3 DEF With, KeyOf, Keys, Stored
  <2> QED BY <2>2, <2>3, <2>4
<1>10. SettingsKept' /\ NeverGarbled'
  BY <1>2, <1>7 DEF SettingsInv, SettingsKept, NeverGarbled, Parsed
<1> QED BY <1>5, <1>6, <1>8, <1>9, <1>10 DEF SettingsInv

LEMMA TruncateStep == ASSUME SettingsInv, NEW t \in Tasks, Truncate(t) PROVE SettingsInv'
<1>0. pc[t] = "emptying" /\ UNCHANGED <<next, latest, histories, crashes>>
  BY DEF Truncate
<1>1. CASE Answered(t, value[t]) /\ UNCHANGED file
  <2>1. value[t] \in Values /\ (t \in Loads => value[t] \in Folders \cup {Unset})
    BY DEF SettingsInv, TypeOK, ValuesFit, Values
  <2>2. /\ pc' \in [Tasks -> {"new", "cached", "asking", "joined", "merging", "emptying",
                              "filling", "done", "failed"}]
        /\ value' \in [Tasks -> Values] /\ running' \in Checks \cup {Unset}
        /\ ValuesFit' /\ OneRequest'
        /\ \A u \in Tasks : pc'[u] \in Active => pc'[u] = pc[u] /\ value'[u] = value[u]
    BY <1>0, <1>1, <2>1, AnsweredKeeps DEF SettingsInv
  <2>3. TypeOK'
    BY <1>0, <1>1, <2>2 DEF SettingsInv, TypeOK, Values, histories
  <2>4. \A u \in Tasks : pc[u] = "filling" => pc'[u] = "filling"
    BY <1>0, <1>1 DEF Answered
  <2> QED BY <1>0, <1>1, <2>2, <2>3, <2>4, OffTheFile DEF Active
<1>2. CASE file' = Empty /\ pc' = [pc EXCEPT ![t] = "filling"] /\ UNCHANGED <<value, running>>
  <2>1. TypeOK' /\ ValuesFit' /\ OneRequest'
    BY <1>0, <1>2 DEF SettingsInv, TypeOK, ValuesFit, OneRequest, Tasks, histories
  <2>2. Writing' = Writing /\ t \in Filling'
    BY <1>0, <1>2 DEF SettingsInv, TypeOK, Writing, Filling
  <2>3. WritesAlone'
    BY <1>0, <1>2, <2>2 DEF SettingsInv, WritesAlone, histories
  <2>4. NothingLost'
    BY <1>0, <1>2, <2>2 DEF SettingsInv, NothingLost, histories
  <2>5. SettingsKept' /\ NeverGarbled'
    BY <1>2, <2>2, SettingsAssumption DEF SettingsKept, NeverGarbled
  <2> QED BY <2>1, <2>3, <2>4, <2>5 DEF SettingsInv
<1> QED BY <1>1, <1>2 DEF Truncate

LEMMA FillStep == ASSUME SettingsInv, NEW t \in Tasks, Fill(t) PROVE SettingsInv'
<1>1. /\ pc[t] = "filling" /\ Answered(t, value[t])
      /\ UNCHANGED <<next, latest, misread, crashes>>
  BY DEF Fill
<1>2. value[t] \in Values /\ (t \in Loads => value[t] \in Folders \cup {Unset})
  BY DEF SettingsInv, TypeOK, ValuesFit, Values
<1>3. /\ pc' \in [Tasks -> {"new", "cached", "asking", "joined", "merging", "emptying",
                            "filling", "done", "failed"}]
      /\ value' \in [Tasks -> Values] /\ running' \in Checks \cup {Unset}
      /\ ValuesFit' /\ OneRequest'
      /\ \A u \in Tasks : pc'[u] \in Active => u # t /\ pc'[u] = pc[u] /\ value'[u] = value[u]
  BY <1>1, <1>2, AnsweredKeeps DEF SettingsInv
<1>4. With(saved, t) \in Stored
  BY <1>1, WithType DEF SettingsInv, TypeOK
<1>5. /\ file' \in Stored \cup {Empty, Corrupt} /\ saved' \in Stored /\ wiped' \subseteq Keys
      /\ spoilt' \subseteq {"overlap", "fault"} /\ spoilt \subseteq spoilt'
  <2>1. /\ next[t] \in Stored /\ file \in Stored \cup {Empty, Corrupt} /\ saved \in Stored
        /\ wiped \subseteq Keys /\ spoilt \subseteq {"overlap", "fault"}
    BY DEF SettingsInv, TypeOK
  <2> QED BY <1>4, <2>1 DEF Fill
<1>6. TypeOK'
  BY <1>1, <1>3, <1>5 DEF SettingsInv, TypeOK, Values
<1>7. Writing' \subseteq Writing \ {t} /\ Filling' \subseteq Writing' /\ t \in Writing
      /\ t \in Filling
  BY <1>1, <1>3 DEF Writing, Filling, Active
<1>8. ASSUME "overlap" \notin spoilt' PROVE Writing' = {} /\ Filling' = {} /\ file = Empty
  BY <1>5, <1>7, <1>8 DEF SettingsInv, WritesAlone
<1>9. WritesAlone' /\ NothingLost'
  BY <1>8 DEF WritesAlone, NothingLost
<1>10. NeverGarbled'
  <2> SUFFICES ASSUME "overlap" \notin spoilt' PROVE file' # Corrupt
    BY DEF NeverGarbled
  <2>1. file' = next[t] \/ file' = file
    BY <1>8 DEF Fill
  <2>2. next[t] # Corrupt
    BY StoredAssumption DEF SettingsInv, TypeOK
  <2> QED BY <1>8, <2>1, <2>2, SettingsAssumption
<1>11. SettingsKept'
  <2> SUFFICES ASSUME spoilt' = {}, NEW k \in Keys \ wiped' PROVE Parsed'[k] = saved'[k]
    BY DEF SettingsKept
  <2>1. spoilt = {} /\ file = Empty
    BY <1>5, <1>8
  <2>2. /\ file' = next[t] /\ saved' = With(saved, t)
        /\ wiped' = (IF t \in misread THEN Keys ELSE wiped) \ {KeyOf(t)}
    BY <2>1 DEF Fill
  <2>3. Parsed' = next[t]
    BY <2>2, StoredAssumption DEF Parsed, SettingsInv, TypeOK
  <2>4. /\ saved'[KeyOf(t)] = value[t]
        /\ k # KeyOf(t) => saved'[k] = saved[k]
    BY <2>2 DEF With, KeyOf, Keys, Stored, SettingsInv, TypeOK
  <2>5. /\ next[t][KeyOf(t)] = value[t]
        /\ t \notin misread /\ k \notin wiped \cup {KeyOf(t)} => next[t][k] = saved[k]
    BY <1>7, <2>1 DEF SettingsInv, NothingLost
  <2> QED BY <2>2, <2>3, <2>4, <2>5
<1> QED BY <1>3, <1>6, <1>9, <1>10, <1>11 DEF SettingsInv

LEMMA LoadStep ==
  ASSUME SettingsInv, NEW t \in Loads,
         LoadLast(t) \/ \E f \in Folders \cup {Unset} : LoadFolder(t, f)
  PROVE  SettingsInv'
<1>1. /\ pc[t] = "new" /\ t \in Tasks /\ t \notin Checks
      /\ \E q \in {"merging", "done"} : pc' = [pc EXCEPT ![t] = q]
      /\ \/ value' = value
         \/ \E f \in Folders \cup {Unset} : value' = [value EXCEPT ![t] = f]
      /\ UNCHANGED <<file, next, running, latest, histories, crashes>>
  BY SettingsAssumption DEF LoadLast, LoadFolder, Tasks
<1>2. TypeOK'
  BY <1>1 DEF SettingsInv, TypeOK, histories
<1>3. ValuesFit' /\ OneRequest'
  BY <1>1 DEF SettingsInv, TypeOK, ValuesFit, OneRequest, Tasks
<1>4. \A u \in Tasks : pc'[u] \in {"emptying", "filling"} =>
        pc'[u] = pc[u] /\ value'[u] = value[u]
  BY <1>1 DEF SettingsInv, TypeOK
<1>5. \A u \in Tasks : pc[u] = "filling" => pc'[u] = "filling"
  BY <1>1 DEF SettingsInv, TypeOK
<1> QED BY <1>1, <1>2, <1>3, <1>4, <1>5, OffTheFile

LEMMA GetUpdateStep ==
  ASSUME SettingsInv, NEW t \in Checks, NEW force \in BOOLEAN, GetUpdate(t, force)
  PROVE  SettingsInv'
<1>1. /\ pc[t] = "new" /\ t \in Tasks /\ t # Unset
      /\ \/ /\ running = Unset /\ running' = t
            /\ \E q \in {"asking", "cached"} : pc' = [pc EXCEPT ![t] = q]
         \/ running' = running /\ pc' = [pc EXCEPT ![t] = "joined"]
      /\ UNCHANGED <<file, value, next, latest, histories, crashes>>
  BY SettingsAssumption DEF GetUpdate, Tasks
<1>2. TypeOK' /\ ValuesFit'
  BY <1>1 DEF SettingsInv, TypeOK, ValuesFit, Tasks, histories
<1>3. OneRequest'
  <2> SUFFICES ASSUME NEW u \in Checks, pc'[u] \in Active PROVE running' = u
    BY DEF OneRequest, Active
  <2>1. CASE u = t
    BY <1>1, <2>1 DEF SettingsInv, TypeOK, Active
  <2>2. CASE u # t
    <3>1. pc[u] = pc'[u] /\ u # Unset
      BY <1>1, <2>2, SettingsAssumption DEF SettingsInv, TypeOK, Tasks
    <3>2. running = u
      BY <3>1 DEF SettingsInv, OneRequest, Active
    <3> QED BY <1>1, <3>1, <3>2
  <2> QED BY <2>1, <2>2
<1>4. \A u \in Tasks : pc'[u] \in {"emptying", "filling"} => pc'[u] = pc[u]
  BY <1>1 DEF SettingsInv, TypeOK
<1>5. \A u \in Tasks : pc[u] = "filling" => pc'[u] = "filling"
  BY <1>1 DEF SettingsInv, TypeOK
<1> QED BY <1>1, <1>2, <1>3, <1>4, <1>5, OffTheFile

\* A check that ends before it has anything to store.
LEMMA CheckEnds ==
  ASSUME SettingsInv, NEW t \in Checks, pc[t] \in {"cached", "asking"}, NEW v \in Values,
         Answered(t, v), UNCHANGED <<file, next, latest, histories, crashes>>
  PROVE  SettingsInv'
<1>1. t \in Tasks /\ t \notin Loads
  BY SettingsAssumption DEF Tasks
<1>2. /\ pc' \in [Tasks -> {"new", "cached", "asking", "joined", "merging", "emptying",
                            "filling", "done", "failed"}]
      /\ value' \in [Tasks -> Values] /\ running' \in Checks \cup {Unset}
      /\ ValuesFit' /\ OneRequest'
      /\ \A u \in Tasks : pc'[u] \in Active => pc'[u] = pc[u] /\ value'[u] = value[u]
  BY <1>1, AnsweredKeeps DEF SettingsInv
<1>3. TypeOK'
  BY <1>2 DEF SettingsInv, TypeOK, Values, histories
<1>4. \A u \in Tasks : pc[u] = "filling" => pc'[u] = "filling"
  BY DEF Answered
<1> QED BY <1>2, <1>3, <1>4, OffTheFile DEF Active

\* A check that goes on without touching the file.
LEMMA CheckGoesOn ==
  ASSUME SettingsInv, NEW t \in Checks, pc[t] \in {"cached", "asking"},
         \/ pc' = [pc EXCEPT ![t] = "asking"] /\ value' = value
         \/ /\ pc' = [pc EXCEPT ![t] = "merging"]
            /\ value' = [value EXCEPT ![t] = latest],
         UNCHANGED <<running, file, next, latest, histories, crashes>>
  PROVE  SettingsInv'
<1>1. t \in Tasks /\ t \notin Loads
  BY SettingsAssumption DEF Tasks
<1>2. TypeOK' /\ ValuesFit' /\ OneRequest'
  BY <1>1 DEF SettingsInv, TypeOK, ValuesFit, OneRequest, Tasks, histories
<1>3. \A u \in Tasks : pc'[u] \in {"emptying", "filling"} =>
        pc'[u] = pc[u] /\ value'[u] = value[u]
  BY <1>1 DEF SettingsInv, TypeOK
<1>4. \A u \in Tasks : pc[u] = "filling" => pc'[u] = "filling"
  BY <1>1 DEF SettingsInv, TypeOK
<1> QED BY <1>2, <1>3, <1>4, OffTheFile

LEMMA CachedStep == ASSUME SettingsInv, NEW t \in Checks, Cached(t) PROVE SettingsInv'
<1>1. pc[t] = "cached" /\ UNCHANGED <<file, next, latest, histories, crashes>>
  BY DEF Cached
<1>2. CASE Answered(t, Parsed.update)
  <2>1. Parsed.update \in Values
    BY ParsedType DEF SettingsInv, Stored, Values
  <2> QED BY <1>1, <1>2, <2>1, CheckEnds
<1>3. CASE pc' = [pc EXCEPT ![t] = "asking"] /\ UNCHANGED <<value, running>>
  BY <1>1, <1>3, CheckGoesOn
<1> QED BY <1>2, <1>3 DEF Cached

LEMMA AskStep == ASSUME SettingsInv, NEW t \in Checks, Ask(t) PROVE SettingsInv'
<1>1. pc[t] = "asking" /\ UNCHANGED <<file, next, latest, histories, crashes>>
  BY DEF Ask
<1>2. CASE Answered(t, Unknown)
  BY <1>1, <1>2, CheckEnds DEF Values
<1>3. CASE /\ value' = [value EXCEPT ![t] = latest]
           /\ pc' = [pc EXCEPT ![t] = "merging"] /\ UNCHANGED running
  BY <1>1, <1>3, CheckGoesOn
<1> QED BY <1>2, <1>3 DEF Ask

LEMMA PublishStep == ASSUME SettingsInv, Publish PROVE SettingsInv'
<1>1. TypeOK' /\ ValuesFit' /\ OneRequest'
  BY SettingsAssumption
  DEF Publish, SettingsInv, TypeOK, ValuesFit, OneRequest, Releases, histories
<1> QED BY <1>1, OffTheFile DEF Publish

LEMMA CrashStep == ASSUME SettingsInv, Crash PROVE SettingsInv'
<1>1. /\ crashes < MaxCrashes /\ crashes' = crashes + 1
      /\ spoilt' = IF \E t \in Tasks : pc[t] = "filling" THEN spoilt \cup {"fault"} ELSE spoilt
      /\ pc' = [t \in Tasks |-> IF pc[t] \in {"new", "done"} THEN pc[t] ELSE "failed"]
      /\ running' = Unset
      /\ UNCHANGED <<file, value, next, latest, saved, misread, wiped>>
  BY DEF Crash
<1>2. TypeOK'
  BY <1>1, SettingsAssumption DEF SettingsInv, TypeOK
<1>3. \A t \in Tasks : pc'[t] \in {"new", "done", "failed"}
  BY <1>1
<1>4. ValuesFit' /\ OneRequest'
  BY <1>1, <1>3 DEF SettingsInv, ValuesFit, OneRequest, Tasks
<1>5. Writing' = {} /\ Filling' = {}
  BY <1>3 DEF Writing, Filling
<1>6. WritesAlone' /\ NothingLost'
  BY <1>5 DEF WritesAlone, NothingLost
<1>7. NeverGarbled'
  BY <1>1 DEF SettingsInv, NeverGarbled
<1>8. SettingsKept'
  <2> SUFFICES ASSUME spoilt' = {} PROVE \A k \in Keys \ wiped : Parsed'[k] = saved[k]
    BY <1>1 DEF SettingsKept
  <2>1. spoilt = {} /\ Filling = {}
    BY <1>1 DEF Filling
  <2> QED BY <1>1, <2>1 DEF SettingsInv, SettingsKept, Parsed
<1> QED BY <1>2, <1>4, <1>6, <1>7, <1>8 DEF SettingsInv

LEMMA SettingsNextInv == ASSUME SettingsInv, [Next]_vars PROVE SettingsInv'
<1>1. CASE \E t \in Loads : LoadLast(t) \/ \E f \in Folders \cup {Unset} : LoadFolder(t, f)
  BY <1>1, LoadStep
<1>2. ASSUME NEW t \in Checks, Cached(t) \/ Ask(t) \/ \E force \in BOOLEAN : GetUpdate(t, force)
      PROVE  SettingsInv'
  BY <1>2, CachedStep, AskStep, GetUpdateStep
<1>3. ASSUME NEW t \in Tasks, WriteStep(t) PROVE SettingsInv'
  BY <1>3, MergeStep, TruncateStep, FillStep DEF WriteStep
<1>4. CASE Publish
  BY <1>4, PublishStep
<1>5. CASE Crash
  BY <1>5, CrashStep
<1>6. CASE UNCHANGED vars
  <2>1. TypeOK' /\ ValuesFit' /\ OneRequest'
    BY <1>6 DEF vars, SettingsInv, TypeOK, ValuesFit, OneRequest, histories
  <2> QED BY <1>6, <2>1, OffTheFile DEF vars
<1> QED BY <1>1, <1>2, <1>3, <1>4, <1>5, <1>6 DEF Next

LEMMA SettingsInvariance == Spec => []SettingsInv
BY SettingsInitially, SettingsNextInv, PTL DEF Spec

----------------------------------------------------------------------------
\* Every variable keeps to its values; in particular, what is written is
\* always settings and never the "unknown" of a failed check
\* (settings.ts 33-41).
THEOREM SettingsTyped == Spec => []TypeOK
<1>1. SettingsInv => TypeOK
  BY DEF SettingsInv
<1> QED BY <1>1, SettingsInvariance, PTL

\* Settings are lost or garbled only where writes overlap, one fails or is
\* killed between emptying the file and filling it, or one could not read the
\* file, and then only the keys that it does not write (settings.ts 17-41).
THEOREM Survival == Spec => []SettingsSurvive
<1>1. SettingsInv => SettingsSurvive
  BY DEF SettingsInv, SettingsSurvive
<1> QED BY <1>1, SettingsInvariance, PTL

\* One check at a time asks for the latest release, however many come, fail
\* or are killed (update.ts 41-49).
THEOREM OneAtATime == Spec => []OneRequest
<1>1. SettingsInv => OneRequest
  BY DEF SettingsInv
<1> QED BY <1>1, SettingsInvariance, PTL

----------------------------------------------------------------------------
(* SocketProxy.                                                            *)

\* Only a server that listens answers, and only on its own path.
FilesLive ==
  \A i \in Paths, p \in Procs : server[i] = p => start[p] = "ready" /\ pipe[p] = i

\* Two processes use one path only if it is known of both.
SharedIsContested ==
  \A p, q \in Procs : p # q /\ Using(p) /\ Using(q) /\ pipe[p] = pipe[q] => p \in contested

\* What a process has cleared for itself stays so until it binds it.
ClearedIsFree ==
  \A p \in Procs \ contested : start[p] = "binding" => server[pipe[p]] = Free

ProxyInv ==
  ProxyTypeOK /\ FilesLive /\ SharedIsContested /\ ClearedIsFree /\ ReadyIsReachable

----------------------------------------------------------------------------
LEMMA ProxyInitially == ASSUME ProxyInit PROVE ProxyInv
<1> USE ProxyAssumption DEF ProxyInit
<1>1. ProxyTypeOK
  BY DEF ProxyTypeOK, Paths
<1>2. FilesLive /\ SharedIsContested
  BY DEF FilesLive, SharedIsContested, Using
<1>3. ClearedIsFree /\ ReadyIsReachable
  BY DEF ClearedIsFree, ReadyIsReachable
<1> QED BY <1>1, <1>2, <1>3 DEF ProxyInv

\* A step of the websockets, which leaves the servers as they are.
LEMMA SocketsOnly ==
  ASSUME ProxyInv, UNCHANGED <<start, stopped, pipe, server, contested>>, ProxyTypeOK'
  PROVE  ProxyInv'
BY DEF ProxyInv, FilesLive, SharedIsContested, Using, ClearedIsFree, ReadyIsReachable

\* A process that goes on with its path, or gives it up, makes no new user.
LEMMA NoNewUser ==
  ASSUME ProxyInv, \A q \in Procs : Using(q)' => Using(q) /\ pipe'[q] = pipe[q],
         contested' = contested
  PROVE  SharedIsContested'
<1> SUFFICES ASSUME NEW p \in Procs, NEW q \in Procs, p # q, Using(p)', Using(q)',
                    pipe'[p] = pipe'[q]
             PROVE  p \in contested
  BY DEF SharedIsContested
<1> HIDE DEF Using
<1> QED BY DEF ProxyInv, SharedIsContested

LEMMA CreateStep == ASSUME ProxyInv, NEW s \in Sockets, Create(s) PROVE ProxyInv'
<1> DEFINE p == Owner[s]
<1>1. /\ p \in Procs /\ UNCHANGED <<stopped, pipe, server, peer, closed, contested>>
      /\ proxy' = [proxy EXCEPT ![s] = "waiting"]
  BY ProxyAssumption DEF Create
<1>2. CASE UNCHANGED start
  <2>1. ProxyTypeOK'
    BY <1>1, <1>2 DEF ProxyInv, ProxyTypeOK
  <2> QED BY <1>1, <1>2, <2>1, SocketsOnly
<1>3. CASE start[p] = "none" /\ start' = [start EXCEPT ![p] = "probing"]
  <2> HIDE DEF p
  <2>1. ProxyTypeOK'
    BY <1>1, <1>3 DEF ProxyInv, ProxyTypeOK, Pending
  <2>2. start'[p] = "probing" /\ \A q \in Procs : q # p => start'[q] = start[q]
    BY <1>1, <1>3 DEF ProxyInv, ProxyTypeOK
  <2>3. SharedIsContested'
    BY <1>1, <1>3, <2>2, NoNewUser DEF Using
  <2>4. FilesLive' /\ ClearedIsFree' /\ ReadyIsReachable'
    BY <1>1, <1>3, <2>2 DEF ProxyInv, FilesLive, ClearedIsFree, ReadyIsReachable
  <2> QED BY <2>1, <2>3, <2>4 DEF ProxyInv
<1> QED BY <1>2, <1>3 DEF Create

\* Whoever uses the path that is chosen is a contender, for a server that
\* answers on it is passed over, unless there is no other path.
LEMMA ChooseKeepsShared ==
  ASSUME ProxyInv, NEW p \in Procs, start[p] = "probing", Choose(p),
         UNCHANGED <<stopped, pipe, server>>,
         server[pipe[p]] \notin Nobody => pipe[p] = MaxTries
  PROVE  SharedIsContested'
<1>1. /\ start'[p] = "removing" /\ \A q \in Procs : q # p => start'[q] = start[q]
      /\ contested \cup Contenders(p) \subseteq contested'
      /\ Contenders(p) # {} => p \in contested'
  BY DEF Choose, ProxyInv, ProxyTypeOK
<1>2. ASSUME NEW q \in Procs, q # p, Using(q), pipe[q] = pipe[p] PROVE q \in Contenders(p)
  <2>1. server[pipe[p]] # q \/ pipe[p] = MaxTries
    BY ProxyAssumption DEF Nobody
  <2> QED BY <1>2, <2>1 DEF Contenders
<1>3. \A q \in Procs : q # p /\ Using(q)' => Using(q)
  BY <1>1 DEF Using
<1> SUFFICES ASSUME NEW q \in Procs, NEW r \in Procs, q # r, Using(q)', Using(r)',
                    pipe[q] = pipe[r]
             PROVE  q \in contested'
  BY DEF SharedIsContested
<1>4. CASE q = p
  <2>1. r \in Contenders(p)
    BY <1>2, <1>3, <1>4
  <2> QED BY <1>1, <1>4, <2>1
<1>5. CASE r = p
  <2>1. q \in Contenders(p)
    BY <1>2, <1>3, <1>5
  <2> QED BY <1>1, <2>1
<1>6. CASE q # p /\ r # p
  <2>1. q \in contested
    BY <1>3, <1>6 DEF ProxyInv, SharedIsContested
  <2> QED BY <1>1, <2>1
<1> QED BY <1>4, <1>5, <1>6

LEMMA ProbeStep == ASSUME ProxyInv, NEW p \in Procs, Probe(p) PROVE ProxyInv'
<1>1. start[p] = "probing" /\ UNCHANGED <<stopped, server, proxy, peer, closed>>
  BY DEF Probe
<1>2. CASE /\ server[pipe[p]] \notin Nobody /\ pipe[p] < MaxTries
           /\ pipe' = [pipe EXCEPT ![p] = @ + 1] /\ UNCHANGED <<start, contested>>
  <2>1. ProxyTypeOK'
    BY <1>1, <1>2, ProxyAssumption DEF ProxyInv, ProxyTypeOK, Paths
  <2>2. \A q \in Procs : q # p => pipe'[q] = pipe[q]
    BY <1>2 DEF ProxyInv, ProxyTypeOK
  <2>3. SharedIsContested'
    BY <1>1, <1>2, <2>2, NoNewUser DEF Using
  <2>4. FilesLive' /\ ClearedIsFree' /\ ReadyIsReachable'
    BY <1>1, <1>2, <2>2 DEF ProxyInv, FilesLive, ClearedIsFree, ReadyIsReachable
  <2> QED BY <2>1, <2>3, <2>4 DEF ProxyInv
<1>3. CASE /\ ~(server[pipe[p]] \notin Nobody /\ pipe[p] < MaxTries)
           /\ Choose(p) /\ UNCHANGED pipe
  <2>1. /\ start' = [start EXCEPT ![p] = "removing"]
        /\ contested' \subseteq Procs /\ contested \subseteq contested'
    BY <1>3 DEF Choose, Contenders, ProxyInv, ProxyTypeOK
  <2>2. ProxyTypeOK'
    BY <1>1, <1>3, <2>1 DEF ProxyInv, ProxyTypeOK, Pending
  <2>3. start'[p] = "removing" /\ \A q \in Procs : q # p => start'[q] = start[q]
    BY <2>1 DEF ProxyInv, ProxyTypeOK
  <2>4. server[pipe[p]] \notin Nobody => pipe[p] = MaxTries
    BY <1>3, ProxyAssumption DEF ProxyInv, ProxyTypeOK, Paths
  <2>5. SharedIsContested'
    BY <1>1, <1>3, <2>4, ChooseKeepsShared
  <2>6. FilesLive' /\ ClearedIsFree' /\ ReadyIsReachable'
    BY <1>1, <1>3, <2>1, <2>3 DEF ProxyInv, FilesLive, ClearedIsFree, ReadyIsReachable
  <2> QED BY <2>2, <2>5, <2>6 DEF ProxyInv
<1> QED BY <1>2, <1>3 DEF Probe

\* Clearing or binding a path disturbs those who use it, who are contested.
LEMMA PathStep ==
  ASSUME ProxyInv, NEW p \in Procs, Using(p), NEW v \in {"binding", "failed", "ready", "stuck"},
         start' = [start EXCEPT ![p] = v],
         UNCHANGED <<stopped, pipe, proxy, peer, closed, contested>>,
         server' \in [Paths -> Procs \cup Nobody],
         \A i \in Paths : i # pipe[p] => server'[i] = server[i],
         \A q \in Procs : server'[pipe[p]] = q =>
           (q = p /\ v = "ready") \/ (q # p /\ server[pipe[p]] = q),
         p \notin contested =>
           /\ v = "binding" => server'[pipe[p]] = Free
           /\ v = "ready" /\ p \notin stopped => server'[pipe[p]] = p
           /\ v # "stuck"
  PROVE  ProxyInv'
<1>1. start'[p] = v /\ \A q \in Procs : q # p => start'[q] = start[q]
  BY DEF ProxyInv, ProxyTypeOK
<1>2. ProxyTypeOK'
  BY DEF ProxyInv, ProxyTypeOK, Pending, Nobody
<1>3. SharedIsContested'
  <2>1. \A q \in Procs : Using(q)' => Using(q)
    BY <1>1 DEF Using
  <2> HIDE DEF Using
  <2> QED BY <2>1, NoNewUser
<1>4. FilesLive'
  <2> SUFFICES ASSUME NEW i \in Paths, NEW q \in Procs, server'[i] = q
               PROVE  start'[q] = "ready" /\ pipe[q] = i
    BY DEF FilesLive
  <2>1. CASE q = p
    <3>1. ASSUME i # pipe[p] PROVE FALSE
      BY <2>1, <3>1 DEF ProxyInv, FilesLive
    <3> QED BY <1>1, <2>1, <3>1
  <2>2. CASE q # p
    <3>1. server[i] = q
      BY <2>2
    <3> QED BY <1>1, <2>2, <3>1 DEF ProxyInv, FilesLive
  <2> QED BY <2>1, <2>2
<1>5. ASSUME NEW q \in Procs \ contested, q # p, Using(q) PROVE pipe[q] # pipe[p]
  BY <1>5 DEF ProxyInv, SharedIsContested
<1>6. ClearedIsFree'
  <2> SUFFICES ASSUME NEW q \in Procs \ contested, start'[q] = "binding"
               PROVE  server'[pipe[q]] = Free
    BY DEF ClearedIsFree
  <2>1. CASE q = p
    BY <1>1, <2>1
  <2>2. CASE q # p
    <3>1. pipe[q] # pipe[p] /\ pipe[q] \in Paths
      BY <1>1, <1>5, <2>2 DEF Using, ProxyInv, ProxyTypeOK
    <3> QED BY <1>1, <2>2, <3>1 DEF ProxyInv, ClearedIsFree
  <2> QED BY <2>1, <2>2
<1>7. ReadyIsReachable'
  <2> SUFFICES ASSUME NEW q \in Procs \ contested
               PROVE  /\ start'[q] = "ready" /\ q \notin stopped => server'[pipe[q]] = q
                      /\ start'[q] # "stuck"
    BY DEF ReadyIsReachable
  <2>1. CASE q = p
    BY <1>1, <2>1
  <2>2. CASE q # p
    <3>1. ASSUME start[q] = "ready", q \notin stopped PROVE server'[pipe[q]] = q
      <4>1. pipe[q] # pipe[p] /\ pipe[q] \in Paths
        BY <1>5, <2>2, <3>1 DEF Using, ProxyInv, ProxyTypeOK
      <4> QED BY <3>1, <4>1 DEF ProxyInv, ReadyIsReachable
    <3> QED BY <1>1, <2>2, <3>1 DEF ProxyInv, ReadyIsReachable
  <2> QED BY <2>1, <2>2
<1> QED BY <1>2, <1>3, <1>4, <1>6, <1>7 DEF ProxyInv

LEMMA RemoveStep == ASSUME ProxyInv, NEW p \in Procs, Remove(p) PROVE ProxyInv'
<1>1. /\ start[p] = "removing" /\ Using(p)
      /\ UNCHANGED <<stopped, pipe, proxy, peer, closed, contested>>
      /\ pipe[p] \in Paths /\ server \in [Paths -> Procs \cup Nobody]
      /\ server' = server \/ server' = [server EXCEPT ![pipe[p]] = Free]
  BY DEF Remove, Using, ProxyInv, ProxyTypeOK, Nobody
<1>2. /\ server' \in [Paths -> Procs \cup Nobody]
      /\ \A i \in Paths : i # pipe[p] => server'[i] = server[i]
  BY <1>1 DEF Nobody
<1>3. \A q \in Procs : server'[pipe[p]] = q => q # p /\ server[pipe[p]] = q
  BY <1>1, ProxyAssumption DEF ProxyInv, FilesLive
<1>4. CASE /\ start' = [start EXCEPT ![p] = "binding"]
           /\ server' = [server EXCEPT ![pipe[p]] = Free]
  <2>1. server'[pipe[p]] = Free
    BY <1>1, <1>4
  <2> QED BY <1>1, <1>2, <1>3, <1>4, <2>1, PathStep
<1>5. CASE start' = [start EXCEPT ![p] = "failed"]
  <2>1. /\ "failed" \in {"binding", "failed", "ready", "stuck"}
        /\ "failed" # "binding" /\ "failed" # "ready" /\ "failed" # "stuck"
    OBVIOUS
  <2>2. \A q \in Procs : server'[pipe[p]] = q =>
          (q = p /\ "failed" = "ready") \/ (q # p /\ server[pipe[p]] = q)
    BY <1>3
  <2> QED BY <1>1, <1>2, <1>5, <2>1, <2>2, PathStep
<1> QED BY <1>4, <1>5 DEF Remove

LEMMA BindStep == ASSUME ProxyInv, NEW p \in Procs, Bind(p) PROVE ProxyInv'
<1>1. /\ start[p] = "binding" /\ UNCHANGED <<stopped, pipe, proxy, peer, closed, contested>>
      /\ pipe[p] \in Paths /\ server \in [Paths -> Procs \cup Nobody]
  BY DEF Bind, ProxyInv, ProxyTypeOK, Nobody
<1>2. Using(p)
  BY <1>1 DEF Using
<1>3. CASE /\ server[pipe[p]] # Free
           /\ start' = [start EXCEPT ![p] = "stuck"] /\ UNCHANGED server
  <2>1. p \in contested
    BY <1>1, <1>3 DEF ProxyInv, ClearedIsFree
  <2>2. \A q \in Procs : server'[pipe[p]] = q => q # p /\ server[pipe[p]] = q
    BY <1>1, <1>3 DEF ProxyInv, FilesLive
  <2> QED BY <1>1, <1>2, <1>3, <2>1, <2>2, PathStep
<1>4. CASE /\ server[pipe[p]] = Free /\ start' = [start EXCEPT ![p] = "ready"]
           /\ server' = [server EXCEPT ![pipe[p]] = IF p \in stopped THEN Free ELSE p]
  <2>1. /\ \A i \in Paths : i # pipe[p] => server'[i] = server[i]
        /\ server'[pipe[p]] = IF p \in stopped THEN Free ELSE p
        /\ server' \in [Paths -> Procs \cup Nobody]
    BY <1>1, <1>4 DEF Nobody
  <2>2. \A q \in Procs : server'[pipe[p]] = q => q = p
    BY <2>1, ProxyAssumption
  <2> QED BY <1>1, <1>2, <1>4, <2>1, <2>2, PathStep
<1> QED BY <1>3, <1>4 DEF Bind

LEMMA StopStep == ASSUME ProxyInv, NEW p \in Procs, Stop(p) PROVE ProxyInv'
<1>1. /\ p \notin stopped /\ stopped' = stopped \cup {p}
      /\ server' = IF start[p] = "ready" THEN [server EXCEPT ![pipe[p]] = Free] ELSE server
      /\ UNCHANGED <<start, pipe, proxy, peer, closed, contested>>
  BY DEF Stop
<1>2. ProxyTypeOK'
  BY <1>1 DEF ProxyInv, ProxyTypeOK
<1>3. SharedIsContested'
  BY <1>1, NoNewUser DEF Using
<1>4. /\ \A i \in Paths : server'[i] = server[i] \/ server'[i] = Free
      /\ \A i \in Paths : server'[i] # server[i] => Using(p) /\ i = pipe[p]
  BY <1>1 DEF ProxyInv, ProxyTypeOK, Using
<1>5. FilesLive'
  BY <1>1, <1>4, ProxyAssumption DEF ProxyInv, FilesLive
<1>6. ClearedIsFree'
  BY <1>1, <1>4 DEF ProxyInv, ProxyTypeOK, ClearedIsFree
<1>7. ReadyIsReachable'
  <2> SUFFICES ASSUME NEW q \in Procs \ contested
               PROVE  /\ start[q] = "ready" /\ q \notin stopped' => server'[pipe[q]] = q
                      /\ start[q] # "stuck"
    BY <1>1 DEF ReadyIsReachable
  <2>1. ASSUME start[q] = "ready", q \notin stopped' PROVE server'[pipe[q]] = q
    <3>1. q # p /\ Using(q) /\ pipe[q] \in Paths /\ server[pipe[q]] = q
      BY <1>1, <2>1 DEF Using, ProxyInv, ProxyTypeOK, ReadyIsReachable
    <3>2. ~(Using(p) /\ pipe[q] = pipe[p])
      BY <3>1 DEF ProxyInv, SharedIsContested
    <3> QED BY <1>4, <3>1, <3>2
  <2> QED BY <2>1 DEF ProxyInv, ReadyIsReachable
<1> QED BY <1>2, <1>3, <1>5, <1>6, <1>7 DEF ProxyInv

LEMMA KillStep == ASSUME ProxyInv, NEW p \in Procs, Kill(p) PROVE ProxyInv'
<1>1. /\ start' = [start EXCEPT ![p] = "dead"]
      /\ server' = [i \in Paths |-> IF server[i] = p THEN Stale ELSE server[i]]
      /\ proxy' = [s \in Sockets |-> IF Owner[s] = p THEN "gone" ELSE proxy[s]]
      /\ UNCHANGED <<stopped, pipe, peer, closed, contested>>
  BY DEF Kill
<1>2. ProxyTypeOK'
  BY <1>1 DEF ProxyInv, ProxyTypeOK
<1>3. start'[p] = "dead" /\ \A q \in Procs : q # p => start'[q] = start[q]
  BY <1>1 DEF ProxyInv, ProxyTypeOK
<1>4. SharedIsContested'
  BY <1>1, <1>3, NoNewUser DEF Using
<1>5. FilesLive'
  BY <1>1, <1>3, ProxyAssumption DEF ProxyInv, FilesLive
<1>6. ClearedIsFree' /\ ReadyIsReachable'
  BY <1>1, <1>3, ProxyAssumption
  DEF ProxyInv, ProxyTypeOK, ClearedIsFree, ReadyIsReachable
<1> QED BY <1>2, <1>4, <1>5, <1>6 DEF ProxyInv

LEMMA SocketStep ==
  ASSUME ProxyInv, NEW s \in Sockets, Create(s) \/ Close(s) \/ ProxyStep(s)
  PROVE  ProxyInv'
<1>1. CASE Create(s)
  BY <1>1, CreateStep
<1>2. CASE Connect(s)
  <2>1. server[pipe[Owner[s]]] \in Procs \cup {Free, Stale}
    BY ProxyAssumption DEF ProxyInv, ProxyTypeOK
  <2>2. ProxyTypeOK'
    BY <1>2, <2>1 DEF Connect, ProxyInv, ProxyTypeOK
  <2> QED BY <1>2, <2>2, SocketsOnly DEF Connect
<1>3. CASE Reject(s)
  <2>1. ProxyTypeOK'
    BY <1>3 DEF Reject, ProxyInv, ProxyTypeOK
  <2> QED BY <1>3, <2>1, SocketsOnly DEF Reject
<1>4. CASE Close(s)
  <2>1. ProxyTypeOK'
    BY <1>4 DEF Close, ProxyInv, ProxyTypeOK
  <2> QED BY <1>4, <2>1, SocketsOnly DEF Close
<1>5. CASE Pair(s)
  <2>1. ProxyTypeOK'
    BY <1>5 DEF Pair, ProxyInv, ProxyTypeOK
  <2> QED BY <1>5, <2>1, SocketsOnly DEF Pair
<1>6. CASE TimeOut(s)
  <2>1. ProxyTypeOK'
    BY <1>6 DEF TimeOut, ProxyInv, ProxyTypeOK
  <2> QED BY <1>6, <2>1, SocketsOnly DEF TimeOut
<1> QED BY <1>1, <1>2, <1>3, <1>4, <1>5, <1>6 DEF ProxyStep

LEMMA ProxyNextInv == ASSUME ProxyInv, [ProxyNext]_proxyVars PROVE ProxyInv'
<1>1. ASSUME NEW p \in Procs, StartStep(p) PROVE ProxyInv'
  BY <1>1, ProbeStep, RemoveStep, BindStep DEF StartStep
<1>2. ASSUME NEW p \in Procs, Stop(p) \/ Kill(p) PROVE ProxyInv'
  BY <1>2, StopStep, KillStep
<1>3. ASSUME NEW s \in Sockets, Create(s) \/ Close(s) \/ ProxyStep(s) PROVE ProxyInv'
  BY <1>3, SocketStep
<1>4. CASE UNCHANGED proxyVars
  <2>1. ProxyTypeOK'
    BY <1>4 DEF proxyVars, ProxyInv, ProxyTypeOK
  <2> QED BY <1>4, <2>1, SocketsOnly DEF proxyVars
<1> QED BY <1>1, <1>2, <1>3, <1>4 DEF ProxyNext

LEMMA ProxyInvariance == ProxySpec => []ProxyInv
BY ProxyInitially, ProxyNextInv, PTL DEF ProxySpec

----------------------------------------------------------------------------
\* Every variable keeps to its values, however many processes start at the
\* same time: the search for a free path stops with the last one
\* (socket.ts 98-105).
THEOREM ProxyTyped == ProxySpec => []ProxyTypeOK
<1>1. ProxyInv => ProxyTypeOK
  BY DEF ProxyInv
<1> QED BY <1>1, ProxyInvariance, PTL

\* For any number of processes that start at the same time, stop and are
\* killed, and any number of paths, a process that listens loses its path, or
\* finds it bound, only where another had chosen the same one
\* (socket.ts 20-28, 77-105).
THEOREM Reachability == ProxySpec => []ReadyIsReachable
<1>1. ProxyInv => ReadyIsReachable
  BY DEF ProxyInv
<1> QED BY <1>1, ProxyInvariance, PTL

=============================================================================
