---------------------------- MODULE ServerProofs ----------------------------
(***************************************************************************)
(* For any number of processes, requests and restarts: every browser gets  *)
(* the same key, no page is served before VS Code is there, and no         *)
(* connection is left without the timer that ends it.                      *)
(***************************************************************************)
EXTENDS Server, FiniteSets, FiniteSetTheorems, TLAPS

(* How many keys are drawn: each start of a process draws one at most.     *)

\* Processes that may still draw a key.
MayDraw == {p \in Procs : life[p] # "off" /\ mint[p] \in {"none", "reading"}}

DrawsAreCounted ==
  /\ \A p \in Procs : life[p] = "off" => mint[p] = "none"
  /\ IsFiniteSet(MayDraw) /\ made + Cardinality(MayDraw) <= starts

\* A request that was sent has gone to some process.
SentSomewhere == \A r \in Requests : req[r] # "new" => at[r] \in Procs

(* The key, as long as the one in the file has not been given up.          *)

MakersHaveKeys == \A p \in Procs : Making(p) => key[p] \in Keys

\* Of several processes that make a key, none counts on it.
MakersAreAstray ==
  ~rough => \A p, q \in Procs : Making(p) /\ Making(q) /\ p # q => p \in astray

\* An empty file is about to be filled.
EmptyIsFilled == ~rough /\ keyFile = Empty => \E p \in Procs : mint[p] = "filling"

\* The file holds a key, and nobody makes another.
KeyIsKept == keyFile \in Keys /\ \A p \in Procs : ~Making(p)

\* Who counts on its key, or was given it by such a process, has that of the
\* file, for good.
SureHaveKey ==
  ~rough => \A p \in Procs \ astray : mint[p] = "done" => key[p] = keyFile /\ KeyIsKept
GivenIsKey ==
  ~rough => \A r \in Mints \ misled : req[r] = "answered" => answer[r] = keyFile /\ KeyIsKept

KeyInv == MakersHaveKeys /\ MakersAreAstray /\ EmptyIsFilled /\ SureHaveKey /\ GivenIsKey

IInv ==
  /\ TypeOK /\ DrawsAreCounted /\ SentSomewhere
  /\ KeyInv /\ PagesAreBacked /\ HangingIsTimed

----------------------------------------------------------------------------
LEMMA InitIInv == Init => IInv
<1> SUFFICES ASSUME Init PROVE IInv
  OBVIOUS
<1>1. TypeOK
  <2>1. life \in [Procs -> {"off"}] /\ vscode \in [Procs -> {"none"}] /\ mint \in [Procs -> {"none"}]
    BY DEF Init
  <2>2. key \in [Procs -> {None}] /\ req \in [Requests -> {"new"}]
    BY DEF Init
  <2>3. at \in [Requests -> {None}] /\ answer \in [Mints -> {None}]
    BY DEF Init
  <2>4. starts \in 0 .. MaxStarts /\ made \in 0 .. MaxStarts
    BY ServerAssumption DEF Init
  <2> QED
    BY <2>1, <2>2, <2>3, <2>4 DEF Init, TypeOK
<1>4. SentSomewhere /\ PagesAreBacked /\ HangingIsTimed
  BY ServerAssumption DEF Init, SentSomewhere, PagesAreBacked, HangingIsTimed, Requests, SocketsOf
<1>5. KeyInv
  <2>1. \A p \in Procs : ~Making(p) /\ mint[p] # "done"
    BY DEF Init, Making
  <2>2. \A r \in Mints : req[r] # "answered"
    BY DEF Init, Requests
  <2>3. keyFile = None /\ None \notin Keys /\ None # Empty
    BY ServerAssumption DEF Init, Keys
  <2> QED
    BY <2>1, <2>2, <2>3
    DEF KeyInv, MakersHaveKeys, MakersAreAstray, EmptyIsFilled, SureHaveKey, GivenIsKey
<1>2. MayDraw = {}
  BY DEF Init, MayDraw
<1>3. DrawsAreCounted
  BY <1>2, FS_EmptySet DEF Init, DrawsAreCounted
<1> QED
  BY <1>1, <1>3, <1>4, <1>5 DEF IInv

\* What the promise of a key is resolved with keeps the types.
LEMMA MintedTypes ==
  ASSUME TypeOK, NEW p \in Procs, NEW k \in Keys \cup {Empty}, Minted(p, k)
  PROVE  /\ mint' \in [Procs -> {"none", "reading", "emptying", "filling", "done"}]
         /\ key' \in [Procs -> Keys \cup {None, Empty}]
         /\ req' \in [Requests -> {"new", "idle", "loading", "minting", "answered", "failed"}]
         /\ answer' \in [Mints -> Keys \cup {None, Empty}]
         /\ misled' \subseteq Mints
<1> USE DEF Minted
<1>1. mint' \in [Procs -> {"none", "reading", "emptying", "filling", "done"}]
  BY DEF TypeOK
<1>2. key' \in [Procs -> Keys \cup {None, Empty}]
  BY DEF TypeOK
<1>3. req' \in [Requests -> {"new", "idle", "loading", "minting", "answered", "failed"}]
  BY DEF TypeOK
<1>4. answer' \in [Mints -> Keys \cup {None, Empty}]
  BY DEF TypeOK
<1>5. misled' \subseteq Mints
  BY DEF TypeOK
<1> QED
  BY <1>1, <1>2, <1>3, <1>4, <1>5

\* The types; that keys run out no sooner than starts comes from DrawsAreCounted.
LEMMA TypeStep == ASSUME IInv, [Next]_vars PROVE TypeOK'
<1> USE ServerAssumption DEF IInv, TypeOK, mints, Requests, Keys
<1>1. ASSUME NEW p \in Procs, Listen(p) PROVE TypeOK'
  BY <1>1 DEF Listen
<1>2. ASSUME NEW p \in Procs, Register(p) PROVE TypeOK'
  BY <1>2 DEF Register
<1>3. ASSUME NEW p \in Procs, Dispose(p) PROVE TypeOK'
  BY <1>3 DEF Dispose
<1>4. ASSUME NEW p \in Procs, CleanUp(p) PROVE TypeOK'
  BY <1>4 DEF CleanUp
<1>5. ASSUME NEW p \in Procs, Closed(p) PROVE TypeOK'
  BY <1>5 DEF Closed
<1>6. ASSUME NEW p \in Procs, Exit(p) PROVE TypeOK'
  BY <1>6 DEF Exit
<1>7. ASSUME NEW p \in Procs, Loaded(p) PROVE TypeOK'
  BY <1>7 DEF Loaded
<1>8. ASSUME NEW p \in Procs, MintRead(p) PROVE TypeOK'
  <2>1. CASE /\ keyFile # None /\ Minted(p, keyFile) /\ UNCHANGED <<made, rough>>
             /\ astray' = IF OtherMakers(p) = {} THEN astray ELSE astray \cup {p}
    <3>1. astray' \subseteq Procs /\ keyFile \in Keys \cup {Empty}
      BY <2>1
    <3> QED
      BY <1>8, <2>1, <3>1, MintedTypes DEF MintRead
  <2>2. CASE Draw(p) /\ rough' = (rough \/ keyFile # None)
    <3>1. p \in MayDraw
      BY <1>8 DEF MintRead, MayDraw, DrawsAreCounted
    <3>2. made < starts
      BY <3>1, FS_CardinalityType, FS_EmptySet DEF DrawsAreCounted
    <3>3. astray' \subseteq Procs /\ rough' \in BOOLEAN /\ made' \in Keys
      BY <2>2, <3>2 DEF Draw, OtherMakers
    <3> QED
      BY <1>8, <2>2, <3>3 DEF MintRead, Draw
  <2> QED
    BY <1>8, <2>1, <2>2 DEF MintRead
<1>9. ASSUME NEW p \in Procs, MintTruncate(p) PROVE TypeOK'
  <2>1. key[p] \in Keys
    BY <1>9 DEF MintTruncate, KeyInv, MakersHaveKeys, Making
  <2>2. CASE keyFile' = Empty /\ mint' = [mint EXCEPT ![p] = "filling"]
             /\ UNCHANGED <<key, req, answer, astray, misled>>
    BY <1>9, <2>2 DEF MintTruncate
  <2>3. CASE astray' = astray \cup {p} /\ Minted(p, key[p]) /\ UNCHANGED keyFile
    BY <1>9, <2>1, <2>3, MintedTypes DEF MintTruncate
  <2> QED
    BY <1>9, <2>2, <2>3 DEF MintTruncate
<1>10. ASSUME NEW p \in Procs, MintFill(p) PROVE TypeOK'
  <2>1. key[p] \in Keys
    BY <1>10 DEF MintFill, KeyInv, MakersHaveKeys, Making
  <2> QED
    BY <1>10, <2>1, MintedTypes DEF MintFill
<1>11. ASSUME NEW r \in Requests, HangUp(r) PROVE TypeOK'
  BY <1>11 DEF HangUp
<1>12. ASSUME NEW r \in Requests, NotFound(r) PROVE TypeOK'
  BY <1>12 DEF NotFound
<1>13. ASSUME NEW r \in Requests, Load(r) PROVE TypeOK'
  BY <1>13 DEF Load, SentSomewhere
<1>14. ASSUME NEW r \in Requests, Mint(r) PROVE TypeOK'
  BY <1>14 DEF Mint, SentSomewhere
<1>15. ASSUME NEW r \in Requests, NEW p \in Procs, Connect(r, p) PROVE TypeOK'
  BY <1>15 DEF Connect
<1>16. CASE UNCHANGED vars
  BY <1>16 DEF vars
<1> QED
  BY <1>1, <1>2, <1>3, <1>4, <1>5, <1>6, <1>7, <1>8, <1>9,
     <1>10, <1>11, <1>12, <1>13, <1>14, <1>15, <1>16 DEF Next, MintStep

\* Starts and draws are counted step by step.
LEMMA DrawsStep == ASSUME IInv, [Next]_vars PROVE DrawsAreCounted'
<1> USE DEF IInv, TypeOK, DrawsAreCounted
<1>1. ASSUME NEW p \in Procs, Listen(p) PROVE DrawsAreCounted'
  <2>1. p \notin MayDraw /\ MayDraw' = MayDraw \cup {p} /\ starts' = starts + 1 /\ made' = made
    BY <1>1 DEF Listen, MayDraw, mints
  <2>2. \A q \in Procs : life'[q] = "off" => mint'[q] = "none"
    BY <1>1 DEF Listen, mints
  <2>3. IsFiniteSet(MayDraw \cup {p}) /\ Cardinality(MayDraw \cup {p}) = Cardinality(MayDraw) + 1
    BY <2>1, FS_AddElement
  <2>4. Cardinality(MayDraw) \in Nat
    BY FS_CardinalityType
  <2>5. IsFiniteSet(MayDraw') /\ made' + Cardinality(MayDraw') <= starts'
    BY <2>1, <2>3, <2>4
  <2> QED
    BY <2>2, <2>5
<1>2. ASSUME NEW p \in Procs, Register(p) PROVE DrawsAreCounted'
  <2>1. MayDraw' = MayDraw /\ starts' = starts /\ made' = made
    BY <1>2 DEF Register, mints, MayDraw
  <2>2. \A q \in Procs : life'[q] = "off" => mint'[q] = "none"
    BY <1>2 DEF Register, mints
  <2> QED
    BY <2>1, <2>2
<1>3. ASSUME NEW p \in Procs, Dispose(p) PROVE DrawsAreCounted'
  <2>1. MayDraw' = MayDraw /\ starts' = starts /\ made' = made
    BY <1>3 DEF Dispose, mints, MayDraw
  <2>2. \A q \in Procs : life'[q] = "off" => mint'[q] = "none"
    BY <1>3 DEF Dispose, mints
  <2> QED
    BY <2>1, <2>2
<1>4. ASSUME NEW p \in Procs, CleanUp(p) PROVE DrawsAreCounted'
  <2>1. MayDraw' = MayDraw /\ starts' = starts /\ made' = made
    BY <1>4 DEF CleanUp, mints, MayDraw
  <2>2. \A q \in Procs : life'[q] = "off" => mint'[q] = "none"
    BY <1>4 DEF CleanUp, mints
  <2> QED
    BY <2>1, <2>2
<1>5. ASSUME NEW p \in Procs, Closed(p) PROVE DrawsAreCounted'
  <2>1. MayDraw' = MayDraw /\ starts' = starts /\ made' = made
    BY <1>5 DEF Closed, mints, MayDraw
  <2>2. \A q \in Procs : life'[q] = "off" => mint'[q] = "none"
    BY <1>5 DEF Closed, mints
  <2> QED
    BY <2>1, <2>2
<1>6. ASSUME NEW p \in Procs, Exit(p) PROVE DrawsAreCounted'
  <2>1. MayDraw' = MayDraw \ {p} /\ starts' = starts /\ made' = made
    BY <1>6 DEF Exit, MayDraw
  <2>2. \A q \in Procs : life'[q] = "off" => mint'[q] = "none"
    BY <1>6 DEF Exit
  <2>3. IsFiniteSet(MayDraw \ {p}) /\ Cardinality(MayDraw \ {p}) = IF p \in MayDraw THEN Cardinality(MayDraw) - 1 ELSE Cardinality(MayDraw)
    BY FS_RemoveElement
  <2>4. Cardinality(MayDraw) \in Nat
    BY FS_CardinalityType
  <2>5. IsFiniteSet(MayDraw') /\ made' + Cardinality(MayDraw') <= starts'
    BY <2>1, <2>3, <2>4
  <2> QED
    BY <2>2, <2>5
<1>7. ASSUME NEW p \in Procs, Loaded(p) PROVE DrawsAreCounted'
  <2>1. MayDraw' = MayDraw /\ starts' = starts /\ made' = made
    BY <1>7 DEF Loaded, mints, MayDraw
  <2>2. \A q \in Procs : life'[q] = "off" => mint'[q] = "none"
    BY <1>7 DEF Loaded, mints
  <2> QED
    BY <2>1, <2>2
<1>8. ASSUME NEW p \in Procs, MintRead(p) PROVE DrawsAreCounted'
  <2>1. p \in MayDraw /\ MayDraw' = MayDraw \ {p} /\ starts' = starts /\ made' \in {made, made + 1}
    BY <1>8 DEF MintRead, Draw, Minted, MayDraw
  <2>2. \A q \in Procs : life'[q] = "off" => mint'[q] = "none"
    BY <1>8 DEF MintRead, Draw, Minted
  <2>3. IsFiniteSet(MayDraw \ {p}) /\ Cardinality(MayDraw \ {p}) = IF p \in MayDraw THEN Cardinality(MayDraw) - 1 ELSE Cardinality(MayDraw)
    BY FS_RemoveElement
  <2>4. Cardinality(MayDraw) \in Nat
    BY FS_CardinalityType
  <2>5. IsFiniteSet(MayDraw') /\ made' + Cardinality(MayDraw') <= starts'
    BY <2>1, <2>3, <2>4
  <2> QED
    BY <2>2, <2>5
<1>9. ASSUME NEW p \in Procs, MintTruncate(p) PROVE DrawsAreCounted'
  <2>1. MayDraw' = MayDraw /\ starts' = starts /\ made' = made
    BY <1>9 DEF MintTruncate, Minted, MayDraw
  <2>2. \A q \in Procs : life'[q] = "off" => mint'[q] = "none"
    BY <1>9 DEF MintTruncate, Minted
  <2> QED
    BY <2>1, <2>2
<1>10. ASSUME NEW p \in Procs, MintFill(p) PROVE DrawsAreCounted'
  <2>1. MayDraw' = MayDraw /\ starts' = starts /\ made' = made
    BY <1>10 DEF MintFill, Minted, MayDraw
  <2>2. \A q \in Procs : life'[q] = "off" => mint'[q] = "none"
    BY <1>10 DEF MintFill, Minted
  <2> QED
    BY <2>1, <2>2
<1>11. ASSUME NEW r \in Requests, HangUp(r) PROVE DrawsAreCounted'
  <2>1. MayDraw' = MayDraw /\ starts' = starts /\ made' = made
    BY <1>11 DEF HangUp, mints, MayDraw
  <2>2. \A q \in Procs : life'[q] = "off" => mint'[q] = "none"
    BY <1>11 DEF HangUp, mints
  <2> QED
    BY <2>1, <2>2
<1>12. ASSUME NEW r \in Requests, NotFound(r) PROVE DrawsAreCounted'
  <2>1. MayDraw' = MayDraw /\ starts' = starts /\ made' = made
    BY <1>12 DEF NotFound, mints, MayDraw
  <2>2. \A q \in Procs : life'[q] = "off" => mint'[q] = "none"
    BY <1>12 DEF NotFound, mints
  <2> QED
    BY <2>1, <2>2
<1>13. ASSUME NEW r \in Requests, Load(r) PROVE DrawsAreCounted'
  <2>1. MayDraw' = MayDraw /\ starts' = starts /\ made' = made
    BY <1>13 DEF Load, mints, MayDraw
  <2>2. \A q \in Procs : life'[q] = "off" => mint'[q] = "none"
    BY <1>13 DEF Load, mints
  <2> QED
    BY <2>1, <2>2
<1>14. ASSUME NEW r \in Requests, Mint(r) PROVE DrawsAreCounted'
  <2>1. MayDraw' = MayDraw /\ starts' = starts /\ made' = made
    BY <1>14 DEF Mint, mints, MayDraw
  <2>2. \A q \in Procs : life'[q] = "off" => mint'[q] = "none"
    BY <1>14 DEF Mint, mints
  <2> QED
    BY <2>1, <2>2
<1>15. ASSUME NEW r \in Requests, NEW p \in Procs, Connect(r, p) PROVE DrawsAreCounted'
  <2>1. MayDraw' = MayDraw /\ starts' = starts /\ made' = made
    BY <1>15 DEF Connect, mints, MayDraw
  <2>2. \A q \in Procs : life'[q] = "off" => mint'[q] = "none"
    BY <1>15 DEF Connect, mints
  <2> QED
    BY <2>1, <2>2
<1>16. CASE UNCHANGED vars
  BY <1>16 DEF vars, mints, MayDraw
<1> QED
  BY <1>1, <1>2, <1>3, <1>4, <1>5, <1>6, <1>7, <1>8, <1>9,
     <1>10, <1>11, <1>12, <1>13, <1>14, <1>15, <1>16 DEF Next, MintStep

\* A request goes nowhere else once it has been sent.
LEMMA SentStep == ASSUME IInv, [Next]_vars PROVE SentSomewhere'
<1> USE DEF IInv, TypeOK, SentSomewhere, mints
<1>1. ASSUME NEW p \in Procs, Listen(p) PROVE SentSomewhere'
  BY <1>1 DEF Listen
<1>2. ASSUME NEW p \in Procs, Register(p) PROVE SentSomewhere'
  BY <1>2 DEF Register
<1>3. ASSUME NEW p \in Procs, Dispose(p) PROVE SentSomewhere'
  BY <1>3 DEF Dispose
<1>4. ASSUME NEW p \in Procs, CleanUp(p) PROVE SentSomewhere'
  BY <1>4 DEF CleanUp
<1>5. ASSUME NEW p \in Procs, Closed(p) PROVE SentSomewhere'
  BY <1>5 DEF Closed
<1>6. ASSUME NEW p \in Procs, Exit(p) PROVE SentSomewhere'
  BY <1>6 DEF Exit
<1>7. ASSUME NEW p \in Procs, Loaded(p) PROVE SentSomewhere'
  BY <1>7 DEF Loaded, Waiting, Requests
<1>8. ASSUME NEW p \in Procs, MintRead(p) PROVE SentSomewhere'
  BY <1>8 DEF MintRead, Draw, Minted
<1>9. ASSUME NEW p \in Procs, MintTruncate(p) PROVE SentSomewhere'
  BY <1>9 DEF MintTruncate, Minted
<1>10. ASSUME NEW p \in Procs, MintFill(p) PROVE SentSomewhere'
  BY <1>10 DEF MintFill, Minted
<1>11. ASSUME NEW r \in Requests, HangUp(r) PROVE SentSomewhere'
  BY <1>11 DEF HangUp
<1>12. ASSUME NEW r \in Requests, NotFound(r) PROVE SentSomewhere'
  BY <1>12 DEF NotFound
<1>13. ASSUME NEW r \in Requests, Load(r) PROVE SentSomewhere'
  BY <1>13 DEF Load
<1>14. ASSUME NEW r \in Requests, Mint(r) PROVE SentSomewhere'
  BY <1>14 DEF Mint
<1>15. ASSUME NEW r \in Requests, NEW p \in Procs, Connect(r, p) PROVE SentSomewhere'
  BY <1>15 DEF Connect
<1>16. CASE UNCHANGED vars
  BY <1>16 DEF vars
<1> QED
  BY <1>1, <1>2, <1>3, <1>4, <1>5, <1>6, <1>7, <1>8, <1>9,
     <1>10, <1>11, <1>12, <1>13, <1>14, <1>15, <1>16 DEF Next, MintStep

\* No step leaves a page waiting for nothing or served with nothing.
LEMMA PagesStep == ASSUME IInv, [Next]_vars PROVE PagesAreBacked'
<1> USE ServerAssumption DEF IInv, TypeOK, PagesAreBacked, Requests
<1>1. ASSUME NEW p \in Procs, Listen(p) PROVE PagesAreBacked'
  BY <1>1 DEF Listen
<1>2. ASSUME NEW p \in Procs, Register(p) PROVE PagesAreBacked'
  BY <1>2 DEF Register
<1>3. ASSUME NEW p \in Procs, Dispose(p) PROVE PagesAreBacked'
  BY <1>3 DEF Dispose
<1>4. ASSUME NEW p \in Procs, CleanUp(p) PROVE PagesAreBacked'
  BY <1>4 DEF CleanUp
<1>5. ASSUME NEW p \in Procs, Closed(p) PROVE PagesAreBacked'
  BY <1>5 DEF Closed
<1>6. ASSUME NEW p \in Procs, Exit(p) PROVE PagesAreBacked'
  <2>1. at' = at /\ sockets' = sockets \ SocketsOf(p)
    BY <1>6 DEF Exit
  <2>2. ASSUME NEW r \in Pages, at[r] = p PROVE req'[r] # "loading" /\ r \notin sockets'
    BY <1>6, <2>1, <2>2 DEF Exit, SocketsOf
  <2>3. ASSUME NEW r \in Pages, at[r] # p
        PROVE  req'[r] = req[r] /\ (r \in sockets' => r \in sockets)
    BY <1>6, <2>1, <2>3 DEF Exit
  <2>4. \A q \in Procs : q # p => vscode'[q] = vscode[q]
    BY <1>6 DEF Exit
  <2> QED
    BY <2>1, <2>2, <2>3, <2>4 DEF SentSomewhere
<1>7. ASSUME NEW p \in Procs, Loaded(p) PROVE PagesAreBacked'
  <2>1. PICK ok \in BOOLEAN :
          /\ vscode' = [vscode EXCEPT ![p] = IF ok THEN "loaded" ELSE "none"]
          /\ req' = [r \in Requests |->
                       IF r \notin Waiting(p) THEN req[r] ELSE IF ok THEN "answered" ELSE "failed"]
    BY <1>7 DEF Loaded
  <2>2. vscode[p] = "loading" /\ at' = at /\ sockets' = sockets
    BY <1>7 DEF Loaded
  <2>3. ASSUME NEW r \in Pages, at[r] = p
        PROVE  /\ req'[r] # "loading"
               /\ req'[r] = "answered" /\ r \in sockets' => vscode'[p] = "loaded"
    BY <2>1, <2>2, <2>3 DEF Waiting
  <2>4. ASSUME NEW r \in Pages, at[r] # p, req[r] # "new"
        PROVE  req'[r] = req[r] /\ vscode'[at[r]] = vscode[at[r]]
    BY <2>1, <2>4 DEF Waiting, SentSomewhere
  <2>5. ASSUME NEW r \in Pages, req[r] = "new" PROVE req'[r] = "new"
    BY <2>1, <2>5 DEF Waiting
  <2> QED
    BY <2>2, <2>3, <2>4, <2>5
<1>8. ASSUME NEW p \in Procs, MintRead(p) PROVE PagesAreBacked'
  BY <1>8 DEF MintRead, Draw, Minted
<1>9. ASSUME NEW p \in Procs, MintTruncate(p) PROVE PagesAreBacked'
  BY <1>9 DEF MintTruncate, Minted
<1>10. ASSUME NEW p \in Procs, MintFill(p) PROVE PagesAreBacked'
  BY <1>10 DEF MintFill, Minted
<1>11. ASSUME NEW r \in Requests, HangUp(r) PROVE PagesAreBacked'
  BY <1>11 DEF HangUp
<1>12. ASSUME NEW r \in Requests, NotFound(r) PROVE PagesAreBacked'
  BY <1>12 DEF NotFound
<1>13. ASSUME NEW r \in Requests, Load(r) PROVE PagesAreBacked'
  <2>1. r \in Pages /\ at' = at /\ sockets' = sockets /\ at[r] \in Procs
    BY <1>13 DEF Load, SentSomewhere
  <2>2. \A q \in Procs : vscode[q] = "loading" => vscode'[q] = "loading"
    BY <1>13 DEF Load
  <2>3. \A q \in Procs : vscode[q] = "loaded" => vscode'[q] = "loaded"
    BY <1>13 DEF Load
  <2>4. vscode[at[r]] # "loaded" => vscode'[at[r]] = "loading" /\ req'[r] = "loading"
    BY <1>13, <2>1 DEF Load
  <2>5. vscode[at[r]] = "loaded" => req'[r] = "answered"
    BY <1>13 DEF Load
  <2>6. \A s \in Requests : s # r => req'[s] = req[s]
    BY <1>13 DEF Load
  <2> QED
    BY <2>1, <2>2, <2>3, <2>4, <2>5, <2>6 DEF SentSomewhere
<1>14. ASSUME NEW r \in Requests, Mint(r) PROVE PagesAreBacked'
  BY <1>14 DEF Mint
<1>15. ASSUME NEW r \in Requests, NEW p \in Procs, Connect(r, p) PROVE PagesAreBacked'
  BY <1>15 DEF Connect
<1>16. CASE UNCHANGED vars
  BY <1>16 DEF vars
<1> QED
  BY <1>1, <1>2, <1>3, <1>4, <1>5, <1>6, <1>7, <1>8, <1>9,
     <1>10, <1>11, <1>12, <1>13, <1>14, <1>15, <1>16 DEF Next, MintStep

\* No step leaves a connection of a closing process without its timer.
LEMMA HangStep == ASSUME IInv, [Next]_vars PROVE HangingIsTimed'
<1> USE DEF IInv, TypeOK, HangingIsTimed, SocketsOf, SentSomewhere
<1>1. ASSUME NEW p \in Procs, Listen(p) PROVE HangingIsTimed'
  BY <1>1 DEF Listen
<1>2. ASSUME NEW p \in Procs, Register(p) PROVE HangingIsTimed'
  BY <1>2 DEF Register
<1>3. ASSUME NEW p \in Procs, Dispose(p) PROVE HangingIsTimed'
  BY <1>3 DEF Dispose
<1>4. ASSUME NEW p \in Procs, CleanUp(p) PROVE HangingIsTimed'
  BY <1>4 DEF CleanUp
<1>5. ASSUME NEW p \in Procs, Closed(p) PROVE HangingIsTimed'
  BY <1>5 DEF Closed
<1>6. ASSUME NEW p \in Procs, Exit(p) PROVE HangingIsTimed'
  BY <1>6 DEF Exit
<1>7. ASSUME NEW p \in Procs, Loaded(p) PROVE HangingIsTimed'
  BY <1>7 DEF Loaded, Waiting
<1>8. ASSUME NEW p \in Procs, MintRead(p) PROVE HangingIsTimed'
  BY <1>8 DEF MintRead, Draw, Minted
<1>9. ASSUME NEW p \in Procs, MintTruncate(p) PROVE HangingIsTimed'
  BY <1>9 DEF MintTruncate, Minted
<1>10. ASSUME NEW p \in Procs, MintFill(p) PROVE HangingIsTimed'
  BY <1>10 DEF MintFill, Minted
<1>11. ASSUME NEW r \in Requests, HangUp(r) PROVE HangingIsTimed'
  BY <1>11 DEF HangUp
<1>12. ASSUME NEW r \in Requests, NotFound(r) PROVE HangingIsTimed'
  BY <1>12 DEF NotFound
<1>13. ASSUME NEW r \in Requests, Load(r) PROVE HangingIsTimed'
  BY <1>13 DEF Load
<1>14. ASSUME NEW r \in Requests, Mint(r) PROVE HangingIsTimed'
  BY <1>14 DEF Mint
<1>15. ASSUME NEW r \in Requests, NEW p \in Procs, Connect(r, p) PROVE HangingIsTimed'
  BY <1>15 DEF Connect
<1>16. CASE UNCHANGED vars
  BY <1>16 DEF vars
<1> QED
  BY <1>1, <1>2, <1>3, <1>4, <1>5, <1>6, <1>7, <1>8, <1>9,
     <1>10, <1>11, <1>12, <1>13, <1>14, <1>15, <1>16 DEF Next, MintStep

\* What makes and gives no key keeps what is known of it.
LEMMA KeyFrame ==
  ASSUME KeyInv, UNCHANGED mints, \A r \in Mints : req'[r] = "answered" => req[r] = "answered"
  PROVE  KeyInv'
BY DEF KeyInv, MakersHaveKeys, MakersAreAstray, EmptyIsFilled, SureHaveKey, GivenIsKey,
       KeyIsKept, Making, mints

\* With the promise of p resolved, p makes no key; it and those who waited have
\* k, and only what a process that is not astray gave counts.
LEMMA MintedGives ==
  ASSUME TypeOK, NEW p \in Procs, NEW k, Minted(p, k)
  PROVE  /\ ~Making(p)' /\ mint'[p] = "done" /\ key'[p] = k
         /\ \A q \in Procs : q # p => mint'[q] = mint[q] /\ key'[q] = key[q]
         /\ \A r \in Mints \ misled' : req'[r] = "answered" =>
              \/ p \notin astray' /\ answer'[r] = k
              \/ r \notin misled /\ req[r] = "answered" /\ answer'[r] = answer[r]
BY DEF TypeOK, Minted, Making, Requests

\* No step gives a second key, unless it is rough.
LEMMA KeyStep == ASSUME IInv, [Next]_vars PROVE KeyInv'
<1> USE ServerAssumption DEF IInv, TypeOK, Requests, KeyInv
<1>1. ASSUME NEW p \in Procs, Listen(p) PROVE KeyInv'
  <2>1. UNCHANGED mints /\ \A s \in Mints : req'[s] = "answered" => req[s] = "answered"
    BY <1>1 DEF Listen
  <2> QED
    BY <2>1, KeyFrame
<1>2. ASSUME NEW p \in Procs, Register(p) PROVE KeyInv'
  <2>1. UNCHANGED mints /\ \A s \in Mints : req'[s] = "answered" => req[s] = "answered"
    BY <1>2 DEF Register
  <2> QED
    BY <2>1, KeyFrame
<1>3. ASSUME NEW p \in Procs, Dispose(p) PROVE KeyInv'
  <2>1. UNCHANGED mints /\ \A s \in Mints : req'[s] = "answered" => req[s] = "answered"
    BY <1>3 DEF Dispose
  <2> QED
    BY <2>1, KeyFrame
<1>4. ASSUME NEW p \in Procs, CleanUp(p) PROVE KeyInv'
  <2>1. UNCHANGED mints /\ \A s \in Mints : req'[s] = "answered" => req[s] = "answered"
    BY <1>4 DEF CleanUp
  <2> QED
    BY <2>1, KeyFrame
<1>5. ASSUME NEW p \in Procs, Closed(p) PROVE KeyInv'
  <2>1. UNCHANGED mints /\ \A s \in Mints : req'[s] = "answered" => req[s] = "answered"
    BY <1>5 DEF Closed
  <2> QED
    BY <2>1, KeyFrame
<1>6. ASSUME NEW p \in Procs, Exit(p) PROVE KeyInv'
  <2>1. ~Making(p)' /\ mint'[p] = "none" /\ UNCHANGED <<keyFile, answer, misled>>
    BY <1>6 DEF Exit, Making
  <2>2. \A q \in Procs : q # p =>
          mint'[q] = mint[q] /\ key'[q] = key[q] /\ Making(q)' = Making(q) /\ (q \in astray' <=> q \in astray)
    BY <1>6 DEF Exit, Making
  <2>3. \A r \in Mints : req'[r] = "answered" => req[r] = "answered"
    BY <1>6 DEF Exit
  <2>4. ~rough' => ~rough /\ mint[p] # "filling"
    BY <1>6 DEF Exit
  <2>5. MakersHaveKeys' /\ MakersAreAstray'
    BY <2>1, <2>2, <2>4 DEF MakersHaveKeys, MakersAreAstray
  <2>6. KeyIsKept => KeyIsKept'
    BY <2>1, <2>2 DEF KeyIsKept
  <2>7. EmptyIsFilled'
    BY <2>1, <2>2, <2>4 DEF EmptyIsFilled
  <2>8. SureHaveKey' /\ GivenIsKey'
    BY <2>1, <2>2, <2>3, <2>4, <2>6 DEF SureHaveKey, GivenIsKey
  <2> QED
    BY <2>5, <2>7, <2>8
<1>7. ASSUME NEW p \in Procs, Loaded(p) PROVE KeyInv'
  <2>1. UNCHANGED mints /\ \A s \in Mints : req'[s] = "answered" => req[s] = "answered"
    BY <1>7 DEF Loaded, Waiting
  <2> QED
    BY <2>1, KeyFrame
<1>8. ASSUME NEW p \in Procs, MintRead(p) PROVE KeyInv'
  <2>1. UNCHANGED keyFile /\ ~Making(p) /\ mint[p] = "reading"
    BY <1>8 DEF MintRead, Making
  <2>2. ASSUME keyFile # None, Minted(p, keyFile), UNCHANGED rough,
               astray' = IF OtherMakers(p) = {} THEN astray ELSE astray \cup {p}
        PROVE  KeyInv'
    <3>1. \A q \in Procs : q # p => Making(q)' = Making(q) /\ (q \in astray' <=> q \in astray)
      BY <2>2, MintedGives DEF Making
    <3>2. MakersHaveKeys' /\ MakersAreAstray'
      BY <2>1, <2>2, <3>1, MintedGives DEF MakersHaveKeys, MakersAreAstray
    <3>3. EmptyIsFilled'
      BY <2>1, <2>2, MintedGives DEF EmptyIsFilled
    <3>4. KeyIsKept => KeyIsKept'
      BY <2>1, <2>2, <3>1, MintedGives DEF KeyIsKept
    <3>5. ~rough /\ p \notin astray' => KeyIsKept
      <4> SUFFICES ASSUME ~rough, p \notin astray' PROVE KeyIsKept
        OBVIOUS
      <4>1. \A q \in Procs : ~Making(q)
        BY <2>1, <2>2 DEF OtherMakers
      <4>2. keyFile # Empty
        BY <4>1 DEF EmptyIsFilled, Making
      <4> QED BY <2>2, <4>1, <4>2 DEF KeyIsKept
    <3>6. SureHaveKey'
      BY <2>1, <2>2, <3>1, <3>4, <3>5, MintedGives DEF SureHaveKey
    <3>7. GivenIsKey'
      BY <2>1, <2>2, <3>4, <3>5, MintedGives DEF GivenIsKey
    <3> QED
      BY <3>2, <3>3, <3>6, <3>7
  <2>3. ASSUME Draw(p), rough' = (rough \/ keyFile # None) PROVE KeyInv'
    <3>1. key'[p] \in Keys
      <4>1. made' = made + 1 /\ made' \in 0 .. MaxStarts
        BY <2>3, TypeStep DEF Draw
      <4> QED
        BY <2>3, <4>1 DEF Draw, Keys
    <3>2. /\ \A q \in Procs : q # p => Making(q)' = Making(q) /\ key'[q] = key[q] /\ mint'[q] = mint[q]
          /\ mint'[p] = "emptying" /\ UNCHANGED <<req, answer, misled>>
      BY <2>3 DEF Draw, Making
    <3>3. MakersHaveKeys'
      BY <3>1, <3>2 DEF MakersHaveKeys
    <3>4. MakersAreAstray'
      <4> SUFFICES ASSUME ~rough', NEW q \in Procs, NEW u \in Procs,
                          Making(q)', Making(u)', q # u
                   PROVE  q \in astray'
        BY DEF MakersAreAstray
      <4>1. CASE q = p \/ u = p
        <5>1. q \in OtherMakers(p) \cup {p} /\ OtherMakers(p) # {}
          BY <3>2, <4>1 DEF OtherMakers
        <5> QED BY <2>3, <5>1 DEF Draw
      <4>2. CASE q # p /\ u # p
        BY <2>3, <3>2, <4>2 DEF MakersAreAstray, Draw
      <4> QED BY <4>1, <4>2
    <3>5. ~rough' => ~rough /\ keyFile \notin Keys /\ keyFile' # Empty
      <4>1. ~rough' => ~rough /\ keyFile = None
        BY <2>3
      <4>2. None \notin Keys /\ None # Empty
        BY ServerAssumption DEF Keys
      <4> QED BY <2>1, <4>1, <4>2
    <3>6. EmptyIsFilled'
      BY <3>5 DEF EmptyIsFilled
    <3>7. SureHaveKey' /\ GivenIsKey'
      BY <2>3, <3>2, <3>5 DEF SureHaveKey, GivenIsKey, KeyIsKept, Draw
    <3> QED
      BY <3>3, <3>4, <3>6, <3>7
  <2> QED
    BY <1>8, <2>2, <2>3 DEF MintRead
<1>9. ASSUME NEW p \in Procs, MintTruncate(p) PROVE KeyInv'
  <2>1. Making(p) /\ mint[p] = "emptying" /\ key[p] \in Keys /\ ~KeyIsKept /\ UNCHANGED rough
    BY <1>9 DEF MintTruncate, Making, MakersHaveKeys, KeyIsKept
  <2>2. ASSUME keyFile' = Empty, mint' = [mint EXCEPT ![p] = "filling"],
               UNCHANGED <<key, req, answer, astray, misled>>
        PROVE  KeyInv'
    <3>1. \A q \in Procs : Making(q)' = Making(q) /\ (mint'[q] = "done" => mint[q] = "done")
      BY <2>1, <2>2 DEF Making
    <3>2. MakersHaveKeys' /\ MakersAreAstray'
      BY <2>1, <2>2, <3>1 DEF MakersHaveKeys, MakersAreAstray
    <3>3. EmptyIsFilled'
      BY <2>2 DEF EmptyIsFilled
    <3>4. SureHaveKey' /\ GivenIsKey'
      BY <2>1, <2>2, <3>1 DEF SureHaveKey, GivenIsKey
    <3> QED
      BY <3>2, <3>3, <3>4
  <2>3. ASSUME astray' = astray \cup {p}, Minted(p, key[p]), UNCHANGED keyFile PROVE KeyInv'
    <3>1. \A q \in Procs : Making(q)' => Making(q) /\ q # p /\ key'[q] = key[q]
      BY <2>3, MintedGives DEF Making
    <3>2. MakersHaveKeys' /\ MakersAreAstray'
      BY <2>1, <2>3, <3>1 DEF MakersHaveKeys, MakersAreAstray
    <3>3. EmptyIsFilled'
      BY <2>1, <2>3, MintedGives DEF EmptyIsFilled
    <3>4. SureHaveKey' /\ GivenIsKey'
      BY <2>1, <2>3, MintedGives DEF SureHaveKey, GivenIsKey
    <3> QED
      BY <3>2, <3>3, <3>4
  <2> QED
    BY <1>9, <2>2, <2>3 DEF MintTruncate
<1>10. ASSUME NEW p \in Procs, MintFill(p) PROVE KeyInv'
  <2>1. Making(p) /\ key[p] \in Keys /\ ~KeyIsKept /\ Minted(p, key[p]) /\ UNCHANGED astray
    BY <1>10 DEF MintFill, Making, MakersHaveKeys, KeyIsKept
  <2>2. \A q \in Procs : Making(q)' => Making(q) /\ q # p /\ key'[q] = key[q]
    BY <2>1, MintedGives DEF Making
  <2>3. MakersHaveKeys'
    BY <2>2 DEF MakersHaveKeys
  <2>4. ASSUME keyFile' = key[p], UNCHANGED rough PROVE KeyInv'
    <3>1. MakersAreAstray'
      BY <2>1, <2>2, <2>4 DEF MakersAreAstray
    <3>2. EmptyIsFilled'
      BY <2>1, <2>4, ServerAssumption DEF EmptyIsFilled, Keys
    <3>3. ~rough /\ p \notin astray => KeyIsKept'
      BY <2>1, <2>2, <2>4 DEF MakersAreAstray, KeyIsKept
    <3>4. SureHaveKey' /\ GivenIsKey'
      BY <2>1, <2>4, <3>3, MintedGives DEF SureHaveKey, GivenIsKey
    <3> QED
      BY <2>3, <3>1, <3>2, <3>4
  <2>5. CASE rough' = TRUE
    BY <2>3, <2>5 DEF MakersAreAstray, EmptyIsFilled, SureHaveKey, GivenIsKey
  <2> QED
    BY <1>10, <2>4, <2>5 DEF MintFill
<1>11. ASSUME NEW r \in Requests, HangUp(r) PROVE KeyInv'
  <2>1. UNCHANGED mints /\ \A s \in Mints : req'[s] = "answered" => req[s] = "answered"
    BY <1>11 DEF HangUp
  <2> QED
    BY <2>1, KeyFrame
<1>12. ASSUME NEW r \in Requests, NotFound(r) PROVE KeyInv'
  <2>1. UNCHANGED mints /\ \A s \in Mints : req'[s] = "answered" => req[s] = "answered"
    BY <1>12 DEF NotFound
  <2> QED
    BY <2>1, KeyFrame
<1>13. ASSUME NEW r \in Requests, Load(r) PROVE KeyInv'
  <2>1. UNCHANGED mints /\ \A s \in Mints : req'[s] = "answered" => req[s] = "answered"
    BY <1>13 DEF Load
  <2> QED
    BY <2>1, KeyFrame
<1>14. ASSUME NEW r \in Requests, Mint(r) PROVE KeyInv'
  <2>1. at[r] \in Procs /\ UNCHANGED <<key, keyFile, astray, rough>>
    BY <1>14 DEF Mint, SentSomewhere
  <2>2. \A q \in Procs : /\ Making(q)' = Making(q) /\ (mint'[q] = "done" <=> mint[q] = "done")
                         /\ mint[q] = "filling" => mint'[q] = "filling"
    BY <1>14, <2>1 DEF Mint, Making
  <2>3. MakersHaveKeys' /\ MakersAreAstray' /\ EmptyIsFilled' /\ (KeyIsKept => KeyIsKept')
    BY <2>1, <2>2 DEF MakersHaveKeys, MakersAreAstray, EmptyIsFilled, KeyIsKept
  <2>4. SureHaveKey'
    BY <2>1, <2>2, <2>3 DEF SureHaveKey
  <2>5. \A s \in Mints \ misled' : req'[s] = "answered" =>
          \/ at[r] \notin astray /\ mint[at[r]] = "done" /\ answer'[s] = key[at[r]]
          \/ s \notin misled /\ req[s] = "answered" /\ answer'[s] = answer[s]
    BY <1>14 DEF Mint
  <2>6. GivenIsKey'
    BY <2>1, <2>3, <2>5 DEF GivenIsKey, SureHaveKey
  <2> QED
    BY <2>3, <2>4, <2>6
<1>15. ASSUME NEW r \in Requests, NEW p \in Procs, Connect(r, p) PROVE KeyInv'
  <2>1. UNCHANGED mints /\ \A s \in Mints : req'[s] = "answered" => req[s] = "answered"
    BY <1>15 DEF Connect
  <2> QED
    BY <2>1, KeyFrame
<1>16. CASE UNCHANGED vars
  BY <1>16, KeyFrame DEF vars
<1> QED
  BY <1>1, <1>2, <1>3, <1>4, <1>5, <1>6, <1>7, <1>8, <1>9,
     <1>10, <1>11, <1>12, <1>13, <1>14, <1>15, <1>16 DEF Next, MintStep

\* Every step preserves the invariant.
LEMMA NextIInv == ASSUME IInv, [Next]_vars PROVE IInv'
BY TypeStep, DrawsStep, SentStep, KeyStep, PagesStep, HangStep DEF IInv

\* The invariant holds in every reachable state.
THEOREM Inductive == Spec => []IInv
<1>1. Init => IInv
  BY InitIInv
<1>2. IInv /\ [Next]_vars => IInv'
  BY NextIInv
<1> QED
  BY <1>1, <1>2, PTL DEF Spec

\* Types are kept, and processes draw no more keys than they start.
THEOREM ServerTypes == Spec => []TypeOK
<1>1. IInv => TypeOK
  BY DEF IInv
<1> QED
  BY <1>1, Inductive, PTL

\* However many processes share the file, whenever they start and exit, all
\* browsers have been given the key that the file holds, but for those who asked
\* a process that had met another at it, or could not begin to store its key;
\* unless a process could not read the key, or was stopped while it stored one.
THEOREM OneKeyForAll == Spec => []OneKey
<1>1. IInv => OneKey
  BY DEF IInv, KeyInv, GivenIsKey, KeyIsKept, OneKey
<1> QED
  BY <1>1, Inductive, PTL

\* No page ever waits for a load that is over or is served before VS Code is
\* there, whichever loads fail and whichever processes exit.
THEOREM PagesBacked == Spec => []PagesAreBacked
<1>1. IInv => PagesAreBacked
  BY DEF IInv
<1> QED
  BY <1>1, Inductive, PTL

\* A process that is being disposed of never has connections left without
\* the timer that ends them.
THEOREM HangingTimed == Spec => []HangingIsTimed
<1>1. IInv => HangingIsTimed
  BY DEF IInv
<1> QED
  BY <1>1, Inductive, PTL

=============================================================================
