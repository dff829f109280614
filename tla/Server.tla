------------------------------- MODULE Server -------------------------------
(***************************************************************************)
(* The HTTP server of a code-server process from listen() to its disposal: *)
(* createApp of src/src/node/app.ts, the disposer of http.ts, and the two  *)
(* things that routes/vscode.ts makes on demand and keeps in a promise,    *)
(* VS Code itself and the key of /mint-key, which is also kept in a file.  *)
(*                                                                         *)
(* Several processes share that file: two instances of a user, or the old  *)
(* and the new child of a hotswap.                                         *)
(***************************************************************************)
EXTENDS Naturals

CONSTANTS Procs,     (* code-server processes                              *)
          Pages,     (* requests that need VS Code, one connection each    *)
          Mints,     (* requests of /mint-key, one connection each         *)
          MaxStarts, (* bound: how often processes start in all            *)
          None, Empty

ASSUME ServerAssumption ==
  /\ MaxStarts \in Nat
  /\ Pages \cap Mints = {}
  /\ None \notin Procs \cup Nat /\ Empty \notin Nat /\ None # Empty

Requests == Pages \cup Mints
Keys == 1 .. MaxStarts

VARIABLES
  life,    (* of each process                                              *)
  starts,  (* processes started so far                                     *)
  vscode,  (* vscodeServerPromise and vscodeServer                         *)
  mint,    (* mintKeyPromise: how far it is                                *)
  key,     (* the key that it is about, or has been resolved with          *)
  made,    (* external: keys drawn so far, no two of them alike            *)
  keyFile, (* serve-web-key-half: None, Empty, or a key                    *)
  req,     (* each request                                                 *)
  at,      (* the process it has gone to                                   *)
  answer,  (* what a request of /mint-key was given                        *)
  sockets, (* open connections                                             *)
  cleanup, (* processes whose cleanupTimeout is armed                      *)
  astray,  (* history: processes whose key may not be that of the file     *)
  misled,  (* history: requests that such a process has answered           *)
  rough    (* history: the key in the file was given up, or cut short      *)

mints == <<mint, key, made, keyFile, answer, astray, misled, rough>>
vars == <<life, starts, vscode, req, at, sockets, cleanup, mints>>

Init ==
  /\ life = [p \in Procs |-> "off"]
  /\ starts = 0
  /\ vscode = [p \in Procs |-> "none"]
  /\ mint = [p \in Procs |-> "none"]
  /\ key = [p \in Procs |-> None]
  /\ made = 0 /\ keyFile = None
  /\ req = [r \in Requests |-> "new"]
  /\ at = [r \in Requests |-> None]
  /\ answer = [r \in Mints |-> None]
  /\ sockets = {}
  /\ cleanup = {}
  /\ astray = {} /\ misled = {}
  /\ rough = FALSE

SocketsOf(p) == {r \in sockets : at[r] = p}
Making(p) == mint[p] \in {"emptying", "filling"}

----------------------------------------------------------------------------
(* The life of a process.                                                  *)

\* createApp: from here on the server accepts connections.
Listen(p) ==
  /\ life[p] = "off" /\ starts < MaxStarts
  /\ starts' = starts + 1
  /\ life' = [life EXCEPT ![p] = "listening"]
  /\ UNCHANGED <<vscode, req, at, sockets, cleanup, mints>>

\* The rest of createApp waits for the session server; then come the routes.
Register(p) ==
  /\ life[p] = "listening"
  /\ life' = [life EXCEPT ![p] = "routed"]
  /\ UNCHANGED <<starts, vscode, req, at, sockets, cleanup, mints>>

\* The disposer: no more connections, and a second for those there are.
Dispose(p) ==
  /\ life[p] \in {"listening", "routed"}
  /\ life' = [life EXCEPT ![p] = "closing"]
  /\ cleanup' = IF SocketsOf(p) # {} THEN cleanup \cup {p} ELSE cleanup
  /\ UNCHANGED <<starts, vscode, req, at, sockets, mints>>

\* Mutated form: any socket that closes clears the timer.
HangUpClearing(r) ==
  /\ r \in sockets
  /\ sockets' = sockets \ {r}
  /\ cleanup' = cleanup \ {at[r]}
  /\ UNCHANGED <<life, starts, vscode, req, at, mints>>

\* A connection ends by itself; the last one takes the timer with it.
HangUp(r) ==
  /\ r \in sockets
  /\ sockets' = sockets \ {r}
  /\ cleanup' = IF SocketsOf(at[r]) = {r} THEN cleanup \ {at[r]} ELSE cleanup
  /\ UNCHANGED <<life, starts, vscode, req, at, mints>>

CleanUp(p) ==
  /\ p \in cleanup
  /\ cleanup' = cleanup \ {p}
  /\ sockets' = sockets \ SocketsOf(p)
  /\ UNCHANGED <<life, starts, vscode, req, at, mints>>

\* server.close() calls back once every connection has ended.
Closed(p) ==
  /\ life[p] = "closing" /\ SocketsOf(p) = {}
  /\ life' = [life EXCEPT ![p] = "closed"]
  /\ UNCHANGED <<starts, vscode, req, at, sockets, cleanup, mints>>

\* External: the process exits, or is killed, and another takes its place.
Exit(p) ==
  /\ life[p] # "off"
  /\ life' = [life EXCEPT ![p] = "off"]
  /\ vscode' = [vscode EXCEPT ![p] = "none"]
  /\ mint' = [mint EXCEPT ![p] = "none"]
  /\ key' = [key EXCEPT ![p] = None]
  /\ astray' = astray \ {p}
  /\ rough' = (rough \/ mint[p] = "filling")
  /\ req' = [r \in Requests |->
               IF at[r] = p /\ req[r] \in {"idle", "loading", "minting"} THEN "failed" ELSE req[r]]
  /\ sockets' = sockets \ SocketsOf(p)
  /\ cleanup' = cleanup \ {p}
  /\ UNCHANGED <<starts, at, made, keyFile, answer, misled>>

----------------------------------------------------------------------------
(* Requests.                                                               *)

Connect(r, p) ==
  /\ req[r] = "new" /\ life[p] \in {"listening", "routed"}
  /\ req' = [req EXCEPT ![r] = "idle"]
  /\ at' = [at EXCEPT ![r] = p]
  /\ sockets' = sockets \cup {r}
  /\ UNCHANGED <<life, starts, vscode, cleanup, mints>>

\* Until the routes are there, everything is 404.
NotFound(r) ==
  /\ req[r] = "idle" /\ r \in sockets /\ life[at[r]] = "listening"
  /\ req' = [req EXCEPT ![r] = "failed"]
  /\ UNCHANGED <<life, starts, vscode, at, sockets, cleanup, mints>>

\* Mutated form: nobody waits for the load.
LoadUnawaited(r) ==
  LET p == at[r] IN
  /\ r \in Pages /\ req[r] = "idle" /\ r \in sockets /\ life[p] \in {"routed", "closing"}
  /\ req' = [req EXCEPT ![r] = "answered"]
  /\ vscode' = [vscode EXCEPT ![p] = IF @ = "none" THEN "loading" ELSE @]
  /\ UNCHANGED <<life, starts, at, sockets, cleanup, mints>>

\* ensureVSCodeLoaded up to its await.
Load(r) ==
  LET p == at[r] IN
  /\ r \in Pages /\ req[r] = "idle" /\ r \in sockets /\ life[p] \in {"routed", "closing"}
  /\ req' = [req EXCEPT ![r] = IF vscode[p] = "loaded" THEN "answered" ELSE "loading"]
  /\ vscode' = [vscode EXCEPT ![p] = IF @ = "none" THEN "loading" ELSE @]
  /\ UNCHANGED <<life, starts, at, sockets, cleanup, mints>>

Waiting(p) == {r \in Pages : at[r] = p /\ req[r] = "loading"}

\* Mutated form: the promise that was rejected is kept.
LoadedKeeping(p) ==
  /\ vscode[p] = "loading"
  /\ \E ok \in BOOLEAN :
       /\ vscode' = [vscode EXCEPT ![p] = IF ok THEN "loaded" ELSE "rejected"]
       /\ req' = [r \in Requests |->
                    IF r \notin Waiting(p) THEN req[r] ELSE IF ok THEN "answered" ELSE "failed"]
  /\ UNCHANGED <<life, starts, at, sockets, cleanup, mints>>

\* VS Code is there, or could not be loaded, in which case the promise is
\* unset.  All who await it go on before another request is looked at.
Loaded(p) ==
  /\ vscode[p] = "loading"
  /\ \E ok \in BOOLEAN :
       /\ vscode' = [vscode EXCEPT ![p] = IF ok THEN "loaded" ELSE "none"]
       /\ req' = [r \in Requests |->
                    IF r \notin Waiting(p) THEN req[r] ELSE IF ok THEN "answered" ELSE "failed"]
  /\ UNCHANGED <<life, starts, at, sockets, cleanup, mints>>

----------------------------------------------------------------------------
(* /mint-key.                                                              *)

Mint(r) ==
  LET p == at[r] IN
  /\ r \in Mints /\ req[r] = "idle" /\ r \in sockets /\ life[p] \in {"routed", "closing"}
  /\ \/ /\ mint[p] = "done"
        /\ req' = [req EXCEPT ![r] = "answered"]
        /\ answer' = [answer EXCEPT ![r] = key[p]]
        /\ misled' = IF p \in astray THEN misled \cup {r} ELSE misled
        /\ UNCHANGED mint
     \/ /\ mint[p] # "done"
        /\ req' = [req EXCEPT ![r] = "minting"]
        /\ mint' = [mint EXCEPT ![p] = IF @ = "none" THEN "reading" ELSE @]
        /\ UNCHANGED <<answer, misled>>
  /\ UNCHANGED <<life, starts, vscode, at, sockets, cleanup, key, made, keyFile, astray, rough>>

\* The promise is resolved, and everyone who awaits it has the key.
Minted(p, k) ==
  LET waiting == {r \in Mints : at[r] = p /\ req[r] = "minting"} IN
  /\ mint' = [mint EXCEPT ![p] = "done"]
  /\ key' = [key EXCEPT ![p] = k]
  /\ req' = [r \in Requests |-> IF r \in waiting THEN "answered" ELSE req[r]]
  /\ answer' = [r \in Mints |-> IF r \in waiting THEN k ELSE answer[r]]
  /\ misled' = IF p \in astray' THEN misled \cup waiting ELSE misled

OtherMakers(p) == {q \in Procs \ {p} : Making(q)}

\* A key is drawn, and about to be written.
Draw(p) ==
  /\ made' = made + 1
  /\ key' = [key EXCEPT ![p] = made']
  /\ mint' = [mint EXCEPT ![p] = "emptying"]
  /\ astray' = IF OtherMakers(p) = {} THEN astray ELSE astray \cup OtherMakers(p) \cup {p}
  /\ UNCHANGED <<req, answer, misled>>

\* Whatever the file holds is the key; without a file, or if it cannot be
\* read, one is made.
MintRead(p) ==
  /\ mint[p] = "reading"
  /\ \/ /\ keyFile # None
        /\ astray' = IF OtherMakers(p) = {} THEN astray ELSE astray \cup {p}
        /\ Minted(p, keyFile)
        /\ UNCHANGED <<made, rough>>
     \/ Draw(p) /\ rough' = (rough \/ keyFile # None)
  /\ UNCHANGED <<life, starts, vscode, at, sockets, cleanup, keyFile>>

\* Mutated form: the key is handed out and not kept.
MintForgetting(p) ==
  /\ mint[p] = "emptying"
  /\ UNCHANGED <<life, starts, vscode, at, sockets, cleanup, made, keyFile, astray, rough>>
  /\ Minted(p, key[p])

\* fs.writeFile creates, or empties, the file, or fails, which is logged.
MintTruncate(p) ==
  /\ mint[p] = "emptying"
  /\ \/ /\ keyFile' = Empty
        /\ mint' = [mint EXCEPT ![p] = "filling"]
        /\ UNCHANGED <<key, req, answer, astray, misled>>
     \/ /\ astray' = astray \cup {p}
        /\ Minted(p, key[p])
        /\ UNCHANGED keyFile
  /\ UNCHANGED <<life, starts, vscode, at, sockets, cleanup, made, rough>>

\* It fills it, or fails.
MintFill(p) ==
  /\ mint[p] = "filling"
  /\ \/ keyFile' = key[p] /\ UNCHANGED rough
     \/ rough' = TRUE /\ UNCHANGED keyFile
  /\ UNCHANGED <<life, starts, vscode, at, sockets, cleanup, made, astray>>
  /\ Minted(p, key[p])

----------------------------------------------------------------------------
MintStep(p) == MintRead(p) \/ MintTruncate(p) \/ MintFill(p)

Next ==
  \/ \E p \in Procs : \/ Listen(p) \/ Register(p) \/ Dispose(p) \/ CleanUp(p) \/ Closed(p)
                      \/ Exit(p) \/ Loaded(p) \/ MintStep(p)
  \/ \E r \in Requests : \/ HangUp(r) \/ NotFound(r) \/ Load(r) \/ Mint(r)
                         \/ \E p \in Procs : Connect(r, p)

Spec == Init /\ [][Next]_vars

----------------------------------------------------------------------------
(* Properties.                                                             *)

TypeOK ==
  /\ life \in [Procs -> {"off", "listening", "routed", "closing", "closed"}]
  /\ starts \in 0 .. MaxStarts
  /\ vscode \in [Procs -> {"none", "loading", "loaded"}]
  /\ mint \in [Procs -> {"none", "reading", "emptying", "filling", "done"}]
  /\ key \in [Procs -> Keys \cup {None, Empty}]
  /\ made \in 0 .. MaxStarts
  /\ keyFile \in Keys \cup {None, Empty}
  /\ req \in [Requests -> {"new", "idle", "loading", "minting", "answered", "failed"}]
  /\ at \in [Requests -> Procs \cup {None}]
  /\ answer \in [Mints -> Keys \cup {None, Empty}]
  /\ sockets \subseteq Requests
  /\ cleanup \subseteq Procs
  /\ astray \subseteq Procs /\ misled \subseteq Mints
  /\ rough \in BOOLEAN

\* Every browser is given one and the same key, that of the file, by every
\* process, now and after restarts.  Excepted are those who ask a process that
\* has looked for the key while another made one, has made one while another
\* did, or could not begin to store it; and everything after a process could
\* not read the key that is there, or was killed or failed between emptying
\* the file and filling it (vscode.ts 212-238).
OneKey ==
  ~rough => \A r \in Mints \ misled :
    req[r] = "answered" => answer[r] = keyFile /\ answer[r] \in Keys

\* A page waits only for a load that is under way, so a load that has failed
\* is tried again, and what it is served with is there: `vscodeServer!`
\* (vscode.ts 89-116, 241, 250).
PagesAreBacked ==
  \A r \in Pages :
    /\ req[r] = "loading" => vscode[at[r]] = "loading"
    /\ req[r] = "answered" /\ r \in sockets => vscode[at[r]] = "loaded"

\* While a process is being disposed of with connections left, the timer that
\* ends them is armed, in whatever order they come and go (http.ts 251-296).
HangingIsTimed == \A p \in Procs : life[p] = "closing" /\ SocketsOf(p) # {} => p \in cleanup

============================================================================
