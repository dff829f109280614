-------------------------- MODULE EditorSessions --------------------------
(***************************************************************************)
(* The registry of editor sessions in src/src/node/vscodeSocket.ts.  Every *)
(* extension host of VS Code registers the socket it listens on, and the   *)
(* command line asks the registry for the best socket to open a file with. *)
(*                                                                         *)
(* A lookup works on a snapshot of the registry and tries one socket after *)
(* the other, so registrations, terminations and other lookups interleave  *)
(* with it.  The order of the entries in the Map is kept as the number of  *)
(* their registration.                                                     *)
(***************************************************************************)
EXTENDS Naturals

CONSTANTS Hosts,    (* extension hosts; each has a socket path of its own   *)
          Lookups,  (* runs of getConnectedSocketPath                       *)
          Files,    (* the paths that are asked for                         *)
          NoHost

ASSUME NoHostAssumption == NoHost \notin Hosts
ASSUME FilesAssumption == Files # {}

VARIABLES
  host,     (* "new", "up" (its socket accepts connections) or "exited"     *)
  folders,  (* the files inside the workspace folders of each host          *)
  bare,     (* hosts of windows without a folder, which have no workspace    *)
  posts,    (* requests of the hosts that the server has not handled        *)
  entries,  (* the keys of EditorSessionManager.entries                     *)
  stamp,    (* when each host was registered, 0 for never                   *)
  clock,    (* the number of the last registration                          *)
  lookup    (* the local variables of each lookup                           *)

registry == <<entries, stamp, clock>>
vars == <<host, folders, bare, posts, registry, lookup>>

Posts == [what : {"add", "delete"}, from : Hosts]

Idle == [stage |-> "idle", file |-> CHOOSE f \in Files : TRUE,
         candidates |-> {}, left |-> {}, gone |-> {}, at |-> NoHost, ok |-> FALSE]

Init ==
  /\ host = [h \in Hosts |-> "new"]
  /\ folders = [h \in Hosts |-> {}]
  /\ bare = {} /\ posts = {} /\ entries = {}
  /\ stamp = [h \in Hosts |-> 0] /\ clock = 0
  /\ lookup = [q \in Lookups |-> Idle]

----------------------------------------------------------------------------
(* The extension hosts.                                                    *)

\* The host listens on its socket and posts one /add-session, with the folders
\* of its workspace, if it has one.
StartHost(h) ==
  /\ host[h] = "new"
  /\ host' = [host EXCEPT ![h] = "up"]
  /\ \/ \E F \in SUBSET Files : folders' = [folders EXCEPT ![h] = F] /\ UNCHANGED bare
     \/ bare' = bare \cup {h} /\ UNCHANGED folders
  /\ posts' = posts \cup {[what |-> "add", from |-> h]}
  /\ UNCHANGED <<registry, lookup>>

\* onTerminate: the host goes away and posts one /delete-session.
TerminateHost(h) ==
  /\ host[h] = "up"
  /\ host' = [host EXCEPT ![h] = "exited"]
  /\ posts' = posts \cup {[what |-> "delete", from |-> h]}
  /\ UNCHANGED <<folders, bare, registry, lookup>>

\* It is killed, or ends before its request is out.
CrashHost(h) ==
  /\ host[h] = "up"
  /\ host' = [host EXCEPT ![h] = "exited"]
  /\ UNCHANGED <<folders, bare, posts, registry, lookup>>

\* A request that does not reach the server is not repeated.
LosePost == \E p \in posts :
  /\ posts' = posts \ {p}
  /\ UNCHANGED <<host, folders, bare, registry, lookup>>

----------------------------------------------------------------------------
(* The registry.  Requests come over connections of their own, in any      *)
(* order.                                                                  *)

\* Mutated form: the clock is not advanced.
AddUnnumbered(h) ==
  /\ [what |-> "add", from |-> h] \in posts
  /\ posts' = posts \ {[what |-> "add", from |-> h]}
  /\ entries' = entries \cup {h}
  /\ stamp' = [stamp EXCEPT ![h] = clock + 1]
  /\ UNCHANGED <<clock, host, folders, bare, lookup>>

\* POST /add-session: a Map puts a new key last, and keeps the place of a key
\* that it holds.
AddSession(h) ==
  /\ [what |-> "add", from |-> h] \in posts
  /\ posts' = posts \ {[what |-> "add", from |-> h]}
  /\ entries' = entries \cup {h}
  /\ IF h \in entries THEN UNCHANGED <<stamp, clock>>
     ELSE clock' = clock + 1 /\ stamp' = [stamp EXCEPT ![h] = clock + 1]
  /\ UNCHANGED <<host, folders, bare, lookup>>

\* Mutated form: the entry of the latest registration is the one deleted.
DeleteLatest(h) ==
  /\ [what |-> "delete", from |-> h] \in posts
  /\ posts' = posts \ {[what |-> "delete", from |-> h]}
  /\ entries' = {g \in entries : \E e \in entries : stamp[g] < stamp[e]}
  /\ UNCHANGED <<host, folders, bare, stamp, clock, lookup>>

\* POST /delete-session.
DeleteSession(h) ==
  /\ [what |-> "delete", from |-> h] \in posts
  /\ posts' = posts \ {[what |-> "delete", from |-> h]}
  /\ entries' = entries \ {h}
  /\ UNCHANGED <<host, folders, bare, stamp, clock, lookup>>

----------------------------------------------------------------------------
(* Lookups.                                                                *)

\* getCandidatesForFile: matches first, and the most recent of them first.
Ahead(file, g, h) ==
  \/ file \in folders[g] /\ file \notin folders[h]
  \/ (file \in folders[g] <=> file \in folders[h]) /\ stamp[g] > stamp[h]

Best(file, h, S) == h \in S /\ \A g \in S \ {h} : Ahead(file, h, g)

\* The next turn of the loop: connect to the best candidate that is left, or
\* answer with undefined.  The outcome of the connection is fixed when it is
\* made, and reaches the lookup later.
Try(q, l, S) ==
  \/ /\ S = {}
     /\ lookup' = [lookup EXCEPT ![q] =
          [l EXCEPT !.stage = "answered", !.left = {}, !.at = NoHost]]
  \/ \E h \in S :
     /\ Best(l.file, h, S)
     /\ lookup' = [lookup EXCEPT ![q] =
          [l EXCEPT !.stage = "trying", !.left = S, !.at = h, !.ok = (host[h] = "up")]]

\* Two entries or more are compared with each other, and one without a
\* workspace cannot be.
Incomparable(S) == S \cap bare # {} /\ \E g, h \in S : g # h

\* GET /session: the candidates are a snapshot of the entries; or the request
\* fails, before any socket has been tried.
Ask(q, file) ==
  /\ lookup[q].stage = "idle"
  /\ IF Incomparable(entries)
     THEN lookup' = [lookup EXCEPT ![q].stage = "failed", ![q].file = file]
     ELSE Try(q, [Idle EXCEPT !.file = file, !.candidates = entries,
                                !.gone = {h \in Hosts : host[h] = "exited"}], entries)
  /\ UNCHANGED <<host, folders, bare, posts, registry>>

\* Mutated form: a candidate that failed is not deleted.
SettleWithoutDelete(q) ==
  /\ lookup[q].stage = "trying"
  /\ LET l == lookup[q] IN
     \/ /\ l.ok
        /\ lookup' = [lookup EXCEPT ![q].stage = "answered"]
     \/ /\ ~l.ok
        /\ Try(q, l, l.left \ {l.at})
  /\ UNCHANGED <<host, folders, bare, posts, registry>>

\* canConnect answers: that candidate it is, or it is deleted and the next
\* one is tried.
Settle(q) ==
  /\ lookup[q].stage = "trying"
  /\ LET l == lookup[q] IN
     \/ /\ l.ok
        /\ lookup' = [lookup EXCEPT ![q].stage = "answered"]
        /\ UNCHANGED entries
     \/ /\ ~l.ok
        /\ entries' = entries \ {l.at}
        /\ Try(q, l, l.left \ {l.at})
  /\ UNCHANGED <<host, folders, bare, posts, stamp, clock>>

\* openInExistingInstance: the request reaches the host, or it has gone.
Open(q) ==
  /\ lookup[q].stage = "answered" /\ lookup[q].at # NoHost
  /\ lookup' = [lookup EXCEPT ![q].stage =
       IF host[lookup[q].at] = "up" THEN "opened" ELSE "refused"]
  /\ UNCHANGED <<host, folders, bare, posts, registry>>

----------------------------------------------------------------------------
HostStep(h) == StartHost(h) \/ TerminateHost(h) \/ CrashHost(h)
ServerStep(h) == AddSession(h) \/ DeleteSession(h)
LookupStep(q) == Settle(q) \/ Open(q) \/ \E file \in Files : Ask(q, file)

Next ==
  \/ LosePost
  \/ \E h \in Hosts : HostStep(h) \/ ServerStep(h)
  \/ \E q \in Lookups : LookupStep(q)

Spec == Init /\ [][Next]_vars

----------------------------------------------------------------------------
(* Properties.                                                             *)

Stages == {"idle", "trying", "answered", "opened", "refused", "failed"}

TypeOK ==
  /\ host \in [Hosts -> {"new", "up", "exited"}]
  /\ folders \in [Hosts -> SUBSET Files]
  /\ bare \subseteq Hosts /\ posts \subseteq Posts
  /\ entries \subseteq Hosts
  /\ stamp \in [Hosts -> 0 .. clock] /\ clock \in Nat
  /\ lookup \in [Lookups -> [stage : Stages, file : Files,
       candidates : SUBSET Hosts, left : SUBSET Hosts, gone : SUBSET Hosts,
       at : Hosts \cup {NoHost}, ok : BOOLEAN]]

Answered(q) == lookup[q].stage \in {"answered", "opened", "refused"}

\* "Returns the best socket path that we can connect to" (vscodeSocket.ts
\* 128), whatever happens during the lookup: the answer was registered and
\* running when the lookup began, and every host that was registered then and
\* would have been better is gone.
AnswerIsBest ==
  \A q \in Lookups : Answered(q) /\ lookup[q].at # NoHost =>
    /\ lookup[q].at \in lookup[q].candidates \ lookup[q].gone
    /\ \A g \in lookup[q].candidates :
         Ahead(lookup[q].file, g, lookup[q].at) => host[g] = "exited"

\* "We also delete any sockets that we can't connect to": a lookup without
\* an answer leaves nothing of what it looked at, and all of it was stale.
NoneIsHonest ==
  \A q \in Lookups : Answered(q) /\ lookup[q].at = NoHost =>
    \A g \in lookup[q].candidates : host[g] = "exited" /\ g \notin entries

\* An answer, and the lack of one, are right about the hosts that were known
\* when the lookup began, whatever happened since (vscodeSocket.ts 127-144).
AnswerIsHonest == AnswerIsBest /\ NoneIsHonest

\* A host that was registered stays registered as long as it runs: it posts
\* /add-session once, so nothing would bring it back.
RunningStaysListed ==
  \A h \in Hosts : host[h] = "up" /\ stamp[h] > 0 => h \in entries

============================================================================
