------------------------------ MODULE Settings ------------------------------
(***************************************************************************)
(* coder.json: SettingsProvider of src/src/node/settings.ts, and those who *)
(* use it, the page loads of routes/vscode.ts and the UpdateProvider of    *)
(* update.ts.  A write reads the file, merges, and calls fs.writeFile,     *)
(* which empties the file and then fills it: other requests run in between *)
(* and the process may be killed there.  A read that fails gives no        *)
(* settings, and a write goes on with these.                               *)
(***************************************************************************)
EXTENDS Naturals

CONSTANTS Loads,       (* requests for the editor page                     *)
          Checks,      (* requests of /update/check                        *)
          Folders,     (* what a page load may open                        *)
          MaxRelease,  (* bound: releases published                        *)
          MaxCrashes,  (* bound: times the process is killed               *)
          Unset, Empty, Corrupt, Unknown

ASSUME SettingsAssumption ==
  /\ MaxRelease \in Nat \ {0} /\ MaxCrashes \in Nat
  /\ Loads \cap Checks = {}
  /\ {Unset, Empty, Corrupt, Unknown} \cap (Folders \cup Nat) = {}
  /\ Unset \notin Loads \cup Checks
  /\ Unset # Unknown /\ Empty # Corrupt

Tasks == Loads \cup Checks
Releases == 1 .. MaxRelease
Stored == [query : Folders \cup {Unset}, update : Releases \cup {Unset}]
Blank == [query |-> Unset, update |-> Unset]

ASSUME StoredAssumption == Empty \notin Stored /\ Corrupt \notin Stored

VARIABLES
  file,    (* the settings it holds, Empty (or absent), or Corrupt          *)
  pc,      (* where each request is                                         *)
  value,   (* what it will write, and then the answer                       *)
  next,    (* nextSettings of its write                                     *)
  running, (* the check whose promise is in `update`, or Unset              *)
  latest,  (* external: the latest release                                  *)
  saved,   (* history: what the last write of each key wrote                *)
  spoilt,  (* history: "overlap" of writes, and the "fault" of one         *)
  misread, (* history: requests whose write has failed to read settings    *)
  wiped,   (* history: keys dropped by such a write, and not written since *)
  crashes

histories == <<saved, spoilt, misread, wiped>>
vars == <<file, pc, value, next, running, latest, histories, crashes>>

Writing == {t \in Tasks : pc[t] \in {"emptying", "filling"}}

Init ==
  /\ file = Empty
  /\ pc = [t \in Tasks |-> "new"]
  /\ value = [t \in Tasks |-> Unset]
  /\ next = [t \in Tasks |-> Blank]
  /\ running = Unset
  /\ latest = 1
  /\ saved = Blank
  /\ spoilt = {}
  /\ misread = {}
  /\ wiped = {}
  /\ crashes = 0

----------------------------------------------------------------------------
(* SettingsProvider.                                                       *)

\* What read() finds in the file: what cannot be parsed is no settings at all.
Parsed == IF file \in {Empty, Corrupt} THEN Blank ELSE file

\* What read() returns: the same for a file that cannot be read.
ReadResults == {Parsed, Blank}

Keys == {"query", "update"}
KeyOf(t) == IF t \in Loads THEN "query" ELSE "update"
With(settings, t) == [settings EXCEPT ![KeyOf(t)] = value[t]]

\* Mutated form: what the file holds is not kept.
MergeNothing(t) ==
  /\ pc[t] = "merging"
  /\ next' = [next EXCEPT ![t] = With(Blank, t)]
  /\ pc' = [pc EXCEPT ![t] = "emptying"]
  /\ spoilt' = IF Writing = {} THEN spoilt ELSE spoilt \cup {"overlap"}
  /\ UNCHANGED <<file, value, running, latest, saved, misread, wiped, crashes>>

\* write() reads and merges, with whatever read() returns.
Merge(t) ==
  /\ pc[t] = "merging"
  /\ \E old \in ReadResults :
       /\ next' = [next EXCEPT ![t] = With(old, t)]
       /\ misread' = IF old = Parsed THEN misread ELSE misread \cup {t}
  /\ pc' = [pc EXCEPT ![t] = "emptying"]
  /\ spoilt' = IF Writing = {} THEN spoilt ELSE spoilt \cup {"overlap"}
  /\ UNCHANGED <<file, value, running, latest, saved, wiped, crashes>>

\* A request ends with an answer, and so does every check that has joined it;
\* `update` is cleared for the next one.
Answered(t, v) ==
  LET ends == {t} \cup {u \in Checks : pc[u] = "joined" /\ running = t} IN
  /\ pc' = [u \in Tasks |-> IF u \in ends THEN "done" ELSE pc[u]]
  /\ value' = [u \in Tasks |-> IF u \in ends THEN v ELSE value[u]]
  /\ running' = IF running = t THEN Unset ELSE running

\* fs.writeFile opens with "w", which empties the file, or fails.
Truncate(t) ==
  /\ pc[t] = "emptying"
  /\ \/ /\ file' = Empty
        /\ pc' = [pc EXCEPT ![t] = "filling"]
        /\ UNCHANGED <<value, running>>
     \/ Answered(t, value[t]) /\ UNCHANGED file
  /\ UNCHANGED <<next, latest, histories, crashes>>

\* It then writes from the start of the file, which leaves the rest of
\* something longer behind, or fails.
Fill(t) ==
  /\ pc[t] = "filling"
  /\ \/ /\ file' \in {next[t]} \cup (IF file \in {Empty, next[t]} THEN {} ELSE {Corrupt})
        /\ saved' = With(saved, t)
        /\ wiped' = (IF t \in misread THEN Keys ELSE wiped) \ {KeyOf(t)}
        /\ UNCHANGED spoilt
     \/ /\ spoilt' = spoilt \cup {"fault"}
        /\ UNCHANGED <<file, saved, wiped>>
  /\ Answered(t, value[t])
  /\ UNCHANGED <<next, latest, misread, crashes>>

----------------------------------------------------------------------------
(* The editor page (routes/vscode.ts 114-172), asked for by a user who is  *)
(* logged in, without a folder on the command line.                        *)

\* With a folder in the query, or with "ew", which clears the last one.
LoadFolder(t, f) ==
  /\ pc[t] = "new"
  /\ value' = [value EXCEPT ![t] = f]
  /\ pc' = [pc EXCEPT ![t] = "merging"]
  /\ UNCHANGED <<file, next, running, latest, histories, crashes>>

\* Without one, the last folder is looked up: the browser is sent there, and
\* comes back with a request of the kind above, or the empty query is stored,
\* over the folder that a failed read has not found.
LoadLast(t) ==
  /\ pc[t] = "new"
  /\ \E settings \in ReadResults :
       pc' = [pc EXCEPT ![t] = IF settings.query = Unset THEN "merging" ELSE "done"]
  /\ UNCHANGED <<file, value, next, running, latest, histories, crashes>>

----------------------------------------------------------------------------
(* UpdateProvider.                                                         *)

\* Mutated form: nobody joins a check that is running.
GetUpdateAlone(t, force) ==
  /\ pc[t] = "new"
  /\ running' = t
  /\ pc' = [pc EXCEPT ![t] = IF force THEN "asking" ELSE "cached"]
  /\ UNCHANGED <<file, value, next, latest, histories, crashes>>

\* getUpdate(): one at a time; who comes while one is running gets its
\* answer, forced or not.
GetUpdate(t, force) ==
  /\ pc[t] = "new"
  /\ \/ /\ running = Unset
        /\ running' = t
        /\ pc' = [pc EXCEPT ![t] = IF force THEN "asking" ELSE "cached"]
     \/ /\ running # Unset
        /\ pc' = [pc EXCEPT ![t] = "joined"]
        /\ UNCHANGED running
  /\ UNCHANGED <<file, value, next, latest, histories, crashes>>

\* What is stored will do, unless there is none or it is a day old.
Cached(t) ==
  /\ pc[t] = "cached"
  /\ \/ Parsed.update # Unset /\ Answered(t, Parsed.update)
     \/ pc' = [pc EXCEPT ![t] = "asking"] /\ UNCHANGED <<value, running>>
  /\ UNCHANGED <<file, next, latest, histories, crashes>>

\* Mutated form: a failure is stored as if it were a release.
AskStoring(t) ==
  /\ pc[t] = "asking"
  /\ \E v \in {latest, Unknown} : value' = [value EXCEPT ![t] = v]
  /\ pc' = [pc EXCEPT ![t] = "merging"]
  /\ UNCHANGED <<running, file, next, latest, histories, crashes>>

\* The release is fetched and stored, or the answer is "unknown".
Ask(t) ==
  /\ pc[t] = "asking"
  /\ \/ /\ value' = [value EXCEPT ![t] = latest]
        /\ pc' = [pc EXCEPT ![t] = "merging"]
        /\ UNCHANGED running
     \/ Answered(t, Unknown)
  /\ UNCHANGED <<file, next, latest, histories, crashes>>

\* External: a release is published.
Publish ==
  /\ latest < MaxRelease
  /\ latest' = latest + 1
  /\ UNCHANGED <<file, pc, value, next, running, histories, crashes>>

\* External: the process is killed and starts again; its requests fail.
Crash ==
  /\ crashes < MaxCrashes
  /\ crashes' = crashes + 1
  /\ spoilt' = IF \E t \in Tasks : pc[t] = "filling" THEN spoilt \cup {"fault"} ELSE spoilt
  /\ pc' = [t \in Tasks |-> IF pc[t] \in {"new", "done"} THEN pc[t] ELSE "failed"]
  /\ running' = Unset
  /\ UNCHANGED <<file, value, next, latest, saved, misread, wiped>>

----------------------------------------------------------------------------
WriteStep(t) == Merge(t) \/ Truncate(t) \/ Fill(t)

Next ==
  \/ \E t \in Loads : LoadLast(t) \/ \E f \in Folders \cup {Unset} : LoadFolder(t, f)
  \/ \E t \in Checks : Cached(t) \/ Ask(t) \/ \E force \in BOOLEAN : GetUpdate(t, force)
  \/ \E t \in Tasks : WriteStep(t)
  \/ Publish \/ Crash

Spec == Init /\ [][Next]_vars

----------------------------------------------------------------------------
(* Properties.                                                             *)

TypeOK ==
  /\ file \in Stored \cup {Empty, Corrupt}
  /\ pc \in [Tasks -> {"new", "cached", "asking", "joined", "merging", "emptying",
                       "filling", "done", "failed"}]
  /\ value \in [Tasks -> Folders \cup Releases \cup {Unset, Unknown}]
  /\ next \in [Tasks -> Stored]
  /\ running \in Checks \cup {Unset}
  /\ latest \in Releases
  /\ saved \in Stored /\ spoilt \subseteq {"overlap", "fault"}
  /\ misread \subseteq Tasks /\ wiped \subseteq Keys
  /\ crashes \in 0 .. MaxCrashes

Filling == {t \in Tasks : pc[t] = "filling"}

\* Unless writes overlap, or one fails or is killed after the file was
\* emptied, the file holds what was last written to each key, but for keys
\* that the write of another one has dropped because it could not read the
\* file, and that have not been written since.  (The comment of settings.ts
\* 14-15 promises the last known settings there; the code has none, 26.)
SettingsKept ==
  spoilt = {} /\ Filling = {} => \A k \in Keys \ wiped : Parsed[k] = saved[k]

\* Only writes that overlap leave a file that cannot be parsed: failures and
\* kills do not (settings.ts 33-41).
NeverGarbled == file = Corrupt => "overlap" \in spoilt

\* Settings are lost or garbled only where two writes overlap, one fails or is
\* killed after it has emptied the file, or one could not read the file, and
\* then only the keys that it does not write (settings.ts 17-41).
SettingsSurvive == SettingsKept /\ NeverGarbled

\* "Don't run multiple requests at a time" (update.ts 42): whichever way a
\* check ends, there is one at most from its first read to its last write.
OneRequest ==
  \A t \in Checks :
    pc[t] \in {"cached", "asking", "merging", "emptying", "filling"} => running = t

============================================================================
