---------------------------- MODULE Supervisor ----------------------------
(***************************************************************************)
(* What the wrapper of code-server promises about its processes: a         *)
(* supervisor owns one worker at most at a time, every launch takes the    *)
(* place of the previous worker, nothing is launched once the supervisor   *)
(* stops, and a worker whose supervisor crashed does not outlive it for    *)
(* ever.  The comments of src/src/node/wrapper.ts (150-153 and 216-221)    *)
(* say so; module Wrapper is shown to implement it.                        *)
(***************************************************************************)
CONSTANT Workers

VARIABLES
  mode,   (* "idle", "up", "stopping" or "down"                            *)
  owned,  (* the living workers that nobody has told to end                *)
  fresh   (* identities that no worker has had                             *)

vars == <<mode, owned, fresh>>

Init == mode = "idle" /\ owned = {} /\ fresh = Workers

\* The first worker, or the one that takes over from the present one.
Launch == \E w \in fresh :
  /\ mode \in {"idle", "up"}
  /\ mode' = "up"
  /\ owned' = {w}
  /\ fresh' = fresh \ {w}

\* A launch given up at once, before there was anything to serve.
Abandon == \E w \in fresh :
  /\ mode = "idle"
  /\ mode' = "down"
  /\ fresh' = fresh \ {w}
  /\ UNCHANGED owned

\* A worker ends by itself.
Lose == \E w \in owned :
  /\ owned' = owned \ {w}
  /\ UNCHANGED <<mode, fresh>>

\* A stop tells the worker to end.
Stop ==
  /\ mode \in {"idle", "up"}
  /\ mode' \in {"stopping", "down"}
  /\ owned' = {}
  /\ UNCHANGED fresh

Finish ==
  /\ mode = "stopping"
  /\ mode' = "down"
  /\ UNCHANGED <<owned, fresh>>

\* A crash tells nobody.
Crash ==
  /\ mode # "down"
  /\ mode' = "down"
  /\ UNCHANGED <<owned, fresh>>

Next == Launch \/ Abandon \/ Lose \/ Stop \/ Finish \/ Crash

Spec == Init /\ [][Next]_vars

LoseOrphan == mode = "down" /\ Lose

FairSpec == Spec /\ WF_vars(Finish) /\ WF_vars(LoseOrphan)

============================================================================
