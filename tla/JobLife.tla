-------------------------------- MODULE JobLife --------------------------------
(***************************************************************************)
(* What the engine promises about transfers, whatever its tasks, handlers  *)
(* and channels do: the life of each job.  Several jobs may move in one    *)
(* step, since the end of one lets others start.                           *)
(***************************************************************************)
EXTENDS Integers

VARIABLES
    live,       \* the connected sessions
    used,       \* the ids of all jobs so far
    status,     \* job -> status, of the jobs that are there
    owner,      \* job -> session
    asked       \* the running jobs that were asked to stop

vars == <<live, used, status, owner, asked>>

Init ==
    /\ live = {} /\ used = {} /\ asked = {}
    /\ status = [id \in {} |-> ""]
    /\ owner = [id \in {} |-> 0]

Is(id, st) == id \in DOMAIN status /\ status[id] \in st
Becomes(id, st) == id \in DOMAIN status' /\ status'[id] \in st

Active == {"Queued", "InProgress"}

(* A new job has a new id, belongs to a live session, waits or runs. *)
Appears(id) == id \notin used /\ Becomes(id, Active) /\ owner'[id] \in live /\ id \notin asked'

(* A queued job starts, is withdrawn, or is given up with its session. *)
Starts(id) == Is(id, {"Queued"}) /\ Becomes(id, {"InProgress"}) /\ owner[id] \in live /\ id \notin asked'
Withdrawn(id) == Is(id, {"Queued"}) /\ Becomes(id, {"Cancelled"})
Abandoned(id) == Is(id, {"Queued"}) /\ Becomes(id, {"Failed"}) /\ owner[id] \notin live'

(* A running job ends: cancelled exactly if it was asked to stop and did   *)
(* not complete first.  A failed attempt may be made again, but not of a   *)
(* job that was asked to stop.                                             *)
Completes(id) == Is(id, {"InProgress"}) /\ Becomes(id, {"Completed"})
Fails(id) == Is(id, {"InProgress"}) /\ Becomes(id, {"Failed"}) /\ id \notin asked
Stops(id) == Is(id, {"InProgress"}) /\ Becomes(id, {"Cancelled"}) /\ id \in asked
Again(id) == Is(id, {"InProgress"}) /\ Becomes(id, {"Queued"}) /\ id \notin asked /\ owner[id] \in live

(* A job that ended without completing may be retried, any that ended may  *)
(* be cleared away.                                                        *)
Retried(id) == Is(id, {"Failed", "Cancelled"}) /\ Becomes(id, Active) /\ owner[id] \in live /\ id \notin asked'
Cleared(id) == Is(id, {"Completed", "Failed", "Cancelled"}) /\ id \notin DOMAIN status'

(* Otherwise nothing happens to it, and a request to stop stands. *)
Stays(id) ==
    /\ id \in DOMAIN status
    /\ Becomes(id, {status[id]})
    /\ id \in asked => id \in asked'

Lives(id) ==
    \/ Appears(id) \/ Starts(id) \/ Withdrawn(id) \/ Abandoned(id)
    \/ Completes(id) \/ Fails(id) \/ Stops(id) \/ Again(id)
    \/ Retried(id) \/ Cleared(id) \/ Stays(id)

(* No job waits for a session that is gone, and one that still runs for it *)
(* has been asked to stop.                                                 *)
LetGo ==
    \A id \in DOMAIN status' :
      /\ status'[id] = "Queued" => owner'[id] \in live'
      /\ status'[id] = "InProgress" => owner'[id] \in live' \/ id \in asked'

Next ==
    /\ \A id \in DOMAIN status \cup DOMAIN status' : Lives(id)
    /\ \A id \in DOMAIN status \cap DOMAIN status' : owner'[id] = owner[id]
    /\ asked' \subseteq {id \in DOMAIN status' : status'[id] = "InProgress"}
    /\ used' = used \cup DOMAIN status'
    /\ LetGo

Spec == Init /\ [][Next]_vars
=================================================================================
