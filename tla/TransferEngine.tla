----------------------------- MODULE TransferEngine -----------------------------
(***************************************************************************)
(* The engine of porthmos-core as far as it moves files: one event loop    *)
(* (engine/mod.rs) that handles a front end's commands and the results its *)
(* background tasks send back (engine/handlers/{transfer,sync,history},    *)
(* the disconnect of engine/handlers/connect, tasks/mod.rs).               *)
(*                                                                         *)
(* The engine owns its state and handles one command or one result at a    *)
(* time; what interleaves is the commands, the ends of the tasks and the   *)
(* handling of the results, which wait in the unbounded channel            *)
(* `internal`.  A copy is first a scan (planning), then maybe a review of  *)
(* the files that exist already, then the jobs of a batch; a sync is a     *)
(* scan, a plan the user edits, then a batch for each direction.           *)
(*                                                                         *)
(* Left to other modules or out: progress and the times-not-kept mark      *)
(* (QueueSpec), listings, edits, secrets, profiles, search; when snapshots *)
(* are published.  A task's whole run is one step, its end.                *)
(***************************************************************************)
EXTENDS TransferQueue, SequencesExt

CONSTANTS
    Commands,       \* the commands the front end sends in this instance
    Endings,        \* the unhappy ends of tasks: a subset of {"Failed", "Panicked"}
    CopyPlans,      \* what a copy's scan may find: [files, asks]
    SyncPlans,      \* what a sync's scan may find: [uploads, downloads], files to copy
    PartOf,         \* the path of a path's partial file
    MaxScans,       \* bound: batch ids from which a user's copy or sync may still start
    MaxBatches      \* bound: batch ids handed out

ASSUME SessionsAssumption == Sessions \subseteq Nat     \* u64 ids, handed out in order

(* the lists of files that a scan may find *)
FileLists == Seq([path: Paths, total: Sizes, resume: BOOLEAN])

ASSUME PlansAssumption ==
    /\ \A plan \in CopyPlans : plan.files \in FileLists
    /\ \A plan \in SyncPlans : plan.uploads \in FileLists /\ plan.downloads \in FileLists

VARIABLES
    sessions,       \* Engine::sessions, the live ones
    nextSession,    \* Engine::next_session_id
    transfers,      \* Engine::transfers
    planning,       \* Engine::planning: batch -> the session and direction of its scan
    reviews,        \* Engine::reviews: batch -> the plan that waits for answers
    sync,           \* SyncState: batches being scanned, plans waiting for the user
    tasks,          \* Tasks::live, but for the removals: scope -> task
    cancelled,      \* Tasks::cancelled, the marks
    removals,       \* the remove-partials tasks: parts each has still to remove
    internal,       \* the channel of results
    history,        \* HistoryLog: recorded, counted; and what its entries tell of
    shown,          \* the front end: the questions and sync plans it shows
    stale,          \* the places whose listing misses a completed file
    phase           \* running, stopping (shutdown_work), stopped, dropped

front == <<shown, stale>>
scans == <<planning, reviews, sync>>
vars == <<sessions, nextSession, transfers, planning, reviews, sync, tasks, cancelled,
          removals, internal, history, shown, stale, phase>>

Transfer(id) == <<"Transfer", id>>
Planning(b) == <<"Planning", b>>

Scan(session, direction) == [session |-> session, direction |-> direction]

Task(name, session, direction, files) ==
    [name |-> name, session |-> session, direction |-> direction, files |-> files, cancel |-> FALSE]

Place(session, direction) == IF direction = "Upload" THEN session ELSE Local

Init ==
    /\ sessions = {} /\ nextSession = 0
    /\ transfers = NewQueue
    /\ planning = [b \in {} |-> 0] /\ reviews = [b \in {} |-> 0]
    /\ sync = [scanning |-> {}, plans |-> [b \in {} |-> 0]]
    /\ tasks = [scope \in {} |-> 0] /\ cancelled = {}
    /\ removals = <<>> /\ internal = <<>>
    /\ history = [recorded |-> {}, counted |-> [k \in {} |-> {}], credit |-> [id \in {} |-> 0],
                  interrupted |-> [k \in {} |-> 0]]
    /\ shown = [questions |-> {}, plans |-> {}]
    /\ stale = {} /\ phase = "running"

(***************************************************************************)
(* Helpers on maps, and Tasks::spawn, cancel, forget                       *)
(***************************************************************************)
Without(f, S) == [x \in DOMAIN f \ S |-> f[x]]
With(f, x, v) == [y \in DOMAIN f \cup {x} |-> IF y = x THEN v ELSE f[y]]

Spawned(ts, scope, task) == With(ts, scope, task)

Flagged(ts, scopes) ==
    [scope \in DOMAIN ts |-> IF scope \in scopes THEN [ts[scope] EXCEPT !.cancel = TRUE] ELSE ts[scope]]

Cancel(scopes) ==
    /\ tasks' = Flagged(tasks, scopes)
    /\ cancelled' = cancelled \cup scopes

Forget(scope) == cancelled' = cancelled \ {scope}

(***************************************************************************)
(* History: process_row_changes and record_interrupted.  `credit` counts   *)
(* the entries whose files_done a completed job is part of, `interrupted`  *)
(* the entries written for a row or scan that had not finished.            *)
(***************************************************************************)
Completed(q, kind) == WithStatus(q, JobsOf(q, kind), "Completed")

Counted(h, kind) == IF kind \in DOMAIN h.counted THEN h.counted[kind] ELSE {}

Count(f, x) == IF x \in DOMAIN f THEN f[x] ELSE 0

(* entry_for_row: the entries of these rows tell of the completed jobs     *)
(* that no earlier entry of the row did.                                   *)
Credited(h, q, kinds) ==
    [id \in DOMAIN q.jobs |->
        Count(h.credit, id) + Cardinality({k \in kinds : id \in Completed(q, k) \ Counted(h, k)})]

(* mutant: a reopened row forgets which files were counted *)
RowsRecordedAnew(h, q) ==
    LET finished == {k \in q.changes : KindFinished(q, k)}
        fresh == finished \ h.recorded
    IN  [h EXCEPT
          !.recorded = (@ \ q.changes) \cup finished,
          !.counted = [k \in (DOMAIN h.counted \ q.changes) \cup fresh |->
                        IF k \in fresh THEN Completed(q, k) ELSE h.counted[k]],
          !.credit = Credited(h, q, fresh)]

RowsRecorded(h, q) ==
    LET finished == {k \in q.changes : KindFinished(q, k)}
        fresh == finished \ h.recorded
        gone == {k \in q.changes : ~HasRow(q, k)}
    IN  [h EXCEPT
          !.recorded = (@ \ q.changes) \cup finished,
          !.counted = [k \in (DOMAIN h.counted \ gone) \cup fresh |->
                        IF k \in fresh THEN Completed(q, k) ELSE h.counted[k]],
          !.credit = Credited(h, q, fresh)]

OpenKinds(q) == {q.rows[key].kind : key \in {k \in DOMAIN q.rows : ~RowFinished(q.rows[k])}}

OpenScans == {<<"Scan", b>> : b \in (DOMAIN planning \cup DOMAIN reviews) \ sync.scanning}

Interrupted(h, q) ==
    LET open == (OpenKinds(q) \cup OpenScans) \ h.recorded
    IN  [h EXCEPT
          !.recorded = @ \cup open,
          !.credit = Credited(h, q, open),
          !.interrupted = [k \in DOMAIN @ \cup open |-> Count(@, k) + IF k \in open THEN 1 ELSE 0]]

(***************************************************************************)
(* The end of a handler: the row changes are recorded; before that, the    *)
(* free slots may be filled.                                               *)
(***************************************************************************)
Settle(q) ==
    /\ transfers' = [q EXCEPT !.changes = {}]
    /\ history' = RowsRecorded(history, q)

(* refresh_destination and refresh_destinations_without_pending: the       *)
(* front end lists the place again (LocationChanged).                      *)
Refreshed(st, q, destinations) ==
    st \ {Place(d[1], d[2]) : d \in {e \in destinations : ~HasPending(q, e[1], e[2])}}

DestinationOf(q, id) == <<q.jobs[id].session, q.jobs[id].direction>>

Startable(q) == CHOOSE S \in SUBSET q.queued : IsStartable(q, S)

(* fill_transfer_slots and start_transfer.  A job of a session that is     *)
(* gone fails; no job is queued for one (LetGo of JobLife), so the loop's  *)
(* next round finds nothing.                                               *)
Fill(q, st) ==
    LET go == {id \in Startable(q) : q.jobs[id].session \in sessions}
        dead == Startable(q) \ go
        filled == SetStatus(StartJobs(q, go), dead, "Failed")
    IN  /\ tasks' = [scope \in DOMAIN tasks \cup {Transfer(id) : id \in go} |->
              IF scope \in DOMAIN tasks THEN tasks[scope]
              ELSE Task("transfer", q.jobs[scope[2]].session, q.jobs[scope[2]].direction, <<>>)]
        /\ stale' = Refreshed(st, filled, {DestinationOf(q, id) : id \in dead})
        /\ Settle(filled)

(* apply_plan_ready: the files become jobs of the batch                    *)
ApplyPlan(q, batch, session, direction, files) ==
    Fill(ForgetEmpty(Enqueue(q, session, direction, files, batch), {batch}),
         IF files = <<>> THEN stale \ {Place(session, direction)} ELSE stale)

(***************************************************************************)
(* Commands: copies and conflict reviews                                   *)
(***************************************************************************)
Sent(command) == phase = "running" /\ command \in Commands

(* a batch is opened and its scan started: start_copy_plan, start_sync     *)
StartScan(name, session, direction) ==
    LET b == transfers.nextBatch
    IN  /\ b < MaxScans
        /\ planning' = With(planning, b, Scan(session, direction))
        /\ tasks' = Spawned(tasks, Planning(b), Task(name, session, direction, <<>>))
        /\ Settle(StartBatch(transfers))

(* copy.  The scan's start frees no slot and queues no job, so that the    *)
(* fill_transfer_slots after it finds nothing to start (WorkConserving).   *)
Copy(session, direction) ==
    /\ Sent("Copy")
    /\ session \in sessions
    /\ StartScan("plan-copy", session, direction)
    /\ UNCHANGED <<sessions, nextSession, reviews, sync, cancelled, removals, internal, front, phase>>

(* what the user chooses of a list of files, in its order *)
Chosen(files) ==
    UNION {{[i \in 1..n |-> files[place[i]]] :
              place \in {f \in [1..n -> DOMAIN files] : \A i, j \in 1..n : i < j => f[i] < f[j]}} :
           n \in 0..Len(files)}

Answered(batch) == [shown EXCEPT !.questions = @ \ {batch}]

(* resolve_conflicts with answers: some of the plan's files are copied     *)
ResolveConflicts(batch) ==
    /\ Sent("ResolveConflicts")
    /\ batch \in DOMAIN reviews
    /\ LET review == reviews[batch]
       IN  \E files \in Chosen(review.files) :
             ApplyPlan(transfers, batch, review.session, review.direction, files)
    /\ reviews' = Without(reviews, {batch})
    /\ shown' = Answered(batch)
    /\ UNCHANGED <<sessions, nextSession, planning, sync, cancelled, removals, internal, phase>>

(* resolve_conflicts without answers *)
DeclineConflicts(batch) ==
    /\ Sent("ResolveConflicts")
    /\ batch \in DOMAIN reviews
    /\ Settle(ForgetEmpty(transfers, {batch}))
    /\ stale' = stale \ {Place(reviews[batch].session, reviews[batch].direction)}
    /\ reviews' = Without(reviews, {batch})
    /\ shown' = Answered(batch)
    /\ UNCHANGED <<sessions, nextSession, planning, sync, tasks, cancelled, removals, internal, phase>>

(* mutant: the review goes without ConflictsWithdrawn *)
DropReviewsQuietly(batches) ==
    /\ reviews' = Without(reviews, batches)
    /\ UNCHANGED shown

(* drop_conflict_reviews: what it leaves, and ConflictsWithdrawn           *)
DropReviews(batches) ==
    /\ reviews' = Without(reviews, batches)
    /\ shown' = [shown EXCEPT !.questions = @ \ (batches \cap DOMAIN reviews)]

(* drop_conflict_reviews and drop_sync_plans, with their two events        *)
DropReviewsAndPlans(batches, plans) ==
    /\ reviews' = Without(reviews, batches)
    /\ sync' = [sync EXCEPT !.plans = Without(@, plans)]
    /\ shown' = [questions |-> shown.questions \ batches, plans |-> shown.plans \ plans]

(***************************************************************************)
(* Commands: cancelling, retrying and clearing                             *)
(***************************************************************************)
Work(batches, ids) == {Planning(b) : b \in batches} \cup {Transfer(id) : id \in ids}

(* cancel_all_copies *)
CancelAll ==
    /\ Sent("CancelAllTransfers")
    /\ DropReviewsAndPlans(DOMAIN reviews, DOMAIN sync.plans)
    /\ Cancel(Work(DOMAIN planning, transfers.running))
    /\ LET q == CancelAllQueued(ForgetEmpty(transfers, DOMAIN reviews))
       IN  /\ Settle(q)
           /\ stale' = Refreshed(stale, q, {DestinationOf(q, id) : id \in transfers.queued})
    /\ UNCHANGED <<sessions, nextSession, planning, removals, internal, phase>>

(* mutant: the dropped review's batch keeps its label *)
CancelScanKeepsLabel(batch) ==
    /\ Sent("CancelRow")
    /\ batch \in DOMAIN planning \cup DOMAIN reviews
    /\ Cancel(Work({batch} \cap DOMAIN planning, {}))
    /\ DropReviews({batch})
    /\ UNCHANGED <<sessions, nextSession, transfers, history, planning, sync, removals, internal, stale, phase>>

(* cancel_row of a row that is a scan or a review *)
CancelScan(batch) ==
    /\ Sent("CancelRow")
    /\ batch \in DOMAIN planning \cup DOMAIN reviews
    /\ Cancel(Work({batch} \cap DOMAIN planning, {}))
    /\ DropReviews({batch})
    /\ Settle(ForgetEmpty(transfers, {batch} \cap DOMAIN reviews))
    /\ UNCHANGED <<sessions, nextSession, planning, sync, removals, internal, stale, phase>>

(* cancel_row of a row of jobs *)
CancelRow(kind) ==
    /\ Sent("CancelRow")
    /\ LET queued == JobsOf(transfers, kind) \cap transfers.queued
           q == SetStatus(transfers, queued, "Cancelled")
       IN  /\ Settle(q)
           /\ stale' = Refreshed(stale, q, {DestinationOf(q, id) : id \in queued})
    /\ Cancel(Work({}, JobsOf(transfers, kind) \cap transfers.running))
    /\ UNCHANGED <<sessions, nextSession, scans, removals, internal, shown, phase>>

(* retry_row *)
RetryRow(kind) ==
    LET retryable == {id \in JobsOf(transfers, kind) : IsRetryable(transfers.jobs[id])}
    IN  /\ Sent("RetryRow")
        /\ retryable # {}
        /\ transfers.jobs[Min(retryable)].session \in sessions
        /\ Fill(RetryJobs(transfers, retryable), stale)
        /\ UNCHANGED <<sessions, nextSession, scans, cancelled, removals, internal, shown, phase>>

PartDestination(job) == <<Destination(job)[1], PartOf[Destination(job)[2]]>>

(* destinations_still_in_use *)
InUse(q) ==
    {Destination(q.jobs[id]) : id \in DOMAIN q.jobs}
      \cup {PartDestination(q.jobs[id]) : id \in {i \in DOMAIN q.jobs : IsPending(q.jobs[i])}}

(* clear_finished_rows and remove_partials: the rows go, and the partial   *)
(* files of their interrupted jobs that nothing uses: the local ones at    *)
(* once (some may not exist), the remote ones in a task for each session.  *)
Unused(q, ids) ==
    {PartDestination(q.jobs[id]) : id \in {i \in ids : IsRetryable(q.jobs[i])}} \ InUse(q)

ClearFinished ==
    LET ids == UNION {q.order : q \in {transfers.rows[key] : key \in
                  {k \in DOMAIN transfers.rows : RowFinished(transfers.rows[k])}}}
        unused == Unused(transfers, ids)
        remote == {s \in sessions : \E part \in unused : part[1] = s}
    IN  /\ Sent("ClearFinished")
        /\ Settle(RemoveJobs(transfers, ids))
        /\ removals' = removals \o SetToSeq({[session |-> s, parts |-> {p \in unused : p[1] = s}] : s \in remote})
        /\ \/ stale' = stale
           \/ (\E part \in unused : part[1] = Local) /\ stale' = stale \ {Local}
        /\ UNCHANGED <<sessions, nextSession, scans, tasks, cancelled, internal, shown, phase>>

(***************************************************************************)
(* Commands: syncs                                                         *)
(***************************************************************************)
(* start_sync *)
StartSync(session) ==
    /\ Sent("StartSync")
    /\ session \in sessions
    /\ StartScan("sync-scan", session, "Upload")
    /\ sync' = [sync EXCEPT !.scanning = @ \cup {transfers.nextBatch}]
    /\ UNCHANGED <<sessions, nextSession, reviews, cancelled, removals, internal, front, phase>>

(* the batches of what the user chose of a plan: one for each direction    *)
(* that has files                                                          *)
SyncBatches(session, up, down) ==
    LET Batch(direction, files) ==
          IF files = <<>> \/ session \notin sessions THEN <<>> ELSE <<[direction |-> direction, files |-> files]>>
    IN  Batch("Upload", up) \o Batch("Download", down)

(* start_sync_batch: a task creates the folders of each batch *)
WithFolders(ts, session, first, batches) ==
    LET Batch(b) == batches[b - first + 1]
    IN  [scope \in DOMAIN ts \cup {Planning(b) : b \in first..(first + Len(batches) - 1)} |->
           IF scope \in DOMAIN ts THEN ts[scope]
           ELSE Task("sync-folders", session, Batch(scope[2]).direction, Batch(scope[2]).files)]

(* run_sync *)
RunSync(id) ==
    LET plan == sync.plans[id]
        first == transfers.nextBatch
    IN  /\ Sent("RunSync")
        /\ id \in DOMAIN sync.plans
        /\ \E up \in Chosen(plan.uploads), down \in Chosen(plan.downloads) :
             LET batches == SyncBatches(plan.session, up, down)
                 ids == first..(first + Len(batches) - 1)
             IN  /\ first + Len(batches) <= MaxBatches
                 /\ planning' = [b \in DOMAIN planning \cup ids |->
                      IF b \in ids THEN Scan(plan.session, batches[b - first + 1].direction) ELSE planning[b]]
                 /\ tasks' = WithFolders(tasks, plan.session, first, batches)
                 /\ sync' = [scanning |-> sync.scanning \cup ids, plans |-> Without(sync.plans, {id})]
                 /\ Settle([transfers EXCEPT !.nextBatch = @ + Len(batches), !.batchLabels = @ \cup ids])
        /\ shown' = [shown EXCEPT !.plans = @ \ {id}]
        /\ UNCHANGED <<sessions, nextSession, reviews, cancelled, removals, internal, stale, phase>>

(* cancel_sync: of a scan, or of a plan *)
CancelSyncScan(id) ==
    /\ Sent("CancelSync")
    /\ id \in sync.scanning
    /\ Cancel({Planning(id)})
    /\ UNCHANGED <<sessions, nextSession, transfers, scans, removals, internal, history, front, phase>>

CancelSyncPlan(id) ==
    /\ Sent("CancelSync")
    /\ id \in DOMAIN sync.plans
    /\ sync' = [sync EXCEPT !.plans = Without(@, {id})]
    /\ shown' = [shown EXCEPT !.plans = @ \ {id}]
    /\ UNCHANGED <<sessions, nextSession, transfers, planning, reviews, tasks, cancelled,
                   removals, internal, history, stale, phase>>

(***************************************************************************)
(* Sessions: finish_connect (of a connection made elsewhere) and disconnect*)
(***************************************************************************)
FinishConnect ==
    /\ phase = "running"
    /\ nextSession \in Sessions
    /\ sessions' = sessions \cup {nextSession}
    /\ nextSession' = nextSession + 1
    /\ UNCHANGED <<transfers, scans, tasks, cancelled, removals, internal, history, front, phase>>

OfSession(f, session) == {b \in DOMAIN f : f[b].session = session}

Disconnect(session) ==
    /\ Sent("Disconnect")
    /\ session \in sessions
    /\ sessions' = sessions \ {session}
    /\ Cancel(Work(OfSession(planning, session), InSession(transfers, transfers.running, session)))
    /\ DropReviewsAndPlans(OfSession(reviews, session), OfSession(sync.plans, session))
    /\ Settle(ForgetEmpty(FailQueuedForSession(transfers, session), OfSession(reviews, session)))
    /\ stale' = stale \ {session}
    /\ UNCHANGED <<nextSession, planning, removals, internal, phase>>

(***************************************************************************)
(* The ends of tasks.  A flagged task may still end as if it were not: it  *)
(* looks at its flag between steps, never after the last one.              *)
(***************************************************************************)
Done(name) ==
    CASE name = "transfer" -> "Completed"
      [] name = "plan-copy" -> "PlanReady"
      [] name = "sync-scan" -> "SyncPlanReady"
      [] name = "sync-folders" -> "SyncFoldersReady"

GaveUp(name) ==
    CASE name = "transfer" -> "Cancelled"
      [] name = "plan-copy" -> "PlanCancelled"
      [] OTHER -> "SyncCancelled"

Broke(name) ==
    CASE name = "transfer" -> "Failed"
      [] name = "plan-copy" -> "PlanFailed"
      [] OTHER -> "SyncFailed"

Found(task) ==
    CASE task.name = "plan-copy" -> CopyPlans
      [] task.name = "sync-scan" -> SyncPlans
      [] OTHER -> {[files |-> task.files]}

Result(scope, what, plan) ==
    [what |-> what, scope |-> scope, plan |-> plan,
     session |-> tasks[scope].session, direction |-> tasks[scope].direction]

Results(scope) ==
    LET task == tasks[scope]
    IN  {Result(scope, Done(task.name), plan) : plan \in Found(task)}
          \cup (IF task.cancel THEN {Result(scope, GaveUp(task.name), <<>>)} ELSE {})
          \cup (IF "Failed" \in Endings THEN {Result(scope, Broke(task.name), <<>>)} ELSE {})
          \cup (IF "Panicked" \in Endings THEN {Result(scope, "Panicked", <<>>)} ELSE {})

TaskEnds(scope) ==
    /\ scope \in DOMAIN tasks
    /\ \E result \in Results(scope) : internal' = Append(internal, result)
    /\ tasks' = Without(tasks, {scope})
    /\ UNCHANGED <<sessions, nextSession, transfers, scans, cancelled, removals, history, front, phase>>

(* remove-partials: one remove_file after the other, then PartialsRemoved  *)
Notice(what, session) ==
    [what |-> what, scope |-> <<"Background", 0>>, plan |-> <<>>, session |-> session, direction |-> "Upload"]

RemovePart(i) ==
    \E part \in removals[i].parts :
      LET left == removals[i].parts \ {part}
      IN  /\ removals' = IF left # {} THEN [removals EXCEPT ![i].parts = left] ELSE RemoveAt(removals, i)
          /\ internal' = IF left # {} THEN internal
                         ELSE Append(internal, Notice("PartialsRemoved", removals[i].session))
          /\ UNCHANGED <<sessions, nextSession, transfers, scans, tasks, cancelled, history, front, phase>>

RemovalPanics(i) ==
    /\ "Panicked" \in Endings
    /\ removals' = RemoveAt(removals, i)
    /\ internal' = Append(internal, Notice("Panicked", removals[i].session))
    /\ UNCHANGED <<sessions, nextSession, transfers, scans, tasks, cancelled, history, front, phase>>

(***************************************************************************)
(* The handlers of the results of transfers                                *)
(***************************************************************************)
(* refresh_transfer_destination, of a job that has just ended; a completed *)
(* file is what the listing of its destination misses                      *)
Landed(q, id) ==
    LET job == q.jobs[id]
        place == Place(job.session, job.direction)
    IN  IF job.status = "Completed" /\ place \in sessions \cup {Local} THEN stale \cup {place} ELSE stale

(* mutant: the freed slot is not filled *)
FinishedWithoutFill(id, status) ==
    LET q == SetStatus(transfers, {id} \cap DOMAIN transfers.jobs, status)
    IN  /\ Forget(Transfer(id))
        /\ Settle(q)
        /\ UNCHANGED <<scans, tasks, front>>

(* Finished *)
Finished(id, status) ==
    LET q == SetStatus(transfers, {id} \cap DOMAIN transfers.jobs, status)
    IN  /\ Forget(Transfer(id))
        /\ Fill(q, IF id \in DOMAIN q.jobs
                   THEN Refreshed(Landed(q, id), q, {DestinationOf(q, id)}) ELSE stale)
        /\ UNCHANGED <<scans, shown>>

(* mutant: a failed attempt is retried although a cancel was asked for *)
FailedRetriesAnyway(id) ==
    LET q == SetStatus(transfers, {id} \cap DOMAIN transfers.jobs, "Failed")
    IN  /\ Forget(Transfer(id))
        /\ Fill(RetryOrGiveUp(q, id), stale)
        /\ UNCHANGED <<scans, shown>>

(* mutant: nothing is listed again after a failure *)
FailedUnlisted(id) ==
    LET asked == Transfer(id) \in cancelled
        q == SetStatus(transfers, {id} \cap DOMAIN transfers.jobs, IF asked THEN "Cancelled" ELSE "Failed")
    IN  /\ Forget(Transfer(id))
        /\ Fill(IF ~asked /\ CanRetry(q, id) THEN RetryOrGiveUp(q, id) ELSE q, stale)
        /\ UNCHANGED <<scans, shown>>

(* Failed: not an error, and not retried, when a cancel was asked for      *)
Failed(id) ==
    LET asked == Transfer(id) \in cancelled
        q == SetStatus(transfers, {id} \cap DOMAIN transfers.jobs, IF asked THEN "Cancelled" ELSE "Failed")
        retried == ~asked /\ CanRetry(q, id)
    IN  /\ Forget(Transfer(id))
        /\ IF retried THEN Fill(RetryOrGiveUp(q, id), stale)
           ELSE Fill(q, IF id \in DOMAIN q.jobs THEN Refreshed(stale, q, {DestinationOf(q, id)}) ELSE stale)
        /\ UNCHANGED <<scans, shown>>

(***************************************************************************)
(* The handlers of the results of scans                                    *)
(***************************************************************************)
(* clear_planning, its first half; the mark is forgotten beside it         *)
ClearPlanning(batch) == planning' = Without(planning, {batch})

(* a scan that ends without files to copy *)
DropScan(batch) ==
    /\ ClearPlanning(batch)
    /\ Forget(Planning(batch))
    /\ Settle(ForgetEmpty(transfers, {batch}))
    /\ UNCHANGED tasks

(* PlanReady, review_or_apply_plan *)
PlanReady(batch, result) ==
    /\ \/ /\ result.session \notin sessions
          /\ DropScan(batch)
          /\ UNCHANGED <<reviews, front>>
       \/ /\ result.session \in sessions
          /\ ClearPlanning(batch)
          /\ Forget(Planning(batch))
          /\ IF result.plan.asks
             THEN /\ reviews' = With(reviews, batch, [session |-> result.session,
                                  direction |-> result.direction, files |-> result.plan.files])
                  /\ shown' = [shown EXCEPT !.questions = @ \cup {batch}]
                  /\ Settle(transfers)
                  /\ UNCHANGED <<tasks, stale>>
             ELSE /\ ApplyPlan(transfers, batch, result.session, result.direction, result.plan.files)
                  /\ UNCHANGED <<reviews, shown>>
    /\ UNCHANGED sync

(* record_failed_scan adds an entry that tells of no row and of no job: of *)
(* what `history` is here nothing changes                                  *)
PlanFailed(batch) ==
    /\ DropScan(batch)
    /\ UNCHANGED <<reviews, sync, front>>

PlanCancelled(batch, result) ==
    /\ DropScan(batch)
    /\ stale' = stale \ {Place(result.session, result.direction)}
    /\ UNCHANGED <<reviews, sync, shown>>

(* sync_cancelled and sync_failed *)
SyncEnded(batch) ==
    /\ DropScan(batch)
    /\ sync' = [sync EXCEPT !.scanning = @ \ {batch}]
    /\ UNCHANGED <<reviews, front>>

(* mutant: a cancel that came after the scan's end is not looked for *)
SyncPlanReadyAnyway(batch, result) ==
    /\ DropScan(batch)
    /\ LET plan == [session |-> result.session, uploads |-> result.plan.uploads,
                    downloads |-> result.plan.downloads]
       IN  sync' = [scanning |-> sync.scanning \ {batch}, plans |-> With(sync.plans, batch, plan)]
    /\ shown' = [shown EXCEPT !.plans = @ \cup {batch}]
    /\ UNCHANGED <<reviews, stale>>

(* sync_plan_ready: a plan with something in it is shown to the user *)
SyncPlanReady(batch, result) ==
    \/ /\ Planning(batch) \in cancelled
       /\ SyncEnded(batch)
    \/ /\ Planning(batch) \notin cancelled
       /\ DropScan(batch)
       /\ LET show == /\ result.session \in sessions
                      /\ result.plan.uploads # <<>> \/ result.plan.downloads # <<>>
              plan == [session |-> result.session, uploads |-> result.plan.uploads,
                       downloads |-> result.plan.downloads]
          IN  /\ sync' = [scanning |-> sync.scanning \ {batch},
                          plans |-> IF show THEN With(sync.plans, batch, plan) ELSE sync.plans]
              /\ shown' = IF show THEN [shown EXCEPT !.plans = @ \cup {batch}] ELSE shown
       /\ UNCHANGED <<reviews, stale>>

(* sync_folders_ready: every conflict is answered with Overwrite *)
SyncFoldersReady(batch, result) ==
    IF batch \notin sync.scanning
    THEN Settle(transfers) /\ UNCHANGED <<tasks, cancelled, scans, front>>
    ELSE IF Planning(batch) \in cancelled \/ result.session \notin sessions
    THEN SyncEnded(batch)
    ELSE /\ sync' = [sync EXCEPT !.scanning = @ \ {batch}]
         /\ ClearPlanning(batch)
         /\ Forget(Planning(batch))
         /\ ApplyPlan(transfers, batch, result.session, result.direction, result.plan.files)
         /\ UNCHANGED <<reviews, shown>>

(* PartialsRemoved *)
PartialsRemoved(session) ==
    /\ stale' = stale \ {session}
    /\ UNCHANGED <<transfers, scans, tasks, cancelled, history, shown>>

(* mutant: a panic is only announced *)
PanickedUnheard(scope) == UNCHANGED <<transfers, scans, tasks, cancelled, history, front>>

(* recover_from_panic: the handler of the failure the task did not report; *)
(* of a task that nobody waits for, a notice                               *)
Panicked(scope) ==
    IF scope[1] = "Transfer" /\ scope[2] \in transfers.running THEN Failed(scope[2])
    ELSE IF scope[1] = "Planning" /\ scope[2] \in sync.scanning THEN SyncEnded(scope[2])
    ELSE IF scope[1] = "Planning" /\ scope[2] \in DOMAIN planning THEN PlanFailed(scope[2])
    ELSE UNCHANGED <<transfers, scans, tasks, cancelled, history, front>>

(* handle_internal *)
Handle(result) ==
    LET on == result.scope[2]
    IN  CASE result.what = "Completed" -> Finished(on, "Completed")
          [] result.what = "Cancelled" -> Finished(on, "Cancelled")
          [] result.what = "Failed" -> Failed(on)
          [] result.what = "PlanReady" -> PlanReady(on, result)
          [] result.what = "PlanCancelled" -> PlanCancelled(on, result)
          [] result.what = "PlanFailed" -> PlanFailed(on)
          [] result.what = "SyncPlanReady" -> SyncPlanReady(on, result)
          [] result.what \in {"SyncCancelled", "SyncFailed"} -> SyncEnded(on)
          [] result.what = "SyncFoldersReady" -> SyncFoldersReady(on, result)
          [] result.what = "PartialsRemoved" -> PartialsRemoved(result.session)
          [] result.what = "Panicked" -> Panicked(result.scope)

(* the loop takes a result from the channel *)
Received ==
    /\ phase = "running"
    /\ internal # <<>>
    /\ internal' = Tail(internal)

HandleInternal ==
    /\ Received
    /\ Handle(Head(internal))
    /\ UNCHANGED <<sessions, nextSession, removals, phase>>

(***************************************************************************)
(* Shutdown: the command (or the last front end gone) ends the loop.       *)
(* shutdown_work cancels, records what is interrupted, and waits for the   *)
(* tasks, no longer than the grace; results of transfers that arrive late  *)
(* are dropped.  Dropping the engine records again and aborts the rest; a  *)
(* runtime that goes away drops it without a shutdown.                     *)
(***************************************************************************)
Shutdown ==
    /\ Sent("Shutdown")
    /\ phase' = "stopping"
    /\ tasks' = Flagged(tasks, DOMAIN tasks)
    /\ cancelled' = cancelled \cup Work(DOMAIN planning, transfers.running)
    /\ history' = Interrupted(history, transfers)
    /\ UNCHANGED <<sessions, nextSession, transfers, scans, removals, internal, front>>

DropLate ==
    /\ phase = "stopping"
    /\ internal # <<>>
    /\ internal' = Tail(internal)
    /\ UNCHANGED <<sessions, nextSession, transfers, scans, tasks, cancelled, removals, history, front, phase>>

(* Tasks::shutdown: no task is left, or the grace has passed *)
StopTasks ==
    /\ phase = "stopping"
    /\ phase' = "stopped"
    /\ tasks' = Without(tasks, DOMAIN tasks)
    /\ removals' = <<>>
    /\ internal' = <<>>
    /\ UNCHANGED <<sessions, nextSession, transfers, scans, cancelled, history, front>>

DropEngine ==
    /\ "Shutdown" \in Commands
    /\ phase \in {"running", "stopped"}
    /\ phase' = "dropped"
    /\ history' = Interrupted(history, transfers)
    /\ tasks' = Without(tasks, DOMAIN tasks)
    /\ removals' = <<>>
    /\ internal' = <<>>
    /\ UNCHANGED <<sessions, nextSession, transfers, scans, cancelled, front>>

(***************************************************************************)
(* The whole engine                                                        *)
(***************************************************************************)
Batches == 0..(MaxBatches - 1)

Command ==
    \/ \E s \in Sessions, d \in Direction : Copy(s, d)
    \/ \E b \in Batches : ResolveConflicts(b) \/ DeclineConflicts(b) \/ CancelScan(b)
    \/ \E b \in Batches : CancelRow(<<"Batch", b>>) \/ RetryRow(<<"Batch", b>>)
    \/ CancelAll \/ ClearFinished
    \/ \E s \in Sessions : StartSync(s) \/ Disconnect(s)
    \/ \E b \in Batches : RunSync(b) \/ CancelSyncScan(b) \/ CancelSyncPlan(b)

Background ==
    \/ \E b \in Batches : TaskEnds(Planning(b))
    \/ \E id \in DOMAIN transfers.jobs : TaskEnds(Transfer(id))
    \/ \E i \in DOMAIN removals : RemovePart(i) \/ RemovalPanics(i)

Stop == Shutdown \/ DropLate \/ StopTasks \/ DropEngine

Next == FinishConnect \/ Command \/ Background \/ HandleInternal \/ Stop

Spec == Init /\ [][Next]_vars

(***************************************************************************)
(* Properties                                                              *)
(***************************************************************************)
Pending(scope) ==
    (IF scope \in DOMAIN tasks THEN 1 ELSE 0) + Cardinality({i \in DOMAIN internal : internal[i].scope = scope})

(* Every running transfer and every scan has exactly one end coming (its   *)
(* task is alive or its result waits in the channel), and nothing else     *)
(* has: no row shows Running or Scanning for ever, no late result ends the *)
(* next attempt of its job.                                                *)
OneAnswerEach ==
    phase = "running" =>
      /\ \A id \in 0..(transfers.nextId - 1) :
           Pending(Transfer(id)) = IF id \in transfers.running THEN 1 ELSE 0
      /\ \A b \in 0..(transfers.nextBatch - 1) :
           Pending(Planning(b)) = IF b \in DOMAIN planning THEN 1 ELSE 0

(* A cancel mark belongs to work that still goes on: it is taken when that *)
(* work ends, and cannot cancel a later attempt or scan.                   *)
MarksHaveOwners ==
    phase = "running" => cancelled \subseteq Work(DOMAIN planning, transfers.running)

(* After every handler all that may run runs: no handler that frees a slot,*)
(* a destination or a session's channel forgets fill_transfer_slots.       *)
WorkConserving == phase = "running" => IsStartable(transfers, {})

(* The tables kept beside the queue hold what goes on and nothing else: a  *)
(* cancel mark, MarksHaveOwners; a label exactly while the batch is a scan,*)
(* a review or a row, and it is one of them at a time.                     *)
NothingLeftOver ==
    /\ MarksHaveOwners
    /\ transfers.batchLabels = DOMAIN planning \cup DOMAIN reviews \cup DOMAIN transfers.batchRow
    /\ DOMAIN planning \cap DOMAIN reviews = {}
    /\ DOMAIN transfers.batchRow \cap (DOMAIN planning \cup DOMAIN reviews) = {}
    /\ sync.scanning \subseteq DOMAIN planning

(* The engine implements JobLife: whatever interleaves, a job moves as it  *)
(* says; a cancel wins over a failed attempt, a disconnect over a retry.   *)
JobsLive ==
    INSTANCE JobLife WITH
        live <- sessions,
        used <- 0..(transfers.nextId - 1),
        status <- [id \in DOMAIN transfers.jobs |-> transfers.jobs[id].status],
        owner <- [id \in DOMAIN transfers.jobs |-> transfers.jobs[id].session],
        asked <- {id \in transfers.running : Transfer(id) \in cancelled}

ImplementsJobLife == JobsLive!Spec

(* What waits for the user is what the user is shown, and its session is   *)
(* live: every way a review or a sync plan goes is announced.              *)
FrontEndKnows ==
    /\ shown.questions = DOMAIN reviews
    /\ shown.plans = DOMAIN sync.plans
    /\ \A b \in DOMAIN reviews : reviews[b].session \in sessions
    /\ \A b \in DOMAIN sync.plans : sync.plans[b].session \in sessions

(* Once the loop has ended, by a shutdown, a drop or both, history has one *)
(* entry for every row and scan that was interrupted, a sync's scan apart, *)
(* and every completed file is in one entry.                               *)
InterruptedOnce ==
    phase # "running" =>
      /\ OpenKinds(transfers) \cup OpenScans \subseteq history.recorded
      /\ \A kind \in DOMAIN history.interrupted : history.interrupted[kind] = 1
      /\ DOMAIN history.interrupted = OpenKinds(transfers) \cup OpenScans
      /\ \A id \in DOMAIN transfers.jobs :
           Count(history.credit, id) = IF transfers.jobs[id].status = "Completed" THEN 1 ELSE 0

(* While the loop runs, history has an entry for exactly the rows that are *)
(* finished, and its entries count a completed file once, however often    *)
(* its row is retried; what the end interrupts it records once as well.    *)
HistoryExact ==
    /\ phase = "running" =>
         /\ history.recorded = {transfers.rows[key].kind : key \in
                                  {k \in DOMAIN transfers.rows : RowFinished(transfers.rows[k])}}
         /\ \A key \in DOMAIN transfers.rows, id \in DOMAIN transfers.jobs :
              RowFinished(transfers.rows[key]) /\ id \in transfers.rows[key].order =>
                Count(history.credit, id) = IF transfers.jobs[id].status = "Completed" THEN 1 ELSE 0
    /\ InterruptedOnce

(* A sync's scan or folder task that was asked to stop shows no plan and   *)
(* copies nothing, even if its result was on the way already.              *)
CancelledSyncCopiesNothing ==
    [][\A b \in sync.scanning :
         Planning(b) \in cancelled => b \notin DOMAIN sync'.plans \cup DOMAIN transfers'.batchRow]_vars

(* README.md:18 says of all transfers, copies included, that they are      *)
(* cancellable: a copy's scan that was asked to stop copies nothing.       *)
CancelledScanCopiesNothing ==
    [][\A b \in DOMAIN planning :
         Planning(b) \in cancelled => b \notin DOMAIN transfers'.batchRow]_vars

(* refresh_transfer_destination and its kin: when nothing more is on its   *)
(* way to a place that can be listed, its listing misses no completed file.*)
ListingsFresh ==
    phase = "running" =>
      \A place \in stale :
        \E id \in transfers.queued \cup transfers.running :
          Place(transfers.jobs[id].session, transfers.jobs[id].direction) = place

(* clear_finished_rows: a partial file that is being removed is not one    *)
(* that a waiting or running job writes or resumes.                        *)
PartialsKept ==
    \A i \in DOMAIN removals, id \in transfers.queued \cup transfers.running :
      PartDestination(transfers.jobs[id]) \notin removals[i].parts

(***************************************************************************)
(* Liveness.  Tokio polls every task and select! its branches fairly, and  *)
(* the protocols time out on a server that no longer answers, so that a    *)
(* task ends and its result is handled; nothing obliges the user.          *)
(***************************************************************************)
Fairness ==
    /\ WF_internal(Received)
    /\ \A b \in Batches : WF_vars(TaskEnds(Planning(b)))
    /\ WF_vars(\E id \in transfers.running : TaskEnds(Transfer(id)))

LiveSpec == Spec /\ Fairness

Unfinished(b) == HasRow(transfers, <<"Batch", b>>) /\ ~KindFinished(transfers, <<"Batch", b>>)

(* A row that waits or runs finishes, whatever fails and is tried again,   *)
(* as long as the user does not retry rows; and so does a scan.            *)
WorkEnds ==
    \A b \in Batches :
      /\ (phase = "running" /\ Unfinished(b)) ~> (phase # "running" \/ ~Unfinished(b))
      /\ (phase = "running" /\ b \in DOMAIN planning) ~> (phase # "running" \/ b \notin DOMAIN planning)
=================================================================================
