----------------------------- MODULE TransferQueue -----------------------------
(***************************************************************************)
(* The transfer queue of porthmos-core: transfer/queue/mod.rs.             *)
(*                                                                         *)
(* A TransferQueue is a map of jobs and seven indexes derived from it,     *)
(* which every operation maintains incrementally: the rows the user sees,  *)
(* with their counters, the row of a job and of a batch, the running and   *)
(* the queued ids, the queued ids of a session and the pending count of a  *)
(* destination.  The operations are operators from a queue value q to a    *)
(* queue value, so that the engine's handlers can call several of them in  *)
(* one step (TransferEngine); QueueSpec applies them one at a time.        *)
(*                                                                         *)
(* Abstractions: a job keeps its destination path only; a row's `order`    *)
(* is the set of its job ids, since ids are pushed in increasing order and *)
(* the Vec's first element is their minimum; an absent key of the indexes  *)
(* queuedBySession and pending is an empty set or a zero; labels are left  *)
(* out but for which batches have one; `changes` is the set of row kinds   *)
(* named by a change, the only part its reader looks at; the code's loops  *)
(* over a list of ids are applied to the set of ids at once.               *)
(***************************************************************************)
EXTENDS Integers, Sequences, FiniteSets, FiniteSetsExt

CONSTANTS
    Sessions,       \* ids of sessions
    Paths,          \* destination paths
    Sizes,          \* file sizes
    MaxParallel,    \* Engine::max_parallel
    SessionCap,     \* FileSystem::transfer_limit, of the sessions that have one
    MaxAttempts     \* MAX_ATTEMPTS, 3 in the code

ASSUME SizesAssumption == Sizes \subseteq Nat
ASSUME LimitsAssumption == MaxParallel \in Nat \ {0} /\ MaxAttempts \in Nat \ {0}
ASSUME CapAssumption == \A s \in DOMAIN SessionCap : SessionCap[s] \in Nat \ {0}

(***************************************************************************)
(* Jobs and row kinds                                                      *)
(***************************************************************************)
JobStatus == {"Queued", "InProgress", "Completed", "Failed", "Cancelled"}
Direction == {"Upload", "Download"}

NoBatch == -1       \* batch_id: None
Local == -1         \* the place of a download's destination

Job == [session: Sessions, direction: Direction, path: Paths, total: Nat,
        transferred: Nat, status: JobStatus, attempts: 0..MaxAttempts,
        batch: Nat \cup {NoBatch}, resume: BOOLEAN]

Destination(job) ==
    IF job.direction = "Upload" THEN <<job.session, job.path>> ELSE <<Local, job.path>>

IsPending(job) == job.status \in {"Queued", "InProgress"}
IsRetryable(job) == job.status \in {"Failed", "Cancelled"}

KindOf(id, batch) == IF batch = NoBatch THEN <<"Single", id>> ELSE <<"Batch", batch>>

(***************************************************************************)
(* Rows                                                                    *)
(***************************************************************************)
NewRow(kind, direction) ==
    [kind |-> kind, direction |-> direction, order |-> {},
     n |-> [st \in JobStatus |-> 0], bytesDone |-> 0, bytesTotal |-> 0]

RowTotal(row) ==
    row.n["Queued"] + row.n["InProgress"] + row.n["Completed"] + row.n["Failed"] + row.n["Cancelled"]

RowFinished(row) == RowTotal(row) > 0 /\ row.n["Queued"] = 0 /\ row.n["InProgress"] = 0

RowState(row) ==
    CASE row.n["InProgress"] > 0 -> "Running"
      [] row.n["InProgress"] = 0 /\ row.n["Queued"] > 0 -> "Queued"
      [] OTHER -> IF row.n["Completed"] = RowTotal(row) THEN "Done"
                  ELSE IF row.n["Failed"] = 0 THEN "Cancelled"
                  ELSE IF row.n["Completed"] > 0 THEN "PartlyFailed"
                  ELSE "Failed"

(* usize/u64::saturating_sub *)
SaturatingSub(a, b) == IF a >= b THEN a - b ELSE 0

NewQueue ==
    [jobs |-> [id \in {} |-> {}], rows |-> [key \in {} |-> {}],
     rowOf |-> [id \in {} |-> 0], batchRow |-> [b \in {} |-> 0],
     running |-> {}, queued |-> {},
     queuedBySession |-> [s \in Sessions |-> {}],
     pending |-> [dest \in Sessions \X Direction |-> 0],
     changes |-> {}, batchLabels |-> {}, unkept |-> {},
     nextId |-> 0, nextBatch |-> 0]

(***************************************************************************)
(* Queries: row_key, row, jobs_of, has_pending                             *)
(***************************************************************************)
HasRow(q, kind) == \E key \in DOMAIN q.rows : q.rows[key].kind = kind

RowKey(q, kind) ==
    IF kind[1] = "Single" THEN kind[2] ELSE q.batchRow[kind[2]]

KindFinished(q, kind) == HasRow(q, kind) /\ RowFinished(q.rows[RowKey(q, kind)])

JobsOf(q, kind) == IF HasRow(q, kind) THEN q.rows[RowKey(q, kind)].order ELSE {}

HasPending(q, session, direction) == q.pending[<<session, direction>>] > 0

(***************************************************************************)
(* enqueue, for the files of a batch one after the other (apply_plan_ready *)
(* also marks the ones to resume), or for a single file without a batch:   *)
(* they join their batch's row, or open a row keyed by the first of them.  *)
(***************************************************************************)
NewIds(q, files) == q.nextId..(q.nextId + Len(files) - 1)

NewJob(q, session, direction, files, batch, id) ==
    LET file == files[id - q.nextId + 1]
    IN  [session |-> session, direction |-> direction, path |-> file.path, total |-> file.total,
         transferred |-> 0, status |-> "Queued", attempts |-> 0, batch |-> batch,
         resume |-> file.resume]

EnqueueKey(q, batch) == IF batch \in DOMAIN q.batchRow THEN q.batchRow[batch] ELSE q.nextId

EnqueueRow(q, direction, batch) ==
    LET key == EnqueueKey(q, batch)
    IN  IF key \in DOMAIN q.rows THEN q.rows[key] ELSE NewRow(KindOf(key, batch), direction)

Enqueue(q, session, direction, files, batch) ==
    LET ids == NewIds(q, files)
        key == EnqueueKey(q, batch)
        row == EnqueueRow(q, direction, batch)
        grown == [row EXCEPT
            !.order = @ \cup ids,
            !.n["Queued"] = @ + Len(files),
            !.bytesTotal = @ + MapThenSumSet(LAMBDA i : files[i].total, DOMAIN files)]
    IN  IF files = <<>> THEN q ELSE
        [q EXCEPT
          !.nextId = @ + Len(files),
          !.jobs = [id \in DOMAIN q.jobs \cup ids |->
              IF id \in ids THEN NewJob(q, session, direction, files, batch, id) ELSE q.jobs[id]],
          !.rows = [k \in DOMAIN q.rows \cup {key} |-> IF k = key THEN grown ELSE q.rows[k]],
          !.rowOf = [id \in DOMAIN q.rowOf \cup ids |-> IF id \in ids THEN key ELSE q.rowOf[id]],
          !.batchRow = [b \in DOMAIN q.batchRow \cup ({batch} \ {NoBatch}) |->
              IF b = batch THEN key ELSE q.batchRow[b]],
          !.queued = @ \cup ids,
          !.queuedBySession = [s \in Sessions |-> q.queuedBySession[s] \cup IF s = session THEN ids ELSE {}],
          !.pending = [dest \in Sessions \X Direction |->
              q.pending[dest] + IF dest = <<session, direction>> THEN Len(files) ELSE 0],
          !.changes = @ \cup IF RowFinished(row) THEN {row.kind} ELSE {}]

(***************************************************************************)
(* Batches                                                                 *)
(***************************************************************************)
StartBatch(q) == [q EXCEPT !.nextBatch = @ + 1, !.batchLabels = @ \cup {q.nextBatch}]

(* mutant: the label goes although the batch has a row *)
ForgetAlways(q, batches) == [q EXCEPT !.batchLabels = @ \ batches, !.unkept = @ \ batches]

(* forget_batch_if_empty, for every batch of a set *)
ForgetEmpty(q, batches) ==
    LET gone == batches \ DOMAIN q.batchRow
    IN  [q EXCEPT !.batchLabels = @ \ gone, !.unkept = @ \ gone]

FlagUnkeptTimes(q, batch) == [q EXCEPT !.unkept = @ \cup {batch}]

(***************************************************************************)
(* reconcile: the jobs in S take the values of `after`, which differ in    *)
(* status, attempts and resume; the indexes are moved from each job's old  *)
(* shape to its new one, and a row whose finished() flips is a change.     *)
(* (account(before, false), account(after, true) for each job.)            *)
(***************************************************************************)
Moved(q, row, S, f, st) == Cardinality({id \in row.order \cap S : f[id].status = st})

(* mutant: the old status is not taken off its counter *)
ReconciledAddsOnly(q, row, S, after) ==
    [row EXCEPT !.n = [st \in JobStatus |-> row.n[st] + Moved(q, row, S, after, st)]]

Reconciled(q, row, S, after) ==
    [row EXCEPT !.n = [st \in JobStatus |->
        SaturatingSub(row.n[st], Moved(q, row, S, q.jobs, st)) + Moved(q, row, S, after, st)]]

Reconcile(q, S, after) ==
    LET rows == [k \in DOMAIN q.rows |-> Reconciled(q, q.rows[k], S, after)]
        PendingAt(f, dest) ==
            {id \in S : IsPending(f[id]) /\ f[id].session = dest[1] /\ f[id].direction = dest[2]}
    IN  [q EXCEPT
          !.jobs = [id \in DOMAIN q.jobs |-> IF id \in S THEN after[id] ELSE q.jobs[id]],
          !.rows = rows,
          !.running = (@ \ S) \cup {id \in S : after[id].status = "InProgress"},
          !.queued = (@ \ S) \cup {id \in S : after[id].status = "Queued"},
          !.queuedBySession = [s \in Sessions |->
              (q.queuedBySession[s] \ {id \in S : q.jobs[id].session = s})
                \cup {id \in S : after[id].status = "Queued" /\ after[id].session = s}],
          !.pending = [dest \in Sessions \X Direction |->
              q.pending[dest] - Cardinality(PendingAt(q.jobs, dest)) + Cardinality(PendingAt(after, dest))],
          !.changes = @ \cup {q.rows[k].kind : k \in
              {key \in DOMAIN q.rows : RowFinished(q.rows[key]) # RowFinished(rows[key])}}]

SetStatus(q, S, status) ==
    Reconcile(q, S, [id \in S |-> [q.jobs[id] EXCEPT !.status = status]])

(* mutant: the bytes reported before are counted again *)
SetTransferredAdds(q, id, bytes) ==
    [q EXCEPT !.jobs[id].transferred = bytes, !.rows[q.rowOf[id]].bytesDone = @ + bytes]

(* Progress: get_mut(id).transferred_bytes = transferred *)
SetTransferred(q, id, bytes) ==
    LET key == q.rowOf[id]
    IN  [q EXCEPT
          !.jobs[id].transferred = bytes,
          !.rows[key].bytesDone = SaturatingSub(@, q.jobs[id].transferred) + bytes]

(* start_transfer, its calls of get_mut *)
StartJobs(q, S) ==
    Reconcile(q, S, [id \in S |-> [q.jobs[id] EXCEPT !.status = "InProgress", !.attempts = @ + 1]])

(* mutants: the reopened row is not a change; the destination is not pending again *)
RetryJobsUntold(q, ids) ==
    LET S == {id \in ids \cap DOMAIN q.jobs : IsRetryable(q.jobs[id])}
    IN  [Reconcile(q, S, [id \in S |-> [q.jobs[id] EXCEPT
          !.resume = q.jobs[id].attempts > 0, !.status = "Queued", !.attempts = 0]])
           EXCEPT !.changes = q.changes]

RetryJobsUncounted(q, ids) ==
    LET S == {id \in ids \cap DOMAIN q.jobs : IsRetryable(q.jobs[id])}
    IN  [Reconcile(q, S, [id \in S |-> [q.jobs[id] EXCEPT
          !.resume = q.jobs[id].attempts > 0, !.status = "Queued", !.attempts = 0]])
           EXCEPT !.pending = q.pending]

(***************************************************************************)
(* retry_jobs, retry_or_give_up, cancel_all_queued, fail_queued_for_session*)
(***************************************************************************)
RetryJobs(q, ids) ==
    LET S == {id \in ids \cap DOMAIN q.jobs : IsRetryable(q.jobs[id])}
    IN  Reconcile(q, S, [id \in S |-> [q.jobs[id] EXCEPT
          !.resume = q.jobs[id].attempts > 0, !.status = "Queued", !.attempts = 0]])

(* mutant: one attempt too many *)
CanRetryOnceMore(q, id) == id \in DOMAIN q.jobs /\ q.jobs[id].attempts <= MaxAttempts

CanRetry(q, id) == id \in DOMAIN q.jobs /\ q.jobs[id].attempts < MaxAttempts

RetryOrGiveUp(q, id) ==
    IF CanRetry(q, id)
    THEN Reconcile(q, {id}, [i \in {id} |-> [q.jobs[i] EXCEPT !.status = "Queued", !.resume = TRUE]])
    ELSE q

(* mutant: the queued ids of the sessions are not updated *)
CancelAllQueuedSloppily(q) ==
    [SetStatus(q, q.queued, "Cancelled") EXCEPT !.queuedBySession = q.queuedBySession]

CancelAllQueued(q) == SetStatus(q, q.queued, "Cancelled")

FailQueuedForSession(q, session) == SetStatus(q, q.queuedBySession[session], "Failed")

(***************************************************************************)
(* remove_jobs: rows lose the removed jobs; an emptied row disappears, one *)
(* that lost the job it is keyed by is rekeyed to the first one left       *)
(* (rekey_row), and batches left without a row are forgotten.              *)
(***************************************************************************)
Left(q, key, S) == q.rows[key].order \ S

(* mutant: a row that lost its first job keeps its key *)
NewKeyUnchanged(q, key, S) == key

NewKey(q, key, S) == IF key \in S THEN Min(Left(q, key, S)) ELSE key

Shrunk(q, key, S) ==
    LET row == q.rows[key]
        gone == row.order \cap S
    IN  [row EXCEPT
          !.order = @ \ S,
          !.n = [st \in JobStatus |-> SaturatingSub(row.n[st], Moved(q, row, S, q.jobs, st))],
          !.bytesDone = SaturatingSub(@, MapThenSumSet(LAMBDA id : q.jobs[id].transferred, gone)),
          !.bytesTotal = SaturatingSub(@, MapThenSumSet(LAMBDA id : q.jobs[id].total, gone)),
          !.direction = IF key \in S THEN q.jobs[NewKey(q, key, S)].direction ELSE @]

RemoveJobs(q, ids) ==
    LET S == ids \cap DOMAIN q.jobs
        kept == {k \in DOMAIN q.rows : Left(q, k, S) # {}}
        OldKey(k) == CHOOSE key \in kept : NewKey(q, key, S) = k
        rows == [k \in {NewKey(q, key, S) : key \in kept} |-> Shrunk(q, OldKey(k), S)]
        removed == {q.rows[k].kind : k \in DOMAIN q.rows \ kept}
        flipped == {q.rows[k].kind : k \in
                      {key \in kept : RowFinished(q.rows[key]) # RowFinished(Shrunk(q, key, S))}}
        left == [q EXCEPT
          !.jobs = [id \in DOMAIN q.jobs \ S |-> q.jobs[id]],
          !.rows = rows,
          !.rowOf = [id \in DOMAIN q.rowOf \ S |-> NewKey(q, q.rowOf[id], S)],
          !.batchRow = [b \in {bb \in DOMAIN q.batchRow : q.batchRow[bb] \in kept} |->
                          NewKey(q, q.batchRow[b], S)],
          !.running = @ \ S,
          !.queued = @ \ S,
          !.queuedBySession = [s \in Sessions |-> q.queuedBySession[s] \ S],
          !.pending = [dest \in Sessions \X Direction |->
              q.pending[dest] - Cardinality({id \in S : IsPending(q.jobs[id])
                                  /\ q.jobs[id].session = dest[1] /\ q.jobs[id].direction = dest[2]})],
          !.changes = @ \cup removed \cup flipped]
    IN  ForgetEmpty(left, {q.jobs[id].batch : id \in S} \ {NoBatch})

(***************************************************************************)
(* startable_limited: the jobs S that the greedy walk over the queued ids, *)
(* lowest first, picks: at most the free slots, one per destination and no *)
(* more than its session's cap, each of the others being passed over for   *)
(* what runs already or was picked before it.                              *)
(***************************************************************************)
InSession(q, S, s) == {id \in S : q.jobs[id].session = s}

Capped(q, s, count) == s \in DOMAIN SessionCap /\ count >= SessionCap[s]

(* mutant: only what is uploaded keeps its destination busy *)
DestinationsOfUploads(q, S) == {Destination(q.jobs[id]) : id \in {i \in S : q.jobs[i].direction = "Upload"}}

DestinationsOf(q, S) == {Destination(q.jobs[id]) : id \in S}

FreeSlots(q) == SaturatingSub(MaxParallel, Cardinality(q.running))

Before(S, id) == {i \in S : i < id}

IsStartable(q, S) ==
    /\ Cardinality(S) <= FreeSlots(q)
    /\ \A i \in S : Destination(q.jobs[i]) \notin DestinationsOf(q, q.running)
    /\ \A i, j \in S : Destination(q.jobs[i]) = Destination(q.jobs[j]) => i = j
    /\ \A s \in DOMAIN SessionCap :
         InSession(q, S, s) # {} =>
           Cardinality(InSession(q, q.running, s)) + Cardinality(InSession(q, S, s)) <= SessionCap[s]
    /\ \A id \in q.queued \ S :
         LET earlier == Before(S, id)
             s == q.jobs[id].session
         IN  \/ Cardinality(earlier) >= FreeSlots(q)
             \/ Destination(q.jobs[id]) \in DestinationsOf(q, q.running \cup earlier)
             \/ Capped(q, s, Cardinality(InSession(q, q.running, s)) + Cardinality(InSession(q, earlier, s)))

(***************************************************************************)
(* What assert_consistent demands of a queue                               *)
(***************************************************************************)
WithStatus(q, S, st) == {id \in S : q.jobs[id].status = st}

PendingIds(q, dest) ==
    {id \in DOMAIN q.jobs : IsPending(q.jobs[id])
                              /\ q.jobs[id].session = dest[1] /\ q.jobs[id].direction = dest[2]}

(* assert_consistent, its first half: the running set, the queued sets and *)
(* the pending counts are those the jobs' statuses define.                 *)
IndexesMatch(q) ==
    /\ q.running = WithStatus(q, DOMAIN q.jobs, "InProgress")
    /\ q.queued = WithStatus(q, DOMAIN q.jobs, "Queued")
    /\ q.queuedBySession = [s \in Sessions |-> {id \in q.queued : q.jobs[id].session = s}]
    /\ \A dest \in Sessions \X Direction : q.pending[dest] = Cardinality(PendingIds(q, dest))

(* assert_consistent, its second half: the rows partition the jobs, a row  *)
(* is keyed by its first job and shows its direction, its kind names the   *)
(* job or the batch of all its jobs, and batch_row finds every batch row.  *)
RowsMatch(q) ==
    /\ DOMAIN q.rowOf = DOMAIN q.jobs
    /\ \A id \in DOMAIN q.jobs :
         /\ q.rowOf[id] \in DOMAIN q.rows
         /\ id \in q.rows[q.rowOf[id]].order
    /\ \A key \in DOMAIN q.rows :
         /\ key \in q.rows[key].order
         /\ q.rows[key].direction = q.jobs[key].direction
         /\ q.rows[key].kind = KindOf(key, q.jobs[key].batch)
         /\ \A id \in q.rows[key].order :
              /\ id \in DOMAIN q.jobs
              /\ q.rowOf[id] = key
              /\ key <= id
              /\ q.jobs[id].batch = q.jobs[key].batch
              /\ q.jobs[id].batch = NoBatch => id = key
         /\ q.jobs[key].batch # NoBatch =>
              /\ q.jobs[key].batch \in DOMAIN q.batchRow
              /\ q.batchRow[q.jobs[key].batch] = key
    /\ \A b \in DOMAIN q.batchRow :
         /\ b # NoBatch
         /\ q.batchRow[b] \in DOMAIN q.rows
         /\ q.jobs[q.batchRow[b]].batch = b

(* assert_consistent: the counters of a row count its jobs by status       *)
CountersMatch(q) ==
    \A key \in DOMAIN q.rows, st \in JobStatus :
      q.rows[key].n[st] = Cardinality(WithStatus(q, q.rows[key].order, st))

=================================================================================
