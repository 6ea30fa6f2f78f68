------------------------------- MODULE QueueSpec -------------------------------
(***************************************************************************)
(* The transfer queue as a state machine: the operations of TransferQueue  *)
(* in any order their callers allow, one at a time, and the reader of the  *)
(* change list.                                                            *)
(***************************************************************************)
EXTENDS TransferQueue

CONSTANTS
    Inputs,         \* the <<session, direction, files>> that are enqueued
    MaxJobs,        \* bound: job ids handed out
    MaxBatches,     \* bound: batch ids handed out
    MaxUnread       \* bound: changed kinds the reader may leave unread

File == [path: Paths, total: Sizes, resume: BOOLEAN]

ASSUME InputsAssumption == Inputs \subseteq Sessions \X Direction \X Seq(File)

VARIABLES
    transfers,  \* the TransferQueue
    recorded    \* the kinds the reader (process_row_changes) believes finished

vars == <<transfers, recorded>>

Init ==
    /\ transfers = NewQueue
    /\ recorded = {}

DoEnqueue ==
    /\ \E in \in Inputs, b \in transfers.batchLabels \cup {NoBatch} :
         /\ transfers.nextId + Len(in[3]) <= MaxJobs
         /\ b = NoBatch => Len(in[3]) = 1
         /\ transfers' = Enqueue(transfers, in[1], in[2], in[3], b)
    /\ UNCHANGED recorded

DoStartBatch ==
    /\ transfers.nextBatch < MaxBatches
    /\ transfers' = StartBatch(transfers)
    /\ UNCHANGED recorded

DoForgetBatchIfEmpty ==
    /\ \E b \in transfers.batchLabels : transfers' = ForgetEmpty(transfers, {b})
    /\ UNCHANGED recorded

DoFlagUnkeptTimes ==
    /\ \E id \in DOMAIN transfers.jobs :
         /\ transfers.jobs[id].batch # NoBatch
         /\ transfers' = FlagUnkeptTimes(transfers, transfers.jobs[id].batch)
    /\ UNCHANGED recorded

(* fill_transfer_slots starts everything startable *)
DoStart ==
    /\ \E S \in SUBSET transfers.queued :
         /\ S # {}
         /\ IsStartable(transfers, S)
         /\ transfers' = StartJobs(transfers, S)
    /\ UNCHANGED recorded

DoProgress ==
    /\ \E id \in transfers.running, bytes \in Sizes : transfers' = SetTransferred(transfers, id, bytes)
    /\ UNCHANGED recorded

DoEnd ==
    /\ \E id \in transfers.running, st \in {"Completed", "Failed", "Cancelled"} :
         transfers' = SetStatus(transfers, {id}, st)
    /\ UNCHANGED recorded

DoRetryOrGiveUp ==
    /\ \E id \in DOMAIN transfers.jobs :
         /\ transfers.jobs[id].status = "Failed"
         /\ CanRetry(transfers, id)
         /\ transfers' = RetryOrGiveUp(transfers, id)
    /\ UNCHANGED recorded

DoCancelQueued ==
    /\ \E id \in transfers.queued : transfers' = SetStatus(transfers, {id}, "Cancelled")
    /\ UNCHANGED recorded

DoCancelAllQueued ==
    /\ transfers.queued # {}
    /\ transfers' = CancelAllQueued(transfers)
    /\ UNCHANGED recorded

DoFailQueuedForSession ==
    /\ \E s \in Sessions : transfers' = FailQueuedForSession(transfers, s)
    /\ UNCHANGED recorded

DoRetryJobs ==
    /\ \E S \in SUBSET DOMAIN transfers.jobs : transfers' = RetryJobs(transfers, S)
    /\ UNCHANGED recorded

DoRemoveJobs ==
    /\ \E S \in SUBSET DOMAIN transfers.jobs : transfers' = RemoveJobs(transfers, S)
    /\ UNCHANGED recorded

(* take_changes, as process_row_changes uses it *)
TakeChanges ==
    /\ transfers.changes # {}
    /\ recorded' = (recorded \ transfers.changes)
                     \cup {kind \in transfers.changes : KindFinished(transfers, kind)}
    /\ transfers' = [transfers EXCEPT !.changes = {}]

Operate ==
    \/ DoEnqueue \/ DoStartBatch \/ DoForgetBatchIfEmpty \/ DoFlagUnkeptTimes
    \/ DoStart \/ DoProgress \/ DoEnd \/ DoRetryOrGiveUp
    \/ DoCancelQueued \/ DoCancelAllQueued \/ DoFailQueuedForSession
    \/ DoRetryJobs \/ DoRemoveJobs

Next ==
    \/ Cardinality(transfers.changes) <= MaxUnread /\ Operate
    \/ TakeChanges

Spec == Init /\ [][Next]_vars

(***************************************************************************)
(* Properties                                                              *)
(***************************************************************************)

(* Every field of the queue has its type: ids are below the next id, every *)
(* job is a Job, the indexes are over ids, sessions and batches.           *)
TypeOK ==
    /\ transfers.nextId \in Nat
    /\ transfers.nextBatch \in Nat
    /\ DOMAIN transfers.jobs \subseteq 0..(transfers.nextId - 1)
    /\ \A id \in DOMAIN transfers.jobs : transfers.jobs[id] \in Job
    /\ \A key \in DOMAIN transfers.rows : transfers.rows[key].n \in [JobStatus -> Nat]
    /\ transfers.batchLabels \subseteq 0..(transfers.nextBatch - 1)
    /\ transfers.pending \in [Sessions \X Direction -> Nat]
    /\ transfers.queuedBySession \in [Sessions -> SUBSET transfers.queued]

(* The three index invariants of the queue, for every sequence of calls of *)
(* its operations: what the test helper assert_consistent checks after one.*)
IndexesConsistent == IndexesMatch(transfers)
RowsConsistent == RowsMatch(transfers)
CountersConsistent == CountersMatch(transfers)

(* assert_consistent: a row's bytes are the sums over its jobs, although   *)
(* account() subtracts with saturation.                                    *)
BytesConsistent ==
    \A key \in DOMAIN transfers.rows :
      LET row == transfers.rows[key]
      IN  /\ row.bytesDone = MapThenSumSet(LAMBDA id : transfers.jobs[id].transferred, row.order)
          /\ row.bytesTotal = MapThenSumSet(LAMBDA id : transfers.jobs[id].total, row.order)

(* startable_limited hands out slots: two running transfers never write to *)
(* the same destination, whatever was retried, removed or added meanwhile. *)
DestinationsDistinct ==
    \A i, j \in transfers.running :
      Destination(transfers.jobs[i]) = Destination(transfers.jobs[j]) => i = j

(* ... and no more run than max_parallel, nor on a session than its cap.   *)
WithinLimits ==
    /\ Cardinality(transfers.running) <= MaxParallel
    /\ \A s \in DOMAIN SessionCap :
         Cardinality(InSession(transfers, transfers.running, s)) <= SessionCap[s]

(* retry_or_give_up and retry_jobs: a job that waits has an attempt left,  *)
(* so a transfer is tried at most MaxAttempts times between user retries.  *)
AttemptsBounded ==
    \A id \in DOMAIN transfers.jobs :
      /\ transfers.jobs[id].attempts <= MaxAttempts
      /\ id \in transfers.queued => transfers.jobs[id].attempts < MaxAttempts

(* forget_batch_if_empty: a batch keeps its label, and its mark of times   *)
(* not kept, exactly as long as it may still need them.                    *)
LabelsKept ==
    /\ DOMAIN transfers.batchRow \subseteq transfers.batchLabels
    /\ transfers.unkept \subseteq DOMAIN transfers.batchRow

(* take_changes: a reader that looks again only at the rows named by a     *)
(* change is never wrong about a row no change names: history learns of    *)
(* every finish, reopening and removal of a row.                           *)
ChangesTellAll ==
    \A kind \in ({<<"Single", id>> : id \in 0..(transfers.nextId - 1)}
                   \cup {<<"Batch", b>> : b \in 0..(transfers.nextBatch - 1)}) \ transfers.changes :
      kind \in recorded <=> KindFinished(transfers, kind)

=================================================================================
