------------------------------ MODULE QueueProofs ------------------------------
(***************************************************************************)
(* Theorems about QueueSpec.  The inductive invariant IInv is the queue's  *)
(* consistency (QueueOK) with two parts the operations keep on top of it:  *)
(* what runs respects destinations and limits (SlotsOK), and labels are    *)
(* held by the batches that need them (LabelsOK); the bytes of a row       *)
(* (BytesOK) are kept on top of it, by lemmas about sums over sets.  The   *)
(* last part is about the loop of startable_limited (StartableWalk).       *)
(***************************************************************************)
EXTENDS StartableWalk, QueueLemmas, SequenceTheorems

(* What runs: distinct destinations, within the limits *)
SlotsOK(q) ==
    /\ \A i, j \in q.running : Destination(q.jobs[i]) = Destination(q.jobs[j]) => i = j
    /\ Cardinality(q.running) <= MaxParallel
    /\ \A s \in DOMAIN SessionCap : Cardinality(InSession(q, q.running, s)) <= SessionCap[s]

(* Who is labelled: known batches, every batch with a row; marked: only those *)
LabelsOK(q) ==
    /\ q.batchLabels \subseteq 0..(q.nextBatch - 1)
    /\ DOMAIN q.batchRow \subseteq q.batchLabels
    /\ q.unkept \subseteq DOMAIN q.batchRow

IInv == QueueOK(transfers) /\ SlotsOK(transfers) /\ LabelsOK(transfers)

(* Slots stay respected when nothing new runs and running jobs stay where  *)
(* they were: every operation but startable_limited's caller.              *)
LEMMA SlotsKept ==
  ASSUME NEW q, QueueOK(q), SlotsOK(q), NEW r, r.running \subseteq q.running,
         \A id \in r.running : r.jobs[id].session = q.jobs[id].session
                                 /\ r.jobs[id].direction = q.jobs[id].direction
                                 /\ r.jobs[id].path = q.jobs[id].path
  PROVE  SlotsOK(r)
<1>1. \A i \in r.running : Destination(r.jobs[i]) = Destination(q.jobs[i])
  BY DEF Destination
<1>2. IsFiniteSet(q.running)
  BY JobsFinite, FS_Subset DEF QueueOK, IndexesMatch, WithStatus
<1>3. Cardinality(r.running) <= Cardinality(q.running)
  BY <1>2, FS_Subset
<1>4. ASSUME NEW s \in DOMAIN SessionCap
      PROVE  Cardinality(InSession(r, r.running, s)) <= SessionCap[s]
  <2>1. InSession(r, r.running, s) \subseteq InSession(q, q.running, s)
    BY DEF InSession
  <2>2. IsFiniteSet(InSession(q, q.running, s))
    BY <1>2, FS_Subset DEF InSession
  <2>3. /\ Cardinality(InSession(r, r.running, s)) <= Cardinality(InSession(q, q.running, s))
        /\ Cardinality(InSession(q, q.running, s)) \in Nat
        /\ Cardinality(InSession(r, r.running, s)) \in Nat
    BY <2>1, <2>2, FS_Subset, FS_CardinalityType
  <2> QED BY <2>3, CapAssumption DEF SlotsOK
<1>5. Cardinality(r.running) <= MaxParallel
  <2>1. Cardinality(r.running) \in Nat /\ Cardinality(q.running) \in Nat
    BY <1>2, FS_Subset, FS_CardinalityType
  <2> QED BY <1>3, <2>1, LimitsAssumption DEF SlotsOK
<1>6. \A i, j \in r.running : Destination(r.jobs[i]) = Destination(r.jobs[j]) => i = j
  BY <1>1 DEF SlotsOK
<1> QED BY <1>4, <1>5, <1>6 DEF SlotsOK

(* reconcile on jobs that end up not running, or ran before.               *)
LEMMA ReconcileSlots ==
  ASSUME NEW q, QueueOK(q), SlotsOK(q), NEW S \in SUBSET DOMAIN q.jobs, NEW after,
         \A id \in S : /\ after[id].session = q.jobs[id].session
                       /\ after[id].direction = q.jobs[id].direction
                       /\ after[id].path = q.jobs[id].path
                       /\ after[id].status # "InProgress"
  PROVE  SlotsOK(Reconcile(q, S, after))
<1> DEFINE r == Reconcile(q, S, after)
<1>1. /\ r.jobs = [id \in DOMAIN q.jobs |-> IF id \in S THEN after[id] ELSE q.jobs[id]]
      /\ r.running = (q.running \ S) \cup {id \in S : after[id].status = "InProgress"}
  <2>1. ReconcileResult(q, S, after, r)
    BY ReconcileFields
  <2> QED BY <2>1 DEF ReconcileResult
<1>2. q.running \subseteq DOMAIN q.jobs
  BY DEF QueueOK, IndexesMatch, WithStatus
<1> HIDE DEF r
<1>3. r.running \subseteq q.running
  BY <1>1
<1>4. \A id \in r.running : r.jobs[id] = q.jobs[id]
  BY <1>1, <1>2
<1>5. SlotsOK(r)
  BY <1>3, <1>4, SlotsKept
<1> QED BY <1>5 DEF r

(* startable_limited: what it picks fits into the free slots, next to what *)
(* runs.                                                                   *)
LEMMA StartSlots ==
  ASSUME NEW q, QueueOK(q), SlotsOK(q), NEW S \in SUBSET q.queued, IsStartable(q, S)
  PROVE  SlotsOK(StartJobs(q, S))
<1> DEFINE after == [id \in S |-> [q.jobs[id] EXCEPT !.status = "InProgress", !.attempts = @ + 1]]
           r == StartJobs(q, S)
<1>1. /\ r.jobs = [id \in DOMAIN q.jobs |-> IF id \in S THEN after[id] ELSE q.jobs[id]]
      /\ r.running = (q.running \ S) \cup {id \in S : after[id].status = "InProgress"}
  <2>1. r = Reconcile(q, S, after)
    BY DEF StartJobs
  <2> HIDE DEF r, after
  <2>2. ReconcileResult(q, S, after, r)
    BY <2>1, ReconcileFields
  <2> QED BY <2>2 DEF ReconcileResult
<1>2. /\ q.running \subseteq DOMAIN q.jobs /\ S \subseteq DOMAIN q.jobs /\ q.running \cap S = {}
      /\ \A id \in S : q.jobs[id] \in Job
  BY DEF QueueOK, QueueTyped, IndexesMatch, WithStatus
<1>3. \A id \in S : /\ after[id].status = "InProgress"
                    /\ after[id].session = q.jobs[id].session
                    /\ after[id].direction = q.jobs[id].direction
                    /\ after[id].path = q.jobs[id].path
  BY <1>2 DEF Job
<1> HIDE DEF r, after
<1>4. r.running = q.running \cup S
  BY <1>1, <1>2, <1>3
<1>5. \A id \in q.running \cup S : /\ Destination(r.jobs[id]) = Destination(q.jobs[id])
                                   /\ r.jobs[id].session = q.jobs[id].session
  <2>1. \A id \in q.running \cup S : r.jobs[id] = IF id \in S THEN after[id] ELSE q.jobs[id]
    BY <1>1, <1>2
  <2> QED BY ONLY <1>3, <2>1 DEF Destination
<1>6. IsFiniteSet(q.running) /\ IsFiniteSet(S)
  BY <1>2, JobsFinite, FS_Subset DEF QueueOK
<1>7. Cardinality(r.running) <= MaxParallel
  <2>1. Cardinality(q.running \cup S) = Cardinality(q.running) + Cardinality(S)
    BY <1>2, <1>6, CountDisjoint
  <2>2. Cardinality(q.running) \in Nat /\ Cardinality(S) \in Nat
    BY <1>6, FS_CardinalityType
  <2> QED BY <1>4, <2>1, <2>2, LimitsAssumption DEF SlotsOK, IsStartable, FreeSlots, SaturatingSub
<1>8. ASSUME NEW s \in DOMAIN SessionCap
      PROVE  Cardinality(InSession(r, r.running, s)) <= SessionCap[s]
  <2> DEFINE A == InSession(q, q.running, s)
             C == InSession(q, S, s)
  <2>1. InSession(r, r.running, s) = A \cup C
    BY <1>4, <1>5 DEF InSession
  <2>2. IsFiniteSet(A) /\ IsFiniteSet(C) /\ A \cap C = {}
    BY <1>2, <1>6, FS_Subset DEF InSession
  <2>3. Cardinality(A \cup C) = Cardinality(A) + Cardinality(C)
    BY <2>2, CountDisjoint
  <2>4. C # {} => Cardinality(A) + Cardinality(C) <= SessionCap[s]
    BY DEF IsStartable
  <2>5. Cardinality(A) <= SessionCap[s]
    BY DEF SlotsOK
  <2>6. C = {} => A \cup C = A
    OBVIOUS
  <2> HIDE DEF A, C
  <2> QED BY <2>1, <2>3, <2>4, <2>5, <2>6
<1>9. \A i, j \in r.running : Destination(r.jobs[i]) = Destination(r.jobs[j]) => i = j
  <2>1. \A i \in S, j \in q.running : Destination(q.jobs[i]) # Destination(q.jobs[j])
    BY DEF IsStartable, DestinationsOf
  <2>2. \A i, j \in S : Destination(q.jobs[i]) = Destination(q.jobs[j]) => i = j
    BY DEF IsStartable
  <2>3. \A i, j \in q.running : Destination(q.jobs[i]) = Destination(q.jobs[j]) => i = j
    BY DEF SlotsOK
  <2> QED BY <1>4, <1>5, <2>1, <2>2, <2>3
<1> QED BY <1>7, <1>8, <1>9 DEF SlotsOK, r

(* reconcile touches no label.                                             *)
LEMMA ReconcileLabels ==
  ASSUME NEW q, QueueOK(q), LabelsOK(q), NEW S, NEW after
  PROVE  LabelsOK(Reconcile(q, S, after))
<1> DEFINE r == Reconcile(q, S, after)
<1>1. /\ r.nextBatch = q.nextBatch /\ r.batchRow = q.batchRow
      /\ r.batchLabels = q.batchLabels /\ r.unkept = q.unkept
  <2>1. ReconcileResult(q, S, after, r)
    BY ReconcileFields
  <2> QED BY <2>1 DEF ReconcileResult
<1> HIDE DEF r
<1>2. LabelsOK(r)
  BY <1>1 DEF LabelsOK
<1> QED BY <1>2 DEF r

(* remove_jobs forgets the label and the mark of a batch it leaves without *)
(* a row, and of no other.                                                 *)
LEMMA RemoveLabels ==
  ASSUME NEW q, QueueOK(q), LabelsOK(q), NEW ids
  PROVE  LabelsOK(RemoveJobs(q, ids))
<1> DEFINE S == ids \cap DOMAIN q.jobs
           r == RemoveJobs(q, ids)
           gone == ({q.jobs[id].batch : id \in S} \ {NoBatch}) \ DOMAIN r.batchRow
<1>1. DOMAIN q = QueueFields /\ RowsMatch(q)
  BY DEF QueueOK, QueueTyped
<1>2. /\ r.nextBatch = q.nextBatch
      /\ r.batchRow = [b \in {bb \in DOMAIN q.batchRow : q.batchRow[bb] \in Kept(q, S)} |->
                         NewKey(q, q.batchRow[b], S)]
  <2>1. RemoveResult(q, S, r)
    BY RemoveFields
  <2> QED BY <2>1 DEF RemoveResult
<1>3. r.batchLabels = q.batchLabels \ gone /\ r.unkept = q.unkept \ gone
  BY <1>1 DEF RemoveJobs, ForgetEmpty, QueueFields
<1> HIDE DEF r
<1>4. ASSUME NEW b \in DOMAIN q.batchRow, b \notin DOMAIN r.batchRow
      PROVE  b \in gone
  <2> DEFINE k == q.batchRow[b]
  <2>1. k \in DOMAIN q.rows /\ b # NoBatch /\ q.jobs[k].batch = b
    BY <1>1 DEF RowsMatch
  <2>2. k \notin Kept(q, S)
    BY <1>2, <1>4
  <2>3. q.rows[k].order \subseteq S /\ k \in q.rows[k].order
    BY <2>1, <2>2, <1>1 DEF Kept, Left, RowsMatch
  <2> QED BY <2>1, <2>3, <1>4
<1>5. DOMAIN r.batchRow \subseteq DOMAIN q.batchRow
  BY <1>2
<1> HIDE DEF S
<1>6. LabelsOK(r)
  BY <1>2, <1>3, <1>4, <1>5 DEF LabelsOK
<1> QED BY <1>6 DEF r

(* enqueue gives a row only to a batch that has a label.                   *)
LEMMA EnqueueLabels ==
  ASSUME NEW q, QueueOK(q), LabelsOK(q), NEW session, NEW direction, NEW files, NEW batch,
         batch \in q.batchLabels \cup {NoBatch}
  PROVE  LabelsOK(Enqueue(q, session, direction, files, batch))
<1>1. CASE files = <<>>
  BY <1>1 DEF Enqueue
<1>2. CASE files # <<>>
  <2> DEFINE r == Enqueue(q, session, direction, files, batch)
  <2>1. /\ r.nextBatch = q.nextBatch /\ r.batchLabels = q.batchLabels /\ r.unkept = q.unkept
        /\ DOMAIN r.batchRow = DOMAIN q.batchRow \cup ({batch} \ {NoBatch})
    <3>1. EnqueueResult(q, session, direction, files, batch, r,
                        NewIds(q, files), EnqueueKey(q, batch), EnqueueRow(q, direction, batch))
      BY <1>2, EnqueueFields
    <3> QED BY <3>1 DEF EnqueueResult
  <2> HIDE DEF r
  <2>2. LabelsOK(r)
    BY <2>1 DEF LabelsOK
  <2> QED BY <2>2 DEF r
<1> QED BY <1>1, <1>2

(* enqueue starts nothing.                                                 *)
LEMMA EnqueueSlots ==
  ASSUME NEW q, QueueOK(q), SlotsOK(q), NEW session, NEW direction, NEW files \in Files, NEW batch
  PROVE  SlotsOK(Enqueue(q, session, direction, files, batch))
<1>1. CASE files = <<>>
  BY <1>1 DEF Enqueue
<1>2. CASE files # <<>>
  <2> DEFINE r == Enqueue(q, session, direction, files, batch)
             ids == NewIds(q, files)
  <2>1. /\ r.running = q.running
        /\ r.jobs = [id \in DOMAIN q.jobs \cup ids |->
             IF id \in ids THEN NewJob(q, session, direction, files, batch, id) ELSE q.jobs[id]]
    <3>1. EnqueueResult(q, session, direction, files, batch, r,
                        NewIds(q, files), EnqueueKey(q, batch), EnqueueRow(q, direction, batch))
      BY <1>2, EnqueueFields
    <3> QED BY <3>1 DEF EnqueueResult
  <2>2. q.running \subseteq DOMAIN q.jobs /\ q.running \cap ids = {}
    <3>1. Len(files) \in Nat
      BY DEF Files
    <3>2. q.running \subseteq DOMAIN q.jobs
      BY DEF QueueOK, IndexesMatch, WithStatus
    <3> QED BY <3>1, <3>2 DEF QueueOK, QueueTyped, NewIds
  <2> HIDE DEF r, ids
  <2>3. \A id \in r.running : r.jobs[id] = q.jobs[id]
    BY <2>1, <2>2
  <2>4. SlotsOK(r)
    BY <2>1, <2>3, SlotsKept
  <2> QED BY <2>4 DEF r
<1> QED BY <1>1, <1>2

(* remove_jobs starts nothing.                                             *)
LEMMA RemoveSlots ==
  ASSUME NEW q, QueueOK(q), SlotsOK(q), NEW ids
  PROVE  SlotsOK(RemoveJobs(q, ids))
<1> DEFINE r == RemoveJobs(q, ids)
           S == ids \cap DOMAIN q.jobs
<1>1. r.running = q.running \ S /\ r.jobs = [id \in DOMAIN q.jobs \ S |-> q.jobs[id]]
  <2>1. RemoveResult(q, S, r)
    BY RemoveFields
  <2> QED BY <2>1 DEF RemoveResult
<1>2. q.running \subseteq DOMAIN q.jobs
  BY DEF QueueOK, IndexesMatch, WithStatus
<1> HIDE DEF r, S
<1>3. SlotsOK(r)
  BY <1>1, <1>2, SlotsKept
<1> QED BY <1>3 DEF r

(* Progress starts nothing and moves no label.                             *)
LEMMA SetTransferredRest ==
  ASSUME NEW q, QueueOK(q), SlotsOK(q), LabelsOK(q), NEW id \in DOMAIN q.jobs, NEW bytes
  PROVE  SlotsOK(SetTransferred(q, id, bytes)) /\ LabelsOK(SetTransferred(q, id, bytes))
<1> DEFINE r == SetTransferred(q, id, bytes)
<1>1. /\ r.jobs = [q.jobs EXCEPT ![id] = [@ EXCEPT !.transferred = bytes]]
      /\ r.running = q.running /\ r.batchRow = q.batchRow /\ r.nextBatch = q.nextBatch
      /\ r.batchLabels = q.batchLabels /\ r.unkept = q.unkept
  BY DEF SetTransferred, QueueOK, QueueTyped, QueueFields
<1>2. q.running \subseteq DOMAIN q.jobs
  BY DEF QueueOK, IndexesMatch, WithStatus
<1> HIDE DEF r
<1>3. ASSUME NEW i \in q.running
      PROVE  /\ r.jobs[i].session = q.jobs[i].session /\ r.jobs[i].direction = q.jobs[i].direction
             /\ r.jobs[i].path = q.jobs[i].path
  <2>1. q.jobs[i] \in Job
    BY <1>2 DEF QueueOK, QueueTyped
  <2> QED BY <2>1, <1>1, <1>2 DEF Job
<1>4. SlotsOK(r) /\ LabelsOK(r)
  BY <1>1, <1>3, SlotsKept DEF LabelsOK
<1> QED BY <1>4 DEF r

(* What the three simple marks do to labels and slots.                     *)
LEMMA MarksRest ==
  ASSUME NEW q, QueueOK(q), SlotsOK(q), LabelsOK(q)
  PROVE  /\ SlotsOK(StartBatch(q)) /\ LabelsOK(StartBatch(q))
         /\ \A b : SlotsOK(ForgetEmpty(q, b)) /\ LabelsOK(ForgetEmpty(q, b))
         /\ \A b \in DOMAIN q.batchRow : SlotsOK(FlagUnkeptTimes(q, b)) /\ LabelsOK(FlagUnkeptTimes(q, b))
         /\ SlotsOK([q EXCEPT !.changes = {}]) /\ LabelsOK([q EXCEPT !.changes = {}])
<1>1. DOMAIN q = QueueFields /\ q.nextBatch \in Nat
  BY DEF QueueOK, QueueTyped
<1>2. ASSUME NEW r, r.running = q.running, r.jobs = q.jobs
      PROVE  SlotsOK(r)
  BY <1>2, SlotsKept
<1>3. SlotsOK(StartBatch(q)) /\ LabelsOK(StartBatch(q))
  <2> DEFINE r == StartBatch(q)
  <2>1. /\ r.running = q.running /\ r.jobs = q.jobs /\ r.batchRow = q.batchRow /\ r.unkept = q.unkept
        /\ r.nextBatch = q.nextBatch + 1 /\ r.batchLabels = q.batchLabels \cup {q.nextBatch}
    BY <1>1 DEF StartBatch, QueueFields
  <2> HIDE DEF r
  <2>2. SlotsOK(r) /\ LabelsOK(r)
    BY <1>1, <1>2, <2>1 DEF LabelsOK
  <2> QED BY <2>2 DEF r
<1>4. ASSUME NEW b
      PROVE  SlotsOK(ForgetEmpty(q, b)) /\ LabelsOK(ForgetEmpty(q, b))
  <2> DEFINE r == ForgetEmpty(q, b)
  <2>1. /\ r.running = q.running /\ r.jobs = q.jobs /\ r.batchRow = q.batchRow /\ r.nextBatch = q.nextBatch
        /\ r.unkept = q.unkept \ (b \ DOMAIN q.batchRow)
        /\ r.batchLabels = q.batchLabels \ (b \ DOMAIN q.batchRow)
    BY <1>1 DEF ForgetEmpty, QueueFields
  <2> HIDE DEF r
  <2>2. SlotsOK(r) /\ LabelsOK(r)
    BY <1>2, <2>1 DEF LabelsOK
  <2> QED BY <2>2 DEF r
<1>5. ASSUME NEW b \in DOMAIN q.batchRow
      PROVE  SlotsOK(FlagUnkeptTimes(q, b)) /\ LabelsOK(FlagUnkeptTimes(q, b))
  <2> DEFINE r == FlagUnkeptTimes(q, b)
  <2>1. /\ r.running = q.running /\ r.jobs = q.jobs /\ r.batchRow = q.batchRow /\ r.nextBatch = q.nextBatch
        /\ r.unkept = q.unkept \cup {b} /\ r.batchLabels = q.batchLabels
    BY <1>1 DEF FlagUnkeptTimes, QueueFields
  <2> HIDE DEF r
  <2>2. SlotsOK(r) /\ LabelsOK(r)
    BY <1>2, <2>1 DEF LabelsOK
  <2> QED BY <2>2 DEF r
<1>6. SlotsOK([q EXCEPT !.changes = {}]) /\ LabelsOK([q EXCEPT !.changes = {}])
  <2> DEFINE r == [q EXCEPT !.changes = {}]
  <2>1. /\ r.running = q.running /\ r.jobs = q.jobs /\ r.batchRow = q.batchRow /\ r.nextBatch = q.nextBatch
        /\ r.unkept = q.unkept /\ r.batchLabels = q.batchLabels
    BY <1>1 DEF QueueFields
  <2> HIDE DEF r
  <2>2. SlotsOK(r) /\ LabelsOK(r)
    BY <1>2, <2>1 DEF LabelsOK
  <2> QED BY <2>2 DEF r
<1> QED BY <1>3, <1>4, <1>5, <1>6

(* The four operations built on reconcile keep slots and labels.           *)
LEMMA StatusRest ==
  ASSUME NEW q, QueueOK(q), SlotsOK(q), LabelsOK(q)
  PROVE  /\ \A S \in SUBSET DOMAIN q.jobs, st \in JobStatus \ {"InProgress"} :
              SlotsOK(SetStatus(q, S, st)) /\ LabelsOK(SetStatus(q, S, st))
         /\ \A ids : SlotsOK(RetryJobs(q, ids)) /\ LabelsOK(RetryJobs(q, ids))
         /\ \A id : SlotsOK(RetryOrGiveUp(q, id)) /\ LabelsOK(RetryOrGiveUp(q, id))
         /\ \A S : LabelsOK(StartJobs(q, S))
<1>0. \A id \in DOMAIN q.jobs : q.jobs[id] \in Job
  BY DEF QueueOK, QueueTyped
<1>1. ASSUME NEW S \in SUBSET DOMAIN q.jobs, NEW st \in JobStatus \ {"InProgress"}
      PROVE  SlotsOK(SetStatus(q, S, st)) /\ LabelsOK(SetStatus(q, S, st))
  <2> DEFINE after == [id \in S |-> [q.jobs[id] EXCEPT !.status = st]]
  <2>1. \A id \in S : /\ after[id].session = q.jobs[id].session
                      /\ after[id].direction = q.jobs[id].direction
                      /\ after[id].path = q.jobs[id].path
                      /\ after[id].status # "InProgress"
    BY <1>0 DEF Job
  <2> HIDE DEF after
  <2>2. SlotsOK(Reconcile(q, S, after)) /\ LabelsOK(Reconcile(q, S, after))
    BY <2>1, ReconcileSlots, ReconcileLabels
  <2> QED BY <2>2 DEF SetStatus, after
<1>2. ASSUME NEW ids
      PROVE  SlotsOK(RetryJobs(q, ids)) /\ LabelsOK(RetryJobs(q, ids))
  <2> DEFINE S == {id \in ids \cap DOMAIN q.jobs : IsRetryable(q.jobs[id])}
             after == [id \in S |-> [q.jobs[id] EXCEPT
                         !.resume = q.jobs[id].attempts > 0, !.status = "Queued", !.attempts = 0]]
  <2>1. \A id \in S : /\ after[id].session = q.jobs[id].session
                      /\ after[id].direction = q.jobs[id].direction
                      /\ after[id].path = q.jobs[id].path
                      /\ after[id].status # "InProgress"
    BY <1>0 DEF Job
  <2>2. S \in SUBSET DOMAIN q.jobs
    OBVIOUS
  <2> HIDE DEF after, S
  <2>3. SlotsOK(Reconcile(q, S, after)) /\ LabelsOK(Reconcile(q, S, after))
    BY <2>1, <2>2, ReconcileSlots, ReconcileLabels
  <2> QED BY <2>3 DEF RetryJobs, after, S
<1>3. ASSUME NEW id
      PROVE  SlotsOK(RetryOrGiveUp(q, id)) /\ LabelsOK(RetryOrGiveUp(q, id))
  <2> DEFINE after == [i \in {id} |-> [q.jobs[i] EXCEPT !.status = "Queued", !.resume = TRUE]]
  <2>1. CASE CanRetry(q, id)
    <3>1. id \in DOMAIN q.jobs /\ q.jobs[id] \in Job
      BY <2>1, <1>0 DEF CanRetry
    <3>2. \A i \in {id} : /\ after[i].session = q.jobs[i].session
                          /\ after[i].direction = q.jobs[i].direction
                          /\ after[i].path = q.jobs[i].path
                          /\ after[i].status # "InProgress"
      BY <3>1 DEF Job
    <3> HIDE DEF after
    <3>3. SlotsOK(Reconcile(q, {id}, after)) /\ LabelsOK(Reconcile(q, {id}, after))
      BY <3>1, <3>2, ReconcileSlots, ReconcileLabels
    <3> QED BY <2>1, <3>3 DEF RetryOrGiveUp, after
  <2>2. CASE ~ CanRetry(q, id)
    BY <2>2 DEF RetryOrGiveUp
  <2> QED BY <2>1, <2>2
<1>4. ASSUME NEW S
      PROVE  LabelsOK(StartJobs(q, S))
  BY ReconcileLabels DEF StartJobs
<1> QED BY <1>1, <1>2, <1>3, <1>4

(* The empty queue satisfies the invariant.                                *)
LEMMA InitInv == Init => IInv
<1> SUFFICES ASSUME Init PROVE IInv
  OBVIOUS
<1>1. QueueOK(transfers)
  BY NewQueueOK DEF Init
<1>2. /\ transfers.running = {} /\ transfers.nextBatch = 0
      /\ transfers.batchLabels = {} /\ DOMAIN transfers.batchRow = {} /\ transfers.unkept = {}
  BY DEF Init, NewQueue
<1>3. SlotsOK(transfers)
  <2>1. \A s : InSession(transfers, transfers.running, s) = {}
    BY <1>2 DEF InSession
  <2> QED BY <1>2, <2>1, FS_EmptySet, LimitsAssumption, CapAssumption DEF SlotsOK
<1>4. LabelsOK(transfers)
  BY <1>2 DEF LabelsOK
<1> QED BY <1>1, <1>3, <1>4 DEF IInv

(* Every operation, and the reader, keeps the invariant.                   *)
LEMMA NextInv == IInv /\ [Next]_vars => IInv'
<1> SUFFICES ASSUME IInv, [Next]_vars PROVE IInv'
  OBVIOUS
<1> DEFINE q == transfers
<1>i. QueueOK(q) /\ SlotsOK(q) /\ LabelsOK(q)
  BY DEF IInv
<1>n. NoBatch \notin Nat /\ q.nextBatch \in Nat
  BY <1>i DEF NoBatch, QueueOK, QueueTyped
<1>ids. q.running \subseteq DOMAIN q.jobs /\ q.queued \subseteq DOMAIN q.jobs
        /\ \A s \in Sessions : q.queuedBySession[s] \subseteq DOMAIN q.jobs
  BY <1>i DEF QueueOK, IndexesMatch, WithStatus
<1>1. CASE DoEnqueue
  <2>1. PICK in \in Inputs, b \in q.batchLabels \cup {NoBatch} :
          /\ b = NoBatch => Len(in[3]) = 1
          /\ transfers' = Enqueue(q, in[1], in[2], in[3], b)
    BY <1>1 DEF DoEnqueue
  <2>2. in[1] \in Sessions /\ in[2] \in Direction /\ in[3] \in Files
    <3>1. in \in Sessions \X Direction \X Seq(File)
      BY InputsAssumption
    <3>2. in[1] \in Sessions /\ in[2] \in Direction /\ in[3] \in Seq(File)
      BY <3>1
    <3>3. File \subseteq [path: Paths, total: Nat, resume: BOOLEAN]
      BY SizesAssumption DEF File
    <3>4. \A A, B : A \subseteq B => Seq(A) \subseteq Seq(B)
      BY SeqMonotonic
    <3>5. Seq(File) \subseteq Files
      BY <3>3, <3>4 DEF Files
    <3>6. in[3] \in Files
      BY <3>2, <3>5
    <3> QED BY <3>2, <3>6
  <2>3. b \in Nat \cup {NoBatch}
    BY <1>i, <1>n DEF LabelsOK
  <2>4. b = NoBatch => Len(in[3]) <= 1
    <3>1. b = NoBatch => Len(in[3]) = 1
      BY <2>1
    <3>2. 1 <= 1
      OBVIOUS
    <3> HIDE DEF NoBatch
    <3> QED BY ONLY <3>1, <3>2
  <2> HIDE DEF q
  <2>5. QueueOK(Enqueue(q, in[1], in[2], in[3], b))
    BY <1>i, <2>2, <2>3, <2>4, EnqueueOK
  <2>6. SlotsOK(Enqueue(q, in[1], in[2], in[3], b)) /\ LabelsOK(Enqueue(q, in[1], in[2], in[3], b))
    BY <1>i, <2>2, EnqueueSlots, EnqueueLabels
  <2> QED BY <2>1, <2>5, <2>6 DEF IInv
<1>2. CASE DoStartBatch
  <2>1. QueueOK(StartBatch(q))
    BY <1>i, MarksOK, SameIndexesOK
  <2> QED BY <1>2, <1>i, <2>1, MarksRest DEF DoStartBatch, IInv
<1>3. CASE DoForgetBatchIfEmpty
  <2>1. PICK b \in q.batchLabels : transfers' = ForgetEmpty(q, {b})
    BY <1>3 DEF DoForgetBatchIfEmpty
  <2>2. QueueOK(ForgetEmpty(q, {b}))
    BY <1>i, MarksOK, SameIndexesOK
  <2> QED BY <2>1, <2>2, <1>i, MarksRest DEF IInv
<1>4. CASE DoFlagUnkeptTimes
  <2>1. PICK id \in DOMAIN q.jobs : q.jobs[id].batch # NoBatch /\ transfers' = FlagUnkeptTimes(q, q.jobs[id].batch)
    BY <1>4 DEF DoFlagUnkeptTimes
  <2>2. q.jobs[id].batch \in DOMAIN q.batchRow
    BY <2>1, <1>i DEF QueueOK, RowsMatch
  <2>3. QueueOK(FlagUnkeptTimes(q, q.jobs[id].batch))
    BY <1>i, MarksOK, SameIndexesOK
  <2> QED BY <2>1, <2>2, <2>3, <1>i, MarksRest DEF IInv
<1>5. CASE DoStart
  <2>1. PICK S \in SUBSET q.queued : IsStartable(q, S) /\ transfers' = StartJobs(q, S)
    BY <1>5 DEF DoStart
  <2> QED BY <2>1, <1>i, StartJobsOK, StartSlots, StatusRest DEF IInv
<1>6. CASE DoProgress
  <2>1. PICK id \in q.running, bytes \in Sizes : transfers' = SetTransferred(q, id, bytes)
    BY <1>6 DEF DoProgress
  <2>2. id \in DOMAIN q.jobs /\ bytes \in Nat
    BY <1>ids, SizesAssumption
  <2> QED BY <2>1, <2>2, <1>i, SetTransferredOK, SetTransferredRest DEF IInv
<1>status. ASSUME NEW S \in SUBSET DOMAIN q.jobs, NEW st \in {"Completed", "Failed", "Cancelled"},
                  transfers' = SetStatus(q, S, st)
           PROVE  IInv'
  <2>1. st \in JobStatus /\ st # "Queued" /\ st \in JobStatus \ {"InProgress"}
    BY DEF JobStatus
  <2> HIDE DEF q
  <2>2. QueueOK(SetStatus(q, S, st))
    BY <1>i, <2>1, SetStatusOK
  <2>3. SlotsOK(SetStatus(q, S, st)) /\ LabelsOK(SetStatus(q, S, st))
    BY <1>i, <2>1, StatusRest
  <2> QED BY <1>status, <2>2, <2>3 DEF IInv
<1>7. CASE DoEnd
  <2>1. PICK id \in q.running, st \in {"Completed", "Failed", "Cancelled"} : transfers' = SetStatus(q, {id}, st)
    BY <1>7 DEF DoEnd
  <2> QED BY <2>1, <1>ids, <1>status
<1>8. CASE DoRetryOrGiveUp
  <2>1. PICK id : transfers' = RetryOrGiveUp(q, id)
    BY <1>8 DEF DoRetryOrGiveUp
  <2> QED BY <2>1, <1>i, RetryOrGiveUpOK, StatusRest DEF IInv
<1>9. CASE DoCancelQueued
  <2>1. PICK id \in q.queued : transfers' = SetStatus(q, {id}, "Cancelled")
    BY <1>9 DEF DoCancelQueued
  <2> QED BY <2>1, <1>ids, <1>status
<1>10. CASE DoCancelAllQueued
  BY <1>10, <1>ids, <1>status DEF DoCancelAllQueued, CancelAllQueued
<1>11. CASE DoFailQueuedForSession
  <2>1. PICK s \in Sessions : transfers' = SetStatus(q, q.queuedBySession[s], "Failed")
    BY <1>11 DEF DoFailQueuedForSession, FailQueuedForSession
  <2> QED BY <2>1, <1>ids, <1>status
<1>12. CASE DoRetryJobs
  <2>1. PICK S : transfers' = RetryJobs(q, S)
    BY <1>12 DEF DoRetryJobs
  <2> QED BY <2>1, <1>i, RetryJobsOK, StatusRest DEF IInv
<1>13. CASE DoRemoveJobs
  <2>1. PICK S : transfers' = RemoveJobs(q, S)
    BY <1>13 DEF DoRemoveJobs
  <2> QED BY <2>1, <1>i, RemoveJobsOK, RemoveSlots, RemoveLabels DEF IInv
<1>14. CASE TakeChanges
  <2>1. transfers' = [q EXCEPT !.changes = {}]
    BY <1>14 DEF TakeChanges
  <2>2. QueueOK([q EXCEPT !.changes = {}])
    BY <1>i, MarksOK, SameIndexesOK
  <2> QED BY <2>1, <2>2, <1>i, MarksRest DEF IInv
<1>15. CASE UNCHANGED vars
  BY <1>15, <1>i DEF vars, IInv
<1> QED
  BY <1>1, <1>2, <1>3, <1>4, <1>5, <1>6, <1>7, <1>8, <1>9, <1>10, <1>11, <1>12, <1>13, <1>14, <1>15
  DEF Next, Operate

(* IInv is an invariant of the queue, whatever its callers do.             *)
THEOREM Invariant == Spec => []IInv
<1>1. Init => IInv
  BY InitInv
<1>2. IInv /\ [Next]_vars => IInv'
  BY NextInv
<1> QED BY <1>1, <1>2, PTL DEF Spec

(* The queue's fields keep their types: ids below next_id, statuses and    *)
(* attempts in range, no count below zero.                                 *)
THEOREM TypeCorrect == Spec => []TypeOK
<1>1. IInv => TypeOK
  <2> SUFFICES ASSUME IInv PROVE TypeOK
    OBVIOUS
  <2>1. QueueTyped(transfers) /\ IndexesMatch(transfers) /\ LabelsOK(transfers)
    BY DEF IInv, QueueOK
  <2>2. transfers.queuedBySession \in [Sessions -> SUBSET transfers.queued]
    BY <2>1 DEF IndexesMatch
  <2> QED BY <2>1, <2>2 DEF TypeOK, QueueTyped, LabelsOK
<1> QED BY <1>1, Invariant, PTL

(* assert_consistent: the running set, the queued sets and the pending     *)
(* counts are those the statuses define, after any sequence of operations. *)
THEOREM IndexesCorrect == Spec => []IndexesConsistent
<1>1. IInv => IndexesConsistent
  BY DEF IInv, QueueOK, IndexesConsistent
<1> QED BY <1>1, Invariant, PTL

(* assert_consistent: the rows partition the jobs and every batch is found *)
(* at its row, after any sequence of operations.                           *)
THEOREM RowsCorrect == Spec => []RowsConsistent
<1>1. IInv => RowsConsistent
  BY DEF IInv, QueueOK, RowsConsistent
<1> QED BY <1>1, Invariant, PTL

(* assert_consistent: a row's counters count its jobs, so that what the    *)
(* user reads of a row, and history learns of it, is never off.            *)
THEOREM CountersCorrect == Spec => []CountersConsistent
<1>1. IInv => CountersConsistent
  BY DEF IInv, QueueOK, CountersConsistent
<1> QED BY <1>1, Invariant, PTL

(* startable_limited never lets two transfers write to one destination.    *)
THEOREM DestinationsCorrect == Spec => []DestinationsDistinct
<1>1. IInv => DestinationsDistinct
  BY DEF IInv, SlotsOK, DestinationsDistinct
<1> QED BY <1>1, Invariant, PTL

(* startable_limited respects max_parallel and every session's cap.        *)
THEOREM LimitsCorrect == Spec => []WithinLimits
<1>1. IInv => WithinLimits
  BY DEF IInv, SlotsOK, WithinLimits
<1> QED BY <1>1, Invariant, PTL

(* retry_or_give_up and retry_jobs: no job is tried more often than        *)
(* MAX_ATTEMPTS between two retries of the user.                           *)
THEOREM AttemptsCorrect == Spec => []AttemptsBounded
<1>1. IInv => AttemptsBounded
  <2> SUFFICES ASSUME IInv, NEW id \in DOMAIN transfers.jobs
               PROVE  /\ transfers.jobs[id].attempts <= MaxAttempts
                      /\ id \in transfers.queued => transfers.jobs[id].attempts < MaxAttempts
    BY DEF AttemptsBounded
  <2>1. QueueTyped(transfers) /\ IndexesMatch(transfers)
    BY DEF IInv, QueueOK
  <2>2. transfers.jobs[id] \in Job /\ (transfers.jobs[id].status = "Queued" => transfers.jobs[id].attempts < MaxAttempts)
    BY <2>1 DEF QueueTyped
  <2>3. transfers.jobs[id].attempts \in 0..MaxAttempts
    BY <2>2 DEF Job
  <2>4. id \in transfers.queued => transfers.jobs[id].status = "Queued"
    BY <2>1 DEF IndexesMatch, WithStatus
  <2> QED BY <2>2, <2>3, <2>4, LimitsAssumption
<1> QED BY <1>1, Invariant, PTL

(* forget_batch_if_empty and remove_jobs: labels and marks live as long as *)
(* the rows that need them, and no longer.                                 *)
THEOREM LabelsCorrect == Spec => []LabelsKept
<1>1. IInv => LabelsKept
  BY DEF IInv, LabelsOK, LabelsKept
<1> QED BY <1>1, Invariant, PTL

---------------------------------------------------------------------------
(* A reader that knew which rows are finished when it last looked.         *)
ReaderRight == \A kind : kind \notin transfers.changes => (kind \in recorded <=> kind \in FinishedKinds(transfers))

LEMMA OperateTells ==
  ASSUME IInv, Operate
  PROVE  Tells(transfers, transfers') /\ recorded' = recorded
<1> DEFINE q == transfers
<1>i. QueueOK(q) /\ LabelsOK(q)
  BY DEF IInv
<1>ids. /\ q.running \subseteq DOMAIN q.jobs /\ q.queued \subseteq DOMAIN q.jobs
        /\ q.nextBatch \in Nat
  BY <1>i DEF QueueOK, QueueTyped, IndexesMatch, WithStatus
<1>1. CASE DoEnqueue
  <2>1. PICK in \in Inputs, b \in q.batchLabels \cup {NoBatch} :
          transfers' = Enqueue(q, in[1], in[2], in[3], b)
    BY <1>1 DEF DoEnqueue
  <2>2. in \in Sessions \X Direction \X Seq(File)
    BY InputsAssumption
  <2>3. File \subseteq [path: Paths, total: Nat, resume: BOOLEAN]
    BY SizesAssumption DEF File
  <2>4. \A A, B : A \subseteq B => Seq(A) \subseteq Seq(B)
    BY SeqMonotonic
  <2>5. Seq(File) \subseteq Files
    BY <2>3, <2>4 DEF Files
  <2>6. in[2] \in Direction /\ in[3] \in Files
    BY <2>2, <2>5
  <2>7. b \in Nat \cup {NoBatch}
    BY <1>i, <1>ids DEF LabelsOK
  <2> QED BY <1>i, <1>1, <2>1, <2>6, <2>7, EnqueueTells DEF DoEnqueue
<1>2. CASE DoStartBatch
  BY <1>2, <1>i, MarksTell DEF DoStartBatch
<1>3. CASE DoForgetBatchIfEmpty
  BY <1>3, <1>i, MarksTell DEF DoForgetBatchIfEmpty
<1>4. CASE DoFlagUnkeptTimes
  BY <1>4, <1>i, MarksTell DEF DoFlagUnkeptTimes
<1>5. CASE DoStart
  BY <1>5, <1>i, ReconcileTells DEF DoStart, StartJobs
<1>6. CASE DoProgress
  <2>1. PICK id \in q.running, bytes \in Sizes : transfers' = SetTransferred(q, id, bytes)
    BY <1>6 DEF DoProgress
  <2> QED BY <1>6, <2>1, <1>ids, <1>i, SetTransferredTells DEF DoProgress
<1>7. CASE DoEnd
  BY <1>7, <1>i, ReconcileTells DEF DoEnd, SetStatus
<1>8. CASE DoRetryOrGiveUp
  BY <1>8, <1>i, ReconcileTells DEF DoRetryOrGiveUp, RetryOrGiveUp
<1>9. CASE DoCancelQueued
  BY <1>9, <1>i, ReconcileTells DEF DoCancelQueued, SetStatus
<1>10. CASE DoCancelAllQueued
  BY <1>10, <1>i, ReconcileTells DEF DoCancelAllQueued, CancelAllQueued, SetStatus
<1>11. CASE DoFailQueuedForSession
  BY <1>11, <1>i, ReconcileTells DEF DoFailQueuedForSession, FailQueuedForSession, SetStatus
<1>12. CASE DoRetryJobs
  BY <1>12, <1>i, ReconcileTells DEF DoRetryJobs, RetryJobs
<1>13. CASE DoRemoveJobs
  BY <1>13, <1>i, RemoveTells DEF DoRemoveJobs
<1> QED
  BY <1>1, <1>2, <1>3, <1>4, <1>5, <1>6, <1>7, <1>8, <1>9, <1>10, <1>11, <1>12, <1>13 DEF Operate

(* take_changes and process_row_changes: a reader that looks again only at *)
(* the rows that a change names knows of every row whether it is finished, *)
(* whatever the operations between two readings.                           *)
THEOREM ChangesCorrect == Spec => []ChangesTellAll
<1>1. Init => IInv /\ ReaderRight
  BY InitInv DEF Init, NewQueue, ReaderRight, FinishedKinds
<1>2. IInv /\ ReaderRight /\ [Next]_vars => (IInv /\ ReaderRight)'
  <2> SUFFICES ASSUME IInv, ReaderRight, [Next]_vars PROVE ReaderRight'
    BY NextInv
  <2>1. CASE Operate
    BY <2>1, OperateTells DEF Tells, ReaderRight
  <2>2. CASE TakeChanges
    <3>1. QueueOK(transfers) /\ DOMAIN transfers = QueueFields
      BY DEF IInv, QueueOK, QueueTyped
    <3>2. transfers'.rows = transfers.rows /\ transfers'.changes = {}
      BY <2>2, <3>1 DEF TakeChanges, QueueFields
    <3>3. FinishedKinds(transfers') = FinishedKinds(transfers)
      BY <3>2 DEF FinishedKinds
    <3>4. \A kind : kind \in recorded' <=> kind \in FinishedKinds(transfers)
      BY <2>2, <3>1, KindsFinished DEF TakeChanges, ReaderRight
    <3> QED BY <3>3, <3>4 DEF ReaderRight
  <2>3. CASE UNCHANGED vars
    BY <2>3 DEF vars, ReaderRight
  <2> QED BY <2>1, <2>2, <2>3 DEF Next
<1>3. IInv /\ ReaderRight => ChangesTellAll
  BY KindsFinished DEF IInv, ReaderRight, ChangesTellAll
<1> QED BY <1>1, <1>2, <1>3, PTL DEF Spec

---------------------------------------------------------------------------
(* A row's bytes.  MapThenSumSet folds over a set an element at a time, in *)
(* an order of its own choosing: Sum is that fold with a function for its  *)
(* argument, and the lemmas below show that the order does not matter.     *)
(* Induction over a finite set is a proof by its smallest counterexample.  *)

(* What holds of a subset when it holds of those with one element less     *)
(* holds of them all.                                                      *)
LEMMA SubsetInduction ==
  ASSUME NEW S, IsFiniteSet(S), NEW P,
         \A t \in SUBSET S : (\A x \in t : t \ {x} \in P) => t \in P
  PROVE  SUBSET S \subseteq P
<1> SUFFICES ASSUME NEW u \in SUBSET S, u \notin P PROVE FALSE
  OBVIOUS
<1> DEFINE D == {n \in Nat : \E t \in SUBSET S : t \notin P /\ Cardinality(t) = n}
<1>1. \A t \in SUBSET S : IsFiniteSet(t) /\ Cardinality(t) \in Nat
  BY FS_Subset, FS_CardinalityType
<1>2. Cardinality(u) \in D
  BY <1>1
<1>3. IsWellFoundedOn(OpToRel(<, Nat), Nat)
  BY NatLessThanWellFounded
<1>4. PICK n \in D : \A m \in D : ~(<<m, n>> \in OpToRel(<, Nat))
  BY <1>2, <1>3, WFMin
<1>5. \A m \in D : ~(m < n)
  BY <1>4 DEF OpToRel
<1>6. PICK t \in SUBSET S : t \notin P /\ Cardinality(t) = n
  OBVIOUS
<1>7. ASSUME NEW x \in t PROVE t \ {x} \in P
  <2>1. Cardinality(t \ {x}) = n - 1 /\ n \in Nat
    BY <1>1, <1>6, FS_RemoveElement
  <2>2. Cardinality(t \ {x}) \in Nat /\ t \ {x} \in SUBSET S
    BY <1>1
  <2> QED
    BY <1>5, <2>1, <2>2
<1> QED
  BY <1>6, <1>7

(* What MapThenSumSet's fold is: h is the sum over every subset of S.      *)
AnyOf(s) == CHOOSE x \in s : TRUE
IsSum(f, S, h) ==
    h = [s \in SUBSET S |-> IF s = {} THEN 0 ELSE f[AnyOf(s)] + h[s \ {AnyOf(s)}]]
Sum(f, S) == (CHOOSE h : IsSum(f, S, h))[S]

(* The fold is defined: there is such a function, subset size by size.     *)
LEMMA SumExists ==
  ASSUME NEW f, NEW S, IsFiniteSet(S)
  PROVE  \E h : IsSum(f, S, h)
<1> DEFINE Sub(n) == {s \in SUBSET S : Cardinality(s) <= n}
           Upto(n) == \E h : h = [s \in Sub(n) |-> IF s = {} THEN 0 ELSE f[AnyOf(s)] + h[s \ {AnyOf(s)}]]
           D == {n \in Nat : ~Upto(n)}
<1>1. \A t \in SUBSET S : IsFiniteSet(t) /\ Cardinality(t) \in Nat
  BY FS_Subset, FS_CardinalityType
<1>2. \A t \in SUBSET S : t # {} =>
        /\ AnyOf(t) \in t /\ t \ {AnyOf(t)} \in SUBSET S
        /\ Cardinality(t \ {AnyOf(t)}) = Cardinality(t) - 1
  BY <1>1, FS_RemoveElement DEF AnyOf
<1>3. ASSUME NEW n \in Nat, n # 0 => Upto(n - 1) PROVE Upto(n)
  <2>1. PICK g : n # 0 => g = [s \in Sub(n - 1) |-> IF s = {} THEN 0 ELSE f[AnyOf(s)] + g[s \ {AnyOf(s)}]]
    BY <1>3
  <2> DEFINE h == [s \in Sub(n) |-> IF s = {} THEN 0 ELSE f[AnyOf(s)] + g[s \ {AnyOf(s)}]]
  <2>2. ASSUME NEW s \in Sub(n), s # {} PROVE h[s \ {AnyOf(s)}] = g[s \ {AnyOf(s)}]
    <3> DEFINE u == s \ {AnyOf(s)}
    <3>1. Cardinality(s) # 0 /\ Cardinality(s) \in Nat /\ u \in SUBSET S /\ Cardinality(u) = Cardinality(s) - 1
      BY <1>1, <1>2, <2>2, FS_EmptySet
    <3> HIDE DEF u
    <3>2. u \in Sub(n - 1) /\ u \in Sub(n) /\ n # 0
      BY <3>1
    <3>3. h[u] = IF u = {} THEN 0 ELSE f[AnyOf(u)] + g[u \ {AnyOf(u)}]
      BY <3>2
    <3>4. g[u] = IF u = {} THEN 0 ELSE f[AnyOf(u)] + g[u \ {AnyOf(u)}]
      BY <2>1, <3>2
    <3> QED BY <3>3, <3>4 DEF u
  <2>3. h = [s \in Sub(n) |-> IF s = {} THEN 0 ELSE f[AnyOf(s)] + h[s \ {AnyOf(s)}]]
    BY <2>2
  <2> QED BY <2>3
<1>4. \A n \in Nat : Upto(n)
  <2> SUFFICES ASSUME NEW u \in Nat, ~Upto(u) PROVE FALSE
    OBVIOUS
  <2> HIDE DEF Upto
  <2>1. IsWellFoundedOn(OpToRel(<, Nat), Nat)
    BY NatLessThanWellFounded
  <2>2. PICK n \in D : \A m \in D : ~(<<m, n>> \in OpToRel(<, Nat))
    BY <2>1, WFMin
  <2>3. \A m \in D : ~(m < n)
    BY <2>2 DEF OpToRel
  <2>4. n \in Nat /\ ~Upto(n)
    OBVIOUS
  <2>5. n # 0 => Upto(n - 1)
    BY <2>3, <2>4
  <2> QED BY <1>3, <2>4, <2>5
<1>5. \A t \in SUBSET S : Cardinality(t) <= Cardinality(S)
  BY FS_Subset
<1>6. Sub(Cardinality(S)) = SUBSET S
  BY <1>5
<1>7. Upto(Cardinality(S))
  BY <1>1, <1>4
<1> QED BY <1>6, <1>7 DEF IsSum

(* Sum is its value.                                                       *)
LEMMA SumIs ==
  ASSUME NEW f, NEW S, IsFiniteSet(S)
  PROVE  \E h : IsSum(f, S, h) /\ Sum(f, S) = h[S]
BY SumExists DEF Sum

(* The sum over a part is what the fold over the whole says of it.         *)
LEMMA SumOfPart ==
  ASSUME NEW f, NEW S, IsFiniteSet(S), NEW h, IsSum(f, S, h), NEW T \in SUBSET S,
         NEW g, IsSum(f, T, g)
  PROVE  g[T] = h[T]
<1> DEFINE P == {s \in SUBSET S : s \in SUBSET T => g[s] = h[s]}
<1>1. ASSUME NEW t \in SUBSET S, \A x \in t : t \ {x} \in P PROVE t \in P
  <2>1. h[t] = IF t = {} THEN 0 ELSE f[AnyOf(t)] + h[t \ {AnyOf(t)}]
    BY DEF IsSum
  <2>2. t \in SUBSET T => g[t] = IF t = {} THEN 0 ELSE f[AnyOf(t)] + g[t \ {AnyOf(t)}]
    BY DEF IsSum
  <2>3. t # {} => AnyOf(t) \in t
    BY DEF AnyOf
  <2> QED BY <1>1, <2>1, <2>2, <2>3
<1>2. SUBSET S \subseteq P
  <2> HIDE DEF P
  <2> QED BY <1>1, SubsetInduction
<1> QED BY <1>2

(* So that the sum over a part does not depend on the whole.               *)
LEMMA SumPart ==
  ASSUME NEW f, NEW S, IsFiniteSet(S), NEW h, IsSum(f, S, h), NEW T \in SUBSET S
  PROVE  Sum(f, T) = h[T]
<1>1. PICK g : IsSum(f, T, g) /\ Sum(f, T) = g[T]
  BY FS_Subset, SumIs
<1> QED BY <1>1, SumOfPart

(* The elements may be taken in any order.                                 *)
LEMMA SumTakes ==
  ASSUME NEW f, NEW S, IsFiniteSet(S), \A x \in S : f[x] \in Nat
  PROVE  /\ Sum(f, {}) = 0
         /\ \A s \in SUBSET S : /\ Sum(f, s) \in Nat
                                /\ \A y \in s : Sum(f, s) = f[y] + Sum(f, s \ {y})
<1>1. PICK h : IsSum(f, S, h) /\ \A T \in SUBSET S : Sum(f, T) = h[T]
  BY SumIs, SumPart
<1>2. \A t \in SUBSET S : h[t] = IF t = {} THEN 0 ELSE f[AnyOf(t)] + h[t \ {AnyOf(t)}]
  BY <1>1 DEF IsSum
<1>n. \A u \in SUBSET S : h[u] \in Nat
  <2> DEFINE P == {u \in SUBSET S : h[u] \in Nat}
  <2>1. ASSUME NEW t \in SUBSET S, \A x \in t : t \ {x} \in P PROVE t \in P
    <3>1. t # {} => AnyOf(t) \in t
      BY DEF AnyOf
    <3>2. t # {} => f[AnyOf(t)] \in Nat /\ h[t \ {AnyOf(t)}] \in Nat
      BY <2>1, <3>1
    <3>3. h[t] = IF t = {} THEN 0 ELSE f[AnyOf(t)] + h[t \ {AnyOf(t)}]
      BY <1>2
    <3>4. h[t] \in Nat
      BY ONLY <3>2, <3>3
    <3> QED BY <3>4
  <2>2. SUBSET S \subseteq P
    <3> HIDE DEF P
    <3> QED BY <2>1, SubsetInduction
  <2> QED BY <2>2
<1> DEFINE Takes(u) == \A y \in u : h[u] = f[y] + h[u \ {y}]
           P == {u \in SUBSET S : Takes(u)}
<1>3. ASSUME NEW t \in SUBSET S, \A x \in t : t \ {x} \in P PROVE t \in P
  <2>1. CASE t = {}
    BY <2>1
  <2>2. CASE t # {}
    <3> DEFINE x == AnyOf(t)
    <3>1. x \in t /\ h[t] = f[x] + h[t \ {x}] /\ t \ {x} \in P
      BY <1>2, <1>3, <2>2 DEF AnyOf
    <3> HIDE DEF x
    <3>3. ASSUME NEW y \in t, y # x PROVE h[t] = f[y] + h[t \ {y}]
      <4>1. t \ {y} \in P
        BY <1>3
      <4>2. h[t \ {x}] = f[y] + h[(t \ {x}) \ {y}]
        BY <3>1, <3>3
      <4>3. h[t \ {y}] = f[x] + h[(t \ {y}) \ {x}]
        BY <3>1, <3>3, <4>1
      <4>4. (t \ {x}) \ {y} = (t \ {y}) \ {x}
        OBVIOUS
      <4>5. PICK u : u = (t \ {x}) \ {y}
        OBVIOUS
      <4>6. h[t \ {x}] = f[y] + h[u] /\ h[t \ {y}] = f[x] + h[u]
        BY <4>2, <4>3, <4>4, <4>5
      <4>7. h[u] \in Nat /\ f[y] \in Nat /\ f[x] \in Nat
        BY <1>n, <3>1, <4>5
      <4> QED BY ONLY <3>1, <4>6, <4>7
    <3> QED BY <3>1, <3>3
  <2> QED BY <2>1, <2>2
<1>4. SUBSET S \subseteq P
  <2> HIDE DEF P, Takes
  <2> QED BY <1>3, SubsetInduction
<1>5. \A s \in SUBSET S, y \in S : s \ {y} \in SUBSET S
  OBVIOUS
<1>6. Sum(f, {}) = 0
  BY <1>1, <1>2
<1>7. ASSUME NEW s \in SUBSET S
      PROVE  Sum(f, s) \in Nat /\ \A y \in s : Sum(f, s) = f[y] + Sum(f, s \ {y})
  <2>1. h[s] \in Nat /\ \A y \in s : h[s] = f[y] + h[s \ {y}]
    BY <1>n, <1>4
  <2> QED BY <1>1, <1>5, <2>1
<1> QED BY <1>6, <1>7

(* Functions that agree on a set have the same sum over it.                *)
LEMMA SumSame ==
  ASSUME NEW f, NEW g, NEW S, IsFiniteSet(S), \A x \in S : f[x] = g[x]
  PROVE  Sum(f, S) = Sum(g, S)
<1>1. PICK h : IsSum(f, S, h) /\ Sum(f, S) = h[S]
  BY SumIs
<1>2. \A s \in SUBSET S : s # {} => AnyOf(s) \in S
  BY DEF AnyOf
<1>3. IsSum(g, S, h)
  BY <1>1, <1>2 DEF IsSum
<1> QED BY <1>1, <1>3, SumPart

(* The sum over two sets apart                                             *)
LEMMA SumApart ==
  ASSUME NEW f, NEW A, IsFiniteSet(A), NEW B, IsFiniteSet(B), A \cap B = {},
         \A x \in A \cup B : f[x] \in Nat
  PROVE  /\ Sum(f, A \cup B) = Sum(f, A) + Sum(f, B)
         /\ Sum(f, A) \in Nat /\ Sum(f, B) \in Nat
<1>1. IsFiniteSet(A \cup B)
  BY FS_Union
<1>2. /\ Sum(f, {}) = 0
      /\ \A s \in SUBSET (A \cup B) : /\ Sum(f, s) \in Nat
                                      /\ \A y \in s : Sum(f, s) = f[y] + Sum(f, s \ {y})
  BY <1>1, SumTakes
<1> DEFINE P == {t \in SUBSET B : Sum(f, A \cup t) = Sum(f, A) + Sum(f, t)}
<1>3. ASSUME NEW t \in SUBSET B, \A x \in t : t \ {x} \in P PROVE t \in P
  <2>1. CASE t = {}
    <3>1. Sum(f, A) \in Nat /\ A \cup t = A /\ Sum(f, t) = 0
      BY <1>2, <2>1
    <3>2. Sum(f, A \cup t) = Sum(f, A) + Sum(f, t)
      BY <3>1
    <3> QED BY <3>2
  <2>2. CASE t # {}
    <3>1. PICK x \in t : TRUE
      BY <2>2
    <3>2. Sum(f, t) = f[x] + Sum(f, t \ {x})
      BY <1>2
    <3>3. Sum(f, A \cup t) = f[x] + Sum(f, (A \cup t) \ {x})
      BY <1>2
    <3>8. PICK u : u = A \cup (t \ {x})
      OBVIOUS
    <3>9. u = (A \cup t) \ {x}
      BY <3>8
    <3>4. Sum(f, A \cup t) = f[x] + Sum(f, u)
      BY <3>3, <3>9
    <3>5. Sum(f, u) = Sum(f, A) + Sum(f, t \ {x})
      BY <1>3, <3>8
    <3>6. f[x] \in Nat /\ Sum(f, A) \in Nat /\ Sum(f, t \ {x}) \in Nat
      BY <1>2
    <3>7. Sum(f, A \cup t) = Sum(f, A) + Sum(f, t)
      BY ONLY <3>2, <3>4, <3>5, <3>6
    <3> QED BY <3>7
  <2> QED BY <2>1, <2>2
<1>4. SUBSET B \subseteq P
  <2> HIDE DEF P
  <2> QED BY <1>3, SubsetInduction
<1> QED BY <1>2, <1>4

(* The sum over numbers that are all moved by d                            *)
LEMMA SumShifted ==
  ASSUME NEW n \in Nat, NEW d \in Int, NEW f, NEW g,
         \A i \in 1..n : f[i] \in Nat /\ g[i + d] = f[i]
  PROVE  Sum(g, (1 + d)..(n + d)) = Sum(f, 1..n)
<1> DEFINE S == 1..n
           Shifted(t) == {i + d : i \in t}
           T == (1 + d)..(n + d)
           P == {t \in SUBSET S : Sum(g, Shifted(t)) = Sum(f, t)}
<1>1. IsFiniteSet(S) /\ IsFiniteSet(T)
  BY FS_Interval
<1>2. Shifted(S) = T
  <2>1. \A j \in T : j - d \in S /\ j = (j - d) + d
    OBVIOUS
  <2>2. \A i \in S : i + d \in T
    OBVIOUS
  <2> HIDE DEF S, T
  <2> QED BY <2>1, <2>2
<1>3. \A t \in SUBSET S : Shifted(t) \in SUBSET T
  BY <1>2
<1>4. \A j \in T : g[j] \in Nat
  BY <1>2
<1>5. /\ Sum(f, {}) = 0
      /\ \A s \in SUBSET S : \A y \in s : Sum(f, s) = f[y] + Sum(f, s \ {y})
  <2>1. \A x \in S : f[x] \in Nat
    OBVIOUS
  <2> HIDE DEF S
  <2> QED BY <1>1, <2>1, SumTakes
<1>6. /\ Sum(g, {}) = 0
      /\ \A s \in SUBSET T : \A y \in s : Sum(g, s) = g[y] + Sum(g, s \ {y})
  <2> HIDE DEF S, T, P, Shifted
  <2>1. IsFiniteSet(T)
    BY <1>1
  <2>2. \A x \in T : g[x] \in Nat
    BY <1>4
  <2>3. /\ Sum(g, {}) = 0
        /\ \A s \in SUBSET T : /\ Sum(g, s) \in Nat
                                /\ \A y \in s : Sum(g, s) = g[y] + Sum(g, s \ {y})
    BY ONLY <2>1, <2>2, SumTakes
  <2> QED BY <2>3
<1>7. ASSUME NEW t \in SUBSET S, \A x \in t : t \ {x} \in P PROVE t \in P
  <2>1. CASE t = {}
    <3>1. Shifted(t) = {}
      BY <2>1
    <3>2. Sum(g, Shifted(t)) = Sum(f, t)
      BY <1>5, <1>6, <2>1, <3>1
    <3> QED BY <3>2
  <2>2. CASE t # {}
    <3>1. PICK x \in t : TRUE
      BY <2>2
    <3>2. Shifted(t \ {x}) = Shifted(t) \ {x + d}
      OBVIOUS
    <3>3. x + d \in Shifted(t) /\ Shifted(t) \in SUBSET T /\ g[x + d] = f[x]
      BY <1>3
    <3>4. Sum(g, Shifted(t \ {x})) = Sum(f, t \ {x})
      BY <1>7
    <3> HIDE DEF Shifted, S, T, P
    <3>5. Sum(g, Shifted(t)) = Sum(f, t)
      BY <1>5, <1>6, <3>2, <3>3, <3>4
    <3> QED BY <3>5 DEF P
  <2> QED BY <2>1, <2>2
<1>8. SUBSET S \subseteq P
  <2> HIDE DEF P, S
  <2> QED BY <1>1, <1>7, SubsetInduction
<1>9. Sum(g, Shifted(S)) = Sum(f, S)
  BY <1>8
<1> QED BY <1>2, <1>9

(* The bytes of the jobs: transferred_bytes and total_bytes                *)
Done(q) == [id \in DOMAIN q.jobs |-> q.jobs[id].transferred]
Size(q) == [id \in DOMAIN q.jobs |-> q.jobs[id].total]

(* The sums of remove_jobs, and of enqueue, as sums of a function          *)
LEMMA DoneSum ==
  ASSUME NEW q, NEW S \in SUBSET DOMAIN q.jobs, IsFiniteSet(S)
  PROVE  MapThenSumSet(LAMBDA id : q.jobs[id].transferred, S) = Sum(Done(q), S)
<1> DEFINE F(g) == [s \in SUBSET S |-> IF s = {} THEN 0 ELSE q.jobs[AnyOf(s)].transferred + g[s \ {AnyOf(s)}]]
           h == CHOOSE g : g = F(g)
<1>1. MapThenSumSet(LAMBDA id : q.jobs[id].transferred, S) = h[S]
  BY DEF MapThenSumSet, MapThenFoldSet, AnyOf
<1>2. \A s \in SUBSET S : s # {} => Done(q)[AnyOf(s)] = q.jobs[AnyOf(s)].transferred
  BY DEF AnyOf, Done
<1>3. \A g : g = F(g) <=> IsSum(Done(q), S, g)
  <2> SUFFICES ASSUME NEW g PROVE g = F(g) <=> IsSum(Done(q), S, g)
    OBVIOUS
  <2>1. F(g) = [s \in SUBSET S |-> IF s = {} THEN 0 ELSE Done(q)[AnyOf(s)] + g[s \ {AnyOf(s)}]]
    BY <1>2
  <2> QED BY <2>1 DEF IsSum
<1>4. \E g : g = F(g)
  BY <1>3, SumExists
<1>5. h = F(h)
  <2> HIDE DEF F
  <2> QED BY <1>4
<1>6. IsSum(Done(q), S, h)
  BY <1>3, <1>5
<1> HIDE DEF h
<1> QED BY <1>1, <1>6, SumPart

LEMMA SizeSum ==
  ASSUME NEW q, NEW S \in SUBSET DOMAIN q.jobs, IsFiniteSet(S)
  PROVE  MapThenSumSet(LAMBDA id : q.jobs[id].total, S) = Sum(Size(q), S)
<1> DEFINE F(g) == [s \in SUBSET S |-> IF s = {} THEN 0 ELSE q.jobs[AnyOf(s)].total + g[s \ {AnyOf(s)}]]
           h == CHOOSE g : g = F(g)
<1>1. MapThenSumSet(LAMBDA id : q.jobs[id].total, S) = h[S]
  BY DEF MapThenSumSet, MapThenFoldSet, AnyOf
<1>2. \A s \in SUBSET S : s # {} => Size(q)[AnyOf(s)] = q.jobs[AnyOf(s)].total
  BY DEF AnyOf, Size
<1>3. \A g : g = F(g) <=> IsSum(Size(q), S, g)
  <2> SUFFICES ASSUME NEW g PROVE g = F(g) <=> IsSum(Size(q), S, g)
    OBVIOUS
  <2>1. F(g) = [s \in SUBSET S |-> IF s = {} THEN 0 ELSE Size(q)[AnyOf(s)] + g[s \ {AnyOf(s)}]]
    BY <1>2
  <2> QED BY <2>1 DEF IsSum
<1>4. \E g : g = F(g)
  BY <1>3, SumExists
<1>5. h = F(h)
  <2> HIDE DEF F
  <2> QED BY <1>4
<1>6. IsSum(Size(q), S, h)
  BY <1>3, <1>5
<1> HIDE DEF h
<1> QED BY <1>1, <1>6, SumPart

SizeOf(files) == [i \in DOMAIN files |-> files[i].total]

LEMMA FilesSum ==
  ASSUME NEW files, IsFiniteSet(DOMAIN files)
  PROVE  MapThenSumSet(LAMBDA i : files[i].total, DOMAIN files) = Sum(SizeOf(files), DOMAIN files)
<1> DEFINE S == DOMAIN files
           F(g) == [s \in SUBSET S |-> IF s = {} THEN 0 ELSE files[AnyOf(s)].total + g[s \ {AnyOf(s)}]]
           h == CHOOSE g : g = F(g)
<1>1. MapThenSumSet(LAMBDA i : files[i].total, S) = h[S]
  BY DEF MapThenSumSet, MapThenFoldSet, AnyOf
<1>2. \A s \in SUBSET S : s # {} => SizeOf(files)[AnyOf(s)] = files[AnyOf(s)].total
  BY DEF AnyOf, SizeOf
<1>3. \A g : g = F(g) <=> IsSum(SizeOf(files), S, g)
  <2> SUFFICES ASSUME NEW g PROVE g = F(g) <=> IsSum(SizeOf(files), S, g)
    OBVIOUS
  <2>1. F(g) = [s \in SUBSET S |-> IF s = {} THEN 0 ELSE SizeOf(files)[AnyOf(s)] + g[s \ {AnyOf(s)}]]
    BY <1>2
  <2> QED BY <2>1 DEF IsSum
<1>4. \E g : g = F(g)
  BY <1>3, SumExists
<1>5. h = F(h)
  <2> HIDE DEF F
  <2> QED BY <1>4
<1>6. IsSum(SizeOf(files), S, h)
  BY <1>3, <1>5
<1> HIDE DEF h
<1> QED BY <1>1, <1>6, SumPart

(* The inductive invariant of the bytes, on top of IInv                    *)
BytesOK(q) ==
    \A key \in DOMAIN q.rows :
      /\ q.rows[key].bytesDone = Sum(Done(q), q.rows[key].order)
      /\ q.rows[key].bytesTotal = Sum(Size(q), q.rows[key].order)

(* The jobs of a row are finitely many, and their bytes are numbers.       *)
LEMMA RowBytes ==
  ASSUME NEW q, QueueOK(q)
  PROVE  /\ \A key \in DOMAIN q.rows : /\ q.rows[key].order \in SUBSET DOMAIN q.jobs
                                       /\ IsFiniteSet(q.rows[key].order)
         /\ \A id \in DOMAIN q.jobs : Done(q)[id] \in Nat /\ Size(q)[id] \in Nat
<1>1. \A id \in DOMAIN q.jobs : q.jobs[id].transferred \in Nat /\ q.jobs[id].total \in Nat
  BY DEF QueueOK, QueueTyped, Job
<1>2. \A key \in DOMAIN q.rows : q.rows[key].order \in SUBSET DOMAIN q.jobs
  BY DEF QueueOK, RowsMatch
<1>3. IsFiniteSet(DOMAIN q.jobs)
  BY JobsFinite DEF QueueOK
<1>4. \A key \in DOMAIN q.rows : IsFiniteSet(q.rows[key].order)
  BY <1>2, <1>3, FS_Subset
<1> QED BY <1>1, <1>2, <1>4 DEF Done, Size

(* An operation that leaves the bytes of jobs and rows alone               *)
SameBytes(q, r) ==
    /\ DOMAIN r.jobs = DOMAIN q.jobs
    /\ \A id \in DOMAIN q.jobs : /\ r.jobs[id].transferred = q.jobs[id].transferred
                                 /\ r.jobs[id].total = q.jobs[id].total
    /\ DOMAIN r.rows = DOMAIN q.rows
    /\ \A key \in DOMAIN q.rows : /\ r.rows[key].order = q.rows[key].order
                                  /\ r.rows[key].bytesDone = q.rows[key].bytesDone
                                  /\ r.rows[key].bytesTotal = q.rows[key].bytesTotal

LEMMA SameBytesOK ==
  ASSUME NEW q, BytesOK(q), NEW r, SameBytes(q, r)
  PROVE  BytesOK(r)
<1>1. Done(r) = Done(q) /\ Size(r) = Size(q)
  BY DEF SameBytes, Done, Size
<1> QED BY <1>1 DEF SameBytes, BytesOK

LEMMA MarksBytes ==
  ASSUME NEW q, QueueOK(q), BytesOK(q), NEW b
  PROVE  /\ BytesOK(StartBatch(q)) /\ BytesOK(ForgetEmpty(q, b)) /\ BytesOK(FlagUnkeptTimes(q, b))
         /\ BytesOK([q EXCEPT !.changes = {}])
<1>1. DOMAIN q = QueueFields
  BY DEF QueueOK, QueueTyped
<1>2. /\ SameBytes(q, StartBatch(q)) /\ SameBytes(q, ForgetEmpty(q, b))
      /\ SameBytes(q, FlagUnkeptTimes(q, b)) /\ SameBytes(q, [q EXCEPT !.changes = {}])
  BY <1>1 DEF SameBytes, QueueFields, StartBatch, ForgetEmpty, FlagUnkeptTimes
<1> QED BY <1>2, SameBytesOK

(* account() under reconcile() moves no byte: get_mut's callers change     *)
(* statuses, attempts and the resume flag.                                 *)
LEMMA ReconcileBytes ==
  ASSUME NEW q, QueueOK(q), BytesOK(q), NEW S, NEW after,
         \A id \in S \cap DOMAIN q.jobs : /\ after[id].transferred = q.jobs[id].transferred
                                          /\ after[id].total = q.jobs[id].total
  PROVE  BytesOK(Reconcile(q, S, after))
<1> DEFINE r == Reconcile(q, S, after)
<1>1. DOMAIN q = QueueFields /\ \A key \in DOMAIN q.rows : DOMAIN q.rows[key] = RowFields
  BY DEF QueueOK, QueueTyped
<1>2. /\ r.rows = [k \in DOMAIN q.rows |-> Reconciled(q, q.rows[k], S, after)]
      /\ r.jobs = [id \in DOMAIN q.jobs |-> IF id \in S THEN after[id] ELSE q.jobs[id]]
  BY <1>1 DEF Reconcile, QueueFields
<1> HIDE DEF r
<1>3. \A key \in DOMAIN q.rows :
        /\ r.rows[key].order = q.rows[key].order
        /\ r.rows[key].bytesDone = q.rows[key].bytesDone
        /\ r.rows[key].bytesTotal = q.rows[key].bytesTotal
  BY <1>1, <1>2 DEF Reconciled, RowFields
<1>4. SameBytes(q, r)
  BY <1>2, <1>3 DEF SameBytes
<1>5. BytesOK(r)
  BY <1>4, SameBytesOK
<1> QED BY <1>5 DEF r

LEMMA StatusBytes ==
  ASSUME NEW q, QueueOK(q), BytesOK(q)
  PROVE  /\ \A S \in SUBSET DOMAIN q.jobs : \A st : BytesOK(SetStatus(q, S, st))
         /\ \A S \in SUBSET DOMAIN q.jobs : BytesOK(StartJobs(q, S))
         /\ \A ids : BytesOK(RetryJobs(q, ids))
         /\ \A id : BytesOK(RetryOrGiveUp(q, id))
<1>0. \A id \in DOMAIN q.jobs : q.jobs[id] \in Job
  BY DEF QueueOK, QueueTyped
<1>1. ASSUME NEW S \in SUBSET DOMAIN q.jobs, NEW st PROVE BytesOK(SetStatus(q, S, st))
  <2> DEFINE after == [id \in S |-> [q.jobs[id] EXCEPT !.status = st]]
  <2>1. \A id \in S \cap DOMAIN q.jobs : /\ after[id].transferred = q.jobs[id].transferred
                                         /\ after[id].total = q.jobs[id].total
    BY <1>0 DEF Job
  <2> HIDE DEF after
  <2>2. BytesOK(Reconcile(q, S, after))
    BY <2>1, ReconcileBytes
  <2> QED BY <2>2 DEF SetStatus, after
<1>2. ASSUME NEW S \in SUBSET DOMAIN q.jobs PROVE BytesOK(StartJobs(q, S))
  <2> DEFINE after == [id \in S |-> [q.jobs[id] EXCEPT !.status = "InProgress", !.attempts = @ + 1]]
  <2>1. \A id \in S \cap DOMAIN q.jobs : /\ after[id].transferred = q.jobs[id].transferred
                                         /\ after[id].total = q.jobs[id].total
    BY <1>0 DEF Job
  <2> HIDE DEF after
  <2>2. BytesOK(Reconcile(q, S, after))
    BY <2>1, ReconcileBytes
  <2> QED BY <2>2 DEF StartJobs, after
<1>3. ASSUME NEW ids PROVE BytesOK(RetryJobs(q, ids))
  <2> DEFINE S == {id \in ids \cap DOMAIN q.jobs : IsRetryable(q.jobs[id])}
             after == [id \in S |-> [q.jobs[id] EXCEPT
                         !.resume = q.jobs[id].attempts > 0, !.status = "Queued", !.attempts = 0]]
  <2>1. \A id \in S \cap DOMAIN q.jobs : /\ after[id].transferred = q.jobs[id].transferred
                                         /\ after[id].total = q.jobs[id].total
    BY <1>0 DEF Job
  <2> HIDE DEF after, S
  <2>2. BytesOK(Reconcile(q, S, after))
    BY <2>1, ReconcileBytes
  <2> QED BY <2>2 DEF RetryJobs, after, S
<1>4. ASSUME NEW id PROVE BytesOK(RetryOrGiveUp(q, id))
  <2> DEFINE after == [i \in {id} |-> [q.jobs[i] EXCEPT !.status = "Queued", !.resume = TRUE]]
  <2>1. \A i \in {id} \cap DOMAIN q.jobs : /\ after[i].transferred = q.jobs[i].transferred
                                           /\ after[i].total = q.jobs[i].total
    BY <1>0 DEF Job
  <2> HIDE DEF after
  <2>2. BytesOK(Reconcile(q, {id}, after))
    BY <2>1, ReconcileBytes
  <2> QED BY <2>2 DEF RetryOrGiveUp, after
<1> QED BY <1>1, <1>2, <1>3, <1>4

(* Progress moves a row's bytes by what one of its jobs' move: the         *)
(* saturating_sub never saturates.                                         *)
LEMMA SetTransferredBytes ==
  ASSUME NEW q, QueueOK(q), BytesOK(q), NEW id \in DOMAIN q.jobs, NEW bytes \in Nat
  PROVE  BytesOK(SetTransferred(q, id, bytes))
<1> DEFINE r == SetTransferred(q, id, bytes)
           key == q.rowOf[id]
           before == q.jobs[id].transferred
           done == SaturatingSub(q.rows[key].bytesDone, before) + bytes
<1>1. DOMAIN q = QueueFields /\ RowsMatch(q) /\ \A k \in DOMAIN q.rows : DOMAIN q.rows[k] = RowFields
  BY DEF QueueOK, QueueTyped
<1>2. /\ r.jobs = [q.jobs EXCEPT ![id] = [@ EXCEPT !.transferred = bytes]]
      /\ r.rows = [q.rows EXCEPT ![key] = [@ EXCEPT !.bytesDone = done]]
  BY <1>1 DEF SetTransferred, QueueFields
<1> HIDE DEF r, done
<1>3. /\ DOMAIN r.rows = DOMAIN q.rows
      /\ \A k \in DOMAIN q.rows :
           /\ r.rows[k].order = q.rows[k].order
           /\ r.rows[k].bytesTotal = q.rows[k].bytesTotal
           /\ r.rows[k].bytesDone = IF k = key THEN done ELSE q.rows[k].bytesDone
  <2>1. \A k \in DOMAIN q.rows : r.rows[k] = IF k = key THEN [q.rows[k] EXCEPT !.bytesDone = done] ELSE q.rows[k]
    BY <1>2
  <2> QED BY <1>1, <1>2, <2>1 DEF RowFields
<1>4. Size(r) = Size(q)
  <2>1. \A i \in DOMAIN q.jobs : r.jobs[i].total = q.jobs[i].total
    BY <1>2 DEF QueueOK, QueueTyped, Job
  <2> QED BY <1>2, <2>1 DEF Size
<1>5. /\ DOMAIN r.jobs = DOMAIN q.jobs
      /\ \A i \in DOMAIN q.jobs : Done(r)[i] = IF i = id THEN bytes ELSE Done(q)[i]
  <2>1. \A i \in DOMAIN q.jobs : r.jobs[i].transferred = IF i = id THEN bytes ELSE q.jobs[i].transferred
    BY <1>2 DEF QueueOK, QueueTyped, Job
  <2> QED BY <1>2, <2>1 DEF Done
<1>6. ASSUME NEW k \in DOMAIN q.rows PROVE r.rows[k].bytesDone = Sum(Done(r), q.rows[k].order)
  <2> DEFINE o == q.rows[k].order
  <2>1. o \in SUBSET DOMAIN q.jobs /\ IsFiniteSet(o) /\ \A i \in DOMAIN q.jobs : Done(q)[i] \in Nat
    BY RowBytes
  <2>2. q.rows[k].bytesDone = Sum(Done(q), o)
    BY DEF BytesOK
  <2>3. k = key <=> id \in o
    BY <1>1 DEF RowsMatch
  <2> HIDE DEF o
  <2>4. CASE k # key
    <3>1. \A i \in o : Done(r)[i] = Done(q)[i]
      BY <1>5, <2>1, <2>3, <2>4
    <3>2. Sum(Done(r), o) = Sum(Done(q), o)
      BY <2>1, <3>1, SumSame
    <3> QED BY <1>3, <2>2, <2>4, <3>2 DEF o
  <2>5. CASE k = key
    <3>1. IsFiniteSet(o \ {id}) /\ \A i \in o \ {id} : Done(r)[i] = Done(q)[i]
      BY <1>5, <2>1, FS_Subset
    <3>2. Sum(Done(r), o \ {id}) = Sum(Done(q), o \ {id})
      BY <3>1, SumSame
    <3>3. \A i \in o : Done(q)[i] \in Nat /\ Done(r)[i] \in Nat
      BY <1>5, <2>1
    <3>4. Sum(Done(q), o) = Done(q)[id] + Sum(Done(q), o \ {id}) /\ Sum(Done(q), o \ {id}) \in Nat
      <4>1. \A s \in SUBSET o : /\ Sum(Done(q), s) \in Nat
                                /\ \A y \in s : Sum(Done(q), s) = Done(q)[y] + Sum(Done(q), s \ {y})
        BY <2>1, <3>3, SumTakes
      <4> QED BY <2>3, <2>5, <4>1
    <3>5. Sum(Done(r), o) = bytes + Sum(Done(r), o \ {id})
      <4>1. \A s \in SUBSET o : /\ Sum(Done(r), s) \in Nat
                                /\ \A y \in s : Sum(Done(r), s) = Done(r)[y] + Sum(Done(r), s \ {y})
        BY <2>1, <3>3, SumTakes
      <4> QED BY <1>5, <2>3, <2>5, <4>1
    <3>6. Done(q)[id] = before /\ before \in Nat
      BY <2>1 DEF Done
    <3>7. done = Sum(Done(r), o)
      BY <2>2, <2>5, <3>2, <3>4, <3>5, <3>6 DEF done, SaturatingSub
    <3> QED BY <1>3, <2>5, <3>7 DEF o
  <2> QED BY <2>4, <2>5
<1>7. BytesOK(r)
  BY <1>3, <1>4, <1>6 DEF BytesOK
<1> QED BY <1>7 DEF r

(* remove_jobs takes the bytes of the jobs it removes off their rows: its  *)
(* saturating_sub never saturates either.                                  *)
LEMMA RemoveBytes ==
  ASSUME NEW q, QueueOK(q), BytesOK(q), NEW ids
  PROVE  BytesOK(RemoveJobs(q, ids))
<1> DEFINE S == ids \cap DOMAIN q.jobs
           r == RemoveJobs(q, ids)
<1>1. RemoveResult(q, S, r)
  BY RemoveFields
<1> HIDE DEF r, S
<1>2. /\ r.jobs = [id \in DOMAIN q.jobs \ S |-> q.jobs[id]]
      /\ DOMAIN r.rows = {NewKey(q, k, S) : k \in Kept(q, S)}
      /\ \A k \in Kept(q, S) : k \in DOMAIN q.rows /\ r.rows[NewKey(q, k, S)] = Shrunk(q, k, S)
  BY <1>1 DEF RemoveResult, Kept
<1>3. ASSUME NEW k \in DOMAIN q.rows
      PROVE  /\ Shrunk(q, k, S).bytesDone = Sum(Done(r), Shrunk(q, k, S).order)
             /\ Shrunk(q, k, S).bytesTotal = Sum(Size(r), Shrunk(q, k, S).order)
  <2> DEFINE o == q.rows[k].order
             gone == o \cap S
             done == MapThenSumSet(LAMBDA id : q.jobs[id].transferred, gone)
             size == MapThenSumSet(LAMBDA id : q.jobs[id].total, gone)
  <2>0. DOMAIN q.rows[k] = RowFields
    BY DEF QueueOK, QueueTyped
  <2>1. /\ Shrunk(q, k, S).order = o \ S
        /\ Shrunk(q, k, S).bytesDone = SaturatingSub(q.rows[k].bytesDone, done)
        /\ Shrunk(q, k, S).bytesTotal = SaturatingSub(q.rows[k].bytesTotal, size)
    <3> HIDE DEF done, size
    <3> QED BY <2>0 DEF Shrunk, RowFields, done, size
  <2>2. /\ o \in SUBSET DOMAIN q.jobs /\ IsFiniteSet(o)
        /\ \A i \in DOMAIN q.jobs : Done(q)[i] \in Nat /\ Size(q)[i] \in Nat
    BY RowBytes
  <2>3. q.rows[k].bytesDone = Sum(Done(q), o) /\ q.rows[k].bytesTotal = Sum(Size(q), o)
    BY DEF BytesOK
  <2>4. IsFiniteSet(gone) /\ IsFiniteSet(o \ S) /\ gone \in SUBSET DOMAIN q.jobs
    BY <2>2, FS_Subset
  <2>5. done = Sum(Done(q), gone) /\ size = Sum(Size(q), gone)
    <3> HIDE DEF gone
    <3> QED BY <2>4, DoneSum, SizeSum
  <2>6. \A i \in o \ S : Done(r)[i] = Done(q)[i] /\ Size(r)[i] = Size(q)[i]
    BY <1>2, <2>2 DEF Done, Size
  <2>7. Sum(Done(r), o \ S) = Sum(Done(q), o \ S) /\ Sum(Size(r), o \ S) = Sum(Size(q), o \ S)
    BY <2>4, <2>6, SumSame
  <2>8. PICK kept : kept = o \ S
    OBVIOUS
  <2>9. PICK all : all = kept \cup gone /\ all = o
    BY <2>8
  <2> HIDE DEF o, gone, done, size
  <2>10. kept \cap gone = {} /\ IsFiniteSet(kept)
    BY <2>4, <2>8 DEF gone
  <2>11. \A i \in kept \cup gone : Done(q)[i] \in Nat /\ Size(q)[i] \in Nat
    BY <2>2, <2>9
  <2>12. /\ Sum(Done(q), kept \cup gone) = Sum(Done(q), kept) + Sum(Done(q), gone)
         /\ Sum(Done(q), kept) \in Nat /\ Sum(Done(q), gone) \in Nat
    BY <2>4, <2>10, <2>11, SumApart
  <2>13. /\ Sum(Size(q), kept \cup gone) = Sum(Size(q), kept) + Sum(Size(q), gone)
         /\ Sum(Size(q), kept) \in Nat /\ Sum(Size(q), gone) \in Nat
    BY <2>4, <2>10, <2>11, SumApart
  <2>14. SaturatingSub(q.rows[k].bytesDone, done) = Sum(Done(r), kept)
    <3>1. q.rows[k].bytesDone = Sum(Done(q), kept) + done
      BY <2>3, <2>5, <2>9, <2>12
    <3>2. Sum(Done(r), kept) = Sum(Done(q), kept)
      BY <2>7, <2>8
    <3> QED BY <2>5, <2>12, <3>1, <3>2 DEF SaturatingSub
  <2>15. SaturatingSub(q.rows[k].bytesTotal, size) = Sum(Size(r), kept)
    <3>1. q.rows[k].bytesTotal = Sum(Size(q), kept) + size
      BY <2>3, <2>5, <2>9, <2>13
    <3>2. Sum(Size(r), kept) = Sum(Size(q), kept)
      BY <2>7, <2>8
    <3> QED BY <2>5, <2>13, <3>1, <3>2 DEF SaturatingSub
  <2> QED BY <2>1, <2>8, <2>14, <2>15
<1>4. BytesOK(r)
  BY <1>2, <1>3 DEF BytesOK
<1> QED BY <1>4 DEF r

(* New jobs have no byte done.                                             *)
LEMMA SumZero ==
  ASSUME NEW f, NEW S, IsFiniteSet(S), \A x \in S : f[x] = 0
  PROVE  Sum(f, S) = 0
<1>1. /\ Sum(f, {}) = 0
      /\ \A s \in SUBSET S : /\ Sum(f, s) \in Nat
                             /\ \A y \in s : Sum(f, s) = f[y] + Sum(f, s \ {y})
  BY SumTakes
<1> DEFINE P == {t \in SUBSET S : Sum(f, t) = 0}
<1>2. ASSUME NEW t \in SUBSET S, \A x \in t : t \ {x} \in P PROVE t \in P
  <2>1. CASE t = {}
    BY <1>1, <2>1
  <2>2. CASE t # {}
    <3>1. PICK x \in t : TRUE
      BY <2>2
    <3>2. Sum(f, t) = f[x] + Sum(f, t \ {x}) /\ Sum(f, t \ {x}) = 0
      BY <1>1, <1>2
    <3> QED BY <3>2
  <2> QED BY <2>1, <2>2
<1>3. SUBSET S \subseteq P
  <2> HIDE DEF P
  <2> QED BY <1>2, SubsetInduction
<1> QED BY <1>3

(* enqueue adds to a row the sizes of the files it is given.               *)
LEMMA EnqueueBytes ==
  ASSUME NEW q, QueueOK(q), BytesOK(q), NEW session, NEW direction, NEW files \in Files, NEW batch
  PROVE  BytesOK(Enqueue(q, session, direction, files, batch))
<1>1. CASE files = <<>>
  BY <1>1 DEF Enqueue
<1>2. CASE files # <<>>
  <2> DEFINE r == Enqueue(q, session, direction, files, batch)
             key == EnqueueKey(q, batch)
             row == EnqueueRow(q, direction, batch)
             ids == NewIds(q, files)
             bytes == MapThenSumSet(LAMBDA i : files[i].total, DOMAIN files)
             n2 == [row.n EXCEPT !["Queued"] = @ + Len(files)]
             grown == [row EXCEPT !.order = @ \cup ids, !.n["Queued"] = @ + Len(files), !.bytesTotal = @ + bytes]
  <2>1. DOMAIN q = QueueFields /\ q.nextId \in Nat /\ DOMAIN q.jobs \subseteq 0..(q.nextId - 1)
    BY DEF QueueOK, QueueTyped
  <2>2. /\ r.rows = [k \in DOMAIN q.rows \cup {key} |-> IF k = key THEN grown ELSE q.rows[k]]
        /\ r.jobs = [id \in DOMAIN q.jobs \cup ids |->
             IF id \in ids THEN NewJob(q, session, direction, files, batch, id) ELSE q.jobs[id]]
    <3> HIDE DEF row, ids, key
    <3> QED BY <1>2, <2>1 DEF Enqueue, QueueFields, row, ids, key
  <2>3. grown.order = row.order \cup ids /\ grown.bytesDone = row.bytesDone /\ grown.bytesTotal = row.bytesTotal + bytes
    <3>1. DOMAIN row = RowFields
      BY DEF QueueOK, QueueTyped, EnqueueRow, NewRow, RowFields
    <3> HIDE DEF row, ids, bytes
    <3>2. grown = [f \in RowFields |->
               CASE f = "order" -> row.order \cup ids
                 [] f = "n" -> n2
                 [] f = "bytesTotal" -> row.bytesTotal + bytes
                 [] OTHER -> row[f]]
      BY <3>1 DEF RowFields
    <3> QED BY <3>1, <3>2 DEF RowFields
  <2>4. Len(files) \in Nat /\ DOMAIN files = 1..Len(files) /\ \A i \in 1..Len(files) : files[i].total \in Nat
    <3>1. PICK R : R = [path: Paths, total: Nat, resume: BOOLEAN]
      OBVIOUS
    <3>2. files \in Seq(R)
      BY <3>1 DEF Files
    <3>3. Len(files) \in Nat /\ DOMAIN files = 1..Len(files) /\ \A i \in 1..Len(files) : files[i] \in R
      BY <3>2
    <3> QED BY <3>1, <3>3
  <2>5. bytes = Sum(SizeOf(files), 1..Len(files))
    <3>1. IsFiniteSet(DOMAIN files)
      BY <2>4, FS_Interval
    <3> QED BY <2>4, <3>1, FilesSum
  <2>6. row.order \in SUBSET DOMAIN q.jobs /\ IsFiniteSet(row.order)
        /\ row.bytesDone = Sum(Done(q), row.order) /\ row.bytesTotal = Sum(Size(q), row.order)
    <3>1. CASE key \in DOMAIN q.rows
      BY <3>1, RowBytes DEF EnqueueRow, BytesOK
    <3>2. CASE key \notin DOMAIN q.rows
      <4>1. row.order = {} /\ row.bytesDone = 0 /\ row.bytesTotal = 0
        BY <3>2 DEF EnqueueRow, NewRow
      <4>2. IsFiniteSet({}) /\ \A f : Sum(f, {}) = 0
        BY FS_EmptySet, SumZero
      <4> QED BY <4>1, <4>2
    <3> QED BY <3>1, <3>2
  <2>7. ids = q.nextId..(q.nextId + Len(files) - 1)
    BY DEF NewIds
  <2> HIDE DEF r, key, row, ids, bytes, grown
  <2>8. /\ IsFiniteSet(ids) /\ ids \cap DOMAIN q.jobs = {}
        /\ DOMAIN r.jobs = DOMAIN q.jobs \cup ids
    <3>1. q.nextId + Len(files) - 1 \in Int /\ q.nextId \in Int
      BY <2>1, <2>4
    <3>2. IsFiniteSet(ids)
      BY <2>7, <3>1, FS_Interval
    <3>3. ids \cap DOMAIN q.jobs = {}
      BY <2>1, <2>4, <2>7
    <3> QED BY <2>2, <3>2, <3>3
  <2>9. \A i \in DOMAIN q.jobs : Done(r)[i] = Done(q)[i] /\ Size(r)[i] = Size(q)[i]
    BY <2>2, <2>8 DEF Done, Size
  <2>10. \A i \in ids : /\ Done(r)[i] = 0 /\ Size(r)[i] = files[i - q.nextId + 1].total
    BY <2>2, <2>8 DEF Done, Size, NewJob
  <2>11. Sum(Done(r), ids) = 0
    BY <2>8, <2>10, SumZero
  <2>12. Sum(Size(r), ids) = bytes
    <3> DEFINE n == Len(files)
               d == q.nextId - 1
               f == SizeOf(files)
               g == Size(r)
    <3>1. \A i \in 1..n : f[i] \in Nat /\ g[i + d] = f[i]
      <4> SUFFICES ASSUME NEW i \in 1..n PROVE f[i] \in Nat /\ g[i + d] = f[i]
        OBVIOUS
      <4>1. f[i] = files[i].total /\ files[i].total \in Nat
        BY <2>4 DEF SizeOf
      <4>2. PICK j : j = i + d
        OBVIOUS
      <4>3. j \in ids /\ j - q.nextId + 1 = i
        BY <2>1, <2>4, <2>7, <4>2
      <4>4. g[j] = files[i].total
        BY <2>10, <4>3
      <4> QED BY <4>1, <4>2, <4>4
    <3>2. n \in Nat /\ d \in Int /\ ids = (1 + d)..(n + d)
      BY <2>1, <2>4, <2>7
    <3> HIDE DEF n, d, f, g
    <3>3. Sum(g, (1 + d)..(n + d)) = Sum(f, 1..n)
      BY <3>1, <3>2, SumShifted
    <3>4. Sum(g, ids) = Sum(f, 1..n)
      BY <3>2, <3>3
    <3> QED BY <2>5, <3>4 DEF g, f, n
  <2>13. \A i \in DOMAIN q.jobs : Done(q)[i] \in Nat /\ Size(q)[i] \in Nat
    BY RowBytes
  <2>14. \A i \in ids : Done(r)[i] \in Nat /\ Size(r)[i] \in Nat
    <3>1. \A i \in ids : i - q.nextId + 1 \in 1..Len(files)
      BY <2>1, <2>4, <2>7
    <3> QED BY <2>4, <2>10, <3>1
  <2>15. grown.bytesDone = Sum(Done(r), grown.order) /\ grown.bytesTotal = Sum(Size(r), grown.order)
    <3>1. PICK old : old = row.order
      OBVIOUS
    <3>2. IsFiniteSet(old) /\ old \in SUBSET DOMAIN q.jobs /\ old \cap ids = {}
      BY <2>6, <2>8, <3>1
    <3>3. \A i \in old \cup ids : Done(r)[i] \in Nat /\ Size(r)[i] \in Nat
      BY <2>9, <2>13, <2>14, <3>2
    <3>4. \A i \in old : Done(r)[i] = Done(q)[i] /\ Size(r)[i] = Size(q)[i]
      BY <2>9, <3>2
    <3>5. Sum(Done(r), old) = Sum(Done(q), old) /\ Sum(Size(r), old) = Sum(Size(q), old)
      BY <3>2, <3>4, SumSame
    <3>6. /\ Sum(Done(r), old \cup ids) = Sum(Done(r), old) + Sum(Done(r), ids)
          /\ Sum(Done(r), old) \in Nat /\ Sum(Done(r), ids) \in Nat
      BY <2>8, <3>2, <3>3, SumApart
    <3>7. /\ Sum(Size(r), old \cup ids) = Sum(Size(r), old) + Sum(Size(r), ids)
          /\ Sum(Size(r), old) \in Nat /\ Sum(Size(r), ids) \in Nat
      BY <2>8, <3>2, <3>3, SumApart
    <3>8. PICK all : all = old \cup ids
      OBVIOUS
    <3>9. grown.order = all /\ grown.bytesDone = Sum(Done(q), old) /\ grown.bytesTotal = Sum(Size(q), old) + bytes
      BY <2>3, <2>6, <3>1, <3>8
    <3>10. Sum(Done(r), all) = grown.bytesDone
      BY <2>11, <3>5, <3>6, <3>8, <3>9
    <3>11. Sum(Size(r), all) = grown.bytesTotal
      BY <2>12, <3>5, <3>7, <3>8, <3>9
    <3> QED BY <3>9, <3>10, <3>11
  <2>16. ASSUME NEW k \in DOMAIN q.rows, k # key
         PROVE  /\ r.rows[k].bytesDone = Sum(Done(r), r.rows[k].order)
                /\ r.rows[k].bytesTotal = Sum(Size(r), r.rows[k].order)
    <3>1. r.rows[k] = q.rows[k]
      BY <2>2, <2>16
    <3>2. q.rows[k].order \in SUBSET DOMAIN q.jobs /\ IsFiniteSet(q.rows[k].order)
      BY RowBytes
    <3>3. PICK o : o = q.rows[k].order
      OBVIOUS
    <3>4. IsFiniteSet(o) /\ \A i \in o : Done(r)[i] = Done(q)[i] /\ Size(r)[i] = Size(q)[i]
      BY <2>9, <3>2, <3>3
    <3>5. Sum(Done(r), o) = Sum(Done(q), o) /\ Sum(Size(r), o) = Sum(Size(q), o)
      BY <3>4, SumSame
    <3> QED BY <3>1, <3>3, <3>5 DEF BytesOK
  <2>17. r.rows[key] = grown /\ DOMAIN r.rows = DOMAIN q.rows \cup {key}
    BY <2>2
  <2>18. BytesOK(r)
    BY <2>15, <2>16, <2>17 DEF BytesOK
  <2> QED BY <2>18 DEF r
<1> QED BY <1>1, <1>2

(* Every operation, and the reader, keeps the bytes.                       *)
LEMMA OperateBytes ==
  ASSUME IInv, BytesOK(transfers), [Next]_vars
  PROVE  BytesOK(transfers')
<1> DEFINE q == transfers
<1>i. QueueOK(q) /\ LabelsOK(q)
  BY DEF IInv
<1>ids. /\ q.running \subseteq DOMAIN q.jobs /\ q.queued \subseteq DOMAIN q.jobs
        /\ \A s \in Sessions : q.queuedBySession[s] \subseteq DOMAIN q.jobs
  BY <1>i DEF QueueOK, IndexesMatch, WithStatus
<1>1. CASE DoEnqueue
  <2>1. PICK in \in Inputs, b \in q.batchLabels \cup {NoBatch} :
          transfers' = Enqueue(q, in[1], in[2], in[3], b)
    BY <1>1 DEF DoEnqueue
  <2>2. in \in Sessions \X Direction \X Seq(File)
    BY InputsAssumption
  <2>3. File \subseteq [path: Paths, total: Nat, resume: BOOLEAN]
    BY SizesAssumption DEF File
  <2>4. \A A, B : A \subseteq B => Seq(A) \subseteq Seq(B)
    BY SeqMonotonic
  <2>5. Seq(File) \subseteq Files
    BY <2>3, <2>4 DEF Files
  <2>6. in[3] \in Files
    BY <2>2, <2>5
  <2> HIDE DEF q
  <2>7. BytesOK(Enqueue(q, in[1], in[2], in[3], b))
    BY <1>i, <2>6, EnqueueBytes DEF q
  <2> QED BY <2>1, <2>7
<1>2. CASE DoStartBatch
  BY <1>2, <1>i, MarksBytes DEF DoStartBatch
<1>3. CASE DoForgetBatchIfEmpty
  BY <1>3, <1>i, MarksBytes DEF DoForgetBatchIfEmpty
<1>4. CASE DoFlagUnkeptTimes
  BY <1>4, <1>i, MarksBytes DEF DoFlagUnkeptTimes
<1>5. CASE DoStart
  BY <1>5, <1>i, <1>ids, StatusBytes DEF DoStart
<1>6. CASE DoProgress
  <2>1. PICK id \in q.running, bytes \in Sizes : transfers' = SetTransferred(q, id, bytes)
    BY <1>6 DEF DoProgress
  <2>2. id \in DOMAIN q.jobs /\ bytes \in Nat
    BY <1>ids, SizesAssumption
  <2> QED BY <2>1, <2>2, <1>i, SetTransferredBytes
<1>7. CASE DoEnd
  BY <1>7, <1>i, <1>ids, StatusBytes DEF DoEnd
<1>8. CASE DoRetryOrGiveUp
  BY <1>8, <1>i, StatusBytes DEF DoRetryOrGiveUp
<1>9. CASE DoCancelQueued
  BY <1>9, <1>i, <1>ids, StatusBytes DEF DoCancelQueued
<1>10. CASE DoCancelAllQueued
  BY <1>10, <1>i, <1>ids, StatusBytes DEF DoCancelAllQueued, CancelAllQueued
<1>11. CASE DoFailQueuedForSession
  BY <1>11, <1>i, <1>ids, StatusBytes DEF DoFailQueuedForSession, FailQueuedForSession
<1>12. CASE DoRetryJobs
  BY <1>12, <1>i, StatusBytes DEF DoRetryJobs
<1>13. CASE DoRemoveJobs
  BY <1>13, <1>i, RemoveBytes DEF DoRemoveJobs
<1>14. CASE TakeChanges
  BY <1>14, <1>i, MarksBytes DEF TakeChanges
<1>15. CASE UNCHANGED vars
  BY <1>15 DEF vars
<1> QED
  BY <1>1, <1>2, <1>3, <1>4, <1>5, <1>6, <1>7, <1>8, <1>9, <1>10, <1>11, <1>12, <1>13, <1>14, <1>15
  DEF Next, Operate

(* assert_consistent: a row's bytes done and in total are the sums over its *)
(* jobs after any sequence of operations, although account() subtracts with *)
(* saturation and a batch may lose and gain jobs in any order.             *)
THEOREM BytesCorrect == Spec => []BytesConsistent
<1>1. Init => IInv /\ BytesOK(transfers)
  BY InitInv DEF Init, NewQueue, BytesOK
<1>2. IInv /\ BytesOK(transfers) /\ [Next]_vars => (IInv /\ BytesOK(transfers))'
  BY NextInv, OperateBytes
<1>3. IInv /\ BytesOK(transfers) => BytesConsistent
  <2> SUFFICES ASSUME IInv, BytesOK(transfers), NEW key \in DOMAIN transfers.rows
               PROVE  LET row == transfers.rows[key]
                      IN  /\ row.bytesDone = MapThenSumSet(LAMBDA id : transfers.jobs[id].transferred, row.order)
                          /\ row.bytesTotal = MapThenSumSet(LAMBDA id : transfers.jobs[id].total, row.order)
    BY DEF BytesConsistent
  <2>1. QueueOK(transfers)
    BY DEF IInv
  <2>2. PICK q, o : q = transfers /\ o = transfers.rows[key].order
    OBVIOUS
  <2>3. o \in SUBSET DOMAIN q.jobs /\ IsFiniteSet(o)
    BY <2>1, <2>2, RowBytes
  <2>4. /\ MapThenSumSet(LAMBDA id : q.jobs[id].transferred, o) = Sum(Done(q), o)
        /\ MapThenSumSet(LAMBDA id : q.jobs[id].total, o) = Sum(Size(q), o)
    BY <2>3, DoneSum, SizeSum
  <2> QED BY <2>2, <2>4 DEF BytesOK
<1> QED BY <1>1, <1>2, <1>3, PTL DEF Spec

---------------------------------------------------------------------------
(* The loop of startable_limited, and the set that IsStartable describes   *)

(* What fits takes no job that its own picks would have it pass over.      *)
LEMMA TakesNoMore ==
  ASSUME NEW q, QueueOK(q), NEW S \in SUBSET q.queued, Fits(q, S), NEW id \in S
  PROVE  ~PassedOver(q, S, id)
<1> DEFINE B == Before(S, id)
           s == q.jobs[id].session
<1>1. /\ q.queued \subseteq Nat /\ IsFiniteSet(q.queued) /\ IsFiniteSet(q.running)
      /\ IsFiniteSet(S) /\ id \notin B /\ B \subseteq S /\ IsFiniteSet(B)
  BY JobsFinite, FS_Subset DEF QueueOK, IndexesMatch, WithStatus, Before
<1>2. Cardinality(B) < FreeSlots(q)
  <2>1. B \cup {id} \subseteq S
    BY <1>1
  <2>2. Cardinality(B \cup {id}) <= Cardinality(S) /\ Cardinality(B \cup {id}) = Cardinality(B) + 1
    BY <1>1, <2>1, FS_Subset, FS_AddElement
  <2>3. Cardinality(S) \in Nat /\ Cardinality(B) \in Nat /\ Cardinality(q.running) \in Nat
    BY <1>1, FS_CardinalityType
  <2> QED BY <2>2, <2>3, LimitsAssumption DEF Fits, FreeSlots, SaturatingSub
<1>3. Destination(q.jobs[id]) \notin DestinationsOf(q, q.running \cup B)
  BY <1>1 DEF Fits, DestinationsOf
<1>4. ~Capped(q, s, Cardinality(InSession(q, q.running, s)) + Cardinality(InSession(q, B, s)))
  <2> SUFFICES ASSUME s \in DOMAIN SessionCap
               PROVE  ~(Cardinality(InSession(q, q.running, s)) + Cardinality(InSession(q, B, s)) >= SessionCap[s])
    BY DEF Capped
  <2> DEFINE A == InSession(q, q.running, s)
             C == InSession(q, B, s)
             D == InSession(q, S, s)
  <2>1. /\ IsFiniteSet(A) /\ IsFiniteSet(C) /\ IsFiniteSet(D) /\ C \cup {id} \subseteq D /\ id \notin C /\ D # {}
    BY <1>1, FS_Subset DEF InSession
  <2>2. Cardinality(A) + Cardinality(D) <= SessionCap[s]
    BY <2>1 DEF Fits
  <2> HIDE DEF A, C, D
  <2>3. Cardinality(C \cup {id}) <= Cardinality(D) /\ Cardinality(C \cup {id}) = Cardinality(C) + 1
    BY <2>1, FS_Subset, FS_AddElement
  <2>4. Cardinality(A) \in Nat /\ Cardinality(C) \in Nat /\ Cardinality(D) \in Nat /\ SessionCap[s] \in Nat
    BY <2>1, FS_CardinalityType, CapAssumption
  <2>5. ~(Cardinality(A) + Cardinality(C) >= SessionCap[s])
    BY <2>2, <2>3, <2>4
  <2> QED BY <2>5 DEF A, C
<1>5. Cardinality(B) \in Nat /\ FreeSlots(q) \in Nat
  <2>1. Cardinality(B) \in Nat /\ Cardinality(q.running) \in Nat
    BY <1>1, FS_CardinalityType
  <2> QED BY <2>1, LimitsAssumption DEF FreeSlots, SaturatingSub
<1> QED BY <1>2, <1>3, <1>4, <1>5 DEF PassedOver

(* IsStartable describes one set at most: two of them agree below the      *)
(* least id in which they differ, where both pass it over or neither does. *)
LEMMA StartableIsOne ==
  ASSUME NEW q, QueueOK(q), NEW S \in SUBSET q.queued, IsStartable(q, S),
         NEW T \in SUBSET q.queued, IsStartable(q, T)
  PROVE  S = T
<1> SUFFICES ASSUME S # T PROVE FALSE
  OBVIOUS
<1> DEFINE D == (S \ T) \cup (T \ S)
<1>1. Fits(q, S) /\ Fits(q, T)
  BY DEF IsStartable, Fits
<1>2. /\ \A id \in q.queued \ S : PassedOver(q, S, id)
      /\ \A id \in q.queued \ T : PassedOver(q, T, id)
  BY DEF IsStartable, PassedOver
<1>3. q.queued \subseteq Nat
  BY JobsFinite DEF QueueOK, IndexesMatch, WithStatus
<1>4. PICK id \in D : \A k \in D : id <= k
  <2>1. D \in SUBSET Nat /\ D # {}
    BY <1>3
  <2> HIDE DEF D
  <2> QED BY <2>1, LeastNat
<1>5. Before(S, id) = Before(T, id)
  <2>1. \A i \in S \cup T : i < id => i \notin D
    BY <1>3, <1>4
  <2> QED BY <2>1 DEF Before
<1>6. PassedOver(q, S, id) <=> PassedOver(q, T, id)
  BY <1>5 DEF PassedOver
<1> QED BY <1>1, <1>2, <1>6, TakesNoMore

(* What passes a job over stays when more is picked.                       *)
LEMMA PassedOverStays ==
  ASSUME NEW q, IsFiniteSet(q.running), NEW S, IsFiniteSet(S), NEW R \in SUBSET S, NEW id, PassedOver(q, R, id)
  PROVE  PassedOver(q, S, id)
<1> DEFINE s == q.jobs[id].session
           A == InSession(q, q.running, s)
           C == InSession(q, Before(R, id), s)
           D == InSession(q, Before(S, id), s)
<1>1. /\ Before(R, id) \subseteq Before(S, id) /\ IsFiniteSet(Before(S, id)) /\ IsFiniteSet(Before(R, id))
      /\ C \subseteq D /\ IsFiniteSet(A) /\ IsFiniteSet(C) /\ IsFiniteSet(D)
  BY FS_Subset DEF Before, InSession
<1>2. /\ Cardinality(Before(R, id)) <= Cardinality(Before(S, id)) /\ Cardinality(C) <= Cardinality(D)
  BY <1>1, FS_Subset
<1>3. /\ Cardinality(Before(R, id)) \in Nat /\ Cardinality(Before(S, id)) \in Nat /\ FreeSlots(q) \in Nat
      /\ Cardinality(A) \in Nat /\ Cardinality(C) \in Nat /\ Cardinality(D) \in Nat
  <2>1. Cardinality(q.running) \in Nat
    BY FS_CardinalityType
  <2> QED BY <1>1, <2>1, FS_CardinalityType, LimitsAssumption DEF FreeSlots, SaturatingSub
<1>4. CASE Cardinality(Before(R, id)) >= FreeSlots(q)
  <2>1. Cardinality(Before(S, id)) >= FreeSlots(q)
    BY <1>2, <1>3, <1>4
  <2> QED BY <2>1 DEF PassedOver
<1>5. CASE Destination(q.jobs[id]) \in DestinationsOf(q, q.running \cup Before(R, id))
  <2>1. Destination(q.jobs[id]) \in DestinationsOf(q, q.running \cup Before(S, id))
    BY <1>1, <1>5 DEF DestinationsOf
  <2> QED BY <2>1 DEF PassedOver
<1>6. CASE Capped(q, s, Cardinality(A) + Cardinality(C))
  <2> HIDE DEF A, C, D
  <2>1. Capped(q, s, Cardinality(A) + Cardinality(D))
    BY <1>2, <1>3, <1>6, CapAssumption DEF Capped
  <2> QED BY <2>1 DEF PassedOver, A, D
<1> QED BY <1>4, <1>5, <1>6 DEF PassedOver

---------------------------------------------------------------------------
(* The ids the loop may still come to: the heads of the heap, and what is  *)
(* left of the sessions that have one                                      *)
OfSession(q, i, j) == q.jobs[i].session = q.jobs[j].session
Ahead(q, w) == {i \in q.queued : \E h \in w.heads : i = h \/ (OfSession(q, h, i) /\ i \in w.rest[q.jobs[i].session])}

(* The loop invariant *)
WalkOK(q, w) ==
    /\ w.heads \subseteq q.queued
    /\ w.picked \subseteq q.queued
    /\ \A s \in Sessions : w.rest[s] \subseteq q.queuedBySession[s]
    /\ DOMAIN w.rest = Sessions /\ DOMAIN w = {"heads", "rest", "busy", "picked"}
    /\ \A h \in w.heads : \A i \in w.rest[q.jobs[h].session] : h < i
    /\ \A h, i \in w.heads : OfSession(q, h, i) => h = i
    /\ \A p \in w.picked, h \in w.heads : p < h
    /\ w.busy = DestinationsOf(q, q.running \cup w.picked)
    /\ Fits(q, w.picked)
    /\ \A id \in q.queued \ (w.picked \cup Ahead(q, w)) : PassedOver(q, w.picked, id)

(* before the first pop                                                    *)
LEMMA WalkStarts ==
  ASSUME NEW q, QueueOK(q)
  PROVE  WalkOK(q, WalkStart(q))
<1> DEFINE w == WalkStart(q)
           open == {s \in Sessions : q.queuedBySession[s] # {}
                                       /\ ~Capped(q, s, Cardinality(InSession(q, q.running, s)))}
<1>1. /\ q.queued \subseteq Nat /\ IsFiniteSet(q.running)
      /\ \A s \in Sessions : q.queuedBySession[s] = {id \in q.queued : q.jobs[id].session = s}
      /\ \A id \in q.queued : q.jobs[id].session \in Sessions
  <2>1. \A id \in DOMAIN q.jobs : q.jobs[id].session \in Sessions
    BY DEF QueueOK, QueueTyped, Job
  <2> QED BY <2>1, JobsFinite, FS_Subset DEF QueueOK, IndexesMatch, WithStatus
<1>2. \A s \in open : /\ Min(q.queuedBySession[s]) \in q.queuedBySession[s]
                      /\ \A i \in q.queuedBySession[s] : Min(q.queuedBySession[s]) <= i
  BY <1>1, MinIsLeast
<1>3. /\ w.heads = {Min(q.queuedBySession[s]) : s \in open}
      /\ w.rest = [s \in Sessions |->
                     IF s \in open THEN q.queuedBySession[s] \ {Min(q.queuedBySession[s])} ELSE {}]
      /\ w.busy = DestinationsOf(q, q.running) /\ w.picked = {}
      /\ DOMAIN w = {"heads", "rest", "busy", "picked"}
  BY DEF WalkStart
<1> HIDE DEF w
<1>4. \A h \in w.heads : /\ q.jobs[h].session \in open /\ h \in q.queued
                         /\ h = Min(q.queuedBySession[q.jobs[h].session])
  BY <1>1, <1>2, <1>3
<1>5. /\ w.heads \subseteq q.queued /\ w.picked \subseteq q.queued
      /\ \A s \in Sessions : w.rest[s] \subseteq q.queuedBySession[s]
      /\ DOMAIN w.rest = Sessions
  BY <1>3, <1>4
<1>6. \A h \in w.heads : \A i \in w.rest[q.jobs[h].session] : h < i
  <2> SUFFICES ASSUME NEW h \in w.heads, NEW i \in w.rest[q.jobs[h].session] PROVE h < i
    OBVIOUS
  <2>1. PICK s \in open : s = q.jobs[h].session
    BY <1>4
  <2>2. i \in q.queuedBySession[s] /\ i # h /\ h \in q.queuedBySession[s]
    BY <1>2, <1>3, <1>4, <2>1
  <2>3. h <= i /\ h \in Nat /\ i \in Nat
    BY <1>1, <1>2, <1>4, <2>1, <2>2
  <2> QED BY <2>2, <2>3
<1>7. \A h, i \in w.heads : OfSession(q, h, i) => h = i
  BY <1>4 DEF OfSession
<1>8. Fits(q, {})
  <2>1. Cardinality({}) = 0 /\ Cardinality(q.running) \in Nat
    BY <1>1, FS_EmptySet, FS_CardinalityType
  <2> QED BY <2>1, LimitsAssumption DEF Fits, FreeSlots, SaturatingSub, InSession
<1>9. ASSUME NEW id \in q.queued, id \notin Ahead(q, w) PROVE PassedOver(q, {}, id)
  <2> DEFINE s == q.jobs[id].session
  <2>1. s \in Sessions /\ id \in q.queuedBySession[s]
    BY <1>1
  <2>2. s \notin open
    <3> SUFFICES ASSUME s \in open PROVE FALSE
      OBVIOUS
    <3>1. PICK h : h = Min(q.queuedBySession[s])
      OBVIOUS
    <3>2. h \in w.heads /\ q.jobs[h].session = s
      BY <1>1, <1>2, <1>3, <3>1
    <3>3. id = h \/ id \in w.rest[s]
      BY <1>3, <2>1, <3>1
    <3> QED BY <1>9, <3>2, <3>3 DEF Ahead, OfSession
  <2>3. Capped(q, s, Cardinality(InSession(q, q.running, s)))
    BY <2>1, <2>2
  <2>4. Cardinality(InSession(q, Before({}, id), s)) = 0
    <3>1. InSession(q, Before({}, id), s) = {}
      BY DEF InSession, Before
    <3> QED BY <3>1, FS_EmptySet
  <2>5. Cardinality(InSession(q, q.running, s)) \in Nat
    <3>1. IsFiniteSet(InSession(q, q.running, s))
      BY <1>1, FS_Subset DEF InSession
    <3> QED BY <3>1, FS_CardinalityType
  <2>6. Capped(q, s, Cardinality(InSession(q, q.running, s)) + Cardinality(InSession(q, Before({}, id), s)))
    <3>1. \A n \in Nat : n + 0 = n
      OBVIOUS
    <3> HIDE DEF s
    <3> QED BY <2>3, <2>4, <2>5, <3>1
  <2> QED BY <2>6 DEF PassedOver
<1>10. WalkOK(q, w)
  <2>1. w.busy = DestinationsOf(q, q.running \cup w.picked)
    BY <1>3
  <2> QED BY <1>3, <1>5, <1>6, <1>7, <1>8, <1>9, <2>1 DEF WalkOK
<1> QED BY <1>10 DEF w

(* A turn of the loop: it comes to one job less, and what it drops is      *)
(* passed over                                                             *)
LEMMA TurnKeeps ==
  ASSUME NEW q, QueueOK(q), NEW w, WalkOK(q, w), w.heads # {}, Cardinality(w.picked) < FreeSlots(q)
  PROVE  WalkOK(q, WalkTurn(q, w)) /\ Ahead(q, WalkTurn(q, w)) \subseteq Ahead(q, w) \ {Min(w.heads)}
         /\ Min(w.heads) \in Ahead(q, w)
<1> DEFINE v == WalkTurn(q, w)
           id == Min(w.heads)
           s == q.jobs[id].session
           next == IF w.rest[s] = {} THEN {} ELSE {Min(w.rest[s])}
           capped == Capped(q, s, Cardinality(InSession(q, q.running \cup w.picked, s)))
           free == Destination(q.jobs[id]) \notin w.busy
<1>1. /\ q.queued \subseteq Nat /\ IsFiniteSet(q.running) /\ IsFiniteSet(q.queued) /\ q.running \cap q.queued = {}
      /\ \A z \in Sessions : q.queuedBySession[z] = {i \in q.queued : q.jobs[i].session = z}
      /\ \A i \in q.queued : q.jobs[i].session \in Sessions
  <2>1. \A i \in DOMAIN q.jobs : q.jobs[i].session \in Sessions
    BY DEF QueueOK, QueueTyped, Job
  <2> QED BY <2>1, JobsFinite, FS_Subset DEF QueueOK, IndexesMatch, WithStatus
<1>w. /\ w.heads \subseteq q.queued /\ w.picked \subseteq q.queued
      /\ \A z \in Sessions : w.rest[z] \subseteq q.queuedBySession[z]
      /\ DOMAIN w.rest = Sessions /\ DOMAIN w = {"heads", "rest", "busy", "picked"}
      /\ \A h \in w.heads : \A i \in w.rest[q.jobs[h].session] : h < i
      /\ \A h, i \in w.heads : OfSession(q, h, i) => h = i
      /\ \A p \in w.picked, h \in w.heads : p < h
      /\ w.busy = DestinationsOf(q, q.running \cup w.picked)
      /\ Fits(q, w.picked)
      /\ \A i \in q.queued \ (w.picked \cup Ahead(q, w)) : PassedOver(q, w.picked, i)
  BY DEF WalkOK
<1>2. id \in w.heads /\ (\A h \in w.heads : id <= h) /\ s \in Sessions /\ id \in q.queued
  <2>1. w.heads \in SUBSET Nat
    BY <1>1, <1>w
  <2> QED BY <1>1, <1>w, <2>1, MinIsLeast
<1>3. w.rest[s] \subseteq {i \in q.queued : q.jobs[i].session = s}
  BY <1>1, <1>2, <1>w
<1>4. /\ next \subseteq w.rest[s]
      /\ \A m \in next, i \in w.rest[s] : m <= i
      /\ \A m, i \in next : m = i
      /\ w.rest[s] # {} => next # {}
  <2>1. w.rest[s] \in SUBSET Nat
    BY <1>1, <1>3
  <2>2. CASE w.rest[s] = {}
    BY <2>2
  <2>3. CASE w.rest[s] # {}
    BY <2>1, <2>3, MinIsLeast
  <2> QED BY <2>2, <2>3
<1>5. id \in Ahead(q, w) /\ id \notin w.picked
  <2>1. ~(id < id)
    BY <1>1, <1>2
  <2> QED BY <1>2, <1>w, <2>1 DEF Ahead
<1>6. capped <=> Capped(q, s, Cardinality(InSession(q, q.running, s)) + Cardinality(InSession(q, w.picked, s)))
  <2> DEFINE A == InSession(q, q.running, s)
             C == InSession(q, w.picked, s)
  <2>1. InSession(q, q.running \cup w.picked, s) = A \cup C
    BY DEF InSession
  <2>2. IsFiniteSet(A) /\ IsFiniteSet(C) /\ A \cap C = {}
    BY <1>1, <1>w, FS_Subset DEF InSession
  <2>3. Cardinality(A \cup C) = Cardinality(A) + Cardinality(C)
    <3> HIDE DEF A, C
    <3> QED BY <2>2, CountDisjoint
  <2>4. Cardinality(InSession(q, q.running \cup w.picked, s)) = Cardinality(A) + Cardinality(C)
    BY <2>1, <2>3
  <2> HIDE DEF s
  <2> QED BY <2>4
<1>7. /\ capped => v = [w EXCEPT !.heads = @ \ {id}]
      /\ ~capped => v = [heads |-> (w.heads \ {id}) \cup next,
                         rest |-> [w.rest EXCEPT ![s] = @ \ next],
                         busy |-> w.busy \cup {Destination(q.jobs[id])},
                         picked |-> IF free THEN w.picked \cup {id} ELSE w.picked]
  BY DEF WalkTurn
<1>8. ASSUME NEW i \in q.queued, i = id \/ i \in w.rest[s] PROVE Before(w.picked, i) = w.picked
  <2>1. \A p \in w.picked : p < id /\ id <= i /\ p \in Nat /\ id \in Nat /\ i \in Nat
    BY <1>1, <1>2, <1>8, <1>w
  <2>2. \A p \in w.picked : p < i
    BY <2>1
  <2> QED BY <2>2 DEF Before
<1> HIDE DEF v, id, next
<1>9. CASE capped
  <2>1. /\ v.heads = w.heads \ {id} /\ v.rest = w.rest /\ v.busy = w.busy /\ v.picked = w.picked
        /\ DOMAIN v = {"heads", "rest", "busy", "picked"}
    BY <1>7, <1>9, <1>w
  <2>2. Ahead(q, v) \subseteq Ahead(q, w) \ {id}
    <3> SUFFICES ASSUME NEW i \in Ahead(q, v) PROVE i \in Ahead(q, w) /\ i # id
      OBVIOUS
    <3>1. PICK h \in v.heads : i \in q.queued /\ (i = h \/ (OfSession(q, h, i) /\ i \in w.rest[q.jobs[i].session]))
      BY <2>1 DEF Ahead
    <3>2. i \in Ahead(q, w)
      BY <2>1, <3>1 DEF Ahead
    <3>3. CASE i = id
      <4>1. OfSession(q, h, id)
        BY <2>1, <3>1, <3>3
      <4> QED BY <1>2, <1>w, <2>1, <4>1
    <3> QED BY <3>2, <3>3
  <2>3. ASSUME NEW i \in q.queued \ (v.picked \cup Ahead(q, v)) PROVE PassedOver(q, v.picked, i)
    <3>1. CASE i \notin Ahead(q, w)
      BY <1>w, <2>1, <2>3, <3>1
    <3>2. CASE i \in Ahead(q, w)
      <4>1. PICK h \in w.heads : i = h \/ (OfSession(q, h, i) /\ i \in w.rest[q.jobs[i].session])
        BY <3>2 DEF Ahead
      <4>2. h = id
        BY <2>1, <2>3, <4>1 DEF Ahead
      <4>3. q.jobs[i].session = s /\ (i = id \/ i \in w.rest[s])
        BY <4>1, <4>2 DEF OfSession
      <4>4. Before(w.picked, i) = w.picked
        BY <1>8, <2>3, <4>3
      <4> QED BY <1>6, <1>9, <2>1, <4>3, <4>4 DEF PassedOver
    <3> QED BY <3>1, <3>2
  <2>4. WalkOK(q, v)
    BY <1>w, <2>1, <2>3 DEF WalkOK
  <2> QED BY <1>5, <2>2, <2>4 DEF v, id
<1>10. CASE ~capped
  <2>1. /\ v.heads = (w.heads \ {id}) \cup next
        /\ v.rest = [w.rest EXCEPT ![s] = @ \ next]
        /\ v.busy = w.busy \cup {Destination(q.jobs[id])}
        /\ v.picked = IF free THEN w.picked \cup {id} ELSE w.picked
        /\ DOMAIN v = {"heads", "rest", "busy", "picked"}
    BY <1>7, <1>10
  <2>2. /\ \A z \in Sessions : v.rest[z] = IF z = s THEN w.rest[s] \ next ELSE w.rest[z]
        /\ DOMAIN v.rest = Sessions
    BY <1>2, <1>w, <2>1
  <2>3. \A m \in next : m \in q.queued /\ q.jobs[m].session = s /\ id < m
    BY <1>2, <1>3, <1>4, <1>w
  <2>4. v.heads \subseteq q.queued /\ v.picked \subseteq q.queued
    BY <1>2, <1>w, <2>1, <2>3
  <2>5. \A h \in v.heads : id < h
    <3> SUFFICES ASSUME NEW h \in v.heads PROVE id < h
      OBVIOUS
    <3>1. CASE h \in next
      BY <2>3, <3>1
    <3>2. CASE h \in w.heads /\ h # id
      <4>1. id <= h /\ id \in Nat /\ h \in Nat
        BY <1>1, <1>2, <1>w, <3>2
      <4> QED BY <3>2, <4>1
    <3> QED BY <2>1, <3>1, <3>2
  <2>6. \A h \in v.heads : h \in next \/ (h \in w.heads /\ h # id /\ q.jobs[h].session # s)
    BY <1>2, <1>w, <2>1 DEF OfSession
  <2>7. \A h, i \in v.heads : OfSession(q, h, i) => h = i
    BY <1>4, <1>w, <2>3, <2>6 DEF OfSession
  <2>8. \A h \in v.heads : \A i \in v.rest[q.jobs[h].session] : h < i
    <3> SUFFICES ASSUME NEW h \in v.heads, NEW i \in v.rest[q.jobs[h].session] PROVE h < i
      OBVIOUS
    <3>1. CASE h \in next
      <4>1. i \in w.rest[s] /\ i \notin next
        BY <1>2, <2>2, <2>3, <3>1
      <4>2. h <= i /\ h # i /\ h \in Nat /\ i \in Nat
        BY <1>1, <1>3, <1>4, <2>3, <3>1, <4>1
      <4> QED BY <4>2
    <3>2. CASE h \in w.heads /\ q.jobs[h].session # s
      BY <1>1, <1>w, <2>2, <3>2
    <3> QED BY <2>6, <3>1, <3>2
  <2>9. \A p \in v.picked, h \in v.heads : p < h
    <3> SUFFICES ASSUME NEW p \in v.picked, NEW h \in v.heads PROVE p < h
      OBVIOUS
    <3>1. p \in w.picked \/ p = id
      BY <2>1
    <3>2. p \in w.picked => p < id
      BY <1>2, <1>w
    <3>3. id < h /\ p \in Nat /\ id \in Nat /\ h \in Nat
      BY <1>1, <1>2, <2>4, <2>5
    <3> QED BY <3>1, <3>2, <3>3
  <2>10. v.busy = DestinationsOf(q, q.running \cup v.picked)
    <3>1. CASE free
      <4>1. v.picked = w.picked \cup {id}
        BY <2>1, <3>1
      <4> QED BY <1>w, <2>1, <4>1 DEF DestinationsOf
    <3>2. CASE ~free
      <4>1. v.picked = w.picked /\ Destination(q.jobs[id]) \in w.busy
        BY <2>1, <3>2
      <4> QED BY <1>w, <2>1, <4>1
    <3> QED BY <3>1, <3>2
  <2>11. Fits(q, v.picked)
    <3>1. CASE free
      <4>1. v.picked = w.picked \cup {id} /\ id \in q.queued \ w.picked /\ w.picked \in SUBSET q.queued
        BY <1>2, <1>5, <1>w, <2>1, <3>1
      <4>2. Destination(q.jobs[id]) \notin DestinationsOf(q, q.running \cup w.picked)
        BY <1>w, <3>1
      <4> HIDE DEF free, capped
      <4> QED BY <1>6, <1>10, <1>w, <4>1, <4>2, FitsMore
    <3>2. CASE ~free
      BY <1>w, <2>1, <3>2
    <3> QED BY <3>1, <3>2
  <2>12. Ahead(q, v) = Ahead(q, w) \ {id}
    <3>1. ASSUME NEW i \in Ahead(q, v) PROVE i \in Ahead(q, w) /\ i # id
      <4>1. PICK h \in v.heads : i \in q.queued /\ (i = h \/ (OfSession(q, h, i) /\ i \in v.rest[q.jobs[i].session]))
        BY <3>1 DEF Ahead
      <4>2. CASE h \in next
        <5>1. q.jobs[i].session = s /\ i \in w.rest[s]
          BY <1>2, <1>4, <2>2, <2>3, <4>1, <4>2 DEF OfSession
        <5>2. OfSession(q, id, i)
          BY <5>1 DEF OfSession
        <5>3. i # id
          BY <1>2, <1>w, <1>1, <5>1
        <5> QED BY <1>2, <4>1, <5>1, <5>2, <5>3 DEF Ahead
      <4>3. CASE h \in w.heads /\ h # id /\ q.jobs[h].session # s
        <5>1. i = h \/ (OfSession(q, h, i) /\ i \in w.rest[q.jobs[i].session])
          BY <1>1, <2>2, <4>1, <4>3 DEF OfSession
        <5>2. i # id
          BY <4>1, <4>3 DEF OfSession
        <5> QED BY <4>1, <4>3, <5>1, <5>2 DEF Ahead
      <4> QED BY <2>6, <4>2, <4>3
    <3>2. ASSUME NEW i \in Ahead(q, w), i # id PROVE i \in Ahead(q, v)
      <4>1. PICK h \in w.heads : i \in q.queued /\ (i = h \/ (OfSession(q, h, i) /\ i \in w.rest[q.jobs[i].session]))
        BY <3>2 DEF Ahead
      <4>2. CASE h = id
        <5>1. i \in w.rest[s] /\ q.jobs[i].session = s
          BY <3>2, <4>1, <4>2 DEF OfSession
        <5>2. PICK m \in next : TRUE
          BY <1>4, <5>1
        <5>3. m \in v.heads /\ OfSession(q, m, i)
          BY <2>1, <2>3, <5>1, <5>2 DEF OfSession
        <5>4. i = m \/ i \in v.rest[s]
          BY <1>2, <1>4, <2>2, <5>1, <5>2
        <5> QED BY <4>1, <5>1, <5>3, <5>4 DEF Ahead
      <4>3. CASE h # id
        <5>1. h \in v.heads /\ q.jobs[h].session # s
          BY <1>2, <1>w, <2>1, <4>3 DEF OfSession
        <5>2. i = h \/ (OfSession(q, h, i) /\ i \in v.rest[q.jobs[i].session])
          BY <1>1, <2>2, <4>1, <5>1 DEF OfSession
        <5> QED BY <4>1, <5>1, <5>2 DEF Ahead
      <4> QED BY <4>2, <4>3
    <3> QED BY <3>1, <3>2
  <2>13. ASSUME NEW i \in q.queued \ (v.picked \cup Ahead(q, v)) PROVE PassedOver(q, v.picked, i)
    <3>1. IsFiniteSet(v.picked) /\ w.picked \in SUBSET v.picked
      BY <1>1, <2>1, <2>4, FS_Subset
    <3>2. PassedOver(q, w.picked, i)
      <4>1. CASE i = id
        <5>1. ~free
          BY <2>1, <2>13, <4>1
        <5>2. Before(w.picked, i) = w.picked
          BY <1>8, <4>1, <1>2
        <5>3. Destination(q.jobs[i]) \in DestinationsOf(q, q.running \cup w.picked)
          BY <1>w, <4>1, <5>1
        <5> QED BY <5>2, <5>3 DEF PassedOver
      <4>2. CASE i # id
        <5>1. i \notin Ahead(q, w) /\ i \notin w.picked
          BY <2>12, <2>13, <3>1, <4>2
        <5> QED BY <1>w, <5>1
      <4> QED BY <4>1, <4>2
    <3> QED BY <1>1, <3>1, <3>2, PassedOverStays
  <2>14. \A z \in Sessions : v.rest[z] \subseteq q.queuedBySession[z]
    BY <1>2, <1>w, <2>2
  <2>15. WalkOK(q, v)
    BY <2>1, <2>2, <2>4, <2>7, <2>8, <2>9, <2>10, <2>11, <2>13, <2>14 DEF WalkOK
  <2> QED BY <1>5, <2>12, <2>15 DEF v, id
<1> QED BY <1>9, <1>10

(* the loop's condition *)
WalkEnded(q, w) == w.heads = {} \/ Cardinality(w.picked) >= FreeSlots(q)

(* f is the loop, turn by turn *)
IsWalk(q, n, f) ==
    f = [k \in 0..n |->
          IF k = 0 THEN WalkStart(q)
          ELSE IF f[k - 1].heads = {} \/ Cardinality(f[k - 1].picked) >= FreeSlots(q) THEN f[k - 1]
          ELSE WalkTurn(q, f[k - 1])]

(* There is such a function, turn by turn.                                 *)
LEMMA WalkExists ==
  ASSUME NEW q, NEW n \in Nat
  PROVE  \E f : IsWalk(q, n, f)
<1> DEFINE Turn(x) == IF x.heads = {} \/ Cardinality(x.picked) >= FreeSlots(q) THEN x ELSE WalkTurn(q, x)
           Upto(k) == \E f : f = [j \in 0..k |-> IF j = 0 THEN WalkStart(q) ELSE Turn(f[j - 1])]
           D == {k \in Nat : ~Upto(k)}
<1>1. ASSUME NEW k \in Nat, k # 0 => Upto(k - 1) PROVE Upto(k)
  <2>1. PICK g : k # 0 => g = [j \in 0..(k - 1) |-> IF j = 0 THEN WalkStart(q) ELSE Turn(g[j - 1])]
    BY <1>1
  <2> DEFINE f == [j \in 0..k |-> IF j = 0 THEN WalkStart(q) ELSE Turn(g[j - 1])]
  <2> HIDE DEF Turn
  <2>2. ASSUME NEW j \in 0..k, j # 0 PROVE f[j - 1] = g[j - 1]
    <3>1. PICK i : i = j - 1
      OBVIOUS
    <3>2. i \in 0..k /\ i \in 0..(k - 1) /\ k # 0
      BY <2>2, <3>1
    <3>3. f[i] = g[i]
      BY <2>1, <3>2
    <3> QED BY <3>1, <3>3
  <2>3. f = [j \in 0..k |-> IF j = 0 THEN WalkStart(q) ELSE Turn(f[j - 1])]
    BY <2>2
  <2> QED BY <2>3
<1>2. D = {}
  <2> SUFFICES ASSUME D # {} PROVE FALSE
    OBVIOUS
  <2> HIDE DEF Upto
  <2>1. PICK m \in D : \A k \in D : m <= k
    <3>1. D \in SUBSET Nat
      OBVIOUS
    <3> HIDE DEF D
    <3> QED BY <3>1, LeastNat
  <2>2. m \in Nat /\ ~Upto(m) /\ (m # 0 => Upto(m - 1))
    <3>1. m # 0 => m - 1 \in Nat /\ ~(m <= m - 1)
      OBVIOUS
    <3> QED BY <2>1, <3>1
  <2> QED BY <1>1, <2>2
<1>3. Upto(n)
  BY <1>2
<1> QED BY <1>3 DEF IsWalk

(* startable_limited's loop ends before its bound, and what it returns is  *)
(* startable.                                                              *)
LEMMA WalkIsStartable ==
  ASSUME NEW q, QueueOK(q)
  PROVE  Walk(q) \in SUBSET q.queued /\ IsStartable(q, Walk(q))
<1> DEFINE n == Cardinality(q.queued)
<1>1. IsFiniteSet(q.queued) /\ IsFiniteSet(q.running) /\ q.queued \subseteq Nat /\ n \in Nat
  BY JobsFinite, FS_Subset, FS_CardinalityType DEF QueueOK, IndexesMatch, WithStatus
<1>2. PICK w : IsWalk(q, n, w) /\ Walk(q) = w[n].picked
  <2>1. \E f : IsWalk(q, n, f)
    BY <1>1, WalkExists
  <2>2. Walk(q) = (CHOOSE f : IsWalk(q, n, f))[n].picked
    BY DEF Walk, IsWalk
  <2> HIDE DEF n
  <2> QED BY <2>1, <2>2
<1>3. \A x : WalkOK(q, x) => IsFiniteSet(Ahead(q, x)) /\ Cardinality(Ahead(q, x)) \in Nat
                             /\ Cardinality(Ahead(q, x)) <= n
  BY <1>1, FS_Subset, FS_CardinalityType DEF Ahead
<1>4. FreeSlots(q) \in Nat /\ \A S \in SUBSET q.queued : Cardinality(S) \in Nat
  <2>1. Cardinality(q.running) \in Nat
    BY <1>1, FS_CardinalityType
  <2> QED BY <1>1, <2>1, FS_Subset, FS_CardinalityType, LimitsAssumption DEF FreeSlots, SaturatingSub
<1> DEFINE Fine(k) == WalkOK(q, w[k]) /\ (WalkEnded(q, w[k]) \/ Cardinality(Ahead(q, w[k])) <= n - k)
           D == {k \in Nat : k <= n /\ ~Fine(k)}
<1> HIDE DEF n
<1>5. w[0] = WalkStart(q)
  BY <1>1, <1>2 DEF IsWalk
<1>6. Fine(0)
  BY <1>1, <1>3, <1>5, WalkStarts
<1>7. ASSUME NEW k \in Nat, k # 0, k <= n, Fine(k - 1) PROVE Fine(k)
  <2>1. PICK x : x = w[k - 1]
    OBVIOUS
  <2>2. w[k] = IF WalkEnded(q, x) THEN x ELSE WalkTurn(q, x)
    <3>1. k \in 0..n
      BY <1>1, <1>7
    <3>2. w[k] = IF w[k - 1].heads = {} \/ Cardinality(w[k - 1].picked) >= FreeSlots(q) THEN w[k - 1]
                 ELSE WalkTurn(q, w[k - 1])
      BY <1>2, <1>7, <3>1 DEF IsWalk
    <3> QED BY <2>1, <3>2 DEF WalkEnded
  <2>3. WalkOK(q, x) /\ (WalkEnded(q, x) \/ Cardinality(Ahead(q, x)) <= n - (k - 1))
    BY <1>7, <2>1
  <2>4. CASE WalkEnded(q, x)
    BY <2>2, <2>3, <2>4
  <2>5. CASE ~WalkEnded(q, x)
    <3>1. x.heads # {} /\ Cardinality(x.picked) < FreeSlots(q)
      BY <1>4, <2>3, <2>5 DEF WalkEnded, WalkOK
    <3>2. PICK y, id : y = WalkTurn(q, x) /\ id = Min(x.heads)
      OBVIOUS
    <3>3. WalkOK(q, y) /\ Ahead(q, y) \subseteq Ahead(q, x) \ {id} /\ id \in Ahead(q, x)
      BY <2>3, <3>1, <3>2, TurnKeeps
    <3>4. IsFiniteSet(Ahead(q, x)) /\ Cardinality(Ahead(q, x)) \in Nat /\ Cardinality(Ahead(q, y)) \in Nat
      BY <1>3, <2>3, <3>3
    <3>5. Cardinality(Ahead(q, x) \ {id}) = Cardinality(Ahead(q, x)) - 1 /\ IsFiniteSet(Ahead(q, x) \ {id})
      BY <3>3, <3>4, FS_RemoveElement
    <3>6. Cardinality(Ahead(q, y)) <= Cardinality(Ahead(q, x) \ {id})
      BY <3>3, <3>5, FS_Subset
    <3>7. Cardinality(Ahead(q, y)) <= n - k
      BY <1>1, <2>3, <2>5, <3>4, <3>5, <3>6
    <3>8. w[k] = y
      BY <2>2, <2>5, <3>2
    <3> QED BY <3>3, <3>7, <3>8
  <2> QED BY <2>4, <2>5
<1>8. Fine(n)
  <2> HIDE DEF Fine
  <2> SUFFICES ASSUME D # {} PROVE FALSE
    BY <1>1
  <2>1. PICK m \in D : \A k \in D : m <= k
    <3>1. D \in SUBSET Nat
      OBVIOUS
    <3> HIDE DEF D
    <3> QED BY <3>1, LeastNat
  <2>2. m \in Nat /\ m <= n /\ ~Fine(m) /\ m # 0
    BY <1>6, <2>1
  <2>3. m - 1 \in Nat /\ m - 1 <= n /\ ~(m <= m - 1)
    BY <1>1, <2>2
  <2>4. Fine(m - 1)
    BY <2>1, <2>3
  <2> QED BY <1>7, <2>2, <2>4
<1>9. PICK x : x = w[n]
  OBVIOUS
<1>10. WalkOK(q, x) /\ x.picked \in SUBSET q.queued /\ Fits(q, x.picked)
  BY <1>8, <1>9 DEF WalkOK
<1>11. WalkEnded(q, x)
  <2> SUFFICES ASSUME Cardinality(Ahead(q, x)) <= n - n PROVE x.heads = {}
    BY <1>8, <1>9 DEF WalkEnded
  <2>1. Ahead(q, x) = {}
    <3>1. Cardinality(Ahead(q, x)) = 0 /\ IsFiniteSet(Ahead(q, x))
      BY <1>1, <1>3, <1>10
    <3> QED BY <3>1, FS_EmptySet
  <2> QED BY <1>10, <2>1 DEF Ahead, WalkOK
<1>12. ASSUME NEW id \in q.queued \ x.picked PROVE PassedOver(q, x.picked, id)
  <2>1. CASE id \notin Ahead(q, x)
    BY <1>10, <1>12, <2>1 DEF WalkOK
  <2>2. CASE id \in Ahead(q, x)
    <3>1. PICK h \in x.heads : id = h \/ (OfSession(q, h, id) /\ id \in x.rest[q.jobs[id].session])
      BY <2>2 DEF Ahead
    <3>2. h = id \/ h < id
      BY <1>10, <3>1 DEF WalkOK, OfSession
    <3>3. \A p \in x.picked : p < h /\ p \in Nat
      BY <1>1, <1>10, <3>1 DEF WalkOK
    <3>4. h \in Nat /\ id \in Nat
      BY <1>1, <1>10 DEF WalkOK
    <3>5. \A p \in x.picked : p < id
      BY <3>2, <3>3, <3>4
    <3>6. Before(x.picked, id) = x.picked
      BY <3>5 DEF Before
    <3>7. Cardinality(x.picked) >= FreeSlots(q)
      BY <1>11, <3>1 DEF WalkEnded
    <3> QED BY <3>6, <3>7 DEF PassedOver
  <2> QED BY <2>1, <2>2
<1>13. IsStartable(q, x.picked)
  BY <1>10, <1>12 DEF IsStartable, Fits, PassedOver
<1> QED BY <1>2, <1>9, <1>10, <1>13

(* It is the one set that is.                                              *)
LEMMA WalkIsTheOne ==
  ASSUME NEW q, QueueOK(q)
  PROVE  {S \in SUBSET q.queued : IsStartable(q, S)} = {Walk(q)}
BY WalkIsStartable, StartableIsOne

(* startable_limited: in every queue that its operations can make, the heap *)
(* of session heads picks exactly the jobs that the rules of the walk, slots, *)
(* destinations and caps, describe, and there is one such set.             *)
THEOREM WalkCorrect == Spec => []WalkPicksStartable
<1>1. IInv => WalkPicksStartable
  <2> SUFFICES ASSUME IInv PROVE WalkPicksStartable
    OBVIOUS
  <2>1. PICK q : q = transfers
    OBVIOUS
  <2>2. QueueOK(q)
    BY <2>1 DEF IInv
  <2>3. {S \in SUBSET q.queued : IsStartable(q, S)} = {Walk(q)}
    BY <2>2, WalkIsTheOne
  <2> QED BY <2>1, <2>3 DEF WalkPicksStartable
<1> QED BY <1>1, Invariant, PTL
=================================================================================
