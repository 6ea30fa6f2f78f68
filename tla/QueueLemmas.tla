------------------------------ MODULE QueueLemmas ------------------------------
(***************************************************************************)
(* Lemmas about the operations of TransferQueue: each of them preserves    *)
(* QueueOK, the inductive invariant behind the queue's consistency.  They  *)
(* speak of a queue value q, so that whatever state machine applies the    *)
(* operations (QueueSpec, TransferEngine) can cite them.                   *)
(***************************************************************************)
EXTENDS TransferQueue, FiniteSetTheorems, WellFoundedInduction, TLAPS

(* The fields of a queue and of a row *)
QueueFields == {"jobs", "rows", "rowOf", "batchRow", "running", "queued", "queuedBySession", "pending",
                "changes", "batchLabels", "unkept", "nextId", "nextBatch"}
RowFields == {"kind", "direction", "order", "n", "bytesDone", "bytesTotal"}

(* The types the proofs need; a job that waits has an attempt left, for    *)
(* start_transfer counts one more.                                          *)
QueueTyped(q) ==
    /\ DOMAIN q = QueueFields
    /\ q.nextId \in Nat
    /\ q.nextBatch \in Nat
    /\ DOMAIN q.jobs \subseteq 0..(q.nextId - 1)
    /\ \A id \in DOMAIN q.jobs : q.jobs[id] \in Job
    /\ \A id \in DOMAIN q.jobs : q.jobs[id].status = "Queued" => q.jobs[id].attempts < MaxAttempts
    /\ \A key \in DOMAIN q.rows :
         /\ DOMAIN q.rows[key] = RowFields
         /\ q.rows[key].n \in [JobStatus -> Nat]
    /\ q.pending \in [Sessions \X Direction -> Nat]

(* The inductive invariant: types, and assert_consistent (bytes aside)     *)
QueueOK(q) == QueueTyped(q) /\ IndexesMatch(q) /\ RowsMatch(q) /\ CountersMatch(q)

(* Counting by moves: taking B out of A and adding C, disjoint from what   *)
(* is left, moves the count as account() does: its saturating_sub never    *)
(* saturates.                                                              *)
LEMMA CountMoved ==
  ASSUME NEW A, IsFiniteSet(A), NEW B \in SUBSET A, NEW C, IsFiniteSet(C), C \cap (A \ B) = {}
  PROVE  /\ Cardinality((A \ B) \cup C) = SaturatingSub(Cardinality(A), Cardinality(B)) + Cardinality(C)
         /\ Cardinality((A \ B) \cup C) = Cardinality(A) - Cardinality(B) + Cardinality(C)
         /\ Cardinality((A \ B) \cup C) \in Nat
<1>1. A \cap B = B
  OBVIOUS
<1>2. IsFiniteSet(B) /\ IsFiniteSet(A \ B)
  BY FS_Subset
<1>3. Cardinality(A \ B) = Cardinality(A) - Cardinality(B)
  BY <1>1, FS_Difference
<1>4. Cardinality((A \ B) \cup C) = Cardinality(A \ B) + Cardinality(C) - Cardinality((A \ B) \cap C)
  BY <1>2, FS_Union
<1>5. Cardinality((A \ B) \cap C) = 0
  <2>1. (A \ B) \cap C = {}
    OBVIOUS
  <2> QED BY <2>1, FS_EmptySet
<1>6. /\ Cardinality(A) \in Nat /\ Cardinality(B) \in Nat
      /\ Cardinality(C) \in Nat /\ Cardinality(A \ B) \in Nat
  BY <1>2, FS_CardinalityType
<1> QED BY <1>3, <1>4, <1>5, <1>6 DEF SaturatingSub

(* The job map is finite and its ids are natural numbers (next_id).        *)
LEMMA JobsFinite ==
  ASSUME NEW q, QueueTyped(q)
  PROVE  /\ DOMAIN q.jobs \subseteq Nat
         /\ IsFiniteSet(DOMAIN q.jobs)
<1>1. q.nextId - 1 \in Int
  BY DEF QueueTyped
<1>2. IsFiniteSet(0..(q.nextId - 1))
  BY <1>1, FS_Interval
<1> QED BY <1>2, FS_Subset DEF QueueTyped

(* What reconcile may be given: the new jobs differ in what get_mut's      *)
(* callers change, never in session, direction or batch.                   *)
SameOwner(q, S, after) ==
    \A id \in S :
      /\ after[id] \in Job
      /\ after[id].session = q.jobs[id].session
      /\ after[id].direction = q.jobs[id].direction
      /\ after[id].batch = q.jobs[id].batch
      /\ after[id].status = "Queued" => after[id].attempts < MaxAttempts

(* What reconcile does to each field *)
ReconcileResult(q, S, after, r) ==
    /\ DOMAIN r = QueueFields
    /\ r.nextId = q.nextId
    /\ r.nextBatch = q.nextBatch
    /\ r.rowOf = q.rowOf
    /\ r.batchRow = q.batchRow
    /\ r.jobs = [id \in DOMAIN q.jobs |-> IF id \in S THEN after[id] ELSE q.jobs[id]]
    /\ r.batchLabels = q.batchLabels
    /\ r.unkept = q.unkept
    /\ r.running = (q.running \ S) \cup {id \in S : after[id].status = "InProgress"}
    /\ r.queued = (q.queued \ S) \cup {id \in S : after[id].status = "Queued"}
    /\ r.queuedBySession = [s \in Sessions |->
         (q.queuedBySession[s] \ {id \in S : q.jobs[id].session = s})
           \cup {id \in S : after[id].status = "Queued" /\ after[id].session = s}]
    /\ r.pending = [dest \in Sessions \X Direction |->
         q.pending[dest]
           - Cardinality({id \in S : IsPending(q.jobs[id])
                            /\ q.jobs[id].session = dest[1] /\ q.jobs[id].direction = dest[2]})
           + Cardinality({id \in S : IsPending(after[id])
                            /\ after[id].session = dest[1] /\ after[id].direction = dest[2]})]
    /\ DOMAIN r.rows = DOMAIN q.rows
    /\ \A key \in DOMAIN q.rows :
         /\ DOMAIN r.rows[key] = RowFields
         /\ r.rows[key].order = q.rows[key].order
         /\ r.rows[key].kind = q.rows[key].kind
         /\ r.rows[key].direction = q.rows[key].direction
         /\ r.rows[key].n = [st \in JobStatus |->
              SaturatingSub(q.rows[key].n[st], Moved(q, q.rows[key], S, q.jobs, st))
                + Moved(q, q.rows[key], S, after, st)]

(* reconcile() does to each field what ReconcileResult says.               *)
LEMMA ReconcileFields ==
  ASSUME NEW q, QueueOK(q), NEW S, NEW after
  PROVE  ReconcileResult(q, S, after, Reconcile(q, S, after))
<1> DEFINE r == Reconcile(q, S, after)
<1>1. DOMAIN q = QueueFields
  BY DEF QueueOK, QueueTyped
<1>2. \A key \in DOMAIN q.rows : DOMAIN q.rows[key] = RowFields
  BY DEF QueueOK, QueueTyped
<1>3. /\ DOMAIN r = QueueFields
      /\ r.nextId = q.nextId
      /\ r.nextBatch = q.nextBatch
      /\ r.rowOf = q.rowOf
      /\ r.batchRow = q.batchRow
      /\ r.jobs = [id \in DOMAIN q.jobs |-> IF id \in S THEN after[id] ELSE q.jobs[id]]
      /\ r.batchLabels = q.batchLabels
      /\ r.unkept = q.unkept
      /\ r.running = (q.running \ S) \cup {id \in S : after[id].status = "InProgress"}
      /\ r.queued = (q.queued \ S) \cup {id \in S : after[id].status = "Queued"}
  BY <1>1 DEF Reconcile, QueueFields
<1>4. r.queuedBySession = [s \in Sessions |->
         (q.queuedBySession[s] \ {id \in S : q.jobs[id].session = s})
           \cup {id \in S : after[id].status = "Queued" /\ after[id].session = s}]
  BY <1>1 DEF Reconcile, QueueFields
<1>5. r.pending = [dest \in Sessions \X Direction |->
         q.pending[dest]
           - Cardinality({id \in S : IsPending(q.jobs[id])
                            /\ q.jobs[id].session = dest[1] /\ q.jobs[id].direction = dest[2]})
           + Cardinality({id \in S : IsPending(after[id])
                            /\ after[id].session = dest[1] /\ after[id].direction = dest[2]})]
  BY <1>1 DEF Reconcile, QueueFields
<1>6. /\ DOMAIN r.rows = DOMAIN q.rows
      /\ \A key \in DOMAIN q.rows :
           /\ DOMAIN r.rows[key] = RowFields
           /\ r.rows[key].order = q.rows[key].order
           /\ r.rows[key].kind = q.rows[key].kind
           /\ r.rows[key].direction = q.rows[key].direction
           /\ r.rows[key].n = [st \in JobStatus |->
                SaturatingSub(q.rows[key].n[st], Moved(q, q.rows[key], S, q.jobs, st))
                  + Moved(q, q.rows[key], S, after, st)]
  BY <1>1, <1>2 DEF Reconcile, Reconciled, QueueFields, RowFields
<1> HIDE DEF r
<1>7. ReconcileResult(q, S, after, r)
  BY ONLY <1>3, <1>4, <1>5, <1>6 DEF ReconcileResult
<1> QED BY <1>7 DEF r

(* account() and reconcile() keep every index and counter exact.           *)
LEMMA ReconcileOK ==
  ASSUME NEW q, QueueOK(q), NEW S \in SUBSET DOMAIN q.jobs, NEW after, SameOwner(q, S, after)
  PROVE  QueueOK(Reconcile(q, S, after))
<1> DEFINE r == Reconcile(q, S, after)
<1>r. ReconcileResult(q, S, after, r)
  BY ReconcileFields
<1> HIDE DEF r
<1>f. /\ DOMAIN r = QueueFields
      /\ r.nextId = q.nextId
      /\ r.nextBatch = q.nextBatch
      /\ r.rowOf = q.rowOf
      /\ r.batchRow = q.batchRow
      /\ r.jobs = [id \in DOMAIN q.jobs |-> IF id \in S THEN after[id] ELSE q.jobs[id]]
      /\ r.running = (q.running \ S) \cup {id \in S : after[id].status = "InProgress"}
      /\ r.queued = (q.queued \ S) \cup {id \in S : after[id].status = "Queued"}
      /\ DOMAIN r.rows = DOMAIN q.rows
      /\ \A key \in DOMAIN q.rows :
           /\ DOMAIN r.rows[key] = RowFields
           /\ r.rows[key].order = q.rows[key].order
           /\ r.rows[key].kind = q.rows[key].kind
           /\ r.rows[key].direction = q.rows[key].direction
           /\ r.rows[key].n = [st \in JobStatus |->
                SaturatingSub(q.rows[key].n[st], Moved(q, q.rows[key], S, q.jobs, st))
                  + Moved(q, q.rows[key], S, after, st)]
  BY <1>r DEF ReconcileResult
<1>p. r.pending = [dest \in Sessions \X Direction |->
        q.pending[dest]
          - Cardinality({id \in S : IsPending(q.jobs[id])
                           /\ q.jobs[id].session = dest[1] /\ q.jobs[id].direction = dest[2]})
          + Cardinality({id \in S : IsPending(after[id])
                           /\ after[id].session = dest[1] /\ after[id].direction = dest[2]})]
  BY <1>r DEF ReconcileResult
<1>s. r.queuedBySession = [s \in Sessions |->
              (q.queuedBySession[s] \ {id \in S : q.jobs[id].session = s})
                \cup {id \in S : after[id].status = "Queued" /\ after[id].session = s}]
  BY <1>r DEF ReconcileResult
<1>j. /\ DOMAIN r.jobs = DOMAIN q.jobs
      /\ \A id \in DOMAIN q.jobs : r.jobs[id] = IF id \in S THEN after[id] ELSE q.jobs[id]
  BY <1>f
<1>fin. IsFiniteSet(DOMAIN q.jobs) /\ IsFiniteSet(S)
  BY JobsFinite, FS_Subset DEF QueueOK
<1>1. \A dest \in Sessions \X Direction :
        r.pending[dest] = Cardinality(PendingIds(r, dest)) /\ r.pending[dest] \in Nat
  <2> SUFFICES ASSUME NEW dest \in Sessions \X Direction
               PROVE  r.pending[dest] = Cardinality(PendingIds(r, dest)) /\ r.pending[dest] \in Nat
    OBVIOUS
  <2> DEFINE A == PendingIds(q, dest)
             B == {id \in S : IsPending(q.jobs[id])
                     /\ q.jobs[id].session = dest[1] /\ q.jobs[id].direction = dest[2]}
             C == {id \in S : IsPending(after[id])
                     /\ after[id].session = dest[1] /\ after[id].direction = dest[2]}
  <2>1. IsFiniteSet(A) /\ IsFiniteSet(C) /\ B \in SUBSET A
    BY <1>fin, FS_Subset DEF PendingIds
  <2>2. C \cap (A \ B) = {}
    BY DEF PendingIds
  <2>3. PendingIds(r, dest) = (A \ B) \cup C
    BY <1>j DEF PendingIds
  <2>4. r.pending[dest] = q.pending[dest] - Cardinality(B) + Cardinality(C)
    BY <1>p
  <2>5. q.pending[dest] = Cardinality(A)
    BY DEF QueueOK, IndexesMatch
  <2> HIDE DEF A, B, C
  <2> QED BY <2>1, <2>2, <2>3, <2>4, <2>5, CountMoved
<1>2. ASSUME NEW key \in DOMAIN q.rows, NEW st \in JobStatus
      PROVE  /\ r.rows[key].n[st] = Cardinality(WithStatus(r, r.rows[key].order, st))
             /\ r.rows[key].n[st] \in Nat
  <2> DEFINE order == q.rows[key].order
             A == WithStatus(q, order, st)
             B == {id \in order \cap S : q.jobs[id].status = st}
             C == {id \in order \cap S : after[id].status = st}
  <2>1. order \subseteq DOMAIN q.jobs
    BY DEF QueueOK, RowsMatch
  <2>2. IsFiniteSet(A) /\ IsFiniteSet(C) /\ B \in SUBSET A
    BY <1>fin, <2>1, FS_Subset DEF WithStatus
  <2>3. C \cap (A \ B) = {}
    BY DEF WithStatus
  <2>4. WithStatus(r, r.rows[key].order, st) = (A \ B) \cup C
    BY <1>f, <1>j, <2>1 DEF WithStatus
  <2>5. r.rows[key].n[st] = SaturatingSub(q.rows[key].n[st], Cardinality(B)) + Cardinality(C)
    <3>1. Moved(q, q.rows[key], S, q.jobs, st) = Cardinality(B)
      BY DEF Moved
    <3>2. Moved(q, q.rows[key], S, after, st) = Cardinality(C)
      BY DEF Moved
    <3>3. r.rows[key].n = [x \in JobStatus |->
                SaturatingSub(q.rows[key].n[x], Moved(q, q.rows[key], S, q.jobs, x))
                  + Moved(q, q.rows[key], S, after, x)]
      BY <1>f
    <3> HIDE DEF A, B, C, order
    <3> QED BY ONLY <3>1, <3>2, <3>3, st \in JobStatus
  <2>6. q.rows[key].n[st] = Cardinality(A)
    BY DEF QueueOK, CountersMatch
  <2> HIDE DEF A, B, C
  <2> QED BY <2>2, <2>3, <2>4, <2>5, <2>6, CountMoved
<1>3. QueueTyped(r)
  <2>1. \A id \in DOMAIN r.jobs : r.jobs[id] \in Job
    BY <1>j DEF QueueOK, QueueTyped, SameOwner
  <2>2. \A id \in DOMAIN r.jobs : r.jobs[id].status = "Queued" => r.jobs[id].attempts < MaxAttempts
    BY <1>j DEF QueueOK, QueueTyped, SameOwner
  <2>3. \A key \in DOMAIN r.rows : DOMAIN r.rows[key] = RowFields /\ r.rows[key].n \in [JobStatus -> Nat]
    <3> SUFFICES ASSUME NEW key \in DOMAIN r.rows
                 PROVE  DOMAIN r.rows[key] = RowFields /\ r.rows[key].n \in [JobStatus -> Nat]
      OBVIOUS
    <3>1. key \in DOMAIN q.rows /\ DOMAIN r.rows[key] = RowFields
      BY <1>f
    <3>2. r.rows[key].n = [x \in JobStatus |->
                SaturatingSub(q.rows[key].n[x], Moved(q, q.rows[key], S, q.jobs, x))
                  + Moved(q, q.rows[key], S, after, x)]
      BY <1>f, <3>1
    <3>3. \A st \in JobStatus : r.rows[key].n[st] \in Nat
      BY <1>2, <3>1
    <3> QED BY ONLY <3>1, <3>2, <3>3
  <2>4. r.pending \in [Sessions \X Direction -> Nat]
    BY <1>p, <1>1
  <2> QED BY <1>f, <1>j, <2>1, <2>2, <2>3, <2>4 DEF QueueOK, QueueTyped
<1>4. IndexesMatch(r)
  <2>1. r.running = WithStatus(r, DOMAIN r.jobs, "InProgress")
    BY <1>f, <1>j DEF QueueOK, IndexesMatch, WithStatus
  <2>2. r.queued = WithStatus(r, DOMAIN r.jobs, "Queued")
    BY <1>f, <1>j DEF QueueOK, IndexesMatch, WithStatus
  <2>3. ASSUME NEW s \in Sessions
        PROVE  r.queuedBySession[s] = {id \in r.queued : r.jobs[id].session = s}
    <3>1. q.queuedBySession[s] = {id \in q.queued : q.jobs[id].session = s}
      BY DEF QueueOK, IndexesMatch
    <3>2. q.queued \subseteq DOMAIN q.jobs
      BY DEF QueueOK, IndexesMatch, WithStatus
    <3> QED BY <1>s, <1>f, <1>j, <3>1, <3>2 DEF SameOwner
  <2>4. r.queuedBySession = [s \in Sessions |-> {id \in r.queued : r.jobs[id].session = s}]
    BY <1>s, <2>3
  <2> QED BY <1>1, <2>1, <2>2, <2>4 DEF IndexesMatch
<1>5. RowsMatch(r)
  <2>1. \A id \in DOMAIN q.jobs : r.jobs[id].batch = q.jobs[id].batch /\ r.jobs[id].direction = q.jobs[id].direction
    BY <1>j DEF SameOwner
  <2>2. RowsMatch(q) /\ DOMAIN r.rows = DOMAIN q.rows
    BY <1>f DEF QueueOK
  <2>3. \A key \in DOMAIN q.rows : key \in DOMAIN q.jobs
    BY <2>2 DEF RowsMatch
  <2>4. \A key \in DOMAIN q.rows :
          /\ r.rows[key].order = q.rows[key].order
          /\ r.rows[key].kind = q.rows[key].kind
          /\ r.rows[key].direction = q.rows[key].direction
    BY <1>f
  <2>5. r.rowOf = q.rowOf /\ r.batchRow = q.batchRow
    BY <1>f
  <2> QED BY ONLY <1>j, <2>1, <2>2, <2>3, <2>4, <2>5 DEF RowsMatch
<1>6. CountersMatch(r)
  BY <1>f, <1>2 DEF CountersMatch
<1> QED BY <1>3, <1>4, <1>5, <1>6 DEF QueueOK, r

(* Counting a disjoint union, as enqueue() does with pending.              *)
LEMMA CountDisjoint ==
  ASSUME NEW A, IsFiniteSet(A), NEW C, IsFiniteSet(C), A \cap C = {}
  PROVE  /\ Cardinality(A \cup C) = Cardinality(A) + Cardinality(C)
         /\ Cardinality(A \cup C) \in Nat
<1>1. Cardinality(A \cup C) = Cardinality(A) + Cardinality(C) - Cardinality(A \cap C)
  BY FS_Union
<1>2. Cardinality(A \cap C) = 0
  BY FS_EmptySet
<1>3. Cardinality(A) \in Nat /\ Cardinality(C) \in Nat
  BY FS_CardinalityType
<1> QED BY <1>1, <1>2, <1>3

LEMMA CountWithin ==
  ASSUME NEW B, IsFiniteSet(B), NEW A, NEW C, A \cup C \subseteq B, A \cap C = {}
  PROVE  /\ Cardinality(A) + Cardinality(C) <= Cardinality(B)
         /\ Cardinality(A) \in Nat /\ Cardinality(C) \in Nat /\ Cardinality(B) \in Nat
<1>1. IsFiniteSet(A) /\ IsFiniteSet(C) /\ IsFiniteSet(A \cup C)
  BY FS_Subset
<1>2. Cardinality(A \cup C) = Cardinality(A) + Cardinality(C)
  BY <1>1, CountDisjoint
<1>3. Cardinality(A \cup C) <= Cardinality(B)
  BY FS_Subset
<1>4. Cardinality(A) \in Nat /\ Cardinality(C) \in Nat /\ Cardinality(B) \in Nat
  BY <1>1, FS_CardinalityType
<1> QED BY <1>2, <1>3, <1>4

(* The lists of files enqueue is called with *)
Files == Seq([path: Paths, total: Nat, resume: BOOLEAN])

(* What enqueue does to each field, for a non-empty list of files *)
EnqueueResult(q, session, direction, files, batch, r, ids, key, row) ==
    /\ DOMAIN r = QueueFields
    /\ r.nextId = q.nextId + Len(files)
    /\ r.nextBatch = q.nextBatch
    /\ r.batchLabels = q.batchLabels
    /\ r.unkept = q.unkept
    /\ r.running = q.running
    /\ r.queued = q.queued \cup ids
    /\ r.jobs = [id \in DOMAIN q.jobs \cup ids |->
         IF id \in ids THEN NewJob(q, session, direction, files, batch, id) ELSE q.jobs[id]]
    /\ r.rowOf = [id \in DOMAIN q.rowOf \cup ids |-> IF id \in ids THEN key ELSE q.rowOf[id]]
    /\ r.batchRow = [b \in DOMAIN q.batchRow \cup ({batch} \ {NoBatch}) |->
         IF b = batch THEN key ELSE q.batchRow[b]]
    /\ r.queuedBySession = [s \in Sessions |->
         q.queuedBySession[s] \cup IF s = session THEN ids ELSE {}]
    /\ r.pending = [dest \in Sessions \X Direction |->
         q.pending[dest] + IF dest = <<session, direction>> THEN Len(files) ELSE 0]
    /\ DOMAIN r.rows = DOMAIN q.rows \cup {key}
    /\ \A k \in DOMAIN q.rows : k # key => r.rows[k] = q.rows[k]
    /\ DOMAIN r.rows[key] = RowFields
    /\ r.rows[key].kind = row.kind
    /\ r.rows[key].direction = row.direction
    /\ r.rows[key].order = row.order \cup ids
    /\ r.rows[key].n = [row.n EXCEPT !["Queued"] = row.n["Queued"] + Len(files)]

(* enqueue() does to each field what EnqueueResult says.                   *)
LEMMA EnqueueFields ==
  ASSUME NEW q, QueueOK(q), NEW session, NEW direction, NEW files, files # <<>>, NEW batch
  PROVE  EnqueueResult(q, session, direction, files, batch, Enqueue(q, session, direction, files, batch),
                       NewIds(q, files), EnqueueKey(q, batch), EnqueueRow(q, direction, batch))
<1>1. DOMAIN q = QueueFields
  BY DEF QueueOK, QueueTyped
<1>2. DOMAIN EnqueueRow(q, direction, batch) = RowFields
  BY DEF QueueOK, QueueTyped, EnqueueRow, NewRow, RowFields
<1> DEFINE key == EnqueueKey(q, batch)
           row == EnqueueRow(q, direction, batch)
           ids == NewIds(q, files)
           bytes == MapThenSumSet(LAMBDA i : files[i].total, DOMAIN files)
           grown == [row EXCEPT
             !.order = @ \cup ids,
             !.n["Queued"] = @ + Len(files),
             !.bytesTotal = @ + bytes]
           n2 == [row.n EXCEPT !["Queued"] = @ + Len(files)]
           r == Enqueue(q, session, direction, files, batch)
<1>3. /\ DOMAIN grown = RowFields
      /\ grown.kind = row.kind
      /\ grown.direction = row.direction
      /\ grown.order = row.order \cup ids
      /\ grown.n = [row.n EXCEPT !["Queued"] = row.n["Queued"] + Len(files)]
  <2>1. DOMAIN row = RowFields
    BY <1>2
  <2> HIDE DEF row, ids, bytes
  <2>2. grown = [f \in RowFields |->
             CASE f = "order" -> row.order \cup ids
               [] f = "n" -> n2
               [] f = "bytesTotal" -> row.bytesTotal + bytes
               [] OTHER -> row[f]]
    BY <2>1 DEF RowFields
  <2> QED BY <2>1, <2>2 DEF RowFields
<1>4. r.rows = [k \in DOMAIN q.rows \cup {key} |-> IF k = key THEN grown ELSE q.rows[k]]
  BY <1>1 DEF Enqueue, QueueFields
<1>5. /\ DOMAIN r = QueueFields
      /\ r.nextId = q.nextId + Len(files)
      /\ r.nextBatch = q.nextBatch
      /\ r.batchLabels = q.batchLabels
      /\ r.unkept = q.unkept
      /\ r.running = q.running
      /\ r.queued = q.queued \cup ids
      /\ r.jobs = [id \in DOMAIN q.jobs \cup ids |->
           IF id \in ids THEN NewJob(q, session, direction, files, batch, id) ELSE q.jobs[id]]
  BY <1>1 DEF Enqueue, QueueFields
<1>6. /\ r.rowOf = [id \in DOMAIN q.rowOf \cup ids |-> IF id \in ids THEN key ELSE q.rowOf[id]]
      /\ r.batchRow = [b \in DOMAIN q.batchRow \cup ({batch} \ {NoBatch}) |->
           IF b = batch THEN key ELSE q.batchRow[b]]
      /\ r.queuedBySession = [s \in Sessions |->
           q.queuedBySession[s] \cup IF s = session THEN ids ELSE {}]
      /\ r.pending = [dest \in Sessions \X Direction |->
           q.pending[dest] + IF dest = <<session, direction>> THEN Len(files) ELSE 0]
  BY <1>1 DEF Enqueue, QueueFields
<1> HIDE DEF r, grown, ids, key, row
<1>7. /\ DOMAIN r.rows = DOMAIN q.rows \cup {key}
      /\ \A k \in DOMAIN q.rows : k # key => r.rows[k] = q.rows[k]
      /\ r.rows[key] = grown
  BY <1>4
<1> QED BY <1>3, <1>5, <1>6, <1>7 DEF EnqueueResult, r, ids, key, row

(* The row enqueue() grows is the one of the batch, or a new one keyed by  *)
(* the next id.                                                            *)
LEMMA EnqueueRowOK ==
  ASSUME NEW q, QueueOK(q), NEW direction \in Direction, NEW batch \in Nat \cup {NoBatch}
  PROVE  LET key == EnqueueKey(q, batch)
             row == EnqueueRow(q, direction, batch)
         IN
         /\ row.kind = KindOf(key, batch)
         /\ row.n \in [JobStatus -> Nat]
         /\ row.order \subseteq DOMAIN q.jobs
         /\ \A st \in JobStatus : row.n[st] = Cardinality(WithStatus(q, row.order, st))
         /\ \A id \in row.order : q.jobs[id].batch = batch /\ q.rowOf[id] = key /\ key <= id
         /\ \A id \in DOMAIN q.jobs : q.rowOf[id] = key => id \in row.order
         /\ \/ /\ key \in DOMAIN q.rows /\ key \in row.order /\ row.direction = q.jobs[key].direction
               /\ batch \in DOMAIN q.batchRow /\ batch # NoBatch /\ q.batchRow[batch] = key
            \/ /\ key = q.nextId /\ key \notin DOMAIN q.rows /\ row.order = {} /\ row.direction = direction
               /\ batch \notin DOMAIN q.batchRow
<1> DEFINE key == EnqueueKey(q, batch)
           row == EnqueueRow(q, direction, batch)
<1>1. /\ QueueTyped(q) /\ IndexesMatch(q) /\ RowsMatch(q) /\ CountersMatch(q)
  BY DEF QueueOK
<1>2. NoBatch \notin DOMAIN q.batchRow
  <2> SUFFICES ASSUME NoBatch \in DOMAIN q.batchRow PROVE FALSE
    OBVIOUS
  <2> DEFINE k == q.batchRow[NoBatch]
  <2>1. k \in DOMAIN q.rows /\ q.jobs[k].batch = NoBatch
    BY <1>1 DEF RowsMatch
  <2> QED BY <2>1, <1>1 DEF RowsMatch
<1>3. CASE batch \in DOMAIN q.batchRow
  <2>1. key = q.batchRow[batch] /\ key \in DOMAIN q.rows /\ q.jobs[key].batch = batch
    BY <1>1, <1>3 DEF RowsMatch, EnqueueKey
  <2>2. row = q.rows[key]
    BY <2>1 DEF EnqueueRow
  <2>3. key \in row.order /\ row.direction = q.jobs[key].direction /\ row.kind = KindOf(key, batch)
    BY <1>1, <2>1, <2>2 DEF RowsMatch
  <2>4. \A id \in row.order :
          id \in DOMAIN q.jobs /\ q.jobs[id].batch = batch /\ q.rowOf[id] = key /\ key <= id
    BY <1>1, <2>1, <2>2 DEF RowsMatch
  <2>5. row.n \in [JobStatus -> Nat] /\ \A st \in JobStatus : row.n[st] = Cardinality(WithStatus(q, row.order, st))
    BY <1>1, <2>1, <2>2 DEF QueueTyped, CountersMatch
  <2>6. \A id \in DOMAIN q.jobs : q.rowOf[id] = key => id \in row.order
    BY <1>1, <2>2 DEF RowsMatch
  <2> QED BY <1>2, <1>3, <2>1, <2>3, <2>4, <2>5, <2>6
<1>4. CASE batch \notin DOMAIN q.batchRow
  <2>1. key = q.nextId
    BY <1>4 DEF EnqueueKey
  <2>2. key \notin DOMAIN q.jobs
    BY <1>1, <2>1 DEF QueueTyped
  <2>3. key \notin DOMAIN q.rows
    BY <1>1, <2>2 DEF RowsMatch
  <2>4. row = NewRow(KindOf(key, batch), direction)
    BY <2>3 DEF EnqueueRow
  <2>5. row.kind = KindOf(key, batch) /\ row.direction = direction /\ row.order = {}
        /\ row.n = [st \in JobStatus |-> 0]
    BY <2>4 DEF NewRow
  <2>6. \A st \in JobStatus : row.n[st] = Cardinality(WithStatus(q, row.order, st))
    BY <2>5, FS_EmptySet DEF WithStatus
  <2>7. \A id \in DOMAIN q.jobs : q.rowOf[id] # key
    BY <1>1, <2>3 DEF RowsMatch
  <2> QED BY <1>4, <2>1, <2>3, <2>5, <2>6, <2>7
<1> QED BY <1>3, <1>4

(* enqueue() keeps every index and counter exact, for any list of files.   *)
LEMMA EnqueueOK ==
  ASSUME NEW q, QueueOK(q), NEW session \in Sessions, NEW direction \in Direction,
         NEW files \in Files, NEW batch \in Nat \cup {NoBatch}, batch = NoBatch => Len(files) <= 1
  PROVE  QueueOK(Enqueue(q, session, direction, files, batch))
<1>e. CASE files = <<>>
  BY <1>e DEF Enqueue
<1>n. CASE files # <<>>
  <2> DEFINE r == Enqueue(q, session, direction, files, batch)
             ids == NewIds(q, files)
             key == EnqueueKey(q, batch)
             row == EnqueueRow(q, direction, batch)
  <2>f. /\ DOMAIN r = QueueFields
        /\ r.nextId = q.nextId + Len(files)
        /\ r.nextBatch = q.nextBatch
        /\ r.running = q.running
        /\ r.queued = q.queued \cup ids
        /\ r.jobs = [id \in DOMAIN q.jobs \cup ids |->
             IF id \in ids THEN NewJob(q, session, direction, files, batch, id) ELSE q.jobs[id]]
        /\ r.rowOf = [id \in DOMAIN q.rowOf \cup ids |-> IF id \in ids THEN key ELSE q.rowOf[id]]
        /\ r.batchRow = [b \in DOMAIN q.batchRow \cup ({batch} \ {NoBatch}) |->
             IF b = batch THEN key ELSE q.batchRow[b]]
        /\ r.queuedBySession = [s \in Sessions |->
             q.queuedBySession[s] \cup IF s = session THEN ids ELSE {}]
        /\ r.pending = [dest \in Sessions \X Direction |->
             q.pending[dest] + IF dest = <<session, direction>> THEN Len(files) ELSE 0]
        /\ DOMAIN r.rows = DOMAIN q.rows \cup {key}
        /\ \A k \in DOMAIN q.rows : k # key => r.rows[k] = q.rows[k]
        /\ DOMAIN r.rows[key] = RowFields
        /\ r.rows[key].kind = row.kind
        /\ r.rows[key].direction = row.direction
        /\ r.rows[key].order = row.order \cup ids
        /\ r.rows[key].n = [row.n EXCEPT !["Queued"] = row.n["Queued"] + Len(files)]
    <3>1. EnqueueResult(q, session, direction, files, batch, r, ids, key, row)
      BY <1>n, EnqueueFields
    <3> QED BY <3>1 DEF EnqueueResult
  <2>row. /\ row.kind = KindOf(key, batch)
          /\ row.n \in [JobStatus -> Nat]
          /\ row.order \subseteq DOMAIN q.jobs
          /\ \A st \in JobStatus : row.n[st] = Cardinality(WithStatus(q, row.order, st))
          /\ \A id \in row.order : q.jobs[id].batch = batch /\ q.rowOf[id] = key /\ key <= id
          /\ \A id \in DOMAIN q.jobs : q.rowOf[id] = key => id \in row.order
          /\ \/ /\ key \in DOMAIN q.rows /\ key \in row.order /\ row.direction = q.jobs[key].direction
                /\ batch \in DOMAIN q.batchRow /\ batch # NoBatch /\ q.batchRow[batch] = key
             \/ /\ key = q.nextId /\ key \notin DOMAIN q.rows /\ row.order = {} /\ row.direction = direction
                /\ batch \notin DOMAIN q.batchRow
    BY EnqueueRowOK
  <2>q. QueueTyped(q) /\ IndexesMatch(q) /\ RowsMatch(q) /\ CountersMatch(q)
    BY DEF QueueOK
  <2>len. Len(files) \in Nat \ {0} /\ DOMAIN files = 1..Len(files)
    BY <1>n DEF Files
  <2>ids. /\ ids = q.nextId..(q.nextId + Len(files) - 1)
          /\ ids \subseteq Nat /\ q.nextId \in ids /\ q.nextId \in Nat
          /\ ids \cap DOMAIN q.jobs = {}
    BY <2>len, <2>q DEF NewIds, QueueTyped
  <2>card. IsFiniteSet(ids) /\ Cardinality(ids) = Len(files)
    <3>1. q.nextId + Len(files) - 1 \in Int /\ q.nextId + Len(files) - 1 >= q.nextId
      BY <2>len, <2>ids
    <3> DEFINE hi == q.nextId + Len(files) - 1
    <3>2. IsFiniteSet(q.nextId..hi) /\ Cardinality(q.nextId..hi) = hi - q.nextId + 1
      <4> HIDE DEF hi
      <4>1. q.nextId \in Int /\ hi \in Int /\ ~ (q.nextId > hi)
        BY <3>1, <2>ids DEF hi
      <4> QED BY <4>1, FS_Interval
    <3>3. hi - q.nextId + 1 = Len(files)
      BY <2>len, <2>ids
    <3> QED BY <2>ids, <3>2, <3>3
  <2> HIDE DEF r, ids, key, row
  <2>new. ASSUME NEW id \in ids
          PROVE  /\ r.jobs[id] \in Job
                 /\ r.jobs[id].session = session /\ r.jobs[id].direction = direction
                 /\ r.jobs[id].batch = batch /\ r.jobs[id].status = "Queued" /\ r.jobs[id].attempts = 0
    <3>1. id - q.nextId + 1 \in DOMAIN files
      BY <2>len, <2>ids
    <3>2. files[id - q.nextId + 1] \in [path: Paths, total: Nat, resume: BOOLEAN]
      <4> DEFINE F == [path: Paths, total: Nat, resume: BOOLEAN]
      <4>1. files \in Seq(F)
        BY DEF Files
      <4> HIDE DEF F
      <4>2. files[id - q.nextId + 1] \in F
        BY <3>1, <2>len, <4>1
      <4> QED BY <4>2 DEF F
    <3>3. r.jobs[id] = NewJob(q, session, direction, files, batch, id)
      BY <2>f
    <3> QED BY <3>2, <3>3, LimitsAssumption DEF NewJob, Job, JobStatus
  <2>j. /\ DOMAIN r.jobs = DOMAIN q.jobs \cup ids
        /\ \A id \in DOMAIN q.jobs : r.jobs[id] = q.jobs[id]
    BY <2>f, <2>ids
  <2>fin. IsFiniteSet(DOMAIN q.jobs)
    BY <2>q, JobsFinite
  <2>1. ASSUME NEW dest \in Sessions \X Direction
        PROVE  r.pending[dest] = Cardinality(PendingIds(r, dest)) /\ r.pending[dest] \in Nat
    <3> DEFINE A == PendingIds(q, dest)
    <3>1. IsFiniteSet(A) /\ A \cap ids = {}
      BY <2>fin, <2>ids, FS_Subset DEF PendingIds
    <3>2. q.pending[dest] = Cardinality(A) /\ q.pending[dest] \in Nat
      BY <2>q DEF IndexesMatch, QueueTyped
    <3>3. CASE dest = <<session, direction>>
      <4>1. PendingIds(r, dest) = A \cup ids
        BY <2>j, <2>new, <3>3 DEF PendingIds, IsPending
      <4>2. r.pending[dest] = q.pending[dest] + Len(files)
        BY <2>f, <3>3
      <4> HIDE DEF A
      <4> QED BY <3>1, <3>2, <4>1, <4>2, <2>card, CountDisjoint
    <3>4. CASE dest # <<session, direction>>
      <4>0. dest = <<dest[1], dest[2]>>
        OBVIOUS
      <4>1. PendingIds(r, dest) = A
        BY <2>j, <2>new, <3>4, <4>0 DEF PendingIds, IsPending
      <4>2. r.pending[dest] = q.pending[dest]
        BY <2>f, <3>2, <3>4
      <4> QED BY <3>2, <4>1, <4>2
    <3> QED BY <3>3, <3>4
  <2>2. ASSUME NEW k \in DOMAIN r.rows
        PROVE  /\ DOMAIN r.rows[k] = RowFields
               /\ r.rows[k].n \in [JobStatus -> Nat]
               /\ \A st \in JobStatus : r.rows[k].n[st] = Cardinality(WithStatus(r, r.rows[k].order, st))
    <3>1. CASE k # key
      <4>1. k \in DOMAIN q.rows /\ r.rows[k] = q.rows[k]
        BY <2>f, <3>1
      <4>2. q.rows[k].order \subseteq DOMAIN q.jobs
        BY <4>1, <2>q DEF RowsMatch
      <4>3. \A st \in JobStatus : WithStatus(r, q.rows[k].order, st) = WithStatus(q, q.rows[k].order, st)
        BY <2>j, <4>2 DEF WithStatus
      <4> QED BY <4>1, <4>3, <2>q DEF QueueTyped, CountersMatch
    <3>2. CASE k = key
      <4>1. r.rows[k].n \in [JobStatus -> Nat]
        BY <3>2, <2>f, <2>row, <2>len DEF JobStatus
      <4>2. ASSUME NEW st \in JobStatus, st # "Queued"
            PROVE  r.rows[k].n[st] = Cardinality(WithStatus(r, r.rows[k].order, st))
        <5>1. WithStatus(r, r.rows[k].order, st) = WithStatus(q, row.order, st)
          <6>1. r.rows[k].order = row.order \cup ids
            BY <3>2, <2>f
          <6>2. \A id \in ids : r.jobs[id].status # st
            BY <2>new, <4>2
          <6>3. \A id \in row.order : r.jobs[id] = q.jobs[id]
            BY <2>j, <2>row
          <6> QED BY ONLY <6>1, <6>2, <6>3 DEF WithStatus
        <5>2. r.rows[k].n[st] = row.n[st]
          BY <3>2, <4>2, <2>f, <2>row
        <5> QED BY <5>1, <5>2, <2>row
      <4>3. r.rows[k].n["Queued"] = Cardinality(WithStatus(r, r.rows[k].order, "Queued"))
        <5> DEFINE A == WithStatus(q, row.order, "Queued")
        <5>1. WithStatus(r, r.rows[k].order, "Queued") = A \cup ids
          BY <3>2, <2>f, <2>j, <2>new, <2>row DEF WithStatus
        <5>2. IsFiniteSet(A) /\ A \cap ids = {}
          BY <2>fin, <2>row, <2>ids, FS_Subset DEF WithStatus
        <5>3. r.rows[k].n["Queued"] = row.n["Queued"] + Len(files)
          BY <3>2, <2>f, <2>row DEF JobStatus
        <5>4. row.n["Queued"] = Cardinality(A)
          BY <2>row DEF JobStatus
        <5> HIDE DEF A
        <5> QED BY <5>1, <5>2, <5>3, <5>4, <2>card, CountDisjoint
      <4> QED BY <3>2, <4>1, <4>2, <4>3, <2>f
    <3> QED BY <3>1, <3>2
  <2>3. QueueTyped(r)
    <3>1. r.pending \in [Sessions \X Direction -> Nat]
      BY <2>f, <2>1
    <3>2. r.nextId \in Nat /\ DOMAIN r.jobs \subseteq 0..(r.nextId - 1)
      BY <2>f, <2>j, <2>ids, <2>len, <2>q DEF QueueTyped
    <3>3. \A id \in DOMAIN r.jobs : r.jobs[id] \in Job /\ (r.jobs[id].status = "Queued" => r.jobs[id].attempts < MaxAttempts)
      BY <2>j, <2>new, <2>q, LimitsAssumption DEF QueueTyped
    <3> QED BY <2>f, <2>2, <2>q, <3>1, <3>2, <3>3 DEF QueueTyped
  <2>4. IndexesMatch(r)
    <3>1. r.running = WithStatus(r, DOMAIN r.jobs, "InProgress")
      <4>1. r.running = WithStatus(q, DOMAIN q.jobs, "InProgress")
        BY <2>f, <2>q DEF IndexesMatch
      <4>2. \A id \in ids : r.jobs[id].status # "InProgress"
        BY <2>new
      <4> QED BY ONLY <2>j, <4>1, <4>2 DEF WithStatus
    <3>2. r.queued = WithStatus(r, DOMAIN r.jobs, "Queued")
      <4>1. r.queued = WithStatus(q, DOMAIN q.jobs, "Queued") \cup ids
        BY <2>f, <2>q DEF IndexesMatch
      <4>2. \A id \in ids : r.jobs[id].status = "Queued"
        BY <2>new
      <4> QED BY ONLY <2>j, <4>1, <4>2 DEF WithStatus
    <3>3. ASSUME NEW s \in Sessions
          PROVE  r.queuedBySession[s] = {id \in r.queued : r.jobs[id].session = s}
      <4>1. q.queuedBySession[s] = {id \in q.queued : q.jobs[id].session = s}
        BY <2>q DEF IndexesMatch
      <4>2. q.queued \subseteq DOMAIN q.jobs
        BY <2>q DEF IndexesMatch, WithStatus
      <4>3. r.queuedBySession[s] = q.queuedBySession[s] \cup IF s = session THEN ids ELSE {}
        BY <2>f
      <4>4. r.queued = q.queued \cup ids
        BY <2>f
      <4>5. \A id \in ids : r.jobs[id].session = session
        BY <2>new
      <4>6. \A id \in q.queued : r.jobs[id] = q.jobs[id]
        BY <2>j, <4>2
      <4> QED BY ONLY <4>1, <4>3, <4>4, <4>5, <4>6
    <3>4. r.queuedBySession = [s \in Sessions |-> {id \in r.queued : r.jobs[id].session = s}]
      BY <2>f, <3>3
    <3> QED BY <2>1, <3>1, <3>2, <3>4 DEF IndexesMatch
  <2>5. RowsMatch(r)
    <3>0. key \in DOMAIN r.rows /\ key \in r.rows[key].order /\ key \in DOMAIN r.jobs
      BY <2>f, <2>row, <2>ids, <2>j
    <3>1. DOMAIN r.rowOf = DOMAIN r.jobs
      BY <2>f, <2>j, <2>q DEF RowsMatch
    <3>2. ASSUME NEW id \in DOMAIN r.jobs
          PROVE  r.rowOf[id] \in DOMAIN r.rows /\ id \in r.rows[r.rowOf[id]].order
      <4>1. CASE id \in ids
        BY <4>1, <2>f, <2>j, <3>0
      <4>2. CASE id \notin ids
        <5>1. id \in DOMAIN q.jobs /\ r.rowOf[id] = q.rowOf[id] /\ q.rowOf[id] \in DOMAIN q.rows
              /\ id \in q.rows[q.rowOf[id]].order
          BY <4>2, <2>f, <2>j, <2>q DEF RowsMatch
        <5> QED BY <5>1, <2>f, <2>row
      <4> QED BY <4>1, <4>2
    <3>3. ASSUME NEW k \in DOMAIN r.rows, k # key
          PROVE  /\ k \in r.rows[k].order
                 /\ r.rows[k].direction = r.jobs[k].direction
                 /\ r.rows[k].kind = KindOf(k, r.jobs[k].batch)
                 /\ \A id \in r.rows[k].order :
                      /\ id \in DOMAIN r.jobs
                      /\ r.rowOf[id] = k
                      /\ k <= id
                      /\ r.jobs[id].batch = r.jobs[k].batch
                      /\ r.jobs[id].batch = NoBatch => id = k
                 /\ r.jobs[k].batch # NoBatch =>
                      /\ r.jobs[k].batch \in DOMAIN r.batchRow
                      /\ r.batchRow[r.jobs[k].batch] = k
      <4>1. k \in DOMAIN q.rows /\ r.rows[k] = q.rows[k]
        BY <2>f, <3>3
      <4>2. /\ k \in q.rows[k].order
            /\ q.rows[k].direction = q.jobs[k].direction
            /\ q.rows[k].kind = KindOf(k, q.jobs[k].batch)
            /\ \A id \in q.rows[k].order :
                 /\ id \in DOMAIN q.jobs
                 /\ q.rowOf[id] = k
                 /\ k <= id
                 /\ q.jobs[id].batch = q.jobs[k].batch
                 /\ q.jobs[id].batch = NoBatch => id = k
            /\ q.jobs[k].batch # NoBatch =>
                 /\ q.jobs[k].batch \in DOMAIN q.batchRow
                 /\ q.batchRow[q.jobs[k].batch] = k
        BY <4>1, <2>q DEF RowsMatch
      <4>3. \A id \in q.rows[k].order : r.jobs[id] = q.jobs[id] /\ r.rowOf[id] = q.rowOf[id]
        BY <4>2, <2>j, <2>f, <2>ids, <2>q DEF RowsMatch
      <4>4. q.jobs[k].batch # NoBatch => q.jobs[k].batch # batch
        BY <4>2, <3>3, <2>row
      <4>5. \A id \in DOMAIN q.jobs : id \in DOMAIN r.jobs
        BY <2>j
      <4>6. \A b \in DOMAIN q.batchRow : b # batch => b \in DOMAIN r.batchRow /\ r.batchRow[b] = q.batchRow[b]
        BY <2>f
      <4> QED BY ONLY <4>1, <4>2, <4>3, <4>4, <4>5, <4>6
    <3>4. /\ r.rows[key].direction = r.jobs[key].direction
          /\ r.jobs[key].batch = batch
          /\ r.rows[key].kind = KindOf(key, batch)
      <4>1. r.rows[key].direction = row.direction /\ r.rows[key].kind = row.kind /\ row.kind = KindOf(key, batch)
        BY <2>f, <2>row
      <4>2. CASE key \in DOMAIN q.jobs /\ key \in row.order
        <5>1. r.jobs[key] = q.jobs[key] /\ q.jobs[key].batch = batch
          BY <4>2, <2>j, <2>row
        <5>2. row.direction = q.jobs[key].direction
          BY <4>2, <2>row
        <5> QED BY <4>1, <5>1, <5>2
      <4>3. CASE key = q.nextId /\ row.direction = direction
        <5>1. r.jobs[key].batch = batch /\ r.jobs[key].direction = direction
          BY <4>3, <2>ids, <2>new
        <5> QED BY <4>1, <4>3, <5>1
      <4> QED BY <2>row, <4>2, <4>3
    <3>5. ASSUME NEW id \in r.rows[key].order
          PROVE  /\ id \in DOMAIN r.jobs
                 /\ r.rowOf[id] = key
                 /\ key <= id
                 /\ r.jobs[id].batch = batch
                 /\ r.jobs[id].batch = NoBatch => id = key
      <4>1. CASE id \in ids
        <5>1. key <= id
          <6>1. key \in DOMAIN q.jobs \/ key = q.nextId
            BY <2>row
          <6> QED BY <6>1, <4>1, <2>ids, <2>q, <2>len DEF QueueTyped
        <5>2. batch = NoBatch => id = key
          <6> SUFFICES ASSUME batch = NoBatch PROVE id = key
            OBVIOUS
          <6>1. Len(files) = 1 /\ key = q.nextId
            BY <2>len, <2>row
          <6> QED BY <6>1, <2>ids, <4>1
        <5> QED BY <4>1, <5>1, <5>2, <2>f, <2>j, <2>new
      <4>2. CASE id \notin ids
        <5>1. id \in row.order /\ id \in DOMAIN q.jobs /\ q.rowOf[id] = key /\ key <= id /\ q.jobs[id].batch = batch
          BY <4>2, <2>f, <2>row
        <5>2. batch # NoBatch
          BY <5>1, <2>row
        <5>3. r.rowOf[id] = key
          BY <4>2, <5>1, <2>f, <2>q DEF RowsMatch
        <5> QED BY <5>1, <5>2, <5>3, <2>j
      <4> QED BY <4>1, <4>2
    <3>6. batch # NoBatch => batch \in DOMAIN r.batchRow /\ r.batchRow[batch] = key
      BY <2>f
    <3>7. ASSUME NEW b \in DOMAIN r.batchRow
          PROVE  b # NoBatch /\ r.batchRow[b] \in DOMAIN r.rows /\ r.jobs[r.batchRow[b]].batch = b
      <4>1. CASE b = batch
        <5>1. b # NoBatch
          BY <4>1, <2>f, <2>row
        <5> QED BY <4>1, <5>1, <3>0, <3>4, <2>f
      <4>2. CASE b # batch
        <5>1. b \in DOMAIN q.batchRow /\ r.batchRow[b] = q.batchRow[b]
          BY <4>2, <2>f
        <5>2. b # NoBatch /\ q.batchRow[b] \in DOMAIN q.rows /\ q.jobs[q.batchRow[b]].batch = b /\ q.batchRow[b] \in DOMAIN q.jobs
          BY <5>1, <2>q DEF RowsMatch
        <5>3. DOMAIN q.rows \subseteq DOMAIN r.rows
          BY <2>f
        <5> QED BY ONLY <5>1, <5>2, <5>3, <2>j
      <4> QED BY <4>1, <4>2
    <3> QED BY ONLY <3>0, <3>1, <3>2, <3>3, <3>4, <3>5, <3>6, <3>7 DEF RowsMatch
  <2>6. CountersMatch(r)
    BY <2>2 DEF CountersMatch
  <2> QED BY <2>3, <2>4, <2>5, <2>6 DEF QueueOK, r
<1> QED BY <1>e, <1>n

(* The first element of a row's order is its least.                        *)
LEMMA MinIsLeast ==
  ASSUME NEW S \in SUBSET Nat, S # {}
  PROVE  Min(S) \in S /\ \A y \in S : Min(S) <= y
<1> DEFINE R == {ss \in Nat \X Nat : ss[1] < ss[2]}
<1>1. IsWellFoundedOn(R, Nat)
  BY NatLessThanWellFounded DEF OpToRel
<1>2. PICK x \in S : \A y \in S : ~ (<<y, x>> \in R)
  <2> HIDE DEF R
  <2> QED BY <1>1, WFMin
<1>3. ASSUME NEW y \in S PROVE x <= y
  <2>1. y \in Nat /\ x \in Nat
    OBVIOUS
  <2>2. y < x => <<y, x>> \in R
    BY <2>1
  <2>3. ~ (<<y, x>> \in R)
    BY <1>2
  <2> QED BY <2>1, <2>2, <2>3
<1> QED BY <1>3 DEF Min

(* The rows remove_jobs keeps *)
Kept(q, S) == {k \in DOMAIN q.rows : Left(q, k, S) # {}}

(* rekey_row: a kept row is keyed by its first remaining job, and no two   *)
(* rows get the same key.                                                  *)
LEMMA NewKeyOK ==
  ASSUME NEW q, QueueOK(q), NEW S
  PROVE  /\ \A k \in Kept(q, S) : NewKey(q, k, S) \in Left(q, k, S) /\ \A id \in Left(q, k, S) : NewKey(q, k, S) <= id
         /\ \A k1, k2 \in Kept(q, S) : NewKey(q, k1, S) = NewKey(q, k2, S) => k1 = k2
<1>1. RowsMatch(q) /\ DOMAIN q.jobs \subseteq Nat
  BY JobsFinite DEF QueueOK
<1>2. ASSUME NEW k \in Kept(q, S)
      PROVE  NewKey(q, k, S) \in Left(q, k, S) /\ \A id \in Left(q, k, S) : NewKey(q, k, S) <= id
  <2>1. Left(q, k, S) \subseteq q.rows[k].order /\ Left(q, k, S) # {} /\ k \in q.rows[k].order
    BY <1>1 DEF Kept, Left, RowsMatch
  <2>2. Left(q, k, S) \in SUBSET Nat /\ \A id \in Left(q, k, S) : k <= id
    BY <1>1, <2>1 DEF RowsMatch, Kept
  <2>3. CASE k \in S
    BY <2>1, <2>2, <2>3, MinIsLeast DEF NewKey
  <2>4. CASE k \notin S
    BY <2>1, <2>2, <2>4 DEF NewKey, Left
  <2> QED BY <2>3, <2>4
<1>3. ASSUME NEW k1 \in Kept(q, S), NEW k2 \in Kept(q, S), NewKey(q, k1, S) = NewKey(q, k2, S)
      PROVE  k1 = k2
  <2>1. NewKey(q, k1, S) \in q.rows[k1].order /\ NewKey(q, k1, S) \in q.rows[k2].order
    BY <1>2, <1>3 DEF Left
  <2> QED BY <2>1, <1>1 DEF RowsMatch, Kept
<1> QED BY <1>2, <1>3

(* What remove_jobs does to each field *)
RemoveResult(q, S, r) ==
    /\ DOMAIN r = QueueFields
    /\ r.nextId = q.nextId
    /\ r.nextBatch = q.nextBatch
    /\ r.running = q.running \ S
    /\ r.queued = q.queued \ S
    /\ r.jobs = [id \in DOMAIN q.jobs \ S |-> q.jobs[id]]
    /\ r.rowOf = [id \in DOMAIN q.rowOf \ S |-> NewKey(q, q.rowOf[id], S)]
    /\ r.batchRow = [b \in {bb \in DOMAIN q.batchRow : q.batchRow[bb] \in Kept(q, S)} |->
                       NewKey(q, q.batchRow[b], S)]
    /\ r.queuedBySession = [s \in Sessions |-> q.queuedBySession[s] \ S]
    /\ r.pending = [dest \in Sessions \X Direction |->
         q.pending[dest] - Cardinality({id \in S : IsPending(q.jobs[id])
                             /\ q.jobs[id].session = dest[1] /\ q.jobs[id].direction = dest[2]})]
    /\ DOMAIN r.rows = {NewKey(q, k, S) : k \in Kept(q, S)}
    /\ \A k \in Kept(q, S) : r.rows[NewKey(q, k, S)] = Shrunk(q, k, S)

(* remove_jobs() does to each field what RemoveResult says.                *)
LEMMA RemoveFields ==
  ASSUME NEW q, QueueOK(q), NEW ids
  PROVE  RemoveResult(q, ids \cap DOMAIN q.jobs, RemoveJobs(q, ids))
<1> DEFINE S == ids \cap DOMAIN q.jobs
           kept == {k \in DOMAIN q.rows : Left(q, k, S) # {}}
           OldKey(k) == CHOOSE key \in kept : NewKey(q, key, S) = k
           rows == [k \in {NewKey(q, key, S) : key \in kept} |-> Shrunk(q, OldKey(k), S)]
           r == RemoveJobs(q, ids)
<1>1. DOMAIN q = QueueFields
  BY DEF QueueOK, QueueTyped
<1>2. /\ DOMAIN r = QueueFields
      /\ r.nextId = q.nextId
      /\ r.nextBatch = q.nextBatch
      /\ r.running = q.running \ S
      /\ r.queued = q.queued \ S
      /\ r.jobs = [id \in DOMAIN q.jobs \ S |-> q.jobs[id]]
      /\ r.rowOf = [id \in DOMAIN q.rowOf \ S |-> NewKey(q, q.rowOf[id], S)]
  BY <1>1 DEF RemoveJobs, ForgetEmpty, QueueFields
<1>3. /\ r.batchRow = [b \in {bb \in DOMAIN q.batchRow : q.batchRow[bb] \in kept} |->
                       NewKey(q, q.batchRow[b], S)]
      /\ r.queuedBySession = [s \in Sessions |-> q.queuedBySession[s] \ S]
      /\ r.pending = [dest \in Sessions \X Direction |->
           q.pending[dest] - Cardinality({id \in S : IsPending(q.jobs[id])
                               /\ q.jobs[id].session = dest[1] /\ q.jobs[id].direction = dest[2]})]
  BY <1>1 DEF RemoveJobs, ForgetEmpty, QueueFields
<1>4. r.rows = rows
  BY <1>1 DEF RemoveJobs, ForgetEmpty, QueueFields
<1>5. kept = Kept(q, S)
  BY DEF Kept
<1> HIDE DEF r, S, kept
<1>6. ASSUME NEW k \in kept
      PROVE  r.rows[NewKey(q, k, S)] = Shrunk(q, k, S)
  <2>1. OldKey(NewKey(q, k, S)) = k
    BY <1>5, NewKeyOK
  <2>2. NewKey(q, k, S) \in {NewKey(q, key, S) : key \in kept}
    OBVIOUS
  <2> QED BY <1>4, <2>1, <2>2
<1>7. DOMAIN r.rows = {NewKey(q, k, S) : k \in kept}
  BY <1>4
<1> QED BY <1>2, <1>3, <1>5, <1>6, <1>7 DEF RemoveResult, r, S

(* remove_jobs() keeps every index and counter exact.                      *)
LEMMA RemoveJobsOK ==
  ASSUME NEW q, QueueOK(q), NEW ids
  PROVE  QueueOK(RemoveJobs(q, ids))
<1> DEFINE S == ids \cap DOMAIN q.jobs
           r == RemoveJobs(q, ids)
           kept == Kept(q, S)
           NK(k) == NewKey(q, k, S)
<1>f. RemoveResult(q, S, r)
  BY RemoveFields
<1>q. QueueTyped(q) /\ IndexesMatch(q) /\ RowsMatch(q) /\ CountersMatch(q)
  BY DEF QueueOK
<1>S. S \subseteq DOMAIN q.jobs
  OBVIOUS
<1> HIDE DEF r, S
<1>fin. IsFiniteSet(DOMAIN q.jobs) /\ DOMAIN q.jobs \subseteq Nat
  BY <1>q, JobsFinite
<1>j. /\ DOMAIN r.jobs = DOMAIN q.jobs \ S
      /\ \A id \in DOMAIN q.jobs \ S : r.jobs[id] = q.jobs[id]
  BY <1>f DEF RemoveResult
<1>nk. /\ \A k \in kept : NK(k) \in q.rows[k].order \ S /\ \A id \in q.rows[k].order \ S : NK(k) <= id
       /\ \A k1, k2 \in kept : NK(k1) = NK(k2) => k1 = k2
       /\ \A k \in kept : k \in DOMAIN q.rows
       /\ \A k \in DOMAIN q.rows : q.rows[k].order \ S # {} => k \in kept
  BY NewKeyOK DEF Left, Kept
<1>row. ASSUME NEW k \in kept
        PROVE  /\ NK(k) \in DOMAIN r.rows
               /\ DOMAIN r.rows[NK(k)] = RowFields
               /\ r.rows[NK(k)].order = q.rows[k].order \ S
               /\ r.rows[NK(k)].kind = q.rows[k].kind
               /\ r.rows[NK(k)].direction = q.jobs[NK(k)].direction
               /\ r.rows[NK(k)].n = [st \in JobStatus |->
                    SaturatingSub(q.rows[k].n[st], Moved(q, q.rows[k], S, q.jobs, st))]
  <2>1. DOMAIN q.rows[k] = RowFields /\ q.rows[k].direction = q.jobs[k].direction
    BY <1>q, <1>nk DEF QueueTyped, RowsMatch
  <2>2. r.rows[NK(k)] = Shrunk(q, k, S) /\ NK(k) \in DOMAIN r.rows
    BY <1>f DEF RemoveResult
  <2>3. /\ DOMAIN Shrunk(q, k, S) = RowFields
        /\ Shrunk(q, k, S).order = q.rows[k].order \ S
        /\ Shrunk(q, k, S).kind = q.rows[k].kind
        /\ Shrunk(q, k, S).direction = IF k \in S THEN q.jobs[NK(k)].direction ELSE q.rows[k].direction
        /\ Shrunk(q, k, S).n = [st \in JobStatus |->
             SaturatingSub(q.rows[k].n[st], Moved(q, q.rows[k], S, q.jobs, st))]
    BY <2>1 DEF Shrunk, RowFields
  <2>4. k \notin S => NK(k) = k
    BY DEF NewKey
  <2> QED BY <2>1, <2>2, <2>3, <2>4
<1>dom. \A k2 \in DOMAIN r.rows : \E k \in kept : k2 = NK(k)
  BY <1>f DEF RemoveResult
<1>1. ASSUME NEW dest \in Sessions \X Direction
      PROVE  r.pending[dest] = Cardinality(PendingIds(r, dest)) /\ r.pending[dest] \in Nat
  <2> DEFINE A == PendingIds(q, dest)
             B == {id \in S : IsPending(q.jobs[id])
                     /\ q.jobs[id].session = dest[1] /\ q.jobs[id].direction = dest[2]}
  <2>1. IsFiniteSet(A) /\ B \in SUBSET A
    BY <1>fin, <1>S, FS_Subset DEF PendingIds
  <2>2. PendingIds(r, dest) = (A \ B) \cup {}
    BY <1>j DEF PendingIds
  <2>3. r.pending[dest] = q.pending[dest] - Cardinality(B)
    BY <1>f DEF RemoveResult
  <2>4. q.pending[dest] = Cardinality(A)
    BY <1>q DEF IndexesMatch
  <2>5. IsFiniteSet({}) /\ Cardinality({}) = 0 /\ Cardinality(A) \in Nat /\ Cardinality(B) \in Nat
    BY <2>1, FS_EmptySet, FS_CardinalityType, FS_Subset
  <2>6. {} \cap (A \ B) = {}
    OBVIOUS
  <2> HIDE DEF A, B
  <2>7. /\ Cardinality((A \ B) \cup {}) = Cardinality(A) - Cardinality(B) + Cardinality({})
        /\ Cardinality((A \ B) \cup {}) \in Nat
    BY <2>1, <2>5, <2>6, CountMoved
  <2> QED BY <2>2, <2>3, <2>4, <2>5, <2>7
<1>2. ASSUME NEW k \in kept, NEW st \in JobStatus
      PROVE  /\ r.rows[NK(k)].n[st] = Cardinality(WithStatus(r, r.rows[NK(k)].order, st))
             /\ r.rows[NK(k)].n[st] \in Nat
  <2> DEFINE order == q.rows[k].order
             A == WithStatus(q, order, st)
             B == {id \in order \cap S : q.jobs[id].status = st}
  <2>1. order \subseteq DOMAIN q.jobs /\ k \in DOMAIN q.rows
    BY <1>q, <1>nk DEF RowsMatch
  <2>2. IsFiniteSet(A) /\ B \in SUBSET A
    BY <1>fin, <2>1, FS_Subset DEF WithStatus
  <2>3. WithStatus(r, r.rows[NK(k)].order, st) = (A \ B) \cup {}
    <3>1. r.rows[NK(k)].order = order \ S
      BY <1>row
    <3>2. \A id \in order \ S : r.jobs[id] = q.jobs[id]
      BY <1>j, <2>1
    <3> QED BY ONLY <3>1, <3>2 DEF WithStatus
  <2>4. r.rows[NK(k)].n[st] = SaturatingSub(q.rows[k].n[st], Cardinality(B))
    <3>1. Moved(q, q.rows[k], S, q.jobs, st) = Cardinality(B)
      BY DEF Moved
    <3>2. r.rows[NK(k)].n = [x \in JobStatus |->
            SaturatingSub(q.rows[k].n[x], Moved(q, q.rows[k], S, q.jobs, x))]
      BY <1>row
    <3> HIDE DEF A, B, order, NK
    <3> QED BY ONLY <3>1, <3>2, st \in JobStatus
  <2>5. q.rows[k].n[st] = Cardinality(A)
    BY <1>q, <2>1 DEF CountersMatch
  <2>6. IsFiniteSet({}) /\ Cardinality({}) = 0
    BY FS_EmptySet
  <2>7. {} \cap (A \ B) = {}
    OBVIOUS
  <2> HIDE DEF A, B
  <2>8. /\ Cardinality((A \ B) \cup {}) = SaturatingSub(Cardinality(A), Cardinality(B)) + Cardinality({})
        /\ Cardinality((A \ B) \cup {}) \in Nat
    BY <2>2, <2>6, <2>7, CountMoved
  <2>9. SaturatingSub(Cardinality(A), Cardinality(B)) \in Nat
    BY <2>2, FS_Subset, FS_CardinalityType DEF SaturatingSub
  <2> QED BY <2>3, <2>4, <2>5, <2>6, <2>8, <2>9
<1>3. QueueTyped(r)
  <2>1. \A k2 \in DOMAIN r.rows : DOMAIN r.rows[k2] = RowFields /\ r.rows[k2].n \in [JobStatus -> Nat]
    <3> SUFFICES ASSUME NEW k \in kept
                 PROVE  DOMAIN r.rows[NK(k)] = RowFields /\ r.rows[NK(k)].n \in [JobStatus -> Nat]
      BY <1>dom
    <3>1. DOMAIN r.rows[NK(k)] = RowFields
      BY <1>row
    <3>2. r.rows[NK(k)].n = [x \in JobStatus |->
            SaturatingSub(q.rows[k].n[x], Moved(q, q.rows[k], S, q.jobs, x))]
      BY <1>row
    <3>3. \A st \in JobStatus : r.rows[NK(k)].n[st] \in Nat
      BY <1>2
    <3> HIDE DEF NK
    <3> QED BY ONLY <3>1, <3>2, <3>3
  <2>2. r.pending \in [Sessions \X Direction -> Nat]
    BY <1>f, <1>1 DEF RemoveResult
  <2>3. DOMAIN r = QueueFields /\ r.nextId = q.nextId /\ r.nextBatch = q.nextBatch
    BY <1>f DEF RemoveResult
  <2> QED BY <1>j, <1>q, <2>1, <2>2, <2>3 DEF QueueTyped
<1>4. IndexesMatch(r)
  <2>1. r.running = q.running \ S /\ r.queued = q.queued \ S
    BY <1>f DEF RemoveResult
  <2>2. r.running = WithStatus(r, DOMAIN r.jobs, "InProgress") /\ r.queued = WithStatus(r, DOMAIN r.jobs, "Queued")
    BY <1>j, <1>q, <2>1 DEF IndexesMatch, WithStatus
  <2>3. ASSUME NEW s \in Sessions
        PROVE  q.queuedBySession[s] \ S = {id \in r.queued : r.jobs[id].session = s}
    <3>1. q.queuedBySession[s] = {id \in q.queued : q.jobs[id].session = s}
      BY <1>q DEF IndexesMatch
    <3>2. q.queued \subseteq DOMAIN q.jobs
      BY <1>q DEF IndexesMatch, WithStatus
    <3> QED BY ONLY <1>j, <2>1, <3>1, <3>2
  <2>4. r.queuedBySession = [s \in Sessions |-> {id \in r.queued : r.jobs[id].session = s}]
    BY <1>f, <2>3 DEF RemoveResult
  <2> QED BY <1>1, <2>2, <2>4 DEF IndexesMatch
<1>5. RowsMatch(r)
  <2>rowOf. DOMAIN r.rowOf = DOMAIN q.rowOf \ S /\ \A id \in DOMAIN q.rowOf \ S : r.rowOf[id] = NK(q.rowOf[id])
    BY <1>f DEF RemoveResult
  <2>1. DOMAIN r.rowOf = DOMAIN r.jobs
    BY <1>j, <1>q, <2>rowOf DEF RowsMatch
  <2>2. ASSUME NEW id \in DOMAIN r.jobs
        PROVE  r.rowOf[id] \in DOMAIN r.rows /\ id \in r.rows[r.rowOf[id]].order
    <3>1. id \in DOMAIN q.jobs /\ id \notin S /\ q.rowOf[id] \in DOMAIN q.rows /\ id \in q.rows[q.rowOf[id]].order
      BY <1>j, <1>q DEF RowsMatch
    <3>2. q.rowOf[id] \in kept /\ r.rowOf[id] = NK(q.rowOf[id])
      BY <1>nk, <2>1, <2>rowOf, <3>1
    <3> HIDE DEF NK
    <3> QED BY <1>row, <3>1, <3>2
  <2>3. ASSUME NEW k \in kept
        PROVE  /\ NK(k) \in r.rows[NK(k)].order
               /\ r.rows[NK(k)].direction = r.jobs[NK(k)].direction
               /\ r.rows[NK(k)].kind = KindOf(NK(k), r.jobs[NK(k)].batch)
               /\ \A id \in r.rows[NK(k)].order :
                    /\ id \in DOMAIN r.jobs
                    /\ r.rowOf[id] = NK(k)
                    /\ NK(k) <= id
                    /\ r.jobs[id].batch = r.jobs[NK(k)].batch
                    /\ r.jobs[id].batch = NoBatch => id = NK(k)
               /\ r.jobs[NK(k)].batch # NoBatch =>
                    /\ r.jobs[NK(k)].batch \in DOMAIN r.batchRow
                    /\ r.batchRow[r.jobs[NK(k)].batch] = NK(k)
    <3> DEFINE nk == NK(k)
    <3>1. /\ nk \in q.rows[k].order /\ nk \notin S
          /\ \A id \in q.rows[k].order \ S : nk <= id
          /\ k \in DOMAIN q.rows
      BY <1>nk
    <3>2. /\ k \in q.rows[k].order
          /\ q.rows[k].kind = KindOf(k, q.jobs[k].batch)
          /\ \A id \in q.rows[k].order :
               /\ id \in DOMAIN q.jobs
               /\ q.rowOf[id] = k
               /\ q.jobs[id].batch = q.jobs[k].batch
               /\ q.jobs[id].batch = NoBatch => id = k
          /\ q.jobs[k].batch # NoBatch =>
               /\ q.jobs[k].batch \in DOMAIN q.batchRow
               /\ q.batchRow[q.jobs[k].batch] = k
      BY <3>1, <1>q DEF RowsMatch
    <3>3. /\ r.rows[nk].order = q.rows[k].order \ S
          /\ r.rows[nk].kind = q.rows[k].kind
          /\ r.rows[nk].direction = q.jobs[nk].direction
      BY <1>row
    <3>4. \A id \in q.rows[k].order \ S : id \in DOMAIN r.jobs /\ r.jobs[id] = q.jobs[id] /\ r.rowOf[id] = nk
      BY <1>j, <3>2, <2>1, <2>rowOf
    <3>5. \A b \in DOMAIN q.batchRow : q.batchRow[b] = k => b \in DOMAIN r.batchRow /\ r.batchRow[b] = nk
      BY <1>f DEF RemoveResult
    <3>6. KindOf(k, q.jobs[k].batch) = KindOf(nk, q.jobs[nk].batch)
      BY <3>1, <3>2 DEF KindOf
    <3> HIDE DEF nk
    <3>7. /\ nk \in r.rows[nk].order
          /\ r.rows[nk].direction = r.jobs[nk].direction
          /\ r.rows[nk].kind = KindOf(nk, r.jobs[nk].batch)
      BY ONLY <3>1, <3>2, <3>3, <3>4, <3>6
    <3>8. \A id \in r.rows[nk].order :
            /\ id \in DOMAIN r.jobs
            /\ r.rowOf[id] = nk
            /\ nk <= id
            /\ r.jobs[id].batch = r.jobs[nk].batch
            /\ r.jobs[id].batch = NoBatch => id = nk
      BY ONLY <3>1, <3>2, <3>3, <3>4
    <3>9. r.jobs[nk].batch # NoBatch =>
            r.jobs[nk].batch \in DOMAIN r.batchRow /\ r.batchRow[r.jobs[nk].batch] = nk
      BY ONLY <3>1, <3>2, <3>4, <3>5
    <3> QED BY <3>7, <3>8, <3>9 DEF nk
  <2>4. ASSUME NEW b \in DOMAIN r.batchRow
        PROVE  /\ b # NoBatch
               /\ r.batchRow[b] \in DOMAIN r.rows
               /\ r.jobs[r.batchRow[b]].batch = b
    <3> DEFINE k == q.batchRow[b]
    <3>1. b \in DOMAIN q.batchRow /\ k \in kept /\ r.batchRow[b] = NK(k)
      BY <1>f DEF RemoveResult
    <3>2. b # NoBatch /\ q.jobs[k].batch = b /\ k \in DOMAIN q.rows
      BY <3>1, <1>q DEF RowsMatch
    <3>3. NK(k) \in q.rows[k].order /\ NK(k) \notin S /\ NK(k) \in DOMAIN r.rows
      BY <3>1, <1>nk, <1>row
    <3>4. NK(k) \in DOMAIN q.jobs /\ q.jobs[NK(k)].batch = b
      BY <3>2, <3>3, <1>q DEF RowsMatch
    <3> QED BY <3>1, <3>2, <3>3, <3>4, <1>j
  <2> HIDE DEF NK
  <2>5. \A k2 \in DOMAIN r.rows :
          /\ k2 \in r.rows[k2].order
          /\ r.rows[k2].direction = r.jobs[k2].direction
          /\ r.rows[k2].kind = KindOf(k2, r.jobs[k2].batch)
          /\ \A id \in r.rows[k2].order :
               /\ id \in DOMAIN r.jobs
               /\ r.rowOf[id] = k2
               /\ k2 <= id
               /\ r.jobs[id].batch = r.jobs[k2].batch
               /\ r.jobs[id].batch = NoBatch => id = k2
          /\ r.jobs[k2].batch # NoBatch =>
               /\ r.jobs[k2].batch \in DOMAIN r.batchRow
               /\ r.batchRow[r.jobs[k2].batch] = k2
    BY <1>dom, <2>3
  <2> QED BY ONLY <2>1, <2>2, <2>4, <2>5 DEF RowsMatch
<1>6. CountersMatch(r)
  <2> HIDE DEF NK
  <2> QED BY <1>dom, <1>2 DEF CountersMatch
<1> QED BY <1>3, <1>4, <1>5, <1>6 DEF QueueOK, r

(* An empty queue is consistent.                                           *)
LEMMA NewQueueOK == QueueOK(NewQueue)
<1> DEFINE q == NewQueue
<1>1. /\ DOMAIN q = QueueFields /\ q.nextId = 0 /\ q.nextBatch = 0
      /\ DOMAIN q.jobs = {} /\ DOMAIN q.rows = {} /\ DOMAIN q.rowOf = {} /\ DOMAIN q.batchRow = {}
      /\ q.running = {} /\ q.queued = {}
      /\ q.queuedBySession = [s \in Sessions |-> {}]
      /\ q.pending = [dest \in Sessions \X Direction |-> 0]
  BY DEF NewQueue, QueueFields
<1> HIDE DEF q
<1>2. QueueTyped(q)
  BY <1>1 DEF QueueTyped
<1>3. IndexesMatch(q)
  <2>1. \A dest : PendingIds(q, dest) = {}
    BY <1>1 DEF PendingIds
  <2>2. \A dest \in Sessions \X Direction : q.pending[dest] = Cardinality(PendingIds(q, dest))
    BY <1>1, <2>1, FS_EmptySet
  <2>3. q.queuedBySession = [s \in Sessions |-> {id \in q.queued : q.jobs[id].session = s}]
    BY <1>1
  <2> QED BY <1>1, <2>2, <2>3 DEF IndexesMatch, WithStatus
<1>4. RowsMatch(q) /\ CountersMatch(q)
  BY <1>1 DEF RowsMatch, CountersMatch
<1> QED BY <1>2, <1>3, <1>4 DEF QueueOK, q

(* Two queues that agree on every field the invariant reads *)
SameIndexes(q, r) ==
    /\ DOMAIN r = QueueFields /\ r.nextId = q.nextId /\ r.nextBatch \in Nat
    /\ r.jobs = q.jobs /\ r.rows = q.rows /\ r.rowOf = q.rowOf /\ r.batchRow = q.batchRow
    /\ r.running = q.running /\ r.queued = q.queued
    /\ r.queuedBySession = q.queuedBySession /\ r.pending = q.pending

(* The changes, the labels and the marks are no part of the consistency.   *)
LEMMA SameIndexesOK ==
  ASSUME NEW q, QueueOK(q), NEW r, SameIndexes(q, r)
  PROVE  QueueOK(r)
<1>1. QueueTyped(r)
  BY DEF QueueOK, QueueTyped, SameIndexes
<1>2. IndexesMatch(r)
  BY DEF QueueOK, IndexesMatch, SameIndexes, WithStatus, PendingIds
<1>3. RowsMatch(r)
  BY DEF QueueOK, RowsMatch, SameIndexes
<1>4. CountersMatch(r)
  BY DEF QueueOK, CountersMatch, SameIndexes, WithStatus
<1> QED BY <1>1, <1>2, <1>3, <1>4 DEF QueueOK

(* start_batch, forget_batch_if_empty, flag_unkept_times and take_changes  *)
(* leave the indexes alone.                                                *)
LEMMA MarksOK ==
  ASSUME NEW q, QueueOK(q), NEW b
  PROVE  /\ SameIndexes(q, StartBatch(q))
         /\ SameIndexes(q, ForgetEmpty(q, b))
         /\ SameIndexes(q, FlagUnkeptTimes(q, b))
         /\ SameIndexes(q, [q EXCEPT !.changes = {}])
  BY DEF QueueOK, QueueTyped, QueueFields, SameIndexes, StartBatch, ForgetEmpty, FlagUnkeptTimes

(* Progress writes a job's bytes and its row's, nothing the indexes read.  *)
LEMMA SetTransferredOK ==
  ASSUME NEW q, QueueOK(q), NEW id \in DOMAIN q.jobs, NEW bytes \in Nat
  PROVE  QueueOK(SetTransferred(q, id, bytes))
<1> DEFINE r == SetTransferred(q, id, bytes)
           key == q.rowOf[id]
           done == SaturatingSub(q.rows[key].bytesDone, q.jobs[id].transferred) + bytes
<1>q. QueueTyped(q) /\ IndexesMatch(q) /\ RowsMatch(q) /\ CountersMatch(q)
  BY DEF QueueOK
<1>1. /\ DOMAIN r = QueueFields
      /\ r.nextId = q.nextId /\ r.nextBatch = q.nextBatch
      /\ r.rowOf = q.rowOf /\ r.batchRow = q.batchRow
      /\ r.running = q.running /\ r.queued = q.queued
      /\ r.queuedBySession = q.queuedBySession /\ r.pending = q.pending
      /\ r.jobs = [q.jobs EXCEPT ![id] = [@ EXCEPT !.transferred = bytes]]
      /\ r.rows = [q.rows EXCEPT ![key] = [@ EXCEPT !.bytesDone = done]]
  BY <1>q DEF SetTransferred, QueueTyped, QueueFields
<1> HIDE DEF r
<1>2. DOMAIN r.jobs = DOMAIN q.jobs /\ DOMAIN r.rows = DOMAIN q.rows
  BY <1>1
<1>3. ASSUME NEW i \in DOMAIN q.jobs
      PROVE  /\ r.jobs[i] \in Job
             /\ r.jobs[i].status = q.jobs[i].status /\ r.jobs[i].attempts = q.jobs[i].attempts
             /\ r.jobs[i].session = q.jobs[i].session /\ r.jobs[i].direction = q.jobs[i].direction
             /\ r.jobs[i].batch = q.jobs[i].batch
  <2>1. q.jobs[i] \in Job
    BY <1>q DEF QueueTyped
  <2> QED BY <2>1, <1>1 DEF Job
<1>4. ASSUME NEW k \in DOMAIN q.rows
      PROVE  /\ DOMAIN r.rows[k] = RowFields
             /\ r.rows[k].n = q.rows[k].n /\ r.rows[k].order = q.rows[k].order
             /\ r.rows[k].kind = q.rows[k].kind /\ r.rows[k].direction = q.rows[k].direction
  <2>1. DOMAIN q.rows[k] = RowFields
    BY <1>q DEF QueueTyped
  <2>2. r.rows[k] = IF k = key THEN [q.rows[k] EXCEPT !.bytesDone = done] ELSE q.rows[k]
    BY <1>1
  <2> HIDE DEF done, key
  <2> QED BY <2>1, <2>2 DEF RowFields
<1> HIDE DEF done, key
<1>5. QueueTyped(r)
  <2>1. \A i \in DOMAIN r.jobs : r.jobs[i] \in Job
    BY <1>2, <1>3
  <2>2. \A i \in DOMAIN r.jobs : r.jobs[i].status = "Queued" => r.jobs[i].attempts < MaxAttempts
    BY <1>2, <1>3, <1>q DEF QueueTyped
  <2>3. \A k \in DOMAIN r.rows : DOMAIN r.rows[k] = RowFields /\ r.rows[k].n \in [JobStatus -> Nat]
    BY <1>2, <1>4, <1>q DEF QueueTyped
  <2> QED BY <1>1, <1>2, <1>q, <2>1, <2>2, <2>3 DEF QueueTyped
<1>6. IndexesMatch(r)
  <2>1. /\ WithStatus(r, DOMAIN r.jobs, "InProgress") = WithStatus(q, DOMAIN q.jobs, "InProgress")
        /\ WithStatus(r, DOMAIN r.jobs, "Queued") = WithStatus(q, DOMAIN q.jobs, "Queued")
    BY <1>2, <1>3 DEF WithStatus
  <2>2. \A dest \in Sessions \X Direction : PendingIds(r, dest) = PendingIds(q, dest)
    BY <1>2, <1>3 DEF PendingIds, IsPending
  <2>3. q.queued \subseteq DOMAIN q.jobs
    BY <1>q DEF IndexesMatch, WithStatus
  <2>4. \A s \in Sessions : {i \in r.queued : r.jobs[i].session = s} = {i \in q.queued : q.jobs[i].session = s}
    BY <1>1, <1>3, <2>3
  <2> QED BY <1>1, <1>q, <2>1, <2>2, <2>4 DEF IndexesMatch
<1>7. RowsMatch(r)
  <2>1. RowsMatch(q) /\ r.rowOf = q.rowOf /\ r.batchRow = q.batchRow
    BY <1>q, <1>1
  <2>2. \A k \in DOMAIN q.rows : k \in DOMAIN q.jobs
    BY <2>1 DEF RowsMatch
  <2>3. \A i \in DOMAIN q.jobs : r.jobs[i].direction = q.jobs[i].direction /\ r.jobs[i].batch = q.jobs[i].batch
    BY <1>3
  <2>4. \A k \in DOMAIN q.rows :
          /\ r.rows[k].order = q.rows[k].order
          /\ r.rows[k].kind = q.rows[k].kind
          /\ r.rows[k].direction = q.rows[k].direction
    BY <1>4
  <2> QED BY ONLY <1>2, <2>1, <2>2, <2>3, <2>4 DEF RowsMatch
<1>8. CountersMatch(r)
  <2> SUFFICES ASSUME NEW k \in DOMAIN q.rows, NEW st \in JobStatus
               PROVE  r.rows[k].n[st] = Cardinality(WithStatus(r, r.rows[k].order, st))
    BY <1>2 DEF CountersMatch
  <2>1. q.rows[k].order \subseteq DOMAIN q.jobs
    BY <1>q DEF RowsMatch
  <2>2. WithStatus(r, r.rows[k].order, st) = WithStatus(q, q.rows[k].order, st)
    BY <2>1, <1>3, <1>4 DEF WithStatus
  <2> QED BY <2>2, <1>4, <1>q DEF CountersMatch
<1> QED BY <1>5, <1>6, <1>7, <1>8 DEF QueueOK, r

(* cancel_all_queued, fail_queued_for_session, the end of a transfer: a    *)
(* status other than Queued can be given to any jobs.                      *)
LEMMA SetStatusOK ==
  ASSUME NEW q, QueueOK(q), NEW S \in SUBSET DOMAIN q.jobs, NEW st \in JobStatus, st # "Queued"
  PROVE  QueueOK(SetStatus(q, S, st))
<1> DEFINE after == [id \in S |-> [q.jobs[id] EXCEPT !.status = st]]
<1>1. SameOwner(q, S, after)
  <2> SUFFICES ASSUME NEW id \in S
               PROVE  /\ after[id] \in Job
                      /\ after[id].session = q.jobs[id].session
                      /\ after[id].direction = q.jobs[id].direction
                      /\ after[id].batch = q.jobs[id].batch
                      /\ after[id].status # "Queued"
    BY DEF SameOwner
  <2>1. q.jobs[id] \in Job
    BY DEF QueueOK, QueueTyped
  <2> QED BY <2>1 DEF Job
<1> HIDE DEF after
<1>2. QueueOK(Reconcile(q, S, after))
  BY <1>1, ReconcileOK
<1> QED BY <1>2 DEF SetStatus, after

(* start_transfer: a waiting job has an attempt left to count.             *)
LEMMA StartJobsOK ==
  ASSUME NEW q, QueueOK(q), NEW S \in SUBSET q.queued
  PROVE  QueueOK(StartJobs(q, S))
<1> DEFINE after == [id \in S |-> [q.jobs[id] EXCEPT !.status = "InProgress", !.attempts = @ + 1]]
<1>0. S \in SUBSET DOMAIN q.jobs
  BY DEF QueueOK, IndexesMatch, WithStatus
<1>1. SameOwner(q, S, after)
  <2> SUFFICES ASSUME NEW id \in S
               PROVE  /\ after[id] \in Job
                      /\ after[id].session = q.jobs[id].session
                      /\ after[id].direction = q.jobs[id].direction
                      /\ after[id].batch = q.jobs[id].batch
                      /\ after[id].status # "Queued"
    BY DEF SameOwner
  <2>1. q.jobs[id] \in Job /\ q.jobs[id].attempts < MaxAttempts
    BY DEF QueueOK, QueueTyped, IndexesMatch, WithStatus
  <2>2. q.jobs[id].attempts + 1 \in 0..MaxAttempts
    BY <2>1, LimitsAssumption DEF Job
  <2> QED BY <2>1, <2>2 DEF Job, JobStatus
<1> HIDE DEF after
<1>2. QueueOK(Reconcile(q, S, after))
  BY <1>0, <1>1, ReconcileOK
<1> QED BY <1>2 DEF StartJobs, after

(* retry_jobs gives the attempts back before it queues a job again.        *)
LEMMA RetryJobsOK ==
  ASSUME NEW q, QueueOK(q), NEW ids
  PROVE  QueueOK(RetryJobs(q, ids))
<1> DEFINE S == {id \in ids \cap DOMAIN q.jobs : IsRetryable(q.jobs[id])}
           after == [id \in S |-> [q.jobs[id] EXCEPT
                       !.resume = q.jobs[id].attempts > 0, !.status = "Queued", !.attempts = 0]]
<1>1. SameOwner(q, S, after)
  <2> SUFFICES ASSUME NEW id \in S
               PROVE  /\ after[id] \in Job
                      /\ after[id].session = q.jobs[id].session
                      /\ after[id].direction = q.jobs[id].direction
                      /\ after[id].batch = q.jobs[id].batch
                      /\ after[id].attempts = 0
    <3> HIDE DEF after
    <3>1. 0 < MaxAttempts
      BY LimitsAssumption
    <3> QED BY <3>1 DEF SameOwner
  <2>1. q.jobs[id] \in Job
    BY DEF QueueOK, QueueTyped
  <2>2. (q.jobs[id].attempts > 0) \in BOOLEAN /\ 0 \in 0..MaxAttempts
    BY LimitsAssumption
  <2> QED BY <2>1, <2>2 DEF Job, JobStatus
<1>2. S \in SUBSET DOMAIN q.jobs
  OBVIOUS
<1> HIDE DEF S, after
<1>3. QueueOK(Reconcile(q, S, after))
  BY <1>1, <1>2, ReconcileOK
<1> QED BY <1>3 DEF RetryJobs, S, after

(* retry_or_give_up queues a job again only while it has an attempt left.  *)
LEMMA RetryOrGiveUpOK ==
  ASSUME NEW q, QueueOK(q), NEW id
  PROVE  QueueOK(RetryOrGiveUp(q, id))
<1> DEFINE after == [i \in {id} |-> [q.jobs[i] EXCEPT !.status = "Queued", !.resume = TRUE]]
<1>1. CASE CanRetry(q, id)
  <2>1. id \in DOMAIN q.jobs /\ q.jobs[id] \in Job /\ q.jobs[id].attempts < MaxAttempts
    BY <1>1 DEF CanRetry, QueueOK, QueueTyped
  <2>2. SameOwner(q, {id}, after)
    BY <2>1 DEF SameOwner, Job, JobStatus
  <2> HIDE DEF after
  <2>3. QueueOK(Reconcile(q, {id}, after))
    BY <2>1, <2>2, ReconcileOK
  <2> QED BY <1>1, <2>3 DEF RetryOrGiveUp, after
<1>2. CASE ~ CanRetry(q, id)
  BY <1>2 DEF RetryOrGiveUp
<1> QED BY <1>1, <1>2

---------------------------------------------------------------------------
(* What the engine needs to know of the operations: which jobs there are,  *)
(* whose they are, and their statuses.                                     *)
SameJobs(q, r) ==
    /\ DOMAIN r.jobs = DOMAIN q.jobs
    /\ \A id \in DOMAIN q.jobs :
         /\ r.jobs[id].session = q.jobs[id].session
         /\ r.jobs[id].direction = q.jobs[id].direction
         /\ r.jobs[id].path = q.jobs[id].path
         /\ r.jobs[id].batch = q.jobs[id].batch
    /\ DOMAIN r.batchRow = DOMAIN q.batchRow
    /\ r.batchLabels = q.batchLabels
    /\ r.nextId = q.nextId
    /\ r.nextBatch = q.nextBatch

(* The jobs in S take the status st, nothing else the engine sees changes. *)
MovedTo(q, S, st, r) ==
    /\ QueueOK(r)
    /\ SameJobs(q, r)
    /\ \A id \in DOMAIN q.jobs : r.jobs[id].status = IF id \in S THEN st ELSE q.jobs[id].status

(* reconcile, seen so *)
LEMMA ReconcileMoves ==
  ASSUME NEW q, QueueOK(q), NEW S \in SUBSET DOMAIN q.jobs, NEW after, NEW st, QueueOK(Reconcile(q, S, after)),
         \A id \in S : /\ after[id].status = st
                       /\ after[id].session = q.jobs[id].session
                       /\ after[id].direction = q.jobs[id].direction
                       /\ after[id].batch = q.jobs[id].batch
                       /\ after[id].path = q.jobs[id].path
  PROVE  MovedTo(q, S, st, Reconcile(q, S, after))
<1> DEFINE r == Reconcile(q, S, after)
<1>1. QueueOK(r)
  OBVIOUS
<1>2. /\ r.nextId = q.nextId /\ r.nextBatch = q.nextBatch
      /\ r.batchRow = q.batchRow /\ r.batchLabels = q.batchLabels
      /\ r.jobs = [id \in DOMAIN q.jobs |-> IF id \in S THEN after[id] ELSE q.jobs[id]]
  <2>1. ReconcileResult(q, S, after, r)
    BY ReconcileFields
  <2> QED BY <2>1 DEF ReconcileResult
<1> HIDE DEF r
<1>3. SameJobs(q, r)
  BY <1>2 DEF SameJobs
<1>4. \A id \in DOMAIN q.jobs : r.jobs[id].status = IF id \in S THEN st ELSE q.jobs[id].status
  BY <1>2
<1>5. MovedTo(q, S, st, r)
  BY <1>1, <1>3, <1>4 DEF MovedTo
<1> QED BY <1>5 DEF r

(* The operations that give some jobs a status *)
LEMMA SetStatusMoves ==
  ASSUME NEW q, QueueOK(q), NEW S \in SUBSET DOMAIN q.jobs, NEW st \in JobStatus, st # "Queued"
  PROVE  MovedTo(q, S, st, SetStatus(q, S, st))
<1> DEFINE after == [id \in S |-> [q.jobs[id] EXCEPT !.status = st]]
<1>1. S \subseteq DOMAIN q.jobs /\ \A i \in S : q.jobs[i] \in Job
  BY DEF QueueOK, QueueTyped, IndexesMatch, WithStatus
<1>2. \A i \in S : /\ after[i].status = st /\ after[i].batch = q.jobs[i].batch
                   /\ after[i].session = q.jobs[i].session /\ after[i].path = q.jobs[i].path
                 /\ after[i].direction = q.jobs[i].direction
  BY <1>1 DEF Job
<1>3. SetStatus(q, S, st) = Reconcile(q, S, after)
  BY DEF SetStatus
<1> HIDE DEF after
<1>4. QueueOK(Reconcile(q, S, after))
  BY <1>3, SetStatusOK
<1> QED BY <1>1, <1>2, <1>3, <1>4, ReconcileMoves

LEMMA StartJobsMoves ==
  ASSUME NEW q, QueueOK(q), NEW S \in SUBSET q.queued
  PROVE  MovedTo(q, S, "InProgress", StartJobs(q, S))
<1> DEFINE after == [id \in S |-> [q.jobs[id] EXCEPT !.status = "InProgress", !.attempts = @ + 1]]
<1>1. S \subseteq DOMAIN q.jobs /\ \A i \in S : q.jobs[i] \in Job
  BY DEF QueueOK, QueueTyped, IndexesMatch, WithStatus
<1>2. \A i \in S : /\ after[i].status = "InProgress" /\ after[i].batch = q.jobs[i].batch
                   /\ after[i].session = q.jobs[i].session /\ after[i].path = q.jobs[i].path
                 /\ after[i].direction = q.jobs[i].direction
  BY <1>1 DEF Job
<1>3. StartJobs(q, S) = Reconcile(q, S, after)
  BY DEF StartJobs
<1> HIDE DEF after
<1>4. QueueOK(Reconcile(q, S, after))
  BY <1>3, StartJobsOK
<1> QED BY <1>1, <1>2, <1>3, <1>4, ReconcileMoves

LEMMA RetryJobsMoves ==
  ASSUME NEW q, QueueOK(q), NEW S \in SUBSET DOMAIN q.jobs, \A id \in S : IsRetryable(q.jobs[id])
  PROVE  MovedTo(q, S, "Queued", RetryJobs(q, S))
<1> DEFINE after == [id \in S |-> [q.jobs[id] EXCEPT
                       !.resume = q.jobs[id].attempts > 0, !.status = "Queued", !.attempts = 0]]
<1>1. S \subseteq DOMAIN q.jobs /\ \A i \in S : q.jobs[i] \in Job
  BY DEF QueueOK, QueueTyped, IndexesMatch, WithStatus
<1>2. \A i \in S : /\ after[i].status = "Queued" /\ after[i].batch = q.jobs[i].batch
                   /\ after[i].session = q.jobs[i].session /\ after[i].path = q.jobs[i].path
                 /\ after[i].direction = q.jobs[i].direction
  BY <1>1 DEF Job
<1>r. {id \in S \cap DOMAIN q.jobs : IsRetryable(q.jobs[id])} = S
  OBVIOUS
<1>3. RetryJobs(q, S) = Reconcile(q, S, after)
  BY <1>r DEF RetryJobs
<1> HIDE DEF after
<1>4. QueueOK(Reconcile(q, S, after))
  BY <1>3, RetryJobsOK
<1> QED BY <1>1, <1>2, <1>3, <1>4, ReconcileMoves

LEMMA RetryOrGiveUpMoves ==
  ASSUME NEW q, QueueOK(q), NEW id, CanRetry(q, id)
  PROVE  MovedTo(q, {id}, "Queued", RetryOrGiveUp(q, id))
<1> DEFINE after == [i \in {id} |-> [q.jobs[i] EXCEPT !.status = "Queued", !.resume = TRUE]]
<1>1. {id} \subseteq DOMAIN q.jobs /\ \A i \in {id} : q.jobs[i] \in Job
  BY DEF QueueOK, QueueTyped, IndexesMatch, WithStatus, CanRetry
<1>2. \A i \in {id} : /\ after[i].status = "Queued" /\ after[i].batch = q.jobs[i].batch
                      /\ after[i].session = q.jobs[i].session /\ after[i].path = q.jobs[i].path
                    /\ after[i].direction = q.jobs[i].direction
  BY <1>1 DEF Job
<1>3. RetryOrGiveUp(q, id) = Reconcile(q, {id}, after)
  BY DEF RetryOrGiveUp
<1> HIDE DEF after
<1>4. QueueOK(Reconcile(q, {id}, after))
  BY <1>3, RetryOrGiveUpOK
<1> QED BY <1>1, <1>2, <1>3, <1>4, ReconcileMoves

(* Two moves, the second of none, are the first. *)
LEMMA MovedNone ==
  ASSUME NEW q, NEW S, NEW st, NEW r, MovedTo(q, S, st, r), NEW other, NEW r2, MovedTo(r, {}, other, r2)
  PROVE  MovedTo(q, S, st, r2)
  BY DEF MovedTo, SameJobs

---------------------------------------------------------------------------
(* startable_limited's walk: there is always a set of jobs it picks.  It   *)
(* is built from the lowest id upwards, so the proof takes the least bound *)
(* below which there is none.                                              *)
LEMMA LeastNat ==
  ASSUME NEW T \in SUBSET Nat, T # {}
  PROVE  \E m \in T : \A k \in T : m <= k
<1>1. IsWellFoundedOn(OpToRel(<, Nat), Nat)
  BY NatLessThanWellFounded
<1>2. PICK x \in T : \A y \in T : ~(<<y, x>> \in OpToRel(<, Nat))
  BY <1>1, WFMin
<1>3. \A y \in T : ~(y < x)
  BY <1>2 DEF OpToRel
<1> QED BY <1>3

(* why the walk passes the job over, after it picked S                     *)
PassedOver(q, S, id) ==
    LET earlier == Before(S, id)
        s == q.jobs[id].session
    IN  \/ Cardinality(earlier) >= FreeSlots(q)
        \/ Destination(q.jobs[id]) \in DestinationsOf(q, q.running \cup earlier)
        \/ Capped(q, s, Cardinality(InSession(q, q.running, s)) + Cardinality(InSession(q, earlier, s)))

(* what it may pick *)
Fits(q, S) ==
    /\ Cardinality(S) <= FreeSlots(q)
    /\ \A i \in S : Destination(q.jobs[i]) \notin DestinationsOf(q, q.running)
    /\ \A i, j \in S : Destination(q.jobs[i]) = Destination(q.jobs[j]) => i = j
    /\ \A s \in DOMAIN SessionCap :
         InSession(q, S, s) # {} =>
           Cardinality(InSession(q, q.running, s)) + Cardinality(InSession(q, S, s)) <= SessionCap[s]

(* what it has picked when it has come to the job n                        *)
PickedBelow(q, S, n) ==
    /\ S \subseteq {id \in q.queued : id < n}
    /\ Fits(q, S)
    /\ \A id \in {i \in q.queued : i < n} \ S : PassedOver(q, S, id)

(* One job more that finds a slot, its destination free and its session    *)
(* below its cap                                                           *)
LEMMA FitsMore ==
  ASSUME NEW q, QueueOK(q), NEW S \in SUBSET q.queued, Fits(q, S), NEW n \in q.queued \ S,
         Cardinality(S) < FreeSlots(q), Destination(q.jobs[n]) \notin DestinationsOf(q, q.running \cup S),
         ~Capped(q, q.jobs[n].session,
                 Cardinality(InSession(q, q.running, q.jobs[n].session))
                   + Cardinality(InSession(q, S, q.jobs[n].session)))
  PROVE  Fits(q, S \cup {n})
<1> DEFINE R == S \cup {n}
           s0 == q.jobs[n].session
<1>0. IsFiniteSet(q.running) /\ IsFiniteSet(S) /\ n \notin S
  BY JobsFinite, FS_Subset DEF QueueOK, IndexesMatch, WithStatus
<1>1. /\ Cardinality(S) < FreeSlots(q)
      /\ Destination(q.jobs[n]) \notin DestinationsOf(q, q.running \cup S)
      /\ ~Capped(q, s0, Cardinality(InSession(q, q.running, s0)) + Cardinality(InSession(q, S, s0)))
  OBVIOUS
<1>2. Cardinality(R) <= FreeSlots(q)
  <2>1. Cardinality(R) = Cardinality(S) + 1 /\ Cardinality(S) \in Nat /\ Cardinality(q.running) \in Nat
    BY <1>0, FS_AddElement, FS_CardinalityType
  <2> QED BY <1>1, <2>1, LimitsAssumption DEF FreeSlots, SaturatingSub
<1>3. \A i \in R : Destination(q.jobs[i]) \notin DestinationsOf(q, q.running)
  BY <1>1 DEF Fits, DestinationsOf
<1>4. \A i, j \in R : Destination(q.jobs[i]) = Destination(q.jobs[j]) => i = j
  <2>1. \A i \in S : Destination(q.jobs[i]) # Destination(q.jobs[n])
    BY <1>1 DEF DestinationsOf
  <2> QED BY <2>1 DEF Fits
<1>5. ASSUME NEW s \in DOMAIN SessionCap, InSession(q, R, s) # {}
      PROVE  Cardinality(InSession(q, q.running, s)) + Cardinality(InSession(q, R, s)) <= SessionCap[s]
  <2>1. CASE s = s0
    <3>1. InSession(q, R, s) = InSession(q, S, s) \cup {n} /\ n \notin InSession(q, S, s)
      BY <1>0, <2>1 DEF InSession
    <3>2. IsFiniteSet(InSession(q, S, s)) /\ IsFiniteSet(InSession(q, q.running, s))
      BY <1>0, FS_Subset DEF InSession
    <3>3. /\ Cardinality(InSession(q, R, s)) = Cardinality(InSession(q, S, s)) + 1
          /\ Cardinality(InSession(q, S, s)) \in Nat /\ Cardinality(InSession(q, q.running, s)) \in Nat
      BY <3>1, <3>2, FS_AddElement, FS_CardinalityType
    <3> QED BY <1>1, <1>5, <2>1, <3>3, CapAssumption DEF Capped
  <2>2. CASE s # s0
    <3>1. InSession(q, R, s) = InSession(q, S, s)
      BY <2>2 DEF InSession
    <3> QED BY <1>5, <3>1 DEF Fits
  <2> QED BY <2>1, <2>2
<1> QED
  BY <1>2, <1>3, <1>4, <1>5 DEF Fits

(* its next round *)
LEMMA PickedNext ==
  ASSUME NEW q, QueueOK(q), NEW n \in Nat, NEW S, PickedBelow(q, S, n)
  PROVE  \E R : PickedBelow(q, R, n + 1)
<1>1. /\ q.queued \subseteq Nat /\ IsFiniteSet(q.queued) /\ IsFiniteSet(q.running)
      /\ S \subseteq q.queued /\ IsFiniteSet(S) /\ n \notin S
  BY JobsFinite, FS_Subset DEF QueueOK, IndexesMatch, WithStatus, PickedBelow
<1>2. {id \in q.queued : id < n + 1} = {id \in q.queued : id < n} \cup ({n} \cap q.queued)
  BY <1>1
<1>3. Before(S, n) = S
  BY <1>1 DEF Before, PickedBelow
<1>4. CASE n \notin q.queued \/ PassedOver(q, S, n)
  <2>1. PickedBelow(q, S, n + 1)
    BY <1>2, <1>4 DEF PickedBelow
  <2> QED BY <2>1
<1>5. CASE n \in q.queued /\ ~PassedOver(q, S, n)
  <2> DEFINE R == S \cup {n}
             s0 == q.jobs[n].session
  <2>1. /\ Cardinality(S) < FreeSlots(q)
        /\ Destination(q.jobs[n]) \notin DestinationsOf(q, q.running \cup S)
        /\ ~Capped(q, s0, Cardinality(InSession(q, q.running, s0)) + Cardinality(InSession(q, S, s0)))
    <3>1. Cardinality(S) \in Nat /\ Cardinality(q.running) \in Nat
      BY <1>1, FS_CardinalityType
    <3> QED BY <1>3, <1>5, <3>1, LimitsAssumption DEF PassedOver, FreeSlots, SaturatingSub
  <2>6. Fits(q, R)
    <3>1. S \in SUBSET q.queued /\ n \in q.queued \ S /\ Fits(q, S)
      BY <1>1, <1>5 DEF PickedBelow
    <3> HIDE DEF R
    <3> QED BY <2>1, <3>1, FitsMore DEF R
  <2>7. R \subseteq {id \in q.queued : id < n + 1}
    BY <1>1, <1>5 DEF PickedBelow
  <2>8. ASSUME NEW id \in {i \in q.queued : i < n + 1} \ R
        PROVE  PassedOver(q, R, id)
    <3>1. id \in q.queued /\ id < n /\ id \notin S
      BY <1>1
    <3>2. Before(R, id) = Before(S, id)
      BY <1>1, <3>1 DEF Before
    <3>3. PassedOver(q, S, id)
      BY <3>1 DEF PickedBelow
    <3> QED BY <3>2, <3>3 DEF PassedOver
  <2>9. PickedBelow(q, R, n + 1)
    BY <2>6, <2>7, <2>8 DEF PickedBelow
  <2> QED BY <2>9
<1> QED BY <1>4, <1>5

LEMMA StartableExists ==
  ASSUME NEW q, QueueOK(q)
  PROVE  \E S \in SUBSET q.queued : IsStartable(q, S)
<1> DEFINE T == {n \in Nat : ~(\E S : PickedBelow(q, S, n))}
<1>1. q.queued \subseteq 0..(q.nextId - 1) /\ q.nextId \in Nat /\ IsFiniteSet(q.running)
  BY JobsFinite, FS_Subset DEF QueueOK, QueueTyped, IndexesMatch, WithStatus
<1>2. PickedBelow(q, {}, 0)
  <2>1. {id \in q.queued : id < 0} = {}
    BY <1>1
  <2>2. Cardinality({}) = 0 /\ Cardinality(q.running) \in Nat
    BY <1>1, FS_EmptySet, FS_CardinalityType
  <2> QED BY <2>1, <2>2, LimitsAssumption DEF PickedBelow, Fits, FreeSlots, SaturatingSub, InSession
<1>3. T = {}
  <2> SUFFICES ASSUME T # {} PROVE FALSE
    OBVIOUS
  <2>1. PICK m \in T : \A k \in T : m <= k
    BY LeastNat
  <2>2. m # 0 /\ m - 1 \in Nat /\ m - 1 \notin T
    BY <1>2, <2>1
  <2>3. PICK S : PickedBelow(q, S, m - 1)
    BY <2>2
  <2>4. \E R : PickedBelow(q, R, (m - 1) + 1)
    BY <2>2, <2>3, PickedNext
  <2> QED BY <2>1, <2>4
<1>4. PICK S : PickedBelow(q, S, q.nextId)
  BY <1>1, <1>3
<1>5. {id \in q.queued : id < q.nextId} = q.queued
  BY <1>1
<1>6. IsStartable(q, S)
  BY <1>4, <1>5 DEF PickedBelow, Fits, PassedOver, IsStartable
<1> QED BY <1>4, <1>6 DEF PickedBelow

(* once they have started, nothing more can: the walk leaves no slot,      *)
(* destination or channel unused that a waiting job could have.            *)
LEMMA StartedRests ==
  ASSUME NEW q, QueueOK(q), NEW S \in SUBSET q.queued, IsStartable(q, S),
         NEW r, r.running = q.running \cup S, r.queued = q.queued \ S, SameJobs(q, r)
  PROVE  IsStartable(r, {})
<1>1. /\ q.queued \subseteq DOMAIN q.jobs /\ q.running \subseteq DOMAIN q.jobs
      /\ IsFiniteSet(q.running) /\ IsFiniteSet(S) /\ q.running \cap S = {}
  BY JobsFinite, FS_Subset DEF QueueOK, IndexesMatch, WithStatus
<1>2. \A id \in DOMAIN q.jobs : /\ Destination(r.jobs[id]) = Destination(q.jobs[id])
                                /\ r.jobs[id].session = q.jobs[id].session
  BY DEF SameJobs, Destination
<1>3. /\ Cardinality(r.running) = Cardinality(q.running) + Cardinality(S)
      /\ Cardinality(q.running) \in Nat /\ Cardinality(S) \in Nat /\ Cardinality({}) = 0
  BY <1>1, CountDisjoint, FS_CardinalityType, FS_EmptySet
<1>4. FreeSlots(r) = SaturatingSub(FreeSlots(q), Cardinality(S)) /\ FreeSlots(r) \in Nat /\ FreeSlots(q) \in Nat
  BY <1>3, LimitsAssumption DEF FreeSlots, SaturatingSub
<1>5. ASSUME NEW id \in r.queued
      PROVE  PassedOver(r, {}, id)
  <2> DEFINE earlier == Before(S, id)
             s == q.jobs[id].session
  <2>1. id \in q.queued \ S /\ earlier \subseteq S /\ IsFiniteSet(earlier)
    BY <1>1, <1>5, FS_Subset DEF Before
  <2>2. \/ Cardinality(earlier) >= FreeSlots(q)
        \/ Destination(q.jobs[id]) \in DestinationsOf(q, q.running \cup earlier)
        \/ Capped(q, s, Cardinality(InSession(q, q.running, s)) + Cardinality(InSession(q, earlier, s)))
    BY <2>1 DEF IsStartable
  <2>3. Before({}, id) = {} /\ r.jobs[id].session = s
    BY <1>1, <1>2, <2>1 DEF Before
  <2>4. CASE Cardinality(earlier) >= FreeSlots(q)
    <3>1. Cardinality(earlier) <= Cardinality(S) /\ Cardinality(earlier) \in Nat
      BY <1>1, <2>1, FS_Subset, FS_CardinalityType
    <3>2. FreeSlots(r) = 0
      BY <1>3, <1>4, <2>4, <3>1 DEF SaturatingSub
    <3>3. Cardinality(Before({}, id)) = 0
      BY <1>3, <2>3
    <3>4. Cardinality(Before({}, id)) >= FreeSlots(r)
      BY ONLY <3>2, <3>3
    <3> QED BY <3>4 DEF PassedOver
  <2>5. CASE Destination(q.jobs[id]) \in DestinationsOf(q, q.running \cup earlier)
    <3>1. PICK i \in q.running \cup earlier : Destination(q.jobs[i]) = Destination(q.jobs[id])
      BY <2>5 DEF DestinationsOf
    <3>2. i \in r.running /\ Destination(r.jobs[i]) = Destination(r.jobs[id])
      BY <1>1, <1>2, <2>1, <3>1
    <3>3. Destination(r.jobs[id]) \in DestinationsOf(r, r.running \cup {})
      BY <3>2 DEF DestinationsOf
    <3> QED BY <2>3, <3>3 DEF PassedOver
  <2>6. CASE Capped(q, s, Cardinality(InSession(q, q.running, s)) + Cardinality(InSession(q, earlier, s)))
    <3> DEFINE A == InSession(q, q.running, s)
               C == InSession(q, earlier, s)
               B == InSession(r, r.running, s)
    <3>1. A \cup C \subseteq B /\ A \cap C = {}
      <4>1. \A i \in q.running \cup earlier : i \in r.running /\ r.jobs[i].session = q.jobs[i].session
        BY <1>1, <1>2, <2>1
      <4>2. q.running \cap earlier = {}
        BY <1>1, <2>1
      <4> HIDE DEF earlier, s
      <4> QED BY <4>1, <4>2 DEF InSession
    <3>2. IsFiniteSet(B)
      <4>1. B \subseteq r.running
        BY DEF InSession
      <4>2. IsFiniteSet(q.running \cup S)
        BY <1>1, FS_Union
      <4> HIDE DEF B
      <4> QED BY <4>1, <4>2, FS_Subset
    <3>3. /\ Cardinality(A) + Cardinality(C) <= Cardinality(B)
          /\ Cardinality(A) \in Nat /\ Cardinality(C) \in Nat /\ Cardinality(B) \in Nat
      BY <3>1, <3>2, CountWithin
    <3>4. InSession(r, {}, s) = {}
      BY DEF InSession
    <3> HIDE DEF A, B, C
    <3>5. Capped(r, s, Cardinality(B) + 0)
      BY <2>6, <3>3, CapAssumption DEF Capped, A, C
    <3>6. Capped(r, s, Cardinality(InSession(r, r.running, s)) + Cardinality(InSession(r, Before({}, id), s)))
      BY <1>3, <2>3, <3>4, <3>5 DEF B
    <3> QED BY <2>3, <3>6 DEF PassedOver
  <2> QED BY <2>2, <2>4, <2>5, <2>6
<1>6. \A s : InSession(r, {}, s) = {}
  BY DEF InSession
<1>7. Cardinality({}) <= FreeSlots(r)
  BY <1>3, <1>4
<1> QED BY <1>5, <1>6, <1>7 DEF IsStartable, PassedOver

(* nor when nothing new waits and the same jobs run *)
LEMMA RestKept ==
  ASSUME NEW q, QueueOK(q), IsStartable(q, {}), NEW r, r.running = q.running, r.queued \subseteq q.queued,
         \A id \in q.queued \cup q.running : id \in r.queued \cup r.running =>
           /\ r.jobs[id].session = q.jobs[id].session
           /\ r.jobs[id].direction = q.jobs[id].direction
           /\ r.jobs[id].path = q.jobs[id].path
  PROVE  IsStartable(r, {})
<1>1. \A id \in r.queued \cup r.running : /\ Destination(r.jobs[id]) = Destination(q.jobs[id])
                                          /\ r.jobs[id].session = q.jobs[id].session
  BY DEF Destination
<1>2. FreeSlots(r) = FreeSlots(q)
  BY DEF FreeSlots
<1>3. \A s : InSession(r, r.running, s) = InSession(q, q.running, s) /\ InSession(r, {}, s) = InSession(q, {}, s)
             /\ InSession(r, {}, s) = {}
  BY <1>1 DEF InSession
<1>4. \A id \in r.queued : Before({}, id) = {}
  BY DEF Before
<1>5. DestinationsOf(r, r.running \cup {}) = DestinationsOf(q, q.running \cup {})
  BY <1>1 DEF DestinationsOf
<1>6. ASSUME NEW id \in r.queued PROVE PassedOver(r, {}, id)
  <2>1. PassedOver(q, {}, id)
    BY DEF IsStartable, PassedOver
  <2> QED BY <1>1, <1>2, <1>3, <1>4, <1>5, <2>1 DEF PassedOver, Capped
<1>7. Cardinality({}) <= FreeSlots(r)
  BY <1>2 DEF IsStartable
<1> QED BY <1>3, <1>6, <1>7 DEF IsStartable, PassedOver

---------------------------------------------------------------------------
(* enqueue adds waiting jobs with new ids, and a row for their batch       *)
Added(q, e, ids, session, batch) ==
    /\ DOMAIN e.jobs = DOMAIN q.jobs \cup ids
    /\ 0..(e.nextId - 1) = 0..(q.nextId - 1) \cup ids
    /\ \A id \in ids : id >= q.nextId /\ id \notin DOMAIN q.jobs
    /\ \A id \in DOMAIN q.jobs : e.jobs[id] = q.jobs[id]
    /\ \A id \in ids : /\ e.jobs[id].status = "Queued" /\ e.jobs[id].session = session
                       /\ e.jobs[id].batch = batch
    /\ e.running = q.running /\ e.queued = q.queued \cup ids
    /\ DOMAIN e.batchRow = DOMAIN q.batchRow \cup {batch}
    /\ e.batchLabels = q.batchLabels /\ e.nextBatch = q.nextBatch

LEMMA EnqueueAdds ==
  ASSUME NEW q, QueueOK(q), NEW session, NEW direction, NEW files \in Files, files # <<>>,
         NEW batch \in Nat
  PROVE  Added(q, Enqueue(q, session, direction, files, batch), NewIds(q, files), session, batch)
<1> DEFINE r == Enqueue(q, session, direction, files, batch)
           ids == NewIds(q, files)
<1>1. /\ r.nextId = q.nextId + Len(files) /\ r.nextBatch = q.nextBatch
      /\ r.batchLabels = q.batchLabels
      /\ r.running = q.running /\ r.queued = q.queued \cup ids
      /\ r.jobs = [id \in DOMAIN q.jobs \cup ids |->
           IF id \in ids THEN NewJob(q, session, direction, files, batch, id) ELSE q.jobs[id]]
      /\ DOMAIN r.batchRow = DOMAIN q.batchRow \cup ({batch} \ {NoBatch})
  <2>1. EnqueueResult(q, session, direction, files, batch, r,
                      NewIds(q, files), EnqueueKey(q, batch), EnqueueRow(q, direction, batch))
    BY EnqueueFields
  <2> QED BY <2>1 DEF EnqueueResult
<1>2. q.nextId \in Nat /\ DOMAIN q.jobs \subseteq 0..(q.nextId - 1) /\ Len(files) \in Nat /\ batch # NoBatch
  BY DEF QueueOK, QueueTyped, Files, NoBatch
<1>3. ids = q.nextId..(q.nextId + Len(files) - 1)
  BY DEF NewIds
<1>4. \A id : NewJob(q, session, direction, files, batch, id).status = "Queued"
              /\ NewJob(q, session, direction, files, batch, id).session = session
              /\ NewJob(q, session, direction, files, batch, id).batch = batch
  BY DEF NewJob
<1> HIDE DEF r, ids
<1>5. 0..(r.nextId - 1) = 0..(q.nextId - 1) \cup ids /\ \A id \in ids : id >= q.nextId /\ id \notin DOMAIN q.jobs
  BY <1>1, <1>2, <1>3
<1>6. \A id \in ids : r.jobs[id] = NewJob(q, session, direction, files, batch, id)
  BY <1>1
<1>7. Added(q, r, ids, session, batch)
  BY <1>1, <1>2, <1>4, <1>5, <1>6 DEF Added
<1> QED BY <1>7 DEF r, ids

(* remove_jobs takes jobs away, and the label of every batch it leaves     *)
(* without a row, but of no batch that had none                            *)
LEMMA RemoveTakes ==
  ASSUME NEW q, QueueOK(q), NEW ids
  PROVE  LET r == RemoveJobs(q, ids)
         IN
         /\ DOMAIN r.jobs = DOMAIN q.jobs \ ids
         /\ \A id \in DOMAIN q.jobs \ ids : r.jobs[id] = q.jobs[id]
         /\ r.running = q.running \ ids /\ r.queued = q.queued \ ids
         /\ DOMAIN r.batchRow \subseteq DOMAIN q.batchRow
         /\ r.batchLabels = q.batchLabels \ (DOMAIN q.batchRow \ DOMAIN r.batchRow)
         /\ r.nextId = q.nextId /\ r.nextBatch = q.nextBatch
<1> DEFINE S == ids \cap DOMAIN q.jobs
           r == RemoveJobs(q, ids)
           gone == ({q.jobs[id].batch : id \in S} \ {NoBatch}) \ DOMAIN r.batchRow
<1>1. /\ DOMAIN q = QueueFields /\ RowsMatch(q)
      /\ q.running \subseteq DOMAIN q.jobs /\ q.queued \subseteq DOMAIN q.jobs
  BY DEF QueueOK, QueueTyped, IndexesMatch, WithStatus
<1>2. /\ r.nextBatch = q.nextBatch /\ r.nextId = q.nextId
      /\ r.running = q.running \ S /\ r.queued = q.queued \ S
      /\ r.jobs = [id \in DOMAIN q.jobs \ S |-> q.jobs[id]]
      /\ r.batchRow = [b \in {bb \in DOMAIN q.batchRow : q.batchRow[bb] \in Kept(q, S)} |->
                         NewKey(q, q.batchRow[b], S)]
  <2>1. RemoveResult(q, S, r)
    BY RemoveFields
  <2> QED BY <2>1 DEF RemoveResult
<1>3. r.batchLabels = q.batchLabels \ gone
  BY <1>1 DEF RemoveJobs, ForgetEmpty, QueueFields
<1> HIDE DEF r
<1>4. ASSUME NEW b \in DOMAIN q.batchRow, b \notin DOMAIN r.batchRow
      PROVE  b \in gone
  <2> DEFINE k == q.batchRow[b]
  <2>1. k \in DOMAIN q.rows /\ b # NoBatch /\ q.jobs[k].batch = b
    BY <1>1 DEF RowsMatch
  <2>2. k \notin Kept(q, S)
    BY <1>2, <1>4
  <2>3. q.rows[k].order \subseteq S /\ k \in q.rows[k].order
    BY <2>1, <2>2, <1>1 DEF Kept, Left, RowsMatch
  <2> QED BY <2>1, <2>3, <1>4
<1>5. \A id \in DOMAIN q.jobs : q.jobs[id].batch = NoBatch \/ q.jobs[id].batch \in DOMAIN q.batchRow
  BY <1>1 DEF RowsMatch
<1>6. DOMAIN r.batchRow \subseteq DOMAIN q.batchRow
  BY <1>2
<1>7. gone = DOMAIN q.batchRow \ DOMAIN r.batchRow
  BY <1>4, <1>5
<1> HIDE DEF gone
<1> QED BY <1>1, <1>2, <1>3, <1>6, <1>7 DEF r

(* the batches: start_batch, forget_batch_if_empty, take_changes           *)
LEMMA MarksSee ==
  ASSUME NEW q, QueueOK(q)
  PROVE  /\ StartBatch(q).batchLabels = q.batchLabels \cup {q.nextBatch}
         /\ StartBatch(q).nextBatch = q.nextBatch + 1
         /\ \A b : /\ ForgetEmpty(q, b).batchLabels = q.batchLabels \ (b \ DOMAIN q.batchRow)
                   /\ ForgetEmpty(q, b).nextBatch = q.nextBatch
         /\ [q EXCEPT !.changes = {}].batchLabels = q.batchLabels
         /\ [q EXCEPT !.changes = {}].nextBatch = q.nextBatch
  BY DEF QueueOK, QueueTyped, QueueFields, StartBatch, ForgetEmpty

---------------------------------------------------------------------------
(* The change list: a row that finishes, opens again or goes is named.     *)
FinishedKinds(q) == {q.rows[k].kind : k \in {key \in DOMAIN q.rows : RowFinished(q.rows[key])}}

LEMMA FinishedOf ==
  ASSUME NEW q, NEW kind
  PROVE  kind \in FinishedKinds(q) <=> \E k \in DOMAIN q.rows : q.rows[k].kind = kind /\ RowFinished(q.rows[k])
BY DEF FinishedKinds

(* row_key finds the row of a kind, so that finished(kind) asks the right  *)
(* one.                                                                    *)
LEMMA KindsFinished ==
  ASSUME NEW q, QueueOK(q), NEW kind
  PROVE  KindFinished(q, kind) <=> kind \in FinishedKinds(q)
<1>1. ASSUME NEW k \in DOMAIN q.rows, q.rows[k].kind = kind PROVE RowKey(q, kind) = k
  <2>1. /\ q.rows[k].kind = KindOf(k, q.jobs[k].batch)
        /\ q.jobs[k].batch # NoBatch => q.batchRow[q.jobs[k].batch] = k
    BY DEF QueueOK, RowsMatch
  <2>2. CASE q.jobs[k].batch = NoBatch
    BY <1>1, <2>1, <2>2 DEF KindOf, RowKey
  <2>3. CASE q.jobs[k].batch # NoBatch
    BY <1>1, <2>1, <2>3 DEF KindOf, RowKey
  <2> QED BY <2>2, <2>3
<1> QED BY <1>1, FinishedOf DEF KindFinished, HasRow

(* what the reader of the changes of r, who knew q, may leave as it was    *)
Tells(q, r) ==
    /\ q.changes \subseteq r.changes
    /\ \A kind : kind \notin r.changes => (kind \in FinishedKinds(q) <=> kind \in FinishedKinds(r))

(* an operation that moves no job between statuses *)
LEMMA SameRowsTell ==
  ASSUME NEW q, NEW r, r.changes = q.changes, DOMAIN r.rows = DOMAIN q.rows,
         \A k \in DOMAIN q.rows : r.rows[k].kind = q.rows[k].kind /\ r.rows[k].n = q.rows[k].n
  PROVE  Tells(q, r)
<1>1. \A k \in DOMAIN q.rows : RowFinished(r.rows[k]) <=> RowFinished(q.rows[k])
  BY DEF RowFinished, RowTotal
<1> QED BY <1>1, FinishedOf DEF Tells

LEMMA MarksTell ==
  ASSUME NEW q, QueueOK(q), NEW b
  PROVE  Tells(q, StartBatch(q)) /\ Tells(q, ForgetEmpty(q, b)) /\ Tells(q, FlagUnkeptTimes(q, b))
<1>1. DOMAIN q = QueueFields
  BY DEF QueueOK, QueueTyped
<1>2. /\ StartBatch(q).changes = q.changes /\ StartBatch(q).rows = q.rows
      /\ ForgetEmpty(q, b).changes = q.changes /\ ForgetEmpty(q, b).rows = q.rows
      /\ FlagUnkeptTimes(q, b).changes = q.changes /\ FlagUnkeptTimes(q, b).rows = q.rows
  BY <1>1 DEF StartBatch, ForgetEmpty, FlagUnkeptTimes, QueueFields
<1> QED BY <1>2, SameRowsTell

LEMMA SetTransferredTells ==
  ASSUME NEW q, QueueOK(q), NEW id \in DOMAIN q.jobs, NEW bytes
  PROVE  Tells(q, SetTransferred(q, id, bytes))
<1> DEFINE r == SetTransferred(q, id, bytes)
           key == q.rowOf[id]
           done == SaturatingSub(q.rows[key].bytesDone, q.jobs[id].transferred) + bytes
<1>1. DOMAIN q = QueueFields /\ \A k \in DOMAIN q.rows : DOMAIN q.rows[k] = RowFields
  BY DEF QueueOK, QueueTyped
<1>2. r.changes = q.changes /\ r.rows = [q.rows EXCEPT ![key] = [@ EXCEPT !.bytesDone = done]]
  BY <1>1 DEF SetTransferred, QueueFields
<1> HIDE DEF r, done, key
<1>3. \A k \in DOMAIN q.rows : r.rows[k].kind = q.rows[k].kind /\ r.rows[k].n = q.rows[k].n
  <2> SUFFICES ASSUME NEW k \in DOMAIN q.rows PROVE r.rows[k].kind = q.rows[k].kind /\ r.rows[k].n = q.rows[k].n
    OBVIOUS
  <2>1. r.rows[k] = IF k = key THEN [q.rows[k] EXCEPT !.bytesDone = done] ELSE q.rows[k]
    BY <1>2
  <2> QED BY <1>1, <2>1 DEF RowFields
<1>4. DOMAIN r.rows = DOMAIN q.rows
  BY <1>2
<1> QED BY <1>2, <1>3, <1>4, SameRowsTell DEF r

(* JobGuard::drop names the rows that flip.                                *)
LEMMA ReconcileTells ==
  ASSUME NEW q, QueueOK(q), NEW S, NEW after
  PROVE  Tells(q, Reconcile(q, S, after))
<1> DEFINE r == Reconcile(q, S, after)
           flips == {key \in DOMAIN q.rows : RowFinished(q.rows[key]) # RowFinished(r.rows[key])}
<1>1. DOMAIN q = QueueFields
  BY DEF QueueOK, QueueTyped
<1>2. /\ r.rows = [k \in DOMAIN q.rows |-> Reconciled(q, q.rows[k], S, after)]
      /\ r.changes = q.changes \cup {q.rows[k].kind : k \in flips}
  BY <1>1 DEF Reconcile, QueueFields
<1>f. ReconcileResult(q, S, after, r)
  BY ReconcileFields
<1> HIDE DEF r
<1>3. DOMAIN r.rows = DOMAIN q.rows /\ \A k \in DOMAIN q.rows : r.rows[k].kind = q.rows[k].kind
  BY <1>f DEF ReconcileResult
<1>4. \A k \in DOMAIN q.rows : q.rows[k].kind \notin r.changes => (RowFinished(q.rows[k]) <=> RowFinished(r.rows[k]))
  <2> SUFFICES ASSUME NEW k \in DOMAIN q.rows, ~(RowFinished(q.rows[k]) <=> RowFinished(r.rows[k]))
               PROVE  q.rows[k].kind \in r.changes
    OBVIOUS
  <2>1. k \in flips
    BY DEF RowFinished
  <2> DEFINE flipped == {q.rows[j].kind : j \in flips}
  <2>2. q.rows[k].kind \in flipped
    BY <2>1
  <2>3. flipped \subseteq r.changes
    BY <1>2
  <2> HIDE DEF flipped
  <2> QED BY <2>2, <2>3
<1>5. q.changes \subseteq r.changes
  BY <1>2
<1> HIDE DEF flips
<1>6. Tells(q, r)
  BY <1>3, <1>4, <1>5, FinishedOf DEF Tells
<1> QED BY <1>6 DEF r

(* enqueue names a finished row that grows.                                *)
LEMMA EnqueueTells ==
  ASSUME NEW q, QueueOK(q), NEW session, NEW direction \in Direction, NEW files \in Files,
         NEW batch \in Nat \cup {NoBatch}
  PROVE  Tells(q, Enqueue(q, session, direction, files, batch))
<1> DEFINE r == Enqueue(q, session, direction, files, batch)
           key == EnqueueKey(q, batch)
           row == EnqueueRow(q, direction, batch)
<1>1. CASE files = <<>>
  BY <1>1, SameRowsTell DEF Enqueue
<1>2. CASE files # <<>>
  <2>f. EnqueueResult(q, session, direction, files, batch, r, NewIds(q, files), key, row)
    BY <1>2, EnqueueFields
  <2>2. DOMAIN q = QueueFields
    BY DEF QueueOK, QueueTyped
  <2>3. r.changes = q.changes \cup IF RowFinished(row) THEN {row.kind} ELSE {}
    BY <1>2, <2>2 DEF Enqueue, QueueFields
  <2>4. row.n \in [JobStatus -> Nat]
    BY DEF EnqueueRow, NewRow, QueueOK, QueueTyped
  <2>5. key \in DOMAIN q.rows => row = q.rows[key]
    BY DEF EnqueueRow
  <2>6. Len(files) \in Nat \ {0}
    BY <1>2 DEF Files
  <2> HIDE DEF r, key, row
  <2>1. /\ DOMAIN r.rows = DOMAIN q.rows \cup {key}
        /\ \A k \in DOMAIN q.rows : k # key => r.rows[k] = q.rows[k]
        /\ r.rows[key].n = [row.n EXCEPT !["Queued"] = row.n["Queued"] + Len(files)]
    BY <2>f DEF EnqueueResult
  <2>7. ~RowFinished(r.rows[key])
    <3>1. row.n["Queued"] \in Nat /\ r.rows[key].n["Queued"] = row.n["Queued"] + Len(files)
      BY <2>1, <2>4 DEF JobStatus
    <3> QED BY <2>6, <3>1 DEF RowFinished
  <2>8. ASSUME NEW kind, kind \notin r.changes, kind \in FinishedKinds(q)
        PROVE  kind \in FinishedKinds(r)
    <3>1. PICK k \in DOMAIN q.rows : q.rows[k].kind = kind /\ RowFinished(q.rows[k])
      BY <2>8, FinishedOf
    <3>2. k # key
      BY <2>3, <2>5, <2>8, <3>1
    <3> QED BY <2>1, <3>1, <3>2, FinishedOf
  <2>9. ASSUME NEW kind, kind \in FinishedKinds(r) PROVE kind \in FinishedKinds(q)
    <3>1. PICK k \in DOMAIN r.rows : r.rows[k].kind = kind /\ RowFinished(r.rows[k])
      BY <2>9, FinishedOf
    <3> QED BY <2>1, <2>7, <3>1, FinishedOf
  <2> QED BY <2>3, <2>8, <2>9 DEF Tells, r
<1> QED BY <1>1, <1>2

(* remove_jobs names the rows that go, and those that flip.                *)
LEMMA RemoveTells ==
  ASSUME NEW q, QueueOK(q), NEW ids
  PROVE  Tells(q, RemoveJobs(q, ids))
<1> DEFINE S == ids \cap DOMAIN q.jobs
           kept == {k \in DOMAIN q.rows : Left(q, k, S) # {}}
           gone == DOMAIN q.rows \ kept
           flips == {key \in kept : RowFinished(q.rows[key]) # RowFinished(Shrunk(q, key, S))}
           r == RemoveJobs(q, ids)
<1>1. DOMAIN q = QueueFields
  BY DEF QueueOK, QueueTyped
<1>2. r.changes = q.changes \cup {q.rows[k].kind : k \in gone} \cup {q.rows[k].kind : k \in flips}
  BY <1>1 DEF RemoveJobs, ForgetEmpty, QueueFields
<1>f. RemoveResult(q, S, r)
  BY RemoveFields
<1> HIDE DEF r
<1>3. /\ DOMAIN r.rows = {NewKey(q, k, S) : k \in kept}
      /\ \A k \in kept : r.rows[NewKey(q, k, S)] = Shrunk(q, k, S)
  BY <1>f DEF RemoveResult, Kept
<1>4. \A k \in kept : Shrunk(q, k, S).kind = q.rows[k].kind
  BY DEF Shrunk, QueueOK, QueueTyped, RowFields
<1>5. ASSUME NEW k \in DOMAIN q.rows, q.rows[k].kind \notin r.changes
      PROVE  k \in kept /\ (RowFinished(q.rows[k]) <=> RowFinished(Shrunk(q, k, S)))
  <2>1. k \notin gone
    BY <1>2, <1>5
  <2>2. k \notin flips
    BY <1>2, <1>5
  <2>3. RowFinished(q.rows[k]) \in BOOLEAN /\ RowFinished(Shrunk(q, k, S)) \in BOOLEAN
    BY DEF RowFinished
  <2> QED BY <2>1, <2>2, <2>3
<1>6. ASSUME NEW kind, kind \notin r.changes, kind \in FinishedKinds(q)
      PROVE  kind \in FinishedKinds(r)
  <2>1. PICK k \in DOMAIN q.rows : q.rows[k].kind = kind /\ RowFinished(q.rows[k])
    BY <1>6, FinishedOf
  <2>2. k \in kept /\ RowFinished(Shrunk(q, k, S))
    BY <1>5, <1>6, <2>1
  <2> HIDE DEF kept, S
  <2>3. NewKey(q, k, S) \in DOMAIN r.rows
    BY <1>3, <2>2
  <2> QED BY <1>3, <1>4, <2>1, <2>2, <2>3, FinishedOf
<1>7. ASSUME NEW kind, kind \notin r.changes, kind \in FinishedKinds(r)
      PROVE  kind \in FinishedKinds(q)
  <2>1. PICK j \in DOMAIN r.rows : r.rows[j].kind = kind /\ RowFinished(r.rows[j])
    BY <1>7, FinishedOf
  <2>2. PICK k \in kept : j = NewKey(q, k, S)
    BY <1>3, <2>1
  <2>3. k \in DOMAIN q.rows /\ q.rows[k].kind = kind /\ RowFinished(Shrunk(q, k, S))
    BY <1>3, <1>4, <2>1, <2>2
  <2>4. RowFinished(q.rows[k])
    BY <1>5, <1>7, <2>3
  <2> QED BY <2>3, <2>4, FinishedOf
<1> QED BY <1>2, <1>6, <1>7 DEF Tells, r
=================================================================================
