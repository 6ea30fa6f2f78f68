----------------------------- MODULE PersistProofs -----------------------------
(***************************************************************************)
(* Theorems about PersistWriter, for any files, threads, tasks and aborts: *)
(* files never go back, one task runs, no accepted write is lost, and a    *)
(* flush keeps its promise.  Each part adds its invariant to the last one. *)
(***************************************************************************)
EXTENDS PersistWriter, TLAPS

Versions == Nat \ {0}
JobSet == [path : Paths, version : Versions]

(* Every write is one of a version handed out, to a known path.            *)
JobsOK ==
    /\ nextVersion \in Versions
    /\ DOMAIN pending \subseteq Paths
    /\ \A p \in DOMAIN pending : pending[p] \in Versions
    /\ held \in [Callers \cup Tasks -> SUBSET JobSet]
    /\ \A work \in blocking : work.job \in JobSet

(* The locks remember what is on disk.                                     *)
DiskOK ==
    /\ disk \in [Paths -> Nat]
    /\ DOMAIN applied \subseteq Paths
    /\ \A p \in DOMAIN applied : applied[p] \in Nat
    /\ AppliedTrue

IInv == JobsOK /\ DiskOK

(* A write to disk, of whatever job, keeps DiskOK and moves no file back.  *)
LEMMA ExecuteForward ==
  ASSUME DiskOK, NEW job \in JobSet, NEW refused \in BOOLEAN, Execute(job, refused)
  PROVE  DiskOK' /\ \A p \in Paths : disk'[p] >= disk[p]
<1>1. CASE UNCHANGED <<applied, disk>>
  BY <1>1 DEF DiskOK, AppliedTrue, Applied
<1>2. CASE /\ ~Stale(job)
           /\ disk' = [disk EXCEPT ![job.path] = job.version]
           /\ applied' = Kept(With(applied, job.path, job.version))
  <2>1. job.path \in Paths /\ job.version \in Versions
    BY DEF JobSet
  <2>2. disk' \in [Paths -> Nat]
    BY <1>2, <2>1 DEF DiskOK, Versions
  <2>3. job.version > disk[job.path]
    BY <1>2, <2>1 DEF DiskOK, AppliedTrue, Stale, Versions
  <2>4. \A p \in Paths : disk'[p] >= disk[p]
    BY <1>2, <2>1, <2>3 DEF DiskOK, Versions
  <2>5. DOMAIN applied' = {p \in DOMAIN applied \cup {job.path} : p = job.path \/ applied[p] # 0}
    BY <1>2, <2>1 DEF Kept, With, Versions
  <2>6. \A p \in DOMAIN applied' : applied'[p] = IF p = job.path THEN job.version ELSE applied[p]
    BY <1>2, <2>1 DEF Kept, With, Versions
  <2>7. DOMAIN applied' \subseteq Paths /\ \A p \in DOMAIN applied' : applied'[p] \in Nat
    BY <2>1, <2>5, <2>6 DEF DiskOK, Versions
  <2>8. ASSUME NEW p \in Paths
        PROVE  (IF p \in DOMAIN applied' THEN applied'[p] ELSE 0) = disk'[p]
    <3>1. CASE p = job.path
      BY <3>1, <1>2, <2>1, <2>5, <2>6 DEF DiskOK
    <3>2. CASE p # job.path
      <4>1. (IF p \in DOMAIN applied THEN applied[p] ELSE 0) = disk[p] /\ disk'[p] = disk[p]
        BY <3>2, <1>2 DEF DiskOK, AppliedTrue, Applied
      <4> QED BY <3>2, <4>1, <2>5, <2>6
    <3> QED BY <3>1, <3>2
  <2>9. AppliedTrue'
    BY <2>8 DEF AppliedTrue, Applied
  <2> QED BY <2>2, <2>4, <2>7, <2>9 DEF DiskOK
<1>3. UNCHANGED <<applied, disk>> => \A p \in Paths : disk'[p] >= disk[p]
  BY DEF DiskOK
<1> QED BY <1>1, <1>2, <1>3 DEF Execute

(* What was pending is a set of such writes.                               *)
LEMMA PendingJobs == ASSUME JobsOK PROVE Jobs(pending) \in SUBSET JobSet
BY DEF JobsOK, Jobs, Job, JobSet

LEMMA Initially == Init => IInv
<1> SUFFICES ASSUME Init PROVE IInv
  OBVIOUS
<1>1. JobsOK
  BY DEF Init, JobsOK, Versions
<1>2. DiskOK
  BY DEF Init, DiskOK, AppliedTrue, Applied
<1> QED BY <1>1, <1>2 DEF IInv

(* The steps that write to disk: everybody else leaves the files alone.    *)
LEMMA Steps ==
  ASSUME IInv, [Next]_vars
  PROVE  IInv' /\ \A p \in Paths : disk'[p] >= disk[p]
<1> DEFINE Forward == \A p \in Paths : disk'[p] >= disk[p]
<1> USE DEF IInv, files, ExecuteNow
<1>0. UNCHANGED <<applied, disk>> => DiskOK' /\ Forward
  BY DEF DiskOK, AppliedTrue, Applied
<1>1. ASSUME NEW c \in Callers, NEW p \in Paths, DrawVersion(c, p) PROVE JobsOK' /\ UNCHANGED <<applied, disk>>
  <2>1. Job(p, nextVersion) \in JobSet
    BY DEF JobsOK, Job, JobSet
  <2> QED BY <1>1, <2>1 DEF DrawVersion, JobsOK, state, Versions
<1>2. ASSUME NEW c \in Callers, Queue(c) PROVE JobsOK' /\ UNCHANGED <<applied, disk>>
  <2>1. PICK job \in held[c] : pending' = With(pending, job.path, job.version)
    BY <1>2 DEF Queue
  <2>2. job.path \in Paths /\ job.version \in Versions
    BY DEF JobsOK, JobSet
  <2>3. DOMAIN pending' \subseteq Paths /\ \A p \in DOMAIN pending' : pending'[p] \in Versions
    BY <2>1, <2>2 DEF With, JobsOK
  <2> QED BY <1>2, <2>3 DEF Queue, JobsOK
<1>3. ASSUME NEW c \in Callers, StartTask(c) \/ Notify(c) \/ Answered(c) \/ Return(c) \/ Flush(c) \/ Close(c)
      PROVE  JobsOK' /\ UNCHANGED <<applied, disk>>
  BY <1>3 DEF StartTask, Notify, Answered, Return, Flush, Close, JobsOK, state
<1>4. ASSUME NEW c \in Callers, Inline(c) PROVE JobsOK' /\ UNCHANGED <<applied, disk>>
  BY <1>4 DEF Inline, Without, JobsOK
<1>5. ASSUME NEW c \in Callers, WriteInline(c) PROVE JobsOK' /\ DiskOK' /\ Forward
  <2>1. JobsOK'
    BY <1>5 DEF WriteInline, JobsOK, state
  <2> QED BY <1>5, <2>1, ExecuteForward DEF WriteInline, JobsOK
<1>6. ASSUME NEW e \in Callers \cup Tasks, TakePending(e) PROVE JobsOK' /\ UNCHANGED <<applied, disk>>
  BY <1>6, PendingJobs DEF TakePending, JobsOK
<1>7. ASSUME NEW e \in Callers \cup Tasks, WriteHeld(e) PROVE JobsOK' /\ DiskOK' /\ Forward
  <2>1. PICK job \in held[e] : ExecuteNow(job) /\ held' = [held EXCEPT ![e] = @ \ {job}]
    BY <1>7 DEF WriteHeld
  <2>2. job \in JobSet
    BY DEF JobsOK
  <2>3. JobsOK'
    BY <1>7, <2>1 DEF WriteHeld, JobsOK, state
  <2> QED BY <2>1, <2>2, <2>3, ExecuteForward
<1>8. ASSUME NEW t \in Tasks, LoopTop(t) \/ Woken(t) \/ OneWritten(t) \/ BatchDone(t) \/ DropMark(t)
      PROVE  JobsOK' /\ UNCHANGED <<applied, disk>>
  BY <1>8 DEF LoopTop, Woken, OneWritten, BatchDone, DropMark, JobsOK, state
<1>9. ASSUME NEW t \in Tasks, WriteDue(t) PROVE JobsOK' /\ UNCHANGED <<applied, disk>>
  <2>1. PICK S \in DueSets(t) : /\ held' = [held EXCEPT ![t] = {Job(p, pending[p]) : p \in S}]
                                /\ pending' = [p \in DOMAIN pending \ S |-> pending[p]]
    BY <1>9 DEF WriteDue
  <2>2. S \subseteq DOMAIN pending
    BY DEF DueSets
  <2>3. {Job(p, pending[p]) : p \in S} \in SUBSET JobSet
    BY <2>2 DEF JobsOK, Job, JobSet
  <2>4. held' \in [Callers \cup Tasks -> SUBSET JobSet]
    BY <2>1, <2>3 DEF JobsOK
  <2>5. DOMAIN pending' \subseteq Paths /\ \A p \in DOMAIN pending' : pending'[p] \in Versions
    BY <2>1 DEF JobsOK
  <2> QED BY <1>9, <2>4, <2>5 DEF WriteDue, JobsOK
<1>10. ASSUME NEW t \in Tasks, WriteAll(t) PROVE JobsOK' /\ UNCHANGED <<applied, disk>>
  BY <1>10, PendingJobs DEF WriteAll, JobsOK
<1>11. ASSUME NEW t \in Tasks, WriteOne(t) PROVE JobsOK' /\ UNCHANGED <<applied, disk>>
  <2>1. PICK job \in held[t] : /\ held' = [held EXCEPT ![t] = @ \ {job}]
                               /\ blocking' = blocking \cup {[by |-> t, job |-> job]}
    BY <1>11 DEF WriteOne
  <2>2. \A work \in blocking' : work.job \in JobSet
    BY <2>1 DEF JobsOK
  <2>3. held' \in [Callers \cup Tasks -> SUBSET JobSet]
    BY <2>1 DEF JobsOK
  <2> QED BY <1>11, <2>2, <2>3 DEF WriteOne, JobsOK, state
<1>12. ASSUME NEW t \in Tasks, Abort(t) PROVE JobsOK' /\ UNCHANGED <<applied, disk>>
  BY <1>12 DEF Abort, JobsOK, state
<1>13. ASSUME NEW work \in blocking, RunBlocking(work) PROVE JobsOK' /\ DiskOK' /\ Forward
  <2>1. JobsOK'
    BY <1>13 DEF RunBlocking, JobsOK, state
  <2> QED BY <1>13, <2>1, ExecuteForward DEF RunBlocking, JobsOK
<1>14. CASE UNCHANGED vars
  BY <1>14, <1>0 DEF vars, files, JobsOK
<1>15. CASE Next
  <2>1. ASSUME NEW c \in Callers, CallerStep(c) PROVE JobsOK' /\ (UNCHANGED <<applied, disk>> \/ (DiskOK' /\ Forward))
    BY <2>1, <1>2, <1>3, <1>4, <1>5, <1>6, <1>7 DEF CallerStep
  <2>2. ASSUME NEW t \in Tasks, TaskStep(t) PROVE JobsOK' /\ (UNCHANGED <<applied, disk>> \/ (DiskOK' /\ Forward))
    BY <2>2, <1>6, <1>7, <1>8, <1>9, <1>10, <1>11 DEF TaskStep
  <2> QED BY <1>15, <2>1, <2>2, <1>0, <1>1, <1>3, <1>12, <1>13 DEF Next
<1> QED BY <1>14, <1>15

(* The invariant: all versions are sound and the locks remember the disk.  *)
THEOREM VersionsInvariant == Spec => []IInv
<1>1. IInv /\ [Next]_vars => IInv'
  BY Steps
<1> QED BY Initially, <1>1, PTL DEF Spec

(* write_locked, release_unused_locks: whichever locks the table drops, a  *)
(* lock remembers the version on disk.                                     *)
THEOREM AppliedCorrect == Spec => []AppliedTrue
<1>1. IInv => AppliedTrue
  BY DEF IInv, DiskOK
<1> QED BY VersionsInvariant, <1>1, PTL

(* write_versioned: however the writes of callers, tasks and the blocking  *)
(* pool interleave, no file goes back to an older version.                 *)
THEOREM NeverBackCorrect == Spec => NeverBack
<1>1. IInv /\ [Next]_vars => [\A p \in Paths : disk'[p] >= disk[p]]_vars
  BY Steps
<1> QED BY VersionsInvariant, <1>1, PTL DEF Spec, NeverBack

(***************************************************************************)
(* One task                                                                *)
(***************************************************************************)
Placed == DOMAIN at = Callers \cup Tasks

RunInv == Placed /\ OneTask

(* A step that moves one thread or task neither in nor out of the runners. *)
LEMMA MoveKeeps ==
  ASSUME RunInv, NEW e \in Callers \cup Tasks, NEW place, Goes(e, place),
         place \in Alive <=> at[e] \in Alive, running' = running
  PROVE  RunInv'
<1>1. Placed' /\ \A d \in Callers \cup Tasks : at'[d] \in Alive <=> at[d] \in Alive
  BY DEF RunInv, Placed, Goes
<1>2. Runners' = Runners
  BY <1>1 DEF Runners
<1> QED BY <1>1, <1>2 DEF RunInv, OneTask

(* A step that moves nobody.                                               *)
LEMMA StayKeeps == ASSUME RunInv, UNCHANGED <<at, running>> PROVE RunInv'
BY DEF RunInv, Placed, OneTask, Runners

(* Only Queue, StartTask and DropMark change who runs.                     *)
LEMMA RunSteps == ASSUME RunInv, [Next]_vars PROVE RunInv'
<1>1. ASSUME NEW c \in Callers, NEW p \in Paths, DrawVersion(c, p) PROVE RunInv'
  BY <1>1, MoveKeeps DEF DrawVersion, Ready, Alive, state
<1>2. ASSUME NEW c \in Callers, Queue(c) PROVE RunInv'
  <2>1. CASE running
    BY <1>2, <2>1, MoveKeeps DEF Queue, Alive
  <2>2. CASE ~running
    <3>1. Runners = {} /\ running'
      BY <1>2, <2>2 DEF RunInv, OneTask, Queue
    <3>2. Placed' /\ Runners' = {c}
      BY <1>2, <2>2, <3>1 DEF Queue, Goes, Runners, Alive, RunInv, Placed
    <3> QED BY <3>1, <3>2 DEF RunInv, OneTask
  <2> QED BY <2>1, <2>2
<1>3. ASSUME NEW c \in Callers, StartTask(c) PROVE RunInv'
  <2>1. PICK t \in Tasks : /\ at[t] = "unborn"
                           /\ at' = [at EXCEPT ![c] = "notifying", ![t] = "spawned"]
    BY <1>3 DEF StartTask
  <2>2. c \in Runners /\ running /\ running' = running /\ at[c] = "starting"
    BY <1>3 DEF StartTask, Runners, Alive, RunInv, OneTask, state
  <2>3. Runners = {c} /\ c # t
    BY <2>1, <2>2 DEF RunInv, OneTask
  <2>4. Placed' /\ Runners' = {t}
    BY <2>1, <2>3 DEF Runners, Alive, RunInv, Placed
  <2> QED BY <2>2, <2>4 DEF RunInv, OneTask
<1>4. ASSUME NEW c \in Callers, Inline(c) \/ WriteInline(c) \/ Return(c) PROVE RunInv'
  <2>1. CASE Inline(c)
    BY <2>1, MoveKeeps DEF Inline, Alive
  <2>2. CASE WriteInline(c)
    BY <2>2, MoveKeeps DEF WriteInline, Alive, state
  <2>3. CASE Return(c)
    BY <2>3, MoveKeeps DEF Return, Alive, state
  <2> QED BY <1>4, <2>1, <2>2, <2>3
<1>5. ASSUME NEW c \in Callers, Notify(c) PROVE RunInv'
  BY <1>5, MoveKeeps DEF Notify, Alive, state
<1>6. ASSUME NEW c \in Callers, Answered(c) PROVE RunInv'
  BY <1>6, MoveKeeps DEF Answered, Alive, state
<1>7. ASSUME NEW c \in Callers, Flush(c) PROVE RunInv'
  BY <1>7, MoveKeeps DEF Flush, Ready, Alive
<1>8. ASSUME NEW c \in Callers, Close(c) PROVE RunInv'
  BY <1>8, MoveKeeps DEF Close, Ready, Alive
<1>9. ASSUME NEW e \in Callers \cup Tasks, TakePending(e) \/ WriteHeld(e) PROVE RunInv'
  BY <1>9, MoveKeeps, StayKeeps DEF TakePending, WriteHeld, Alive, state
<1>10. ASSUME NEW t \in Tasks, LoopTop(t) \/ WriteDue(t) \/ WriteAll(t) PROVE RunInv'
  BY <1>10, MoveKeeps DEF LoopTop, WriteDue, WriteAll, Alive
<1>11. ASSUME NEW t \in Tasks, Woken(t) \/ WriteOne(t) \/ OneWritten(t) PROVE RunInv'
  BY <1>11, MoveKeeps DEF Woken, WriteOne, OneWritten, Alive, state
<1>12. ASSUME NEW t \in Tasks, BatchDone(t) \/ Abort(t) PROVE RunInv'
  BY <1>12, MoveKeeps DEF BatchDone, Abort, Alive, state
<1>13. ASSUME NEW t \in Tasks, DropMark(t) PROVE RunInv'
  <2>1. Runners = {t} /\ running' = FALSE
    BY <1>13 DEF DropMark, Runners, Alive, RunInv, OneTask
  <2>2. Placed' /\ Runners' = {}
    BY <1>13, <2>1 DEF DropMark, Goes, Runners, Alive, RunInv, Placed
  <2> QED BY <2>1, <2>2 DEF RunInv, OneTask
<1>14. ASSUME NEW work \in blocking, RunBlocking(work) PROVE RunInv'
  BY <1>14, StayKeeps DEF RunBlocking, state
<1>15. CASE UNCHANGED vars
  BY <1>15, StayKeeps DEF vars
<1>16. CASE Next
  <2>1. ASSUME NEW c \in Callers, CallerStep(c) PROVE RunInv'
    BY <2>1, <1>2, <1>3, <1>4, <1>5, <1>6, <1>9 DEF CallerStep
  <2>2. ASSUME NEW t \in Tasks, TaskStep(t) PROVE RunInv'
    BY <2>2, <1>9, <1>10, <1>11, <1>12, <1>13 DEF TaskStep
  <2> QED BY <1>16, <2>1, <2>2, <1>1, <1>7, <1>8, <1>12, <1>14 DEF Next
<1> QED BY <1>15, <1>16

(* write_lazy, start_task, RunningMark: with any number of threads and     *)
(* aborts, `running` stands for exactly one task, and for none else.       *)
THEOREM OneTaskCorrect == Spec => []OneTask
<1>1. Init => RunInv
  BY NamesAssumption DEF Init, RunInv, Placed, OneTask, Runners, Alive
<1>2. RunInv /\ [Next]_vars => RunInv'
  BY RunSteps
<1>3. RunInv => OneTask
  BY DEF RunInv
<1> QED BY <1>1, <1>2, <1>3, PTL DEF Spec

(***************************************************************************)
(* Nothing is lost                                                         *)
(***************************************************************************)
(* What an aborted task had taken out and not begun to write is dropped    *)
(* with it: nothing, if a batch has one write, or nobody aborts.           *)
OneFile == \A p, q \in Paths : p = q
DropsNothing == OneFile \/ MaxAborts = 0

Locals == {"closed", "waiters", "deadline", "written", "refused"}

PlacesOK ==
    /\ Placed
    /\ \A c \in Callers :
         at[c] \in {"idle", "locking", "starting", "notifying", "inline", "waiting", "draining", "writing", "returned"}
    /\ \A t \in Tasks :
         at[t] \in {"unborn", "spawned", "top", "select", "all", "batch", "await", "ending", "draining", "writing"}

(* Who holds writes: a caller between drawing a version and handing it     *)
(* over, a task with a batch, and who writes what was pending.             *)
HeldOK ==
    /\ \A c \in Callers : at[c] \in {"locking", "inline"} => held[c] # {} /\ \A j, k \in held[c] : j = k
    /\ \A c \in Callers : at[c] \notin {"locking", "inline", "writing"} => held[c] = {}
    /\ \A t \in Tasks : at[t] \notin {"batch", "await", "writing"} => held[t] = {}
    /\ OneFile => \A t \in Tasks : /\ at[t] = "await" => held[t] = {}
                                   /\ at[t] = "batch" => \A j, k \in held[t] : j = k

(* A task waits for one write in the pool, and reports its failure before  *)
(* it does anything else.                                                  *)
PoolOK ==
    /\ DOMAIN loop = Tasks /\ \A t \in Tasks : Locals \subseteq DOMAIN loop[t]
    /\ \A work \in blocking : /\ work.by \in Tasks /\ at[work.by] \in {"await", "ending", "draining", "writing"}
                              /\ at[work.by] = "await" => loop[work.by].refused = {}
    /\ \A v, w \in blocking : v.by = w.by => v = w
    /\ \A t \in Tasks : at[t] # "await" => loop[t].refused = {}

LogOK == log \in [Paths -> Seq(Versions)] /\ aborts \in 0..MaxAborts

(* What has become of a version: it is on disk or superseded there,        *)
(* refused, pending, held, in the pool, about to be reported, or about to  *)
(* be replaced.                                                            *)
Known(p, version) ==
    \/ disk[p] >= version
    \/ version \in failed \cup unheard
    \/ p \in DOMAIN pending /\ pending[p] = version
    \/ \E e \in Callers \cup Tasks : Job(p, version) \in held[e]
    \/ \E work \in blocking : work.job = Job(p, version)
    \/ \E t \in Tasks : version \in loop[t].refused
    \/ \E c \in Callers : at[c] = "inline" /\ \E job \in held[c] : job.path = p

LastKnown == \A p \in Paths : Len(log[p]) = 0 \/ Known(p, Last(p))

Owners == PlacesOK /\ HeldOK /\ PoolOK /\ LogOK

OwnersInv == IInv /\ Owners

LostInv == OwnersInv /\ LastKnown

LEMMA Apart == ASSUME NEW c \in Callers PROVE c \notin Tasks
BY NamesAssumption, BoundsAssumption DEF Tasks

(* A caller that moves alone.                                              *)
LEMMA CallerMoves ==
  ASSUME OwnersInv, NEW c \in Callers, NEW place, Goes(c, place),
         place \in {"idle", "locking", "starting", "notifying", "inline", "waiting", "draining", "writing", "returned"},
         \A e \in Callers \cup Tasks : e # c => held'[e] = held[e],
         place \in {"locking", "inline"} => held'[c] # {} /\ \A j, k \in held'[c] : j = k,
         place \notin {"locking", "inline", "writing"} => held'[c] = {},
         UNCHANGED <<blocking, loop, aborts>>, LogOK'
  PROVE  Owners'
<1>1. /\ Placed /\ DOMAIN at' = DOMAIN at /\ at'[c] = place
      /\ \A e \in Callers \cup Tasks : e # c => at'[e] = at[e]
  BY DEF Goes, OwnersInv, Owners, PlacesOK, Placed
<1>2. \A t \in Tasks : at'[t] = at[t] /\ held'[t] = held[t]
  BY <1>1, Apart
<1>3. PlacesOK'
  BY <1>1, <1>2 DEF OwnersInv, Owners, PlacesOK, Placed
<1>4. HeldOK'
  BY <1>1, <1>2 DEF OwnersInv, Owners, HeldOK
<1>5. PoolOK'
  BY <1>2 DEF OwnersInv, Owners, PoolOK
<1> QED BY <1>3, <1>4, <1>5 DEF Owners

(* A task that moves alone.                                                *)
LEMMA TaskMoves ==
  ASSUME OwnersInv, NEW t \in Tasks, NEW place, Goes(t, place),
         place \in {"spawned", "top", "select", "all", "batch", "await", "ending", "draining", "writing"},
         \A e \in Callers \cup Tasks : e # t => held'[e] = held[e],
         place \notin {"batch", "await", "writing"} => held'[t] = {},
         OneFile => /\ place = "await" => held'[t] = {}
                    /\ place = "batch" => \A j, k \in held'[t] : j = k,
         DOMAIN loop' = Tasks, Locals \subseteq DOMAIN loop'[t],
         \A u \in Tasks : u # t => loop'[u] = loop[u],
         loop'[t].refused = {},
         UNCHANGED <<blocking, log>>, aborts' \in 0..MaxAborts,
         \A work \in blocking : work.by = t => place \in {"await", "ending", "draining", "writing"}
  PROVE  Owners'
<1>1. /\ Placed /\ DOMAIN at' = DOMAIN at /\ at'[t] = place
      /\ \A e \in Callers \cup Tasks : e # t => at'[e] = at[e]
  BY DEF Goes, OwnersInv, Owners, PlacesOK, Placed
<1>2. \A c \in Callers : at'[c] = at[c] /\ held'[c] = held[c]
  BY <1>1, Apart
<1>3. PlacesOK'
  BY <1>1, <1>2 DEF OwnersInv, Owners, PlacesOK, Placed
<1>4. HeldOK'
  BY <1>1, <1>2 DEF OwnersInv, Owners, HeldOK
<1>5. PoolOK'
  BY <1>1 DEF OwnersInv, Owners, PoolOK
<1> QED BY <1>3, <1>4, <1>5 DEF OwnersInv, Owners, LogOK

(* A step that moves nobody and starts no write.                           *)
LEMMA NobodyMoves ==
  ASSUME OwnersInv, UNCHANGED <<at, loop, log, aborts, blocking>>,
         \A e \in Callers \cup Tasks : at[e] # "writing" => held'[e] = held[e]
  PROVE  Owners'
<1>1. HeldOK'
  <2>1. ASSUME NEW c \in Callers
        PROVE  /\ at'[c] \in {"locking", "inline"} => held'[c] # {} /\ \A j, k \in held'[c] : j = k
               /\ at'[c] \notin {"locking", "inline", "writing"} => held'[c] = {}
    BY DEF OwnersInv, Owners, HeldOK
  <2>2. ASSUME NEW t \in Tasks, at'[t] # "writing"
        PROVE  held'[t] = held[t] /\ at'[t] = at[t]
    BY <2>2
  <2> QED BY <2>1, <2>2 DEF OwnersInv, Owners, HeldOK
<1> QED BY <1>1 DEF OwnersInv, Owners, PlacesOK, Placed, PoolOK, LogOK

LEMMA Logged ==
  ASSUME OwnersInv, NEW job \in JobSet, Accepted(job)
  PROVE  /\ log' \in [Paths -> Seq(Versions)]
         /\ \A p \in Paths : p # job.path => log'[p] = log[p]
         /\ Last(job.path)' = job.version /\ Len(log'[job.path]) = Len(log[job.path]) + 1
<1>1. log \in [Paths -> Seq(Versions)] /\ job.path \in Paths /\ job.version \in Versions
  BY DEF OwnersInv, Owners, LogOK, JobSet
<1>2. log' = [log EXCEPT ![job.path] = Append(log[job.path], job.version)]
  BY <1>1 DEF Accepted
<1> PICK p : p = job.path
  OBVIOUS
<1> PICK s : s = Append(log[p], job.version)
  OBVIOUS
<1>3. s \in Seq(Versions) /\ Len(s) = Len(log[p]) + 1 /\ s[Len(s)] = job.version
  BY <1>1
<1>4. log'[p] = s /\ \A q \in Paths : q # p => log'[q] = log[q]
  BY <1>1, <1>2
<1>5. log' \in [Paths -> Seq(Versions)]
  BY <1>1, <1>2, <1>3
<1>6. Last(job.path)' = log'[p][Len(log'[p])]
  BY <1>2 DEF Last
<1> QED BY <1>3, <1>4, <1>5, <1>6

LEMMA PendingOne == ASSUME IInv, OneFile PROVE \A j, k \in Jobs(pending) : j = k
BY DEF IInv, JobsOK, OneFile, Jobs, Job

LEMMA OwnersSteps ==
  ASSUME OwnersInv, [Next]_vars
  PROVE  OwnersInv'
<1>0. IInv' /\ IInv
  BY Steps DEF OwnersInv, Owners
<1>a. held \in [Callers \cup Tasks -> SUBSET JobSet]
  BY DEF OwnersInv, Owners, IInv, JobsOK
<1>b. UNCHANGED <<log, aborts>> => LogOK'
  BY DEF OwnersInv, Owners, LogOK
<1>c. \A t \in Tasks : Locals \subseteq DOMAIN loop[t] /\ DOMAIN loop = Tasks
                       /\ (at[t] # "await" => loop[t].refused = {})
  BY DEF OwnersInv, Owners, PoolOK
<1>d. \A work \in blocking : at[work.by] \in {"await", "ending", "draining", "writing"}
  BY DEF OwnersInv, Owners, PoolOK
<1>1. ASSUME NEW c \in Callers, NEW p \in Paths, DrawVersion(c, p) PROVE Owners'
  BY <1>1, <1>a, <1>b, CallerMoves DEF DrawVersion
<1>2. ASSUME NEW c \in Callers, Queue(c) PROVE Owners'
  <2>1. PICK job \in held[c] : Accepted(job)
    BY <1>2 DEF Queue
  <2>2. LogOK'
    BY <1>2, <1>a, <2>1, Logged DEF Queue, OwnersInv, Owners, LogOK
  <2> QED BY <1>2, <1>a, <2>2, CallerMoves DEF Queue
<1>3. ASSUME NEW c \in Callers, StartTask(c) PROVE Owners'
  <2>1. PICK t \in Tasks : at[t] = "unborn" /\ at' = [at EXCEPT ![c] = "notifying", ![t] = "spawned"]
    BY <1>3 DEF StartTask
  <2>2. at[c] = "starting" /\ UNCHANGED <<held, loop, blocking, log, aborts>>
    BY <1>3 DEF StartTask
  <2>3. Placed /\ c # t
    BY Apart DEF OwnersInv, Owners, PlacesOK
  <2>4. /\ DOMAIN at' = DOMAIN at /\ at'[c] = "notifying" /\ at'[t] = "spawned"
        /\ \A e \in Callers \cup Tasks : e # c /\ e # t => at'[e] = at[e]
    BY <2>1, <2>3 DEF Placed
  <2>5. \A d \in Callers : d # t
    BY Apart
  <2>6. \A u \in Tasks : u # c
    BY Apart
  <2>7. PlacesOK'
    BY <2>1, <2>3, <2>4, <2>5, <2>6 DEF OwnersInv, Owners, PlacesOK, Placed
  <2>8. HeldOK'
    BY <2>1, <2>2, <2>4, <2>5, <2>6 DEF OwnersInv, Owners, HeldOK
  <2>9. PoolOK'
    BY <2>1, <2>2, <2>4, <2>6 DEF OwnersInv, Owners, PoolOK
  <2> QED BY <1>b, <2>2, <2>7, <2>8, <2>9 DEF Owners
<1>4. ASSUME NEW c \in Callers, Inline(c) PROVE Owners'
  <2>1. held[c] # {} /\ \A j, k \in held[c] : j = k
    BY <1>4 DEF Inline, OwnersInv, Owners, HeldOK
  <2> QED BY <1>4, <1>b, <2>1, CallerMoves DEF Inline
<1>5. ASSUME NEW c \in Callers, WriteInline(c) PROVE Owners'
  <2>1. PICK job \in held[c] : Accepted(job)
    BY <1>5 DEF WriteInline
  <2>2. LogOK'
    BY <1>5, <1>a, <2>1, Logged DEF WriteInline, OwnersInv, Owners, LogOK
  <2> QED BY <1>5, <1>a, <2>2, CallerMoves DEF WriteInline
<1>6. ASSUME NEW c \in Callers, Notify(c) \/ Answered(c) PROVE Owners'
  <2>1. at[c] \in {"notifying", "waiting"} /\ held[c] = {} /\ UNCHANGED <<held, loop, blocking, log, aborts>>
    BY <1>6 DEF Notify, Answered, OwnersInv, Owners, HeldOK
  <2>2. \E place \in {"returned", "waiting", "draining"} : Goes(c, place)
    BY <1>6 DEF Notify, Answered
  <2> QED BY <1>b, <2>1, <2>2, CallerMoves
<1>7. ASSUME NEW c \in Callers, Flush(c) \/ Close(c) PROVE Owners'
  <2>1. Ready(c) /\ held[c] = {} /\ UNCHANGED <<held, loop, blocking, log, aborts>>
    BY <1>7 DEF Flush, Close, Ready, OwnersInv, Owners, HeldOK
  <2>2. \E place \in {"notifying", "draining"} : Goes(c, place)
    BY <1>7 DEF Flush, Close
  <2> QED BY <1>b, <2>1, <2>2, CallerMoves
<1>8. ASSUME NEW c \in Callers, Return(c) PROVE Owners'
  BY <1>8, <1>b, CallerMoves DEF Return
<1>9. ASSUME NEW c \in Callers, TakePending(c) PROVE Owners'
  BY <1>9, <1>a, <1>b, CallerMoves DEF TakePending
<1>10. ASSUME NEW t \in Tasks, TakePending(t) PROVE Owners'
  BY <1>10, <1>a, <1>c, TaskMoves DEF TakePending, OwnersInv, Owners, LogOK
<1>11. ASSUME NEW e \in Callers \cup Tasks, WriteHeld(e) PROVE Owners'
  BY <1>11, <1>a, NobodyMoves DEF WriteHeld
<1>12. ASSUME NEW t \in Tasks, LoopTop(t) PROVE Owners'
  <2>1. held[t] = {} /\ at[t] # "await" /\ \A work \in blocking : work.by # t
    BY <1>12, <1>d DEF LoopTop, OwnersInv, Owners, HeldOK
  <2>2. DOMAIN loop' = Tasks /\ Locals \subseteq DOMAIN loop'[t] /\ loop'[t].refused = {}
        /\ \A u \in Tasks : u # t => loop'[u] = loop[u]
    BY <1>12, <1>c, <2>1 DEF LoopTop, Locals
  <2>3. \E place \in {"all", "select"} : Goes(t, place)
    BY <1>12 DEF LoopTop
  <2> QED BY <1>12, <2>1, <2>2, <2>3, TaskMoves DEF LoopTop, OwnersInv, Owners, LogOK
<1>13. ASSUME NEW t \in Tasks, Woken(t) PROVE Owners'
  <2>1. held[t] = {} /\ \A work \in blocking : work.by # t
    BY <1>13, <1>d DEF Woken, OwnersInv, Owners, HeldOK
  <2> QED BY <1>13, <1>c, <2>1, TaskMoves DEF Woken, OwnersInv, Owners, LogOK
<1>14. ASSUME NEW t \in Tasks, WriteDue(t) \/ WriteAll(t) PROVE Owners'
  <2>1. \A work \in blocking : work.by # t
    BY <1>14, <1>d DEF WriteDue, WriteAll
  <2>2. at[t] # "await" /\ Goes(t, "batch") /\ UNCHANGED <<loop, blocking, log, aborts>>
    BY <1>14 DEF WriteDue, WriteAll
  <2>3. \A e \in Callers \cup Tasks : e # t => held'[e] = held[e]
    BY <1>14, <1>a DEF WriteDue, WriteAll
  <2>4. held'[t] \subseteq Jobs(pending)
    <3>1. CASE WriteDue(t)
      <4>1. PICK S \in DueSets(t) : held' = [held EXCEPT ![t] = {Job(p, pending[p]) : p \in S}]
        BY <3>1 DEF WriteDue
      <4>2. S \subseteq DOMAIN pending
        BY DEF DueSets
      <4>3. held'[t] = {Job(p, pending[p]) : p \in S}
        BY <1>a, <4>1
      <4> QED BY <4>2, <4>3 DEF Jobs
    <3>2. CASE WriteAll(t)
      BY <1>a, <3>2 DEF WriteAll
    <3> QED BY <1>14, <3>1, <3>2
  <2>5. OneFile => \A j, k \in held'[t] : j = k
    BY <1>0, <2>4, PendingOne
  <2> QED BY <1>c, <2>1, <2>2, <2>3, <2>5, TaskMoves DEF OwnersInv, Owners, LogOK
<1>15. ASSUME NEW t \in Tasks, WriteOne(t) PROVE Owners'
  <2>1. PICK job \in held[t] :
           /\ held' = [held EXCEPT ![t] = @ \ {job}]
           /\ blocking' = blocking \cup {[by |-> t, job |-> job]}
           /\ loop' = [loop EXCEPT ![t].written = Append(SelectSeq(@, LAMBDA p : p # job.path), job.path)]
    BY <1>15 DEF WriteOne
  <2>2. at[t] = "batch" /\ Goes(t, "await") /\ UNCHANGED <<log, aborts>>
    BY <1>15 DEF WriteOne
  <2>3. \A work \in blocking : work.by # t
    BY <1>d, <2>2
  <2>4. /\ Placed /\ DOMAIN at' = DOMAIN at /\ at'[t] = "await"
        /\ \A e \in Callers \cup Tasks : e # t => at'[e] = at[e]
    BY <2>2 DEF OwnersInv, Owners, PlacesOK, Placed, Goes
  <2>5. \A c \in Callers : at'[c] = at[c] /\ held'[c] = held[c]
    BY <1>a, <2>1, <2>4, Apart
  <2>6. DOMAIN loop' = Tasks /\ Locals \subseteq DOMAIN loop'[t] /\ loop'[t].refused = {}
        /\ \A u \in Tasks : u # t => loop'[u] = loop[u]
    <3> DEFINE w == Append(SelectSeq(loop[t].written, LAMBDA p : p # job.path), job.path)
    <3>1. loop' = [loop EXCEPT ![t] = [loop[t] EXCEPT !.written = w]]
      BY <2>1, Zenon
    <3> HIDE DEF w
    <3> QED BY <1>c, <2>2, <3>1 DEF Locals
  <2>7. PlacesOK'
    BY <2>4, <2>5 DEF OwnersInv, Owners, PlacesOK, Placed
  <2>8. HeldOK'
    <3>1. OneFile => held'[t] = {}
      BY <1>a, <2>1, <2>2 DEF OwnersInv, Owners, HeldOK
    <3>2. \A u \in Tasks : u # t => held'[u] = held[u] /\ at'[u] = at[u]
      BY <1>a, <2>1, <2>4
    <3> QED BY <2>4, <2>5, <3>1, <3>2 DEF OwnersInv, Owners, HeldOK
  <2>9. PoolOK'
    BY <2>1, <2>3, <2>4, <2>6 DEF OwnersInv, Owners, PoolOK
  <2> QED BY <1>b, <2>2, <2>7, <2>8, <2>9 DEF Owners
<1>16. ASSUME NEW t \in Tasks, OneWritten(t) PROVE Owners'
  <2>1. \A work \in blocking : work.by # t
    BY <1>16 DEF OneWritten
  <2>2. DOMAIN loop' = Tasks /\ Locals \subseteq DOMAIN loop'[t] /\ loop'[t].refused = {}
        /\ \A u \in Tasks : u # t => loop'[u] = loop[u]
    BY <1>16, <1>c DEF OneWritten, Locals
  <2>3. OneFile => held[t] = {}
    BY <1>16 DEF OneWritten, OwnersInv, Owners, HeldOK
  <2> QED BY <1>16, <2>1, <2>2, <2>3, TaskMoves DEF OneWritten, OwnersInv, Owners, LogOK
<1>17. ASSUME NEW t \in Tasks, BatchDone(t) PROVE Owners'
  <2>1. \A work \in blocking : work.by # t
    BY <1>17, <1>d DEF BatchDone
  <2>2. DOMAIN loop' = Tasks /\ Locals \subseteq DOMAIN loop'[t] /\ loop'[t].refused = {}
        /\ \A u \in Tasks : u # t => loop'[u] = loop[u]
    BY <1>17, <1>c DEF BatchDone, Locals
  <2>3. \E place \in {"ending", "top"} : Goes(t, place)
    BY <1>17 DEF BatchDone
  <2> QED BY <1>17, <2>1, <2>2, <2>3, TaskMoves DEF BatchDone, OwnersInv, Owners, LogOK
<1>18. ASSUME NEW t \in Tasks, Abort(t) PROVE Owners'
  <2>1. DOMAIN loop' = Tasks /\ Locals \subseteq DOMAIN loop'[t] /\ loop'[t].refused = {}
        /\ \A u \in Tasks : u # t => loop'[u] = loop[u]
    BY <1>18, <1>c DEF Abort, Locals
  <2>2. aborts' \in 0..MaxAborts
    BY <1>18, BoundsAssumption DEF Abort, OwnersInv, Owners, LogOK
  <2>3. held'[t] = {} /\ \A e \in Callers \cup Tasks : e # t => held'[e] = held[e]
    BY <1>18, <1>a DEF Abort
  <2> QED BY <1>18, <2>1, <2>2, <2>3, TaskMoves DEF Abort
<1>19. ASSUME NEW t \in Tasks, DropMark(t) PROVE Owners'
  <2>1. DOMAIN loop' = Tasks /\ Locals \subseteq DOMAIN loop'[t] /\ loop'[t].refused = {}
        /\ \A u \in Tasks : u # t => loop'[u] = loop[u]
    BY <1>19, <1>c DEF DropMark, Locals, Fresh
  <2>2. held[t] = {}
    BY <1>19 DEF DropMark, OwnersInv, Owners, HeldOK
  <2> QED BY <1>19, <2>1, <2>2, TaskMoves DEF DropMark, OwnersInv, Owners, LogOK
<1>20. ASSUME NEW work \in blocking, RunBlocking(work) PROVE Owners'
  <2>1. PICK version :
           loop' = [loop EXCEPT ![work.by].refused = IF at[work.by] = "await" THEN version ELSE @]
    BY <1>20 DEF RunBlocking
  <2>2. /\ work.by \in Tasks /\ blocking' = blocking \ {work} /\ UNCHANGED <<at, held, log, aborts>>
        /\ \A v \in blocking' : v.by # work.by
    BY <1>20 DEF RunBlocking, OwnersInv, Owners, PoolOK
  <2>3. DOMAIN loop' = Tasks /\ Locals \subseteq DOMAIN loop'[work.by]
        /\ (at[work.by] # "await" => loop'[work.by].refused = {})
        /\ \A u \in Tasks : u # work.by => loop'[u] = loop[u]
    BY <1>c, <2>1, <2>2 DEF Locals
  <2>4. PoolOK'
    BY <2>2, <2>3 DEF OwnersInv, Owners, PoolOK
  <2> QED BY <1>b, <2>2, <2>4 DEF OwnersInv, Owners, PlacesOK, Placed, HeldOK
<1>21. CASE UNCHANGED vars
  <2>1. UNCHANGED <<at, loop, log, aborts, blocking, held>>
    BY <1>21 DEF vars
  <2> QED BY <1>0, <2>1, NobodyMoves DEF OwnersInv
<1>22. CASE Next
  <2>1. ASSUME NEW c \in Callers, CallerStep(c) PROVE Owners'
    BY <2>1, <1>2, <1>3, <1>4, <1>5, <1>6, <1>8, <1>9, <1>11 DEF CallerStep
  <2>2. ASSUME NEW t \in Tasks, TaskStep(t) PROVE Owners'
    BY <2>2, <1>10, <1>11, <1>12, <1>13, <1>14, <1>15, <1>16, <1>17, <1>19 DEF TaskStep
  <2>3. ASSUME NEW c \in Callers,
               CallerStep(c) \/ Flush(c) \/ Close(c) \/ \E p \in Paths : DrawVersion(c, p)
        PROVE  Owners'
    BY <2>1, <2>3, <1>1, <1>7
  <2>4. ASSUME NEW t \in Tasks, TaskStep(t) \/ Abort(t) PROVE Owners'
    BY <2>2, <2>4, <1>18
  <2> QED BY <1>0, <1>20, <1>22, <2>3, <2>4 DEF Next, OwnersInv
<1> QED BY <1>21, <1>22

KnownStays == \A p \in Paths, version \in Versions : Known(p, version) => Known(p, version)'

LEMMA LastVersion ==
  ASSUME LogOK, NEW p \in Paths, Len(log[p]) # 0
  PROVE  Last(p) \in Versions
BY DEF LogOK, Last

LEMMA LastStays ==
  ASSUME OwnersInv, LastKnown, log' = log, KnownStays
  PROVE  LastKnown'
<1> SUFFICES ASSUME NEW p \in Paths, Len(log[p]) # 0 PROVE Known(p, Last(p))'
  BY DEF LastKnown
<1>1. PICK version : version = Last(p)
  OBVIOUS
<1>2. version \in Versions /\ Known(p, version)
  BY <1>1, LastVersion DEF LastKnown, OwnersInv, Owners
<1>3. Known(p, version)' /\ version = Last(p)'
  BY <1>1, <1>2 DEF KnownStays, Last
<1> QED BY <1>3

(* The write that is done, refused or not.                                 *)
LEMMA Executed ==
  ASSUME IInv, NEW job \in JobSet, NEW refused \in BOOLEAN, Execute(job, refused), ~refused
  PROVE  disk'[job.path] >= job.version
BY DEF IInv, DiskOK, AppliedTrue, Stale, Execute, JobSet, Versions

LEMMA Jobbed ==
  ASSUME NEW job \in JobSet
  PROVE  job.path \in Paths /\ job.version \in Versions /\ job = Job(job.path, job.version)
         /\ \A p, version : job = Job(p, version) => p = job.path /\ version = job.version
BY DEF JobSet, Job

LEMMA KnownSteps ==
  ASSUME OwnersInv, LastKnown, OneFile \/ aborts' = 0, [Next]_vars
  PROVE  LastKnown'
<1>0. IInv /\ \A p \in Paths : disk'[p] >= disk[p] /\ disk[p] \in Nat /\ disk'[p] \in Nat
  BY Steps DEF OwnersInv, IInv, DiskOK
<1>a. held \in [Callers \cup Tasks -> SUBSET JobSet]
  BY <1>0 DEF IInv, JobsOK
<1>b. Placed /\ DOMAIN loop = Tasks /\ \A t \in Tasks : Locals \subseteq DOMAIN loop[t]
  BY DEF OwnersInv, Owners, PlacesOK, PoolOK
<1>c. \A version \in Versions : version \in Nat
  BY DEF Versions
<1>d. ASSUME UNCHANGED <<pending, held, blocking, disk, failed, unheard>>,
             \A t \in Tasks : loop'[t].refused = loop[t].refused,
             \A c \in Callers : at[c] = "inline" => at'[c] = "inline"
      PROVE  KnownStays
  BY <1>d DEF KnownStays, Known
<1>1. ASSUME NEW c \in Callers, NEW p \in Paths, DrawVersion(c, p) PROVE LastKnown'
  <2>1. held[c] = {} /\ at[c] # "inline"
    BY <1>1 DEF DrawVersion, Ready, OwnersInv, Owners, HeldOK
  <2>2. /\ \A e \in Callers \cup Tasks : e # c => held'[e] = held[e] /\ at'[e] = at[e]
        /\ UNCHANGED <<pending, loop, blocking, disk, failed, unheard, log>>
    BY <1>1, <1>a, <1>b DEF DrawVersion, Goes, Placed, state, files
  <2>3. KnownStays
    BY <2>1, <2>2 DEF KnownStays, Known
  <2> QED BY <2>2, <2>3, LastStays
<1>2. ASSUME NEW c \in Callers, Queue(c) PROVE LastKnown'
  <2>1. PICK job \in held[c] : pending' = With(pending, job.path, job.version) /\ Accepted(job)
    BY <1>2 DEF Queue
  <2>2. job \in JobSet /\ \A j \in held[c] : j = job
    BY <1>2, <1>a DEF Queue, OwnersInv, Owners, HeldOK
  <2>3. /\ \A e \in Callers \cup Tasks : e # c => held'[e] = held[e] /\ at'[e] = at[e]
        /\ at[c] # "inline"
        /\ UNCHANGED <<loop, blocking, disk, failed, unheard>>
    BY <1>2, <1>a, <1>b DEF Queue, Goes, Placed, files
  <2>4. /\ job.path \in DOMAIN pending' /\ pending'[job.path] = job.version
        /\ \A p \in DOMAIN pending : p # job.path => p \in DOMAIN pending' /\ pending'[p] = pending[p]
    BY <2>1 DEF With
  <2>5. ASSUME NEW p \in Paths, p # job.path, NEW version, Known(p, version) PROVE Known(p, version)'
    <3>1. Job(p, version) \notin held[c]
      BY <2>2, <2>5, Jobbed
    <3> QED BY <2>3, <2>4, <2>5, <3>1 DEF Known
  <2>6. ASSUME NEW p \in Paths, Len(log'[p]) # 0 PROVE Known(p, Last(p))'
    <3>1. CASE p = job.path
      <4>1. Last(p)' = job.version
        BY <2>1, <2>2, <3>1, Logged
      <4>2. p \in DOMAIN pending' /\ pending'[p] = Last(p)'
        BY <2>4, <3>1, <4>1
      <4> QED BY <4>2 DEF Known
    <3>2. CASE p # job.path
      <4>1. log'[p] = log[p]
        BY <2>1, <2>2, <3>2, Logged
      <4>2. PICK version : version = Last(p)
        OBVIOUS
      <4>3. version = Last(p)' /\ Known(p, version)
        BY <2>6, <4>1, <4>2 DEF Last, LastKnown
      <4>4. Known(p, version)'
        BY <2>5, <3>2, <4>3
      <4> QED BY <4>3, <4>4
    <3> QED BY <3>1, <3>2
  <2> QED BY <2>6 DEF LastKnown
<1>3. ASSUME NEW c \in Callers, StartTask(c) \/ Notify(c) \/ Answered(c) \/ Return(c) \/ Flush(c) \/ Close(c)
      PROVE  LastKnown'
  <2>1. UNCHANGED <<pending, loop, held, blocking, disk, failed, unheard, log>> /\ at[c] # "inline"
    BY <1>3 DEF StartTask, Notify, Answered, Return, Flush, Close, state, files, Ready
  <2>2. \A d \in Callers : at[d] = "inline" => at'[d] = "inline"
    <3>1. CASE StartTask(c)
      <4>1. PICK t \in Tasks : at' = [at EXCEPT ![c] = "notifying", ![t] = "spawned"]
        BY <3>1 DEF StartTask
      <4> QED BY <1>b, <2>1, <4>1, Apart DEF Placed
    <3>2. CASE \E place : Goes(c, place)
      BY <1>b, <2>1, <3>2 DEF Goes, Placed
    <3> QED BY <1>3, <3>1, <3>2 DEF Notify, Answered, Return, Flush, Close
  <2> QED BY <1>d, <2>1, <2>2, LastStays
<1>4. ASSUME NEW c \in Callers, Inline(c) PROVE LastKnown'
  <2>1. PICK job \in held[c] : pending' = Without(pending, job.path)
    BY <1>4 DEF Inline
  <2>2. /\ at'[c] = "inline" /\ \A d \in Callers : at[d] = "inline" => at'[d] = "inline"
        /\ UNCHANGED <<held, loop, blocking, disk, failed, unheard, log>>
    BY <1>4, <1>b DEF Inline, Goes, Placed, files
  <2>3. \A p \in DOMAIN pending : p # job.path => p \in DOMAIN pending' /\ pending'[p] = pending[p]
    BY <2>1 DEF Without
  <2>4. KnownStays
    BY <2>1, <2>2, <2>3 DEF KnownStays, Known
  <2> QED BY <2>2, <2>4, LastStays
<1>5. ASSUME NEW c \in Callers, WriteInline(c) PROVE LastKnown'
  <2>1. PICK job \in held[c] : ExecuteNow(job) /\ Accepted(job)
    BY <1>5 DEF WriteInline
  <2>2. job \in JobSet /\ \A j \in held[c] : j = job
    BY <1>5, <1>a DEF WriteInline, OwnersInv, Owners, HeldOK
  <2>3. /\ \A e \in Callers \cup Tasks : e # c => held'[e] = held[e] /\ at'[e] = at[e]
        /\ UNCHANGED <<pending, loop, blocking, unheard>>
    BY <1>5, <1>a, <1>b DEF WriteInline, Goes, Placed, state
  <2>4. failed \subseteq failed' /\ (disk'[job.path] >= job.version \/ job.version \in failed')
    BY <1>0, <2>1, <2>2, Executed DEF ExecuteNow
  <2>5. ASSUME NEW p \in Paths, p # job.path, NEW version \in Versions, Known(p, version) PROVE Known(p, version)'
    <3>1. Job(p, version) \notin held[c] /\ \A j \in held[c] : j.path # p
      BY <2>2, <2>5, Jobbed
    <3>2. disk[p] >= version => disk'[p] >= version
      BY <1>0, <1>c
    <3> QED BY <2>3, <2>4, <2>5, <3>1, <3>2 DEF Known
  <2>6. ASSUME NEW p \in Paths, Len(log'[p]) # 0 PROVE Known(p, Last(p))'
    <3>1. CASE p = job.path
      <4>1. Last(p)' = job.version
        BY <2>1, <2>2, <3>1, Logged
      <4>2. disk'[p] >= Last(p)' \/ Last(p)' \in failed'
        BY <2>4, <3>1, <4>1
      <4> QED BY <4>2 DEF Known
    <3>2. CASE p # job.path
      <4>1. log'[p] = log[p]
        BY <2>1, <2>2, <3>2, Logged
      <4>2. PICK version : version = Last(p)
        OBVIOUS
      <4>3. version = Last(p)' /\ Known(p, version) /\ version \in Versions
        BY <2>6, <4>1, <4>2, LastVersion DEF Last, LastKnown, OwnersInv, Owners
      <4>4. Known(p, version)'
        BY <2>5, <3>2, <4>3
      <4> QED BY <4>3, <4>4
    <3> QED BY <3>1, <3>2
  <2> QED BY <2>6 DEF LastKnown
<1>6. ASSUME NEW e \in Callers \cup Tasks, NEW S \in SUBSET DOMAIN pending, held[e] = {},
             held' = [held EXCEPT ![e] = {Job(p, pending[p]) : p \in S}],
             pending' = [p \in DOMAIN pending \ S |-> pending[p]],
             \A c \in Callers : at[c] = "inline" => at'[c] = "inline",
             UNCHANGED <<loop, blocking, disk, failed, unheard, log>>
      PROVE  LastKnown'
  <2>1. \A d \in Callers \cup Tasks : d # e => held'[d] = held[d]
    BY <1>a, <1>6
  <2>2. \A p \in S : Job(p, pending[p]) \in held'[e]
    BY <1>a, <1>6
  <2>3. \A p \in DOMAIN pending : p \notin S => p \in DOMAIN pending' /\ pending'[p] = pending[p]
    BY <1>6
  <2>4. KnownStays
    <3> SUFFICES ASSUME NEW p \in Paths, NEW version, Known(p, version) PROVE Known(p, version)'
      BY DEF KnownStays
    <3>1. CASE p \in DOMAIN pending /\ pending[p] = version
      BY <2>2, <2>3, <3>1 DEF Known
    <3>2. CASE \E c \in Callers : at[c] = "inline" /\ \E job \in held[c] : job.path = p
      <4>1. PICK c \in Callers : at[c] = "inline" /\ \E job \in held[c] : job.path = p
        BY <3>2
      <4>2. c # e
        BY <1>6, <4>1
      <4>3. at'[c] = "inline" /\ \E job \in held'[c] : job.path = p
        BY <1>6, <2>1, <4>1, <4>2
      <4> QED BY <4>3 DEF Known
    <3>3. CASE \E d \in Callers \cup Tasks : Job(p, version) \in held[d]
      BY <1>6, <2>1, <3>3 DEF Known
    <3>4. CASE \/ disk[p] >= version \/ version \in failed \cup unheard
               \/ \E work \in blocking : work.job = Job(p, version)
               \/ \E t \in Tasks : version \in loop[t].refused
      BY <1>6, <3>4 DEF Known
    <3> QED BY <3>1, <3>2, <3>3, <3>4 DEF Known
  <2> QED BY <1>6, <2>4, LastStays
<1>7. ASSUME NEW e \in Callers \cup Tasks, TakePending(e) PROVE LastKnown'
  <2>1. held[e] = {} /\ at[e] = "draining"
    BY <1>7 DEF TakePending, OwnersInv, Owners, HeldOK
  <2>2. \A c \in Callers : at[c] = "inline" => at'[c] = "inline"
    BY <1>7, <1>b, <2>1 DEF TakePending, Goes, Placed
  <2>3. pending' = [p \in DOMAIN pending \ DOMAIN pending |-> pending[p]]
    BY <1>7 DEF TakePending
  <2> QED BY <1>6, <1>7, <2>1, <2>2, <2>3 DEF TakePending, Jobs, files
<1>8. ASSUME NEW e \in Callers \cup Tasks, WriteHeld(e) PROVE LastKnown'
  <2>1. PICK job \in held[e] : ExecuteNow(job) /\ held' = [held EXCEPT ![e] = @ \ {job}]
    BY <1>8 DEF WriteHeld
  <2>2. job \in JobSet /\ at[e] = "writing" /\ UNCHANGED <<pending, loop, at, blocking, unheard, log>>
    BY <1>8, <1>a DEF WriteHeld, state
  <2>3. /\ \A d \in Callers \cup Tasks : d # e => held'[d] = held[d]
        /\ \A j \in held[e] : j # job => j \in held'[e]
    BY <1>a, <2>1
  <2>4. failed \subseteq failed' /\ (disk'[job.path] >= job.version \/ job.version \in failed')
    BY <1>0, <2>1, <2>2, Executed DEF ExecuteNow
  <2>5. KnownStays
    <3> SUFFICES ASSUME NEW p \in Paths, NEW version \in Versions, Known(p, version) PROVE Known(p, version)'
      BY DEF KnownStays
    <3>1. disk[p] >= version => disk'[p] >= version
      BY <1>0, <1>c
    <3>2. CASE \E d \in Callers \cup Tasks : Job(p, version) \in held[d]
      <4>1. PICK d \in Callers \cup Tasks : Job(p, version) \in held[d]
        BY <3>2
      <4>2. CASE job = Job(p, version)
        BY <2>2, <2>4, <4>2, Jobbed DEF Known
      <4>3. CASE job # Job(p, version)
        BY <2>3, <4>1, <4>3 DEF Known
      <4> QED BY <4>2, <4>3
    <3>3. CASE \E c \in Callers : at[c] = "inline" /\ \E j \in held[c] : j.path = p
      BY <2>2, <2>3, <3>3 DEF Known
    <3> QED BY <2>2, <2>4, <3>1, <3>2, <3>3 DEF Known
  <2> QED BY <2>2, <2>5, LastStays
<1>9. ASSUME NEW t \in Tasks, LoopTop(t) \/ Woken(t) \/ BatchDone(t) \/ DropMark(t) PROVE LastKnown'
  <2>1. UNCHANGED <<pending, held, blocking, disk, failed, unheard, log>>
    BY <1>9 DEF LoopTop, Woken, BatchDone, DropMark, state, files
  <2>2. \A c \in Callers : at[c] = "inline" => at'[c] = "inline"
    BY <1>9, <1>b, Apart DEF LoopTop, Woken, BatchDone, DropMark, Goes, Placed
  <2>3. \A u \in Tasks : loop'[u].refused = loop[u].refused
    <3>1. CASE LoopTop(t) \/ Woken(t) \/ BatchDone(t)
      BY <1>b, <3>1 DEF LoopTop, Woken, BatchDone, Locals
    <3>2. CASE DropMark(t)
      BY <1>b, <3>2 DEF DropMark, Fresh, OwnersInv, Owners, PoolOK
    <3> QED BY <1>9, <3>1, <3>2
  <2> QED BY <1>d, <2>1, <2>2, <2>3, LastStays
<1>10. ASSUME NEW t \in Tasks, WriteDue(t) PROVE LastKnown'
  <2>1. PICK S \in DueSets(t) : /\ held' = [held EXCEPT ![t] = {Job(p, pending[p]) : p \in S}]
                                /\ pending' = [p \in DOMAIN pending \ S |-> pending[p]]
    BY <1>10 DEF WriteDue
  <2>2. S \in SUBSET DOMAIN pending /\ held[t] = {}
    BY <1>10 DEF DueSets, WriteDue, OwnersInv, Owners, HeldOK
  <2>3. \A c \in Callers : at[c] = "inline" => at'[c] = "inline"
    BY <1>10, <1>b, Apart DEF WriteDue, Goes, Placed
  <2> QED BY <1>6, <1>10, <2>1, <2>2, <2>3 DEF WriteDue, files
<1>11. ASSUME NEW t \in Tasks, WriteAll(t) PROVE LastKnown'
  <2>1. held[t] = {} /\ pending' = [p \in DOMAIN pending \ DOMAIN pending |-> pending[p]]
    BY <1>11 DEF WriteAll, OwnersInv, Owners, HeldOK
  <2>2. \A c \in Callers : at[c] = "inline" => at'[c] = "inline"
    BY <1>11, <1>b, Apart DEF WriteAll, Goes, Placed
  <2> QED BY <1>6, <1>11, <2>1, <2>2 DEF WriteAll, Jobs, files
<1>12. ASSUME NEW t \in Tasks, WriteOne(t) PROVE LastKnown'
  <2>1. PICK job \in held[t] :
           /\ held' = [held EXCEPT ![t] = @ \ {job}]
           /\ blocking' = blocking \cup {[by |-> t, job |-> job]}
           /\ loop' = [loop EXCEPT ![t].written = Append(SelectSeq(@, LAMBDA p : p # job.path), job.path)]
    BY <1>12 DEF WriteOne
  <2>2. \A u \in Tasks : loop'[u].refused = loop[u].refused
    <3> DEFINE w == Append(SelectSeq(loop[t].written, LAMBDA p : p # job.path), job.path)
    <3>1. loop' = [loop EXCEPT ![t] = [loop[t] EXCEPT !.written = w]]
      BY <2>1, Zenon
    <3> HIDE DEF w
    <3> QED BY <1>b, <3>1 DEF Locals
  <2>3. \A c \in Callers : at[c] = "inline" => at'[c] = "inline" /\ held'[c] = held[c]
    BY <1>12, <1>a, <1>b, <2>1, Apart DEF WriteOne, Goes, Placed
  <2>4. /\ \A d \in Callers \cup Tasks : d # t => held'[d] = held[d]
        /\ \A j \in held[t] : j # job => j \in held'[t]
        /\ UNCHANGED <<pending, disk, failed, unheard, log>>
    BY <1>12, <1>a, <2>1 DEF WriteOne, state, files
  <2>5. \A j, d : d \in Callers \cup Tasks /\ j \in held[d] =>
                    j \in held'[d] \/ \E work \in blocking' : work.job = j
    <3>1. PICK work : work = [by |-> t, job |-> job]
      OBVIOUS
    <3>2. work \in blocking' /\ work.job = job
      BY <2>1, <3>1
    <3> QED BY <2>4, <3>2
  <2>6. KnownStays
    BY <2>1, <2>2, <2>3, <2>4, <2>5 DEF KnownStays, Known
  <2> QED BY <2>4, <2>6, LastStays
<1>13. ASSUME NEW t \in Tasks, OneWritten(t) PROVE LastKnown'
  <2>1. UNCHANGED <<pending, held, blocking, disk, unheard, log>> /\ failed' = failed \cup loop[t].refused
        /\ \A u \in Tasks : u # t => loop'[u] = loop[u]
    BY <1>13 DEF OneWritten, state
  <2>2. \A c \in Callers : at[c] = "inline" => at'[c] = "inline"
    BY <1>13, <1>b, Apart DEF OneWritten, Goes, Placed
  <2>3. KnownStays
    BY <2>1, <2>2 DEF KnownStays, Known
  <2> QED BY <2>1, <2>3, LastStays
<1>14. ASSUME NEW t \in Tasks, Abort(t) PROVE LastKnown'
  <2>1. OneFile
    BY <1>14, BoundsAssumption DEF Abort, OwnersInv, Owners, LogOK
  <2>2. held[t] = {}
    BY <1>14, <2>1 DEF Abort, OwnersInv, Owners, HeldOK
  <2>3. /\ UNCHANGED <<pending, blocking, disk, failed, log>> /\ unheard' = unheard \cup loop[t].refused
        /\ \A u \in Tasks : u # t => loop'[u] = loop[u]
        /\ \A d \in Callers \cup Tasks : held'[d] = held[d]
    <3>1. held' = [held EXCEPT ![t] = {}]
      BY <1>14 DEF Abort
    <3>2. \A d \in Callers \cup Tasks : held'[d] = held[d]
      BY <1>a, <2>2, <3>1
    <3>3. UNCHANGED <<pending, blocking, disk, failed, log>>
      BY <1>14 DEF Abort, state, files
    <3> QED BY <1>14, <1>b, <3>2, <3>3 DEF Abort
  <2>4. \A c \in Callers : at[c] = "inline" => at'[c] = "inline"
    BY <1>14, <1>b, Apart DEF Abort, Goes, Placed
  <2>5. KnownStays
    BY <2>3, <2>4 DEF KnownStays, Known
  <2> QED BY <2>3, <2>5, LastStays
<1>15. ASSUME NEW work \in blocking, RunBlocking(work) PROVE LastKnown'
  <2>1. PICK refused \in BOOLEAN :
           LET version == IF refused THEN {work.job.version} ELSE {}
               awaited == at[work.by] = "await"
           IN  /\ Execute(work.job, refused)
               /\ loop' = [loop EXCEPT ![work.by].refused = IF awaited THEN version ELSE @]
               /\ unheard' = IF awaited THEN unheard ELSE unheard \cup version
    BY <1>15 DEF RunBlocking
  <2>2. /\ work.by \in Tasks /\ work.job \in JobSet
        /\ blocking' = blocking \ {work} /\ UNCHANGED <<at, held, pending, failed, log>>
        /\ at[work.by] = "await" => loop[work.by].refused = {}
    BY <1>15 DEF RunBlocking, OwnersInv, Owners, PoolOK, IInv, JobsOK, state
  <2>3. \A u \in Tasks : loop[u].refused \subseteq loop'[u].refused
    BY <1>b, <2>1, <2>2 DEF Locals
  <2>4. unheard \subseteq unheard'
    BY <2>1
  <2>5. \/ disk'[work.job.path] >= work.job.version
        \/ work.job.version \in unheard'
        \/ work.job.version \in loop'[work.by].refused
    <3>1. CASE ~refused
      BY <1>0, <2>1, <2>2, <3>1, Executed
    <3>2. CASE refused
      BY <1>b, <2>1, <2>2, <3>2 DEF Locals
    <3> QED BY <3>1, <3>2
  <2>6. KnownStays
    <3> SUFFICES ASSUME NEW p \in Paths, NEW version \in Versions, Known(p, version) PROVE Known(p, version)'
      BY DEF KnownStays
    <3>1. disk[p] >= version => disk'[p] >= version
      BY <1>0, <1>c
    <3>2. CASE work.job = Job(p, version)
      <4>1. p = work.job.path /\ version = work.job.version
        BY <2>2, <3>2, Jobbed
      <4> QED BY <2>2, <2>5, <4>1 DEF Known
    <3>3. CASE work.job # Job(p, version)
      BY <2>2, <2>3, <2>4, <3>1, <3>3 DEF Known
    <3> QED BY <3>2, <3>3
  <2> QED BY <2>2, <2>6, LastStays
<1>16. CASE UNCHANGED vars
  BY <1>16, <1>d, LastStays DEF vars
<1>17. CASE Next
  <2>1. ASSUME NEW c \in Callers,
               CallerStep(c) \/ Flush(c) \/ Close(c) \/ \E p \in Paths : DrawVersion(c, p)
        PROVE  LastKnown'
    BY <2>1, <1>1, <1>2, <1>3, <1>4, <1>5, <1>7, <1>8 DEF CallerStep
  <2>2. ASSUME NEW t \in Tasks, TaskStep(t) \/ Abort(t) PROVE LastKnown'
    BY <2>2, <1>7, <1>8, <1>9, <1>10, <1>11, <1>12, <1>13, <1>14 DEF TaskStep
  <2> QED BY <1>15, <1>17, <2>1, <2>2 DEF Next
<1> QED BY <1>16, <1>17

LEMMA OwnersBegin == Init => LostInv
<1> SUFFICES ASSUME Init PROVE LostInv
  OBVIOUS
<1>1. IInv
  BY Initially
<1>2. \A c \in Callers : c \notin Tasks
  BY Apart
<1>3. PlacesOK /\ HeldOK
  BY <1>2 DEF Init, PlacesOK, HeldOK, Placed
<1>4. PoolOK
  BY DEF Init, PoolOK, Fresh, Locals
<1>5. LogOK
  BY BoundsAssumption DEF Init, LogOK, Versions
<1>6. LastKnown
  BY DEF Init, LastKnown
<1> QED BY <1>1, <1>3, <1>4, <1>5, <1>6 DEF LostInv, OwnersInv, Owners

LEMMA OwnersInvariant == Spec => []OwnersInv
<1>1. Init => OwnersInv
  BY OwnersBegin DEF LostInv
<1>2. OwnersInv /\ [Next]_vars => OwnersInv'
  BY OwnersSteps
<1> QED BY <1>1, <1>2, PTL DEF Spec

(* write_lazy, write_due, write_all, close, RunningMark: every accepted    *)
(* write ends on disk, in a newer one or in a report, and until then is in *)
(* somebody's hands, if a batch is one file or no task is aborted.         *)
THEOREM NothingLostHolds == ASSUME DropsNothing PROVE Spec => []NothingLost
<1>1. Init => LostInv
  BY OwnersBegin
<1>2. LostInv /\ [Next]_vars => LostInv'
  <2> SUFFICES ASSUME LostInv, [Next]_vars PROVE LostInv'
    OBVIOUS
  <2>1. OwnersInv'
    BY OwnersSteps DEF LostInv
  <2>2. OneFile \/ aborts' = 0
    BY <2>1 DEF DropsNothing, OwnersInv, Owners, LogOK
  <2> QED BY <2>1, <2>2, KnownSteps DEF LostInv
<1>3. LostInv => NothingLost
  <2> SUFFICES ASSUME LostInv, NEW p \in Paths, ~Settled(p, Len(log[p])),
                      Job(p, Last(p)) \notin Underway
               PROVE  \/ \E t \in Tasks : Last(p) \in loop[t].refused
                      \/ \E c \in Callers : at[c] = "inline" /\ \E job \in held[c] : job.path = p
    BY DEF NothingLost
  <2>1. Len(log[p]) \in Nat /\ Len(log[p]) # 0
    BY DEF Settled, LostInv, OwnersInv, Owners, LogOK
  <2>2. Known(p, Last(p))
    BY <2>1 DEF LostInv, LastKnown
  <2>3. Len(log[p]) \in Len(log[p])..Len(log[p])
    BY <2>1
  <2>4. ~(disk[p] >= Last(p) \/ Last(p) \in failed \cup unheard)
    BY <2>3 DEF Settled, Last
  <2>5. ~(p \in DOMAIN pending /\ pending[p] = Last(p))
    BY DEF Underway, Jobs
  <2>6. DOMAIN held = Callers \cup Tasks
    BY DEF LostInv, OwnersInv, IInv, JobsOK
  <2>7. ~\E e \in Callers \cup Tasks : Job(p, Last(p)) \in held[e]
    BY <2>6 DEF Underway
  <2>8. ~\E work \in blocking : work.job = Job(p, Last(p))
    <3> SUFFICES ASSUME NEW w \in blocking, w.job = Job(p, Last(p)) PROVE FALSE
      OBVIOUS
    <3> DEFINE jobs == {work.job : work \in blocking}
    <3>1. w.job \in jobs
      OBVIOUS
    <3> HIDE DEF jobs
    <3>2. jobs \subseteq Underway
      BY DEF Underway, jobs
    <3> QED BY <3>1, <3>2
  <2> QED BY <2>2, <2>4, <2>5, <2>7, <2>8 DEF Known
<1> QED BY <1>1, <1>2, <1>3, PTL DEF Spec

(***************************************************************************)
(* A flush keeps its promise                                               *)
(***************************************************************************)
(* A version that is not handed over yet is in no log.                     *)
VersionsFresh ==
    /\ \A p \in Paths : \A i \in 1..Len(log[p]) : log[p][i] < nextVersion
    /\ \A c \in Callers : at[c] \in {"locking", "inline"} =>
         \A job \in held[c] :
           /\ job.version < nextVersion
           /\ \A p \in Paths : \A i \in 1..Len(log[p]) : log[p][i] # job.version
           /\ \A d \in Callers \ {c} : at[d] \in {"locking", "inline"} =>
                \A other \in held[d] : other.version # job.version

(* Who waits for a task is waiting, and the task is writing everything.    *)
Waiting(c) == call[c].op = "flush" /\ at[c] \in {"notifying", "waiting"}

WaitersOK ==
    /\ DOMAIN call = Callers /\ \A c \in Callers, p \in Paths : call[c].since[p] \in 0..Len(log[p])
    /\ \A c \in Callers : call[c].op = "flush" => at[c] \in {"notifying", "waiting", "draining", "writing", "returned"}
    /\ flushing \subseteq Callers /\ \A c \in flushing : Waiting(c)
    /\ \A t \in Tasks : /\ loop[t].waiters \subseteq Callers
                        /\ loop[t].waiters # {} => at[t] \in {"all", "batch", "await"}
                        /\ \A c \in loop[t].waiters : Waiting(c)

(* While nothing was aborted, a task ends only when the writer was closed, *)
(* and what is pending without a task came before that.                    *)
ClosedOK ==
    /\ \A work \in blocking : at[work.by] = "await"
    /\ \A t \in Tasks : (at[t] = "ending" => closed) /\ (loop[t].closed => closed)
    /\ ~running /\ DOMAIN pending # {} => closed

(* The versions that settle what was accepted up to the n-th. *)
After(p, n) == {log[p][i] : i \in n..Len(log[p])}

Busy(c, p, n) ==
    \E e \in (Callers \cup Tasks) \ {c} : \E job \in held[e] :
      /\ job.path = p
      /\ at[e] = "inline" \/ (at[e] = "writing" /\ job.version \in After(p, n))

Waits(p, n) == p \in DOMAIN pending /\ pending[p] \in After(p, n)

Batched(t, p, n) ==
    /\ at[t] \in {"batch", "await"}
    /\ \E version \in After(p, n) :
         \/ Job(p, version) \in held[t]
         \/ \E work \in blocking : work.by = t /\ work.job = Job(p, version)
         \/ version \in loop[t].refused

(* Where what a flush promises is, from place to place. *)
Left(p, n) == Waits(p, n) /\ closed /\ ~running

InQueue(c, p, n) == c \in flushing => Waits(p, n) \/ \E t \in Tasks : Batched(t, p, n)

InBatch(c, p, n) ==
    \A t \in Tasks : c \in loop[t].waiters => Batched(t, p, n) \/ (at[t] = "all" /\ Waits(p, n))

Released(c, p, n) == c \notin flushing /\ (\A t \in Tasks : c \notin loop[t].waiters) => Left(p, n)

Place(c, p, n) ==
    /\ at[c] # "returned"
    /\ at[c] = "writing" => \E job \in held[c] : job.path = p /\ job.version \in After(p, n)
    /\ at[c] = "draining" => Left(p, n)
    /\ at[c] \in {"notifying", "waiting"} => InQueue(c, p, n) /\ InBatch(c, p, n) /\ Released(c, p, n)

Promise(c, p, n) == Settled(p, n) \/ Busy(c, p, n) \/ Place(c, p, n)

PromisesKept ==
    \A c \in Callers, p \in Paths : call[c].op = "flush" => Promise(c, p, call[c].since[p])

FlushInv ==
    /\ OwnersInv /\ RunInv /\ VersionsFresh /\ WaitersOK
    /\ aborts = 0 => LastKnown /\ ClosedOK /\ PromisesKept

---------------------------------------------------------------------------
(* what a step of a task, and of a caller, leaves alone                    *)
LEMMA TaskFrame ==
  ASSUME OwnersInv, NEW t \in Tasks, TaskStep(t) \/ Abort(t)
  PROVE  /\ \A e \in Callers \cup Tasks : e # t => at'[e] = at[e] /\ held'[e] = held[e]
         /\ \A u \in Tasks : u # t => loop'[u] = loop[u]
         /\ UNCHANGED <<nextVersion, call, log, closed>>
         /\ flushing' = flushing \/ flushing' = {}
<1>1. held \in [Callers \cup Tasks -> SUBSET JobSet] /\ Placed /\ DOMAIN loop = Tasks
  BY DEF OwnersInv, Owners, IInv, JobsOK, PlacesOK, PoolOK
<1>2. CASE LoopTop(t) \/ Woken(t) \/ OneWritten(t) \/ BatchDone(t) \/ DropMark(t)
  BY <1>1, <1>2 DEF LoopTop, Woken, OneWritten, BatchDone, DropMark, Goes, Placed, state, files
<1>3. CASE WriteDue(t)
  BY <1>1, <1>3 DEF WriteDue, Goes, Placed, state, files
<1>4. CASE WriteAll(t)
  BY <1>1, <1>4 DEF WriteAll, Goes, Placed, state, files
<1>5. CASE WriteOne(t)
  BY <1>1, <1>5 DEF WriteOne, Goes, Placed, state, files
<1>6. CASE TakePending(t)
  BY <1>1, <1>6 DEF TakePending, Goes, Placed, state, files
<1>7. CASE WriteHeld(t)
  BY <1>1, <1>7 DEF WriteHeld, Placed, state, files
<1>8. CASE Abort(t)
  BY <1>1, <1>8 DEF Abort, Goes, Placed, state, files
<1> QED BY <1>2, <1>3, <1>4, <1>5, <1>6, <1>7, <1>8 DEF TaskStep

CallerActs(c) == CallerStep(c) \/ Flush(c) \/ Close(c) \/ \E p \in Paths : DrawVersion(c, p)

LEMMA CallerFrame ==
  ASSUME OwnersInv, DOMAIN call = Callers, NEW c \in Callers, CallerActs(c)
  PROVE  /\ \A e \in Callers \cup Tasks : e # c => held'[e] = held[e]
         /\ \A d \in Callers : d # c => at'[d] = at[d] /\ call'[d] = call[d]
         /\ \A t \in Tasks : at'[t] = at[t] \/ (at[t] = "unborn" /\ at'[t] = "spawned")
         /\ UNCHANGED <<loop, blocking, unheard, aborts>>
         /\ DOMAIN call' = Callers
<1>1. held \in [Callers \cup Tasks -> SUBSET JobSet] /\ Placed
  BY DEF OwnersInv, Owners, IInv, JobsOK, PlacesOK
<1>2. \A t \in Tasks : t # c
  BY Apart
<1>3. CASE StartTask(c)
  <2>1. PICK t \in Tasks : at[t] = "unborn" /\ at' = [at EXCEPT ![c] = "notifying", ![t] = "spawned"]
    BY <1>3 DEF StartTask
  <2>2. \A d \in Callers : d # t
    BY Apart
  <2> QED BY <1>1, <1>2, <1>3, <2>1, <2>2 DEF StartTask, Placed
<1>4. CASE Queue(c)
  BY <1>1, <1>2, <1>4 DEF Queue, Goes, Placed, files
<1>5. CASE Inline(c)
  BY <1>1, <1>2, <1>5 DEF Inline, Goes, Placed
<1>6. CASE WriteInline(c)
  BY <1>1, <1>2, <1>6 DEF WriteInline, Goes, Placed, state
<1>7. CASE Notify(c) \/ Answered(c) \/ Return(c)
  BY <1>1, <1>2, <1>7 DEF Notify, Answered, Return, Goes, Placed
<1>8. CASE TakePending(c)
  BY <1>1, <1>2, <1>8 DEF TakePending, Goes, Placed
<1>9. CASE WriteHeld(c)
  BY <1>1, <1>2, <1>9 DEF WriteHeld, Placed, state
<1>10. CASE Flush(c)
  BY <1>1, <1>2, <1>10 DEF Flush, Calls, Goes, Placed, files
<1>12. CASE Close(c)
  BY <1>1, <1>2, <1>12 DEF Close, Calls, Goes, Placed, files
<1>11. CASE \E p \in Paths : DrawVersion(c, p)
  BY <1>1, <1>2, <1>11 DEF DrawVersion, Calls, Goes, Placed
<1> QED BY <1>3, <1>4, <1>5, <1>6, <1>7, <1>8, <1>9, <1>10, <1>11, <1>12 DEF CallerActs, CallerStep

LEMMA StepsOf ==
  ASSUME [Next]_vars
  PROVE  \/ \E c \in Callers : CallerActs(c)
         \/ \E t \in Tasks : TaskStep(t) \/ Abort(t)
         \/ \E work \in blocking : RunBlocking(work)
         \/ UNCHANGED vars
BY DEF Next, CallerActs

LEMMA AbortsGrow ==
  ASSUME OwnersInv, DOMAIN call = Callers, [Next]_vars, aborts' = 0
  PROVE  aborts = 0 /\ ~\E t \in Tasks : Abort(t)
<1>1. aborts \in Nat
  BY DEF OwnersInv, Owners, LogOK
<1>2. ~\E t \in Tasks : Abort(t)
  <2> SUFFICES ASSUME NEW t \in Tasks, Abort(t) PROVE FALSE
    OBVIOUS
  <2>1. aborts' = aborts + 1
    BY DEF Abort
  <2> QED BY <1>1, <2>1
<1>3. CASE \E c \in Callers : CallerActs(c)
  BY <1>2, <1>3, CallerFrame
<1>4. CASE \E t \in Tasks : TaskStep(t)
  BY <1>2, <1>4 DEF TaskStep, LoopTop, Woken, WriteDue, WriteAll, WriteOne, OneWritten, BatchDone, DropMark, TakePending, WriteHeld
<1>5. CASE \E work \in blocking : RunBlocking(work)
  BY <1>2, <1>5 DEF RunBlocking
<1>6. CASE UNCHANGED vars
  BY <1>2, <1>6 DEF vars
<1> QED BY <1>2, <1>3, <1>4, <1>5, <1>6, StepsOf

(* logs only grow, and reports stay                                        *)
LEMMA LogGrows ==
  ASSUME OwnersInv, [Next]_vars
  PROVE  /\ \A p \in Paths : /\ Len(log[p]) \in Nat /\ Len(log'[p]) \in Nat /\ Len(log[p]) <= Len(log'[p])
                             /\ \A i \in 1..Len(log[p]) : log'[p][i] = log[p][i]
         /\ failed \subseteq failed' /\ unheard \subseteq unheard'
<1> DEFINE Grows == /\ \A p \in Paths : /\ Len(log[p]) <= Len(log'[p])
                                        /\ \A i \in 1..Len(log[p]) : log'[p][i] = log[p][i]
                    /\ failed \subseteq failed' /\ unheard \subseteq unheard'
<1>0. (\A p \in Paths : log[p] \in Seq(Versions) /\ log'[p] \in Seq(Versions))
      /\ held \in [Callers \cup Tasks -> SUBSET JobSet] /\ log \in [Paths -> Seq(Versions)]
  BY OwnersSteps DEF OwnersInv, Owners, LogOK, IInv, JobsOK
<1>a. \A p \in Paths : Len(log[p]) \in Nat /\ Len(log'[p]) \in Nat
  BY <1>0
<1>b. UNCHANGED log /\ failed \subseteq failed' /\ unheard \subseteq unheard' => Grows
  BY <1>a
<1>c. ASSUME NEW job \in JobSet, Accepted(job), failed \subseteq failed', unheard \subseteq unheard' PROVE Grows
  <2>1. job.path \in Paths /\ job.version \in Versions
    BY DEF JobSet
  <2>2. log' = [log EXCEPT ![job.path] = Append(log[job.path], job.version)]
    BY <1>c, <1>0, <2>1 DEF Accepted
  <2>3. ASSUME NEW p \in Paths
        PROVE  Len(log[p]) <= Len(log'[p]) /\ \A i \in 1..Len(log[p]) : log'[p][i] = log[p][i]
    <3>1. CASE p = job.path
      <4>1. log[p] \in Seq(Versions) /\ log'[p] = Append(log[p], job.version)
        BY <1>0, <2>1, <2>2, <3>1
      <4> QED BY <2>1, <4>1
    <3>2. CASE p # job.path
      BY <1>0, <1>a, <2>2, <3>2
    <3> QED BY <3>1, <3>2
  <2> QED BY <1>c, <2>3
<1>1. ASSUME NEW c \in Callers, Queue(c) PROVE Grows
  <2>1. PICK job \in held[c] : Accepted(job)
    BY <1>1 DEF Queue
  <2> QED BY <1>1, <1>0, <1>c, <2>1 DEF Queue, files
<1>2. ASSUME NEW c \in Callers, WriteInline(c) PROVE Grows
  <2>1. PICK job \in held[c] : Accepted(job) /\ ExecuteNow(job)
    BY <1>2 DEF WriteInline
  <2> QED BY <1>2, <1>0, <1>c, <2>1 DEF WriteInline, ExecuteNow
<1>3. ASSUME NEW c \in Callers, CallerActs(c), ~Queue(c), ~WriteInline(c) PROVE Grows
  <2>1. CASE \E p \in Paths : DrawVersion(c, p)
    BY <1>b, <2>1 DEF DrawVersion, files
  <2>2. CASE Flush(c) \/ Close(c)
    BY <1>b, <2>2 DEF Flush, Close, files
  <2>3. CASE StartTask(c) \/ Inline(c) \/ Notify(c) \/ Answered(c) \/ TakePending(c) \/ Return(c)
    BY <1>b, <2>3 DEF StartTask, Inline, Notify, Answered, TakePending, Return, files
  <2>4. CASE WriteHeld(c)
    BY <1>b, <2>4 DEF WriteHeld, ExecuteNow
  <2> QED BY <1>3, <2>1, <2>2, <2>3, <2>4 DEF CallerActs, CallerStep
<1>4. ASSUME NEW t \in Tasks, TaskStep(t) \/ Abort(t) PROVE Grows
  <2>1. CASE WriteHeld(t)
    BY <1>b, <2>1 DEF WriteHeld, ExecuteNow
  <2>2. CASE OneWritten(t)
    BY <1>b, <2>2 DEF OneWritten
  <2>3. CASE Abort(t)
    BY <1>b, <2>3 DEF Abort, files
  <2>4. CASE LoopTop(t) \/ Woken(t) \/ WriteDue(t) \/ WriteAll(t) \/ WriteOne(t) \/ BatchDone(t) \/ DropMark(t)
             \/ TakePending(t)
    BY <1>b, <2>4 DEF LoopTop, Woken, WriteDue, WriteAll, WriteOne, BatchDone, DropMark, TakePending, files
  <2> QED BY <1>4, <2>1, <2>2, <2>3, <2>4 DEF TaskStep
<1>5. ASSUME NEW work \in blocking, RunBlocking(work) PROVE Grows
  BY <1>b, <1>5 DEF RunBlocking
<1>6. CASE UNCHANGED vars
  BY <1>a, <1>6 DEF vars, files
<1>7. Grows
  BY <1>b, <1>1, <1>2, <1>3, <1>4, <1>5, <1>6, StepsOf DEF vars, files
<1> QED BY <1>a, <1>7

---------------------------------------------------------------------------
(* VersionsFresh is kept by every step                                     *)
LEMMA FreshStays ==
  ASSUME VersionsFresh, UNCHANGED <<log, nextVersion>>,
         \A c \in Callers : at'[c] \in {"locking", "inline"} =>
           at[c] \in {"locking", "inline"} /\ held'[c] \subseteq held[c]
  PROVE  VersionsFresh'
<1>1. \A p \in Paths : \A i \in 1..Len(log'[p]) : log'[p][i] < nextVersion'
  BY DEF VersionsFresh
<1>2. ASSUME NEW c \in Callers, at'[c] \in {"locking", "inline"}, NEW job \in held'[c]
      PROVE  /\ job.version < nextVersion'
             /\ \A p \in Paths : \A i \in 1..Len(log'[p]) : log'[p][i] # job.version
             /\ \A d \in Callers \ {c} : at'[d] \in {"locking", "inline"} =>
                  \A other \in held'[d] : other.version # job.version
  <2>1. at[c] \in {"locking", "inline"} /\ job \in held[c]
    BY <1>2
  <2>2. ASSUME NEW d \in Callers \ {c}, at'[d] \in {"locking", "inline"}, NEW other \in held'[d]
        PROVE  other.version # job.version
    BY <2>1, <2>2 DEF VersionsFresh
  <2> QED BY <2>1, <2>2 DEF VersionsFresh
<1> QED BY <1>1, <1>2 DEF VersionsFresh

(* the write is handed over                                                *)
LEMMA FreshAccepted ==
  ASSUME OwnersInv, VersionsFresh, NEW c \in Callers, at[c] \in {"locking", "inline"},
         NEW job \in held[c], Accepted(job), nextVersion' = nextVersion,
         at'[c] \notin {"locking", "inline"},
         \A d \in Callers : d # c => at'[d] = at[d] /\ held'[d] = held[d]
  PROVE  VersionsFresh'
<1>0. job \in JobSet /\ job.path \in Paths /\ log \in [Paths -> Seq(Versions)]
  BY DEF OwnersInv, Owners, LogOK, IInv, JobsOK, JobSet
<1> PICK w : w = job.version
  OBVIOUS
<1>1. ASSUME NEW p \in Paths, NEW i \in 1..Len(log'[p])
      PROVE  log'[p][i] = w \/ (i \in 1..Len(log[p]) /\ log'[p][i] = log[p][i])
  <2>1. CASE p = job.path
    <3>1. log[p] \in Seq(Versions) /\ log'[p] = Append(log[p], w)
      BY <1>0, <2>1 DEF Accepted
    <3> QED BY <3>1
  <2>2. CASE p # job.path
    BY <1>0, <2>2, Logged
  <2> QED BY <2>1, <2>2
<1>2. w < nextVersion
  BY DEF VersionsFresh
<1>3. \A p \in Paths : \A i \in 1..Len(log'[p]) : log'[p][i] < nextVersion'
  BY <1>1, <1>2 DEF VersionsFresh
<1>4. ASSUME NEW d \in Callers, at'[d] \in {"locking", "inline"}, NEW other \in held'[d]
      PROVE  /\ other.version < nextVersion'
             /\ \A p \in Paths : \A i \in 1..Len(log'[p]) : log'[p][i] # other.version
             /\ \A e \in Callers \ {d} : at'[e] \in {"locking", "inline"} =>
                  \A third \in held'[e] : third.version # other.version
  <2>1. d # c /\ at[d] \in {"locking", "inline"} /\ other \in held[d]
    BY <1>4
  <2>2. other.version # w /\ other.version < nextVersion'
    BY <2>1 DEF VersionsFresh
  <2>3. ASSUME NEW p \in Paths, NEW i \in 1..Len(log'[p]) PROVE log'[p][i] # other.version
    BY <1>1, <2>1, <2>2 DEF VersionsFresh
  <2>4. ASSUME NEW e \in Callers \ {d}, at'[e] \in {"locking", "inline"}, NEW third \in held'[e]
        PROVE  third.version # other.version
    <3>1. e # c /\ at[e] \in {"locking", "inline"} /\ third \in held[e]
      BY <2>4
    <3> QED BY <2>1, <3>1 DEF VersionsFresh
  <2> QED BY <2>2, <2>3, <2>4
<1> QED BY <1>3, <1>4 DEF VersionsFresh

LEMMA FreshSteps ==
  ASSUME OwnersInv, DOMAIN call = Callers, VersionsFresh, [Next]_vars
  PROVE  VersionsFresh'
<1>a. nextVersion \in Nat /\ held \in [Callers \cup Tasks -> SUBSET JobSet] /\ Placed
      /\ log \in [Paths -> Seq(Versions)]
  BY DEF OwnersInv, Owners, IInv, JobsOK, PlacesOK, LogOK, Versions
<1>1. ASSUME NEW c \in Callers, CallerActs(c) PROVE VersionsFresh'
  <2>0. \A d \in Callers : d # c => held'[d] = held[d] /\ at'[d] = at[d]
    BY <1>1, CallerFrame DEF OwnersInv
  <2>1. CASE \E path \in Paths : DrawVersion(c, path)
    <3>1. PICK path \in Paths : held' = [held EXCEPT ![c] = {Job(path, nextVersion)}]
                                /\ nextVersion' = nextVersion + 1 /\ log' = log
      BY <2>1 DEF DrawVersion
    <3>2. \A job \in held'[c] : job.version = nextVersion
      BY <1>a, <3>1 DEF Job
    <3>3. \A p \in Paths : \A i \in 1..Len(log[p]) : log[p][i] < nextVersion /\ log[p][i] \in Nat
      BY <1>a DEF VersionsFresh, Versions
    <3>4. \A d \in Callers : d # c /\ at[d] \in {"locking", "inline"} =>
             \A job \in held[d] : job.version < nextVersion /\ job.version \in Nat
      BY <1>a DEF VersionsFresh, JobSet, Versions
    <3>5. ASSUME NEW d \in Callers, at'[d] \in {"locking", "inline"}, NEW job \in held'[d]
          PROVE  /\ job.version < nextVersion'
                 /\ \A p \in Paths : \A i \in 1..Len(log'[p]) : log'[p][i] # job.version
                 /\ \A e \in Callers \ {d} : at'[e] \in {"locking", "inline"} =>
                      \A other \in held'[e] : other.version # job.version
      <4>1. CASE d = c
        <5>1. job.version = nextVersion
          BY <3>2, <4>1
        <5>2. ASSUME NEW e \in Callers \ {d}, at'[e] \in {"locking", "inline"}, NEW other \in held'[e]
              PROVE  other.version # job.version
          BY <1>a, <2>0, <3>4, <4>1, <5>1, <5>2
        <5> QED BY <1>a, <3>1, <3>3, <5>1, <5>2
      <4>2. CASE d # c
        <5>1. at[d] \in {"locking", "inline"} /\ job \in held[d] /\ job.version < nextVersion /\ job.version \in Nat
          BY <2>0, <3>4, <3>5, <4>2
        <5>2. ASSUME NEW e \in Callers \ {d}, at'[e] \in {"locking", "inline"}, NEW other \in held'[e]
              PROVE  other.version # job.version
          <6>1. CASE e = c
            BY <1>a, <3>2, <5>1, <5>2, <6>1
          <6>2. CASE e # c
            <7>1. at[e] \in {"locking", "inline"} /\ other \in held[e]
              BY <2>0, <5>2, <6>2
            <7> QED BY <5>1, <7>1 DEF VersionsFresh
          <6> QED BY <6>1, <6>2
        <5>3. \A p \in Paths : \A i \in 1..Len(log'[p]) : log'[p][i] # job.version
          BY <3>1, <5>1 DEF VersionsFresh
        <5>4. job.version < nextVersion'
          BY <1>a, <3>1, <5>1
        <5> QED BY <5>2, <5>3, <5>4
      <4> QED BY <4>1, <4>2
    <3>6. \A p \in Paths : \A i \in 1..Len(log'[p]) : log'[p][i] < nextVersion'
      BY <1>a, <3>1, <3>3
    <3> QED BY <3>5, <3>6 DEF VersionsFresh
  <2>2. CASE Queue(c)
    <3>1. PICK job \in held[c] : Accepted(job)
      BY <2>2 DEF Queue
    <3>2. at[c] = "locking" /\ at'[c] \notin {"locking", "inline"} /\ nextVersion' = nextVersion
      BY <1>a, <2>2 DEF Queue, Goes, Placed
    <3> QED BY <2>0, <3>1, <3>2, FreshAccepted
  <2>3. CASE WriteInline(c)
    <3>1. PICK job \in held[c] : Accepted(job)
      BY <2>3 DEF WriteInline
    <3>2. at[c] = "inline" /\ at'[c] \notin {"locking", "inline"} /\ nextVersion' = nextVersion
      BY <1>a, <2>3 DEF WriteInline, Goes, Placed
    <3> QED BY <2>0, <3>1, <3>2, FreshAccepted
  <2>4. CASE Inline(c)
    BY <1>a, <2>0, <2>4, FreshStays DEF Inline, Goes, Placed
  <2>5. CASE StartTask(c)
    <3>1. PICK t \in Tasks : at' = [at EXCEPT ![c] = "notifying", ![t] = "spawned"]
      BY <2>5 DEF StartTask
    <3>2. c # t
      BY Apart
    <3> QED BY <1>a, <2>0, <2>5, <3>1, <3>2, FreshStays DEF StartTask, Placed
  <2>6. CASE Notify(c) \/ Answered(c) \/ Return(c) \/ TakePending(c) \/ Flush(c) \/ Close(c)
    <3>1. at'[c] \notin {"locking", "inline"} /\ UNCHANGED <<log, nextVersion>>
      BY <1>a, <2>6 DEF Notify, Answered, Return, TakePending, Flush, Close, Goes, Placed
    <3> QED BY <2>0, <3>1, FreshStays
  <2>7. CASE WriteHeld(c)
    BY <2>0, <2>7, FreshStays DEF WriteHeld
  <2> QED BY <1>1, <2>1, <2>2, <2>3, <2>4, <2>5, <2>6, <2>7 DEF CallerActs, CallerStep
<1>2. ASSUME NEW t \in Tasks, TaskStep(t) \/ Abort(t) PROVE VersionsFresh'
  <2>1. \A c \in Callers : at'[c] = at[c] /\ held'[c] = held[c]
    BY <1>2, TaskFrame, Apart
  <2>2. UNCHANGED <<log, nextVersion>>
    BY <1>2, TaskFrame
  <2> QED BY <2>1, <2>2, FreshStays
<1>3. ASSUME NEW work \in blocking, RunBlocking(work) PROVE VersionsFresh'
  BY <1>3, FreshStays DEF RunBlocking
<1>4. CASE UNCHANGED vars
  BY <1>4, FreshStays DEF vars
<1> QED BY <1>1, <1>2, <1>3, <1>4, StepsOf

---------------------------------------------------------------------------
(* WaitersOK is kept by every step                                         *)
CallsOK ==
    /\ DOMAIN call = Callers /\ \A c \in Callers, p \in Paths : call[c].since[p] \in 0..Len(log[p])
    /\ \A c \in Callers : call[c].op = "flush" => at[c] \in {"notifying", "waiting", "draining", "writing", "returned"}

LEMMA CallsSteps ==
  ASSUME OwnersInv, WaitersOK, [Next]_vars
  PROVE  CallsOK'
<1>0. DOMAIN call = Callers /\ Placed
  BY DEF WaitersOK, OwnersInv, Owners, PlacesOK
<1>a. \A p \in Paths : Len(log[p]) \in Nat /\ Len(log'[p]) \in Nat /\ Len(log[p]) <= Len(log'[p])
  BY LogGrows
<1>b. ASSUME NEW c \in Callers, call'[c] = call[c], NEW p \in Paths PROVE call'[c].since[p] \in 0..Len(log'[p])
  <2> PICK n : n = call[c].since[p]
    OBVIOUS
  <2>1. n \in 0..Len(log[p])
    BY DEF WaitersOK
  <2>2. n \in 0..Len(log'[p])
    BY <1>a, <2>1
  <2> QED BY <1>b, <2>2
<1>1. ASSUME NEW c \in Callers, CallerActs(c) PROVE CallsOK'
  <2>0. DOMAIN call' = Callers /\ \A d \in Callers : d # c => at'[d] = at[d] /\ call'[d] = call[d]
    BY <1>0, <1>1, CallerFrame
  <2> DEFINE Mine == /\ \A p \in Paths : call'[c].since[p] \in 0..Len(log'[p])
                     /\ call'[c].op = "flush" => at'[c] \in {"notifying", "waiting", "draining", "writing", "returned"}
  <2>1. CASE \E path \in Paths : DrawVersion(c, path)
    <3>1. call'[c] = [op |-> "write", since |-> [p \in Paths |-> 0]]
      BY <1>0, <2>1 DEF DrawVersion, Calls
    <3>2. Mine
      BY <1>a, <3>1
    <3> QED BY <1>b, <2>0, <3>2 DEF CallsOK, WaitersOK
  <2>2. CASE Flush(c)
    <3>1. call'[c] = [op |-> "flush", since |-> [p \in Paths |-> Len(log[p])]]
      BY <1>0, <2>2 DEF Flush, Calls
    <3>2. Mine
      BY <1>0, <1>a, <2>2, <3>1 DEF Flush, Goes, Placed
    <3> QED BY <1>b, <2>0, <3>2 DEF CallsOK, WaitersOK
  <2>3. CASE Close(c)
    <3>1. call'[c] = [op |-> "close", since |-> [p \in Paths |-> 0]]
      BY <1>0, <2>3 DEF Close, Calls
    <3>2. Mine
      BY <1>a, <3>1
    <3> QED BY <1>b, <2>0, <3>2 DEF CallsOK, WaitersOK
  <2>4. CASE CallerStep(c)
    <3>1. call' = call
      BY <2>4 DEF CallerStep, Queue, StartTask, Inline, WriteInline, Notify, Answered, TakePending, WriteHeld, Return
    <3>2. ASSUME call[c].op = "flush" PROVE at'[c] \in {"notifying", "waiting", "draining", "writing", "returned"}
      <4>1. at[c] \in {"notifying", "waiting", "draining", "writing", "returned"}
        BY <3>2 DEF WaitersOK
      <4>2. CASE StartTask(c)
        BY <4>1, <4>2 DEF StartTask
      <4>3. CASE Queue(c) \/ Inline(c) \/ WriteInline(c)
        BY <4>1, <4>3 DEF Queue, Inline, WriteInline
      <4>4. CASE Notify(c) \/ Answered(c) \/ TakePending(c) \/ Return(c)
        BY <1>0, <4>4 DEF Notify, Answered, TakePending, Return, Goes, Placed
      <4>5. CASE WriteHeld(c)
        BY <4>1, <4>5 DEF WriteHeld
      <4> QED BY <2>4, <4>2, <4>3, <4>4, <4>5 DEF CallerStep
    <3>3. Mine
      BY <1>b, <3>1, <3>2
    <3> QED BY <1>b, <2>0, <3>3 DEF CallsOK, WaitersOK
  <2> QED BY <1>1, <2>1, <2>2, <2>3, <2>4 DEF CallerActs
<1>2. CASE call' = call /\ \A c \in Callers : at'[c] = at[c]
  BY <1>0, <1>b, <1>2 DEF CallsOK, WaitersOK
<1>3. ASSUME NEW t \in Tasks, TaskStep(t) \/ Abort(t) PROVE CallsOK'
  BY <1>2, <1>3, TaskFrame, Apart
<1>4. ASSUME NEW work \in blocking, RunBlocking(work) PROVE CallsOK'
  BY <1>2, <1>4 DEF RunBlocking
<1>5. CASE UNCHANGED vars
  BY <1>2, <1>5 DEF vars
<1> QED BY <1>1, <1>3, <1>4, <1>5, StepsOf

(* the waiters, when who waits goes on waiting                             *)
LEMMA WaitersStay ==
  ASSUME WaitersOK, CallsOK',
         flushing' = flushing \/ flushing' = {},
         \A c \in Callers : Waiting(c) => Waiting(c)',
         \A t \in Tasks : \/ loop'[t].waiters = {}
                          \/ /\ loop'[t].waiters = loop[t].waiters
                             /\ at[t] \in {"all", "batch", "await"} => at'[t] \in {"all", "batch", "await"}
                          \/ /\ loop'[t].waiters = flushing
                             /\ flushing # {} => at'[t] \in {"all", "batch", "await"}
  PROVE  WaitersOK'
BY DEF WaitersOK, CallsOK

LEMMA WaitersSteps ==
  ASSUME OwnersInv, WaitersOK, [Next]_vars
  PROVE  WaitersOK'
<1>0. /\ DOMAIN call = Callers /\ Placed /\ CallsOK'
      /\ DOMAIN loop = Tasks /\ \A t \in Tasks : Locals \subseteq DOMAIN loop[t]
  BY CallsSteps DEF WaitersOK, OwnersInv, Owners, PlacesOK, PoolOK
<1>1. ASSUME NEW c \in Callers, CallerActs(c) PROVE WaitersOK'
  <2>0. /\ \A d \in Callers : d # c => at'[d] = at[d] /\ call'[d] = call[d]
        /\ \A t \in Tasks : at'[t] = at[t] \/ (at[t] = "unborn" /\ at'[t] = "spawned")
        /\ loop' = loop
    BY <1>0, <1>1, CallerFrame
  <2>1. CASE Flush(c)
    <3>1. call'[c].op = "flush" /\ Ready(c) /\ \A t \in Tasks : at'[t] = at[t]
      BY <1>0, <2>1, Apart DEF Flush, Calls, Goes, Placed
    <3>2. at'[c] = IF running THEN "notifying" ELSE "draining"
      BY <1>0, <2>1 DEF Flush, Goes, Placed
    <3>3. ~Waiting(c)
      BY <3>1 DEF Ready, Waiting
    <3>4. \A d \in Callers : Waiting(d) => Waiting(d)'
      BY <2>0, <3>3 DEF Waiting
    <3>5. CASE running
      <4>1. flushing' = flushing \cup {c} /\ Waiting(c)'
        BY <2>1, <3>1, <3>2, <3>5 DEF Flush, Waiting
      <4> QED BY <1>0, <2>0, <3>1, <3>4, <4>1 DEF WaitersOK, CallsOK
    <3>6. CASE ~running
      <4>1. flushing' = flushing
        BY <2>1, <3>6 DEF Flush
      <4> QED BY <1>0, <2>0, <3>1, <3>4, <4>1, WaitersStay
    <3> QED BY <3>5, <3>6
  <2>2. CASE ~Flush(c)
    <3>1. flushing' = flushing
      BY <1>1, <2>2 DEF CallerActs, CallerStep, DrawVersion, Close, Queue, StartTask, Inline, WriteInline, Notify,
                        Answered, TakePending, WriteHeld, Return, state
    <3>2. ASSUME c \in flushing \/ \E t \in Tasks : c \in loop[t].waiters PROVE Waiting(c)'
      <4>1. Waiting(c)
        BY <3>2 DEF WaitersOK
      <4>2. Notify(c)
        BY <1>1, <2>2, <3>2, <4>1 DEF CallerActs, CallerStep, DrawVersion, Close, Ready, Queue, StartTask, Inline,
                                      WriteInline, Answered, TakePending, WriteHeld, Return, Waiting
      <4> QED BY <1>0, <4>1, <4>2 DEF Notify, Goes, Placed, Waiting
    <3>3. \A d \in Callers : d # c /\ Waiting(d) => Waiting(d)'
      BY <2>0 DEF Waiting
    <3>4. \A d \in flushing' : Waiting(d)'
      BY <3>1, <3>2, <3>3 DEF WaitersOK
    <3>5. ASSUME NEW t \in Tasks
          PROVE  /\ loop'[t].waiters \subseteq Callers
                 /\ loop'[t].waiters # {} => at'[t] \in {"all", "batch", "await"}
                 /\ \A d \in loop'[t].waiters : Waiting(d)'
      BY <2>0, <3>2, <3>3 DEF WaitersOK
    <3> QED BY <1>0, <3>1, <3>4, <3>5 DEF WaitersOK, CallsOK
  <2> QED BY <2>1, <2>2
<1>2. ASSUME NEW t \in Tasks, TaskStep(t) \/ Abort(t) PROVE WaitersOK'
  <2>0. /\ \A c \in Callers : at'[c] = at[c]
        /\ \A u \in Tasks : u # t => at'[u] = at[u] /\ loop'[u] = loop[u]
        /\ call' = call /\ (flushing' = flushing \/ flushing' = {})
    BY <1>2, TaskFrame, Apart
  <2>1. \A c \in Callers : Waiting(c) => Waiting(c)'
    BY <2>0 DEF Waiting
  <2>2. \A u \in Tasks : u # t => /\ loop'[u].waiters = loop[u].waiters
                                  /\ at[u] \in {"all", "batch", "await"} => at'[u] \in {"all", "batch", "await"}
    BY <2>0
  <2>3. \/ loop'[t].waiters = {}
        \/ /\ loop'[t].waiters = loop[t].waiters
           /\ at[t] \in {"all", "batch", "await"} => at'[t] \in {"all", "batch", "await"}
        \/ /\ loop'[t].waiters = flushing
           /\ flushing # {} => at'[t] \in {"all", "batch", "await"}
    <3>1. CASE LoopTop(t)
      BY <1>0, <3>1 DEF LoopTop, Goes, Placed, Locals
    <3>2. CASE Woken(t) \/ TakePending(t) \/ WriteHeld(t) \/ WriteDue(t) \/ WriteAll(t)
      BY <1>0, <3>2 DEF Woken, TakePending, WriteHeld, WriteDue, WriteAll, Goes, Placed
    <3>3. CASE WriteOne(t)
      <4>1. PICK job \in held[t] :
               loop' = [loop EXCEPT ![t].written = Append(SelectSeq(@, LAMBDA p : p # job.path), job.path)]
        BY <3>3 DEF WriteOne
      <4> DEFINE w == Append(SelectSeq(loop[t].written, LAMBDA p : p # job.path), job.path)
      <4>2. loop' = [loop EXCEPT ![t] = [loop[t] EXCEPT !.written = w]]
        BY <4>1, Zenon
      <4> HIDE DEF w
      <4>3. loop'[t].waiters = loop[t].waiters
        BY <1>0, <4>2 DEF Locals
      <4> QED BY <1>0, <3>3, <4>3 DEF WriteOne, Goes, Placed
    <3>4. CASE OneWritten(t)
      BY <1>0, <3>4 DEF OneWritten, Goes, Placed, Locals
    <3>5. CASE BatchDone(t) \/ Abort(t) \/ DropMark(t)
      BY <1>0, <3>5 DEF BatchDone, Abort, DropMark, Fresh, Locals
    <3> QED BY <1>2, <3>1, <3>2, <3>3, <3>4, <3>5 DEF TaskStep
  <2> QED BY <1>0, <2>0, <2>1, <2>2, <2>3, WaitersStay
<1>3. ASSUME NEW work \in blocking, RunBlocking(work) PROVE WaitersOK'
  <2>1. PICK version :
           loop' = [loop EXCEPT ![work.by].refused = IF at[work.by] = "await" THEN version ELSE @]
    BY <1>3 DEF RunBlocking
  <2>2. \A t \in Tasks : loop'[t].waiters = loop[t].waiters
    BY <1>0, <2>1 DEF Locals
  <2>3. UNCHANGED <<at, call, flushing>>
    BY <1>3 DEF RunBlocking, state
  <2> QED BY <1>0, <2>2, <2>3, WaitersStay DEF Waiting
<1>4. CASE UNCHANGED vars
  <2>1. UNCHANGED <<at, call, flushing, loop>>
    BY <1>4 DEF vars
  <2> QED BY <1>0, <2>1, WaitersStay DEF Waiting
<1> QED BY <1>1, <1>2, <1>3, <1>4, StepsOf

---------------------------------------------------------------------------
(* ClosedOK is kept by every step but an abort                             *)
LEMMA ClosedStay ==
  ASSUME OwnersInv, ClosedOK,
         \A work \in blocking' : work \in blocking \/ (at'[work.by] = "await"),
         \A t \in Tasks : at[t] = "await" => at'[t] = "await" \/ (\A work \in blocking' : work.by # t),
         \A t \in Tasks : at'[t] = "ending" => at[t] = "ending" \/ closed,
         \A t \in Tasks : loop'[t].closed => loop[t].closed \/ closed,
         closed => closed',
         ~running' => ~running \/ closed,
         ~running' => DOMAIN pending' \subseteq DOMAIN pending
  PROVE  ClosedOK'
<1>1. \A work \in blocking : work.by \in Tasks /\ at[work.by] = "await"
  BY DEF OwnersInv, Owners, PoolOK, ClosedOK
<1>2. \A work \in blocking' : at'[work.by] = "await"
  BY <1>1
<1>3. \A t \in Tasks : (at'[t] = "ending" => closed') /\ (loop'[t].closed => closed')
  BY DEF ClosedOK
<1>4. ~running' /\ DOMAIN pending' # {} => closed'
  BY DEF ClosedOK
<1> QED BY <1>2, <1>3, <1>4 DEF ClosedOK

LEMMA ClosedSteps ==
  ASSUME OwnersInv, DOMAIN call = Callers, ClosedOK, [Next]_vars, ~\E t \in Tasks : Abort(t)
  PROVE  ClosedOK'
<1>0. Placed /\ DOMAIN loop = Tasks /\ \A t \in Tasks : Locals \subseteq DOMAIN loop[t]
  BY DEF OwnersInv, Owners, PlacesOK, PoolOK
<1>1. ASSUME NEW c \in Callers, CallerActs(c) PROVE ClosedOK'
  <2>0. /\ \A t \in Tasks : at'[t] = at[t] \/ (at[t] = "unborn" /\ at'[t] = "spawned")
        /\ loop' = loop /\ blocking' = blocking
    BY <1>0, <1>1, CallerFrame
  <2>1. CASE Queue(c)
    <3>1. running' /\ closed' = closed
      BY <2>1 DEF Queue
    <3> QED BY <2>0, <3>1, ClosedStay
  <2>2. CASE Inline(c)
    <3>1. running' = running /\ closed' = closed /\ DOMAIN pending' \subseteq DOMAIN pending
      BY <2>2 DEF Inline, Without
    <3> QED BY <2>0, <3>1, ClosedStay
  <2>3. CASE TakePending(c)
    <3>1. running' = running /\ closed' = closed /\ DOMAIN pending' \subseteq DOMAIN pending
      BY <2>3 DEF TakePending
    <3> QED BY <2>0, <3>1, ClosedStay
  <2>4. CASE Close(c)
    <3>1. running' = running /\ closed' /\ pending' = pending
      BY <2>4 DEF Close
    <3> QED BY <2>0, <3>1, ClosedStay
  <2>5. CASE ~(Queue(c) \/ Inline(c) \/ TakePending(c) \/ Close(c))
    <3>1. UNCHANGED <<running, closed, pending>>
      BY <1>1, <2>5 DEF CallerActs, CallerStep, DrawVersion, Flush, StartTask, WriteInline, Notify, Answered,
                        WriteHeld, Return, state
    <3> QED BY <2>0, <3>1, ClosedStay
  <2> QED BY <2>1, <2>2, <2>3, <2>4, <2>5
<1>2. ASSUME NEW t \in Tasks, TaskStep(t) PROVE ClosedOK'
  <2>0. \A u \in Tasks : u # t => at'[u] = at[u] /\ loop'[u] = loop[u]
    BY <1>2, TaskFrame
  <2>a. closed' = closed
    BY <1>2, TaskFrame
  <2>1. CASE LoopTop(t)
    <3>1. loop'[t].closed = closed /\ at[t] # "await" /\ at'[t] # "ending"
      BY <1>0, <2>1 DEF LoopTop, Goes, Placed, Locals
    <3>2. UNCHANGED <<running, pending, blocking>>
      BY <2>1 DEF LoopTop
    <3>3. \A u \in Tasks : loop'[u].closed => loop[u].closed \/ closed
      BY <2>0, <3>1, Zenon
    <3> QED BY <2>0, <2>a, <3>1, <3>2, <3>3, ClosedStay
  <2>2. CASE Woken(t) \/ WriteDue(t) \/ WriteAll(t) \/ TakePending(t)
    <3>1. loop' = loop /\ running' = running /\ blocking' = blocking /\ at[t] # "await" /\ at'[t] # "ending"
      BY <1>0, <2>2 DEF Woken, WriteDue, WriteAll, TakePending, Goes, Placed, state
    <3>2. DOMAIN pending' \subseteq DOMAIN pending
      BY <2>2 DEF Woken, WriteDue, WriteAll, TakePending, state
    <3> QED BY <2>0, <2>a, <3>1, <3>2, ClosedStay
  <2>3. CASE WriteOne(t)
    <3>1. PICK job \in held[t] :
             /\ blocking' = blocking \cup {[by |-> t, job |-> job]}
             /\ loop' = [loop EXCEPT ![t].written = Append(SelectSeq(@, LAMBDA p : p # job.path), job.path)]
      BY <2>3 DEF WriteOne
    <3> DEFINE w == Append(SelectSeq(loop[t].written, LAMBDA p : p # job.path), job.path)
    <3>2. loop' = [loop EXCEPT ![t] = [loop[t] EXCEPT !.written = w]]
      BY <3>1, Zenon
    <3> HIDE DEF w
    <3>3. loop'[t].closed = loop[t].closed
      BY <1>0, <3>2 DEF Locals
    <3>4. at'[t] = "await" /\ UNCHANGED <<running, pending>>
      BY <1>0, <2>3 DEF WriteOne, Goes, Placed, state
    <3>5. \A work \in blocking' : work \in blocking \/ at'[work.by] = "await"
      BY <3>1, <3>4
    <3>6. \A u \in Tasks : loop'[u].closed => loop[u].closed \/ closed
      BY <2>0, <3>3
    <3> QED BY <2>0, <2>a, <3>4, <3>5, <3>6, ClosedStay
  <2>4. CASE OneWritten(t)
    <3>1. loop'[t].closed = loop[t].closed /\ at'[t] # "ending" /\ UNCHANGED <<running, pending, blocking>>
      BY <1>0, <2>4 DEF OneWritten, Goes, Placed, Locals, state
    <3>2. \A work \in blocking' : work.by # t
      BY <2>4 DEF OneWritten
    <3>3. \A u \in Tasks : loop'[u].closed => loop[u].closed \/ closed
      BY <2>0, <3>1
    <3> QED BY <2>0, <2>a, <3>1, <3>2, <3>3, ClosedStay
  <2>5. CASE BatchDone(t)
    <3>1. loop'[t].closed = loop[t].closed /\ at[t] # "await" /\ UNCHANGED <<running, pending, blocking>>
      BY <1>0, <2>5 DEF BatchDone, Locals, state
    <3>2. at'[t] = "ending" => closed
      BY <1>0, <2>5 DEF BatchDone, Goes, Placed, ClosedOK
    <3>3. \A u \in Tasks : loop'[u].closed => loop[u].closed \/ closed
      BY <2>0, <3>1
    <3> QED BY <2>0, <2>a, <3>1, <3>2, <3>3, ClosedStay
  <2>6. CASE DropMark(t)
    <3>1. loop'[t].closed = FALSE /\ at[t] = "ending" /\ at'[t] # "ending" /\ UNCHANGED <<pending, blocking>>
      BY <1>0, <2>6 DEF DropMark, Fresh, Goes, Placed
    <3>2. closed
      BY <3>1 DEF ClosedOK
    <3> QED BY <2>0, <2>a, <3>1, <3>2, ClosedStay
  <2>7. CASE WriteHeld(t)
    <3>1. UNCHANGED <<at, loop, running, pending, blocking>>
      BY <2>7 DEF WriteHeld, state
    <3> QED BY <2>a, <3>1, ClosedStay
  <2> QED BY <1>2, <2>1, <2>2, <2>3, <2>4, <2>5, <2>6, <2>7 DEF TaskStep
<1>3. ASSUME NEW work \in blocking, RunBlocking(work) PROVE ClosedOK'
  <2>1. PICK version :
           loop' = [loop EXCEPT ![work.by].refused = IF at[work.by] = "await" THEN version ELSE @]
    BY <1>3 DEF RunBlocking
  <2>2. \A t \in Tasks : loop'[t].closed = loop[t].closed
    BY <1>0, <2>1 DEF Locals
  <2>3. UNCHANGED <<at, closed, running, pending>> /\ blocking' \subseteq blocking
    BY <1>3 DEF RunBlocking, state
  <2> QED BY <2>2, <2>3, ClosedStay
<1>4. CASE UNCHANGED vars
  <2>1. UNCHANGED <<at, closed, running, pending, blocking, loop>>
    BY <1>4 DEF vars
  <2> QED BY <2>1, ClosedStay
<1> QED BY <1>1, <1>2, <1>3, <1>4, StepsOf

---------------------------------------------------------------------------
(* where what was promised goes from                                       *)
Acts(e) == (e \in Callers /\ CallerActs(e)) \/ (e \in Tasks /\ (TaskStep(e) \/ Abort(e)))

LEMMA OthersStay ==
  ASSUME OwnersInv, DOMAIN call = Callers, [Next]_vars,
         NEW e \in Callers \cup Tasks, ~Acts(e), at[e] # "unborn"
  PROVE  /\ at'[e] = at[e] /\ held'[e] = held[e]
         /\ e \in Callers => call'[e] = call[e]
         /\ e \in Tasks => loop'[e].waiters = loop[e].waiters
<1>1. ASSUME NEW c \in Callers, CallerActs(c)
      PROVE  /\ at'[e] = at[e] /\ held'[e] = held[e]
             /\ e \in Callers => call'[e] = call[e]
             /\ e \in Tasks => loop'[e].waiters = loop[e].waiters
  <2>1. e # c
    BY <1>1 DEF Acts
  <2> QED BY <1>1, <2>1, CallerFrame
<1>2. ASSUME NEW t \in Tasks, TaskStep(t) \/ Abort(t)
      PROVE  /\ at'[e] = at[e] /\ held'[e] = held[e]
             /\ e \in Callers => call'[e] = call[e]
             /\ e \in Tasks => loop'[e].waiters = loop[e].waiters
  <2>1. e # t
    BY <1>2 DEF Acts
  <2> QED BY <1>2, <2>1, TaskFrame
<1>3. ASSUME NEW work \in blocking, RunBlocking(work)
      PROVE  /\ at'[e] = at[e] /\ held'[e] = held[e]
             /\ e \in Callers => call'[e] = call[e]
             /\ e \in Tasks => loop'[e].waiters = loop[e].waiters
  <2>1. PICK version :
           loop' = [loop EXCEPT ![work.by].refused = IF at[work.by] = "await" THEN version ELSE @]
    BY <1>3 DEF RunBlocking
  <2>2. \A t \in Tasks : loop'[t].waiters = loop[t].waiters
    BY <2>1 DEF Locals, OwnersInv, Owners, PoolOK
  <2> QED BY <1>3, <2>2 DEF RunBlocking
<1>4. CASE UNCHANGED vars
  BY <1>4 DEF vars
<1> QED BY <1>1, <1>2, <1>3, <1>4, StepsOf

LEMMA AfterGrows ==
  ASSUME OwnersInv, [Next]_vars, NEW p \in Paths, NEW n \in 1..Len(log[p])
  PROVE  After(p, n) \subseteq After(p, n)'
<1> SUFFICES ASSUME NEW i \in n..Len(log[p]) PROVE log[p][i] \in After(p, n)'
  BY DEF After
<1>1. i \in 1..Len(log[p]) /\ i \in n..Len(log'[p]) /\ log'[p][i] = log[p][i]
  BY LogGrows
<1> QED BY <1>1 DEF After

LEMMA DoneSettles ==
  ASSUME NEW p \in Paths, NEW n, NEW version \in After(p, n),
         disk[p] >= version \/ version \in failed \cup unheard
  PROVE  Settled(p, n)
BY DEF Settled, After

LEMMA SettledStays ==
  ASSUME OwnersInv, [Next]_vars, NEW p \in Paths, NEW n \in 1..Len(log[p]), Settled(p, n)
  PROVE  Settled(p, n)'
<1>1. PICK i \in n..Len(log[p]) : disk[p] >= log[p][i] \/ log[p][i] \in failed \cup unheard
  BY DEF Settled
<1> PICK version : version = log[p][i]
  OBVIOUS
<1>2. version \in After(p, n) /\ version \in Nat
  BY DEF After, OwnersInv, Owners, LogOK, Versions
<1>3. version \in After(p, n)'
  BY <1>2, AfterGrows
<1>4. disk'[p] >= disk[p] /\ disk'[p] \in Nat /\ disk[p] \in Nat
  BY Steps DEF OwnersInv, IInv, DiskOK
<1>5. disk'[p] >= version \/ version \in failed' \cup unheard'
  BY <1>1, <1>2, <1>4, LogGrows
<1> QED BY <1>3, <1>5 DEF Settled, After

(* a write that is done, and reported                                      *)
LEMMA NowDone ==
  ASSUME OwnersInv, NEW job \in JobSet, ExecuteNow(job)
  PROVE  disk'[job.path] >= job.version \/ job.version \in failed'
<1>1. PICK refused \in BOOLEAN : Execute(job, refused) /\ failed' = IF refused THEN failed \cup {job.version} ELSE failed
  BY DEF ExecuteNow
<1>2. CASE refused
  BY <1>1, <1>2
<1>3. CASE ~refused
  BY <1>1, <1>3, Executed DEF OwnersInv
<1> QED BY <1>2, <1>3

Writing(e, p, n) == at[e] = "writing" /\ \E job \in held[e] : job.path = p /\ job.version \in After(p, n)

Inlining(e, p) == at[e] = "inline" /\ \E job \in held[e] : job.path = p

LEMMA BusyIs ==
  ASSUME NEW c, NEW p, NEW n
  PROVE  Busy(c, p, n) <=> \E e \in (Callers \cup Tasks) \ {c} : Inlining(e, p) \/ Writing(e, p, n)
BY DEF Busy, Inlining, Writing

LEMMA WritingStays ==
  ASSUME OwnersInv, DOMAIN call = Callers, [Next]_vars,
         NEW p \in Paths, NEW n \in 1..Len(log[p]), NEW e \in Callers \cup Tasks, Writing(e, p, n)
  PROVE  Settled(p, n)' \/ Writing(e, p, n)'
<1>0. held \in [Callers \cup Tasks -> SUBSET JobSet] /\ Placed
  BY DEF OwnersInv, Owners, IInv, JobsOK, PlacesOK
<1> PICK job \in held[e] : job.path = p /\ job.version \in After(p, n)
  BY DEF Writing
<1> PICK version : version = job.version
  OBVIOUS
<1>1. version \in After(p, n)'
  BY AfterGrows
<1>2. CASE ~Acts(e)
  <2>1. at'[e] = at[e] /\ held'[e] = held[e]
    BY <1>2, OthersStay DEF Writing
  <2> QED BY <1>1, <2>1 DEF Writing
<1>3. CASE Acts(e)
  <2>1. WriteHeld(e)
    BY <1>3 DEF Writing, Acts, CallerActs, CallerStep, TaskStep, Queue, StartTask, Inline, WriteInline, Notify, Answered,
                TakePending, Return, Flush, Close, DrawVersion, Ready, LoopTop, Woken, WriteDue, WriteAll, WriteOne,
                OneWritten, BatchDone, DropMark, Abort
  <2>2. PICK j \in held[e] : ExecuteNow(j) /\ held' = [held EXCEPT ![e] = @ \ {j}]
    BY <2>1 DEF WriteHeld
  <2>3. CASE j = job
    <3>1. disk'[p] >= version \/ version \in failed'
      BY <1>0, <2>2, <2>3, NowDone
    <3> QED BY <1>1, <3>1 DEF Settled, After
  <2>4. CASE j # job
    <3>1. job \in held'[e] /\ at'[e] = at[e]
      BY <1>0, <2>1, <2>2, <2>4 DEF WriteHeld
    <3> QED BY <1>1, <3>1 DEF Writing
  <2> QED BY <2>3, <2>4
<1> QED BY <1>2, <1>3

LEMMA InliningStays ==
  ASSUME OwnersInv, DOMAIN call = Callers, [Next]_vars,
         NEW p \in Paths, NEW n \in 1..Len(log[p]), NEW e \in Callers \cup Tasks, Inlining(e, p)
  PROVE  Settled(p, n)' \/ Inlining(e, p)'
<1>0. held \in [Callers \cup Tasks -> SUBSET JobSet] /\ Placed
  BY DEF OwnersInv, Owners, IInv, JobsOK, PlacesOK
<1> PICK job \in held[e] : job.path = p
  BY DEF Inlining
<1>1. e \in Callers
  BY DEF Inlining, OwnersInv, Owners, PlacesOK
<1>2. CASE ~Acts(e)
  <2>1. at'[e] = at[e] /\ held'[e] = held[e]
    BY <1>2, OthersStay DEF Inlining
  <2> QED BY <2>1 DEF Inlining
<1>3. CASE Acts(e)
  <2>1. e \notin Tasks
    BY <1>1, Apart
  <2>2. WriteInline(e)
    BY <1>3, <2>1 DEF Inlining, Acts, CallerActs, CallerStep, Queue, StartTask, Inline, WriteHeld, Notify, Answered,
                      TakePending, Return, Flush, Close, DrawVersion, Ready
  <2>3. PICK j \in held[e] : ExecuteNow(j) /\ Accepted(j)
    BY <2>2 DEF WriteInline
  <2>4. j = job /\ job \in JobSet
    BY <1>0, <1>1 DEF Inlining, OwnersInv, Owners, HeldOK
  <2> PICK version : version = job.version
    OBVIOUS
  <2>5. disk'[p] >= version \/ version \in failed'
    BY <2>3, <2>4, NowDone
  <2>6. log'[p] = Append(log[p], version) /\ log[p] \in Seq(Versions)
    BY <2>3, <2>4 DEF Accepted, OwnersInv, Owners, LogOK
  <2>7. Len(log[p]) + 1 \in n..Len(log'[p]) /\ log'[p][Len(log[p]) + 1] = version
    BY <2>6
  <2>8. version \in After(p, n)'
    BY <2>7 DEF After
  <2> QED BY <2>5, <2>8 DEF Settled, After
<1> QED BY <1>2, <1>3

LEMMA BusyStays ==
  ASSUME OwnersInv, DOMAIN call = Callers, [Next]_vars,
         NEW c, NEW p \in Paths, NEW n \in 1..Len(log[p]), Busy(c, p, n)
  PROVE  Settled(p, n)' \/ Busy(c, p, n)'
<1> PICK e \in (Callers \cup Tasks) \ {c} : Inlining(e, p) \/ Writing(e, p, n)
  BY BusyIs
<1>1. Settled(p, n)' \/ Inlining(e, p)' \/ Writing(e, p, n)'
  BY WritingStays, InliningStays
<1> QED BY <1>1 DEF Busy, Inlining, Writing

(* what a task does about one version of its batch                         *)
InHand(t, p, version) ==
    \/ Job(p, version) \in held[t]
    \/ \E work \in blocking : work.by = t /\ work.job = Job(p, version)
    \/ version \in loop[t].refused

LEMMA BatchedMoves ==
  ASSUME OwnersInv, DOMAIN call = Callers, ClosedOK, [Next]_vars, ~\E u \in Tasks : Abort(u),
         NEW p \in Paths, NEW n \in 1..Len(log[p]), NEW t \in Tasks, Batched(t, p, n)
  PROVE  Settled(p, n)' \/ Batched(t, p, n)'
<1>0. /\ held \in [Callers \cup Tasks -> SUBSET JobSet] /\ Placed
      /\ DOMAIN loop = Tasks /\ \A u \in Tasks : Locals \subseteq DOMAIN loop[u]
  BY DEF OwnersInv, Owners, IInv, JobsOK, PlacesOK, PoolOK
<1> PICK version \in After(p, n) : InHand(t, p, version)
  BY DEF Batched, InHand
<1>1. version \in After(p, n)'
  BY AfterGrows
<1>2. at'[t] \in {"batch", "await"} /\ InHand(t, p, version)' => Batched(t, p, n)'
  BY <1>1 DEF Batched, InHand
<1>3. (disk'[p] >= version \/ version \in failed') => Settled(p, n)'
  BY <1>1 DEF Settled, After
<1>4. at[t] \in {"batch", "await"} /\ t \notin Callers
  BY Apart DEF Batched
<1>5. at'[t] = at[t] /\ held'[t] = held[t] /\ loop'[t] = loop[t] /\ blocking \subseteq blocking' => InHand(t, p, version)'
  BY DEF InHand
<1>6. ASSUME NEW c \in Callers, CallerActs(c) PROVE Batched(t, p, n)'
  <2>1. c # t
    BY <1>4
  <2> QED BY <1>2, <1>4, <1>5, <1>6, <2>1, CallerFrame
<1>7. ASSUME NEW u \in Tasks, TaskStep(u), u # t PROVE Batched(t, p, n)'
  <2>1. blocking \subseteq blocking'
    BY <1>7 DEF TaskStep, LoopTop, Woken, WriteDue, WriteAll, WriteOne, OneWritten, BatchDone, DropMark, TakePending, WriteHeld
  <2> QED BY <1>2, <1>4, <1>5, <1>7, <2>1, TaskFrame
<1>8. CASE WriteOne(t)
  <2>1. PICK job \in held[t] :
           /\ held' = [held EXCEPT ![t] = @ \ {job}]
           /\ blocking' = blocking \cup {[by |-> t, job |-> job]}
           /\ loop' = [loop EXCEPT ![t].written = Append(SelectSeq(@, LAMBDA q : q # job.path), job.path)]
    BY <1>8 DEF WriteOne
  <2> DEFINE w == Append(SelectSeq(loop[t].written, LAMBDA q : q # job.path), job.path)
  <2>2. loop' = [loop EXCEPT ![t] = [loop[t] EXCEPT !.written = w]]
    BY <2>1, Zenon
  <2> HIDE DEF w
  <2>3. loop'[t].refused = loop[t].refused /\ at'[t] = "await"
    BY <1>0, <1>8, <2>2 DEF Locals, WriteOne, Goes, Placed
  <2>4. held'[t] = held[t] \ {job}
    BY <1>0, <2>1
  <2>5. CASE job = Job(p, version)
    <3> DEFINE work == [by |-> t, job |-> job]
    <3>1. work \in blocking' /\ work.by = t /\ work.job = Job(p, version)
      BY <2>1, <2>5
    <3> HIDE DEF work
    <3> QED BY <1>2, <2>3, <3>1 DEF InHand
  <2>6. CASE job # Job(p, version)
    BY <1>2, <2>1, <2>3, <2>4, <2>6 DEF InHand
  <2> QED BY <2>5, <2>6
<1>9. CASE OneWritten(t)
  <2>1. /\ \A work \in blocking : work.by # t
        /\ failed' = failed \cup loop[t].refused
        /\ held' = held /\ at'[t] = "batch"
    BY <1>0, <1>9 DEF OneWritten, Goes, Placed
  <2> QED BY <1>2, <1>3, <2>1 DEF InHand
<1>10. CASE BatchDone(t)
  BY <1>10 DEF BatchDone, InHand, ClosedOK, OwnersInv, Owners, PoolOK
<1>11. CASE TaskStep(t)
  BY <1>4, <1>8, <1>9, <1>10, <1>11 DEF TaskStep, LoopTop, Woken, WriteDue, WriteAll, DropMark, TakePending, WriteHeld
<1>12. ASSUME NEW w \in blocking, RunBlocking(w) PROVE Settled(p, n)' \/ Batched(t, p, n)'
  <2>1. PICK refused \in BOOLEAN :
           /\ Execute(w.job, refused)
           /\ loop' = [loop EXCEPT ![w.by].refused =
                         IF at[w.by] = "await" THEN (IF refused THEN {w.job.version} ELSE {}) ELSE @]
    BY <1>12 DEF RunBlocking
  <2>2. blocking' = blocking \ {w} /\ UNCHANGED <<at, held>>
    BY <1>12 DEF RunBlocking
  <2>3. w.by \in Tasks /\ at[w.by] = "await" /\ w.job \in JobSet /\ loop[w.by].refused = {}
    BY DEF ClosedOK, OwnersInv, Owners, PoolOK, IInv, JobsOK
  <2>4. CASE w.by # t
    <3>1. loop'[t].refused = loop[t].refused
      BY <1>0, <2>1, <2>3, <2>4
    <3> QED BY <1>2, <1>4, <2>2, <2>4, <3>1 DEF InHand
  <2>5. CASE w.by = t
    <3>1. CASE Job(p, version) \in held[t]
      BY <1>2, <1>4, <2>2, <3>1 DEF InHand
    <3>2. CASE w.job = Job(p, version)
      <4>1. w.job.path = p /\ w.job.version = version
        BY <3>2 DEF Job
      <4>2. CASE refused
        <5>1. version \in loop'[t].refused
          BY <1>0, <2>1, <2>3, <2>5, <4>1, <4>2 DEF Locals
        <5> QED BY <1>2, <1>4, <2>2, <5>1 DEF InHand
      <4>3. CASE ~refused
        BY <1>3, <2>1, <2>3, <4>1, <4>3, Executed DEF OwnersInv
      <4> QED BY <4>2, <4>3
    <3>3. \A work \in blocking : work.by = t => work = w
      BY <2>5 DEF OwnersInv, Owners, PoolOK
    <3> QED BY <2>3, <2>5, <3>1, <3>2, <3>3 DEF InHand
  <2> QED BY <2>4, <2>5
<1>13. CASE UNCHANGED vars
  BY <1>2, <1>4, <1>5, <1>13 DEF vars
<1> QED BY <1>6, <1>7, <1>11, <1>12, <1>13, StepsOf

LEMMA WaitsMoves ==
  ASSUME OwnersInv, WaitersOK, [Next]_vars, NEW p \in Paths, NEW n \in 1..Len(log[p]), Waits(p, n),
         NEW c \in Callers, call[c].op = "flush", ~TakePending(c)
  PROVE  \/ Busy(c, p, n)' \/ Waits(p, n)'
         \/ \E t \in Tasks : at[t] \in {"select", "all"} /\ Batched(t, p, n)'
<1>0. /\ held \in [Callers \cup Tasks -> SUBSET JobSet] /\ Placed /\ DOMAIN call = Callers
      /\ log \in [Paths -> Seq(Versions)]
  BY DEF OwnersInv, Owners, IInv, JobsOK, PlacesOK, WaitersOK, LogOK
<1> PICK version : version = pending[p]
  OBVIOUS
<1>1. version \in After(p, n)' /\ p \in DOMAIN pending
  BY AfterGrows DEF Waits
<1>2. p \in DOMAIN pending' /\ pending'[p] = pending[p] => Waits(p, n)'
  BY <1>1 DEF Waits
<1>3. Job(p, version) \in Jobs(pending)
  BY <1>1 DEF Jobs
<1>4. ASSUME NEW e \in (Callers \cup Tasks) \ {c}, at'[e] = "writing", Job(p, version) \in held'[e]
      PROVE  Busy(c, p, n)'
  <2>1. Job(p, version).path = p /\ Job(p, version).version = version
    BY DEF Job
  <2> QED BY <1>1, <1>4, <2>1 DEF Busy
<1>5. ASSUME NEW d \in Callers, Queue(d) PROVE Waits(p, n)'
  <2>1. PICK job \in held[d] : pending' = With(pending, job.path, job.version) /\ Accepted(job)
    BY <1>5 DEF Queue
  <2>2. job \in JobSet
    BY <1>0
  <2>3. CASE p = job.path
    <3>1. p \in DOMAIN pending' /\ pending'[p] = job.version
      BY <2>1, <2>3 DEF With
    <3>2. log'[p] = Append(log[p], job.version) /\ log[p] \in Seq(Versions)
      BY <1>0, <2>1, <2>3 DEF Accepted
    <3>3. Len(log[p]) + 1 \in n..Len(log'[p]) /\ log'[p][Len(log[p]) + 1] = job.version
      BY <3>2
    <3> QED BY <3>1, <3>3 DEF Waits, After
  <2>4. CASE p # job.path
    BY <1>1, <1>2, <2>1, <2>4 DEF With
  <2> QED BY <2>3, <2>4
<1>6. ASSUME NEW d \in Callers, Inline(d) PROVE Busy(c, p, n)' \/ Waits(p, n)'
  <2>1. PICK job \in held[d] : pending' = Without(pending, job.path)
    BY <1>6 DEF Inline
  <2>2. d # c
    BY <1>6 DEF Inline, WaitersOK
  <2>3. at'[d] = "inline" /\ held'[d] = held[d]
    BY <1>0, <1>6 DEF Inline, Goes, Placed
  <2>4. CASE p = job.path
    BY <2>2, <2>3, <2>4 DEF Busy
  <2>5. CASE p # job.path
    BY <1>1, <1>2, <2>1, <2>5 DEF Without
  <2> QED BY <2>4, <2>5
<1>7. ASSUME NEW e \in (Callers \cup Tasks) \ {c}, TakePending(e) PROVE Busy(c, p, n)'
  BY <1>0, <1>3, <1>4, <1>7 DEF TakePending, Goes, Placed
<1>8. ASSUME NEW d \in Callers, CallerActs(d) PROVE Busy(c, p, n)' \/ Waits(p, n)'
  <2>1. CASE TakePending(d)
    <3>1. d # c
      BY <2>1
    <3> QED BY <1>7, <2>1, <3>1
  <2>2. CASE ~(Queue(d) \/ Inline(d) \/ TakePending(d))
    <3>1. pending' = pending
      BY <1>8, <2>2 DEF CallerActs, CallerStep, DrawVersion, Flush, Close, StartTask, WriteInline, Notify, Answered,
                        WriteHeld, Return, state
    <3> QED BY <1>1, <1>2, <3>1
  <2> QED BY <1>5, <1>6, <2>1, <2>2
<1>9. ASSUME NEW t \in Tasks, TaskStep(t) \/ Abort(t)
      PROVE  Busy(c, p, n)' \/ Waits(p, n)' \/ (at[t] \in {"select", "all"} /\ Batched(t, p, n)')
  <2>1. CASE TakePending(t)
    <3>1. t # c
      BY Apart
    <3> QED BY <1>7, <2>1, <3>1
  <2>2. CASE WriteDue(t)
    <3>1. PICK S \in DueSets(t) : /\ held' = [held EXCEPT ![t] = {Job(q, pending[q]) : q \in S}]
                                  /\ pending' = [q \in DOMAIN pending \ S |-> pending[q]]
      BY <2>2 DEF WriteDue
    <3>2. CASE p \in S
      <4>1. Job(p, version) \in held'[t]
        BY <1>0, <3>1, <3>2
      <4>2. at[t] = "select" /\ at'[t] = "batch"
        BY <1>0, <2>2 DEF WriteDue, Goes, Placed
      <4> QED BY <1>1, <4>1, <4>2 DEF Batched
    <3>3. CASE p \notin S
      BY <1>1, <1>2, <3>1, <3>3
    <3> QED BY <3>2, <3>3
  <2>3. CASE WriteAll(t)
    <3>1. Job(p, version) \in held'[t] /\ at[t] = "all" /\ at'[t] = "batch"
      BY <1>0, <1>3, <2>3 DEF WriteAll, Goes, Placed
    <3> QED BY <1>1, <3>1 DEF Batched
  <2>4. CASE ~(WriteDue(t) \/ WriteAll(t) \/ TakePending(t))
    <3>1. pending' = pending
      BY <1>9, <2>4 DEF TaskStep, LoopTop, Woken, WriteOne, OneWritten, BatchDone, DropMark, WriteHeld, Abort, state
    <3> QED BY <1>1, <1>2, <3>1
  <2> QED BY <2>1, <2>2, <2>3, <2>4
<1>10. ASSUME NEW w \in blocking, RunBlocking(w) PROVE Waits(p, n)'
  BY <1>1, <1>2, <1>10 DEF RunBlocking, state
<1>11. CASE UNCHANGED vars
  BY <1>1, <1>2, <1>11 DEF vars
<1> QED BY <1>8, <1>9, <1>10, <1>11, StepsOf

(* what is left when the writer is closed and its task is gone             *)
LEMMA LeftMoves ==
  ASSUME OwnersInv, RunInv, WaitersOK, [Next]_vars, NEW p \in Paths, NEW n \in 1..Len(log[p]), Left(p, n),
         NEW c \in Callers, call[c].op = "flush", ~TakePending(c)
  PROVE  Busy(c, p, n)' \/ Left(p, n)'
<1>1. \A t \in Tasks : at[t] \notin {"select", "all"}
  BY DEF RunInv, OneTask, Runners, Alive, Left
<1>2. Busy(c, p, n)' \/ Waits(p, n)'
  BY <1>1, WaitsMoves DEF Left
<1>3. closed' /\ ~running'
  <2>1. closed /\ ~running
    BY DEF Left
  <2>2. ASSUME NEW d \in Callers, CallerActs(d) PROVE closed' /\ ~running'
    <3>1. ~Queue(d)
      BY <2>1 DEF Queue, IsQueued
    <3>2. CASE Close(d)
      BY <2>1, <3>2 DEF Close
    <3>3. CASE ~Close(d)
      <4>1. UNCHANGED <<running, closed>>
        BY <2>2, <3>1, <3>3 DEF CallerActs, CallerStep, DrawVersion, Flush, StartTask, Inline, WriteInline, Notify,
                                Answered, TakePending, WriteHeld, Return, state
      <4> QED BY <2>1, <4>1, Zenon
    <3> QED BY <3>2, <3>3
  <2>3. ASSUME NEW t \in Tasks, TaskStep(t) \/ Abort(t) PROVE closed' /\ ~running'
    <3>1. closed' = closed
      BY <2>3, TaskFrame
    <3>2. CASE DropMark(t)
      <4>1. running' = FALSE
        BY <3>2 DEF DropMark
      <4>2. ~running'
        BY <4>1
      <4>3. closed'
        BY <2>1, <3>1, Zenon
      <4> QED BY <4>2, <4>3
    <3>3. CASE ~DropMark(t)
      <4>1. running' = running
        BY <2>3, <3>3 DEF TaskStep, LoopTop, Woken, WriteDue, WriteAll, WriteOne, OneWritten, BatchDone, TakePending,
                          WriteHeld, Abort, state
      <4> QED BY <2>1, <3>1, <4>1, Zenon
    <3> QED BY <3>2, <3>3
  <2>4. ASSUME NEW w \in blocking, RunBlocking(w) PROVE closed' /\ ~running'
    BY <2>1, <2>4 DEF RunBlocking, state
  <2>5. CASE UNCHANGED vars
    BY <2>1, <2>5 DEF vars
  <2> QED BY <2>2, <2>3, <2>4, <2>5, StepsOf
<1> QED BY <1>2, <1>3 DEF Left

(* who waits, and for which task                                           *)
LEMMA QueueMoves ==
  ASSUME OwnersInv, WaitersOK, [Next]_vars, ~\E u \in Tasks : Abort(u), NEW c \in Callers, ~Flush(c)
  PROVE  /\ c \in flushing' => c \in flushing
         /\ c \in flushing => c \in flushing' \/ \E t \in Tasks : LoopTop(t) \/ DropMark(t)
         /\ \A t \in Tasks : c \in loop'[t].waiters => c \in loop[t].waiters \/ (c \in flushing /\ LoopTop(t))
         /\ \A t \in Tasks : c \in loop[t].waiters => c \in loop'[t].waiters \/ BatchDone(t)
         /\ \A t \in Tasks : LoopTop(t) => /\ at[t] \in {"spawned", "top"} /\ loop'[t].waiters = flushing
                                           /\ flushing # {} => at'[t] = "all"
<1>0. /\ DOMAIN call = Callers /\ Placed
      /\ DOMAIN loop = Tasks /\ \A t \in Tasks : Locals \subseteq DOMAIN loop[t]
  BY DEF WaitersOK, OwnersInv, Owners, PlacesOK, PoolOK
<1>1. ASSUME NEW t \in Tasks, LoopTop(t)
      PROVE  /\ at[t] \in {"spawned", "top"} /\ loop'[t].waiters = flushing
             /\ flushing # {} => at'[t] = "all"
  <2>1. flushing # {} => Goes(t, "all")
    BY <1>1 DEF LoopTop
  <2> QED BY <1>0, <1>1, <2>1 DEF LoopTop, Goes, Placed, Locals
<1>2. ASSUME NEW d \in Callers, CallerActs(d)
      PROVE  /\ c \in flushing' <=> c \in flushing
             /\ loop' = loop
  <2>1. CASE Flush(d)
    <3>1. d # c
      BY <2>1
    <3> QED BY <2>1, <3>1 DEF Flush
  <2>2. CASE ~Flush(d)
    BY <1>2, <2>2 DEF CallerActs, CallerStep, DrawVersion, Close, Queue, StartTask, Inline, WriteInline, Notify,
                      Answered, TakePending, WriteHeld, Return, state
  <2> QED BY <2>1, <2>2
<1>3. ASSUME NEW u \in Tasks, TaskStep(u), ~LoopTop(u)
      PROVE  /\ c \in flushing' => c \in flushing
             /\ c \in flushing => c \in flushing' \/ DropMark(u)
             /\ \A t \in Tasks : t # u => loop'[t] = loop[t]
             /\ c \in loop'[u].waiters => c \in loop[u].waiters
             /\ c \in loop[u].waiters => c \in loop'[u].waiters \/ BatchDone(u)
  <2>0. \A t \in Tasks : t # u => loop'[t] = loop[t]
    BY <1>3, TaskFrame
  <2>1. CASE DropMark(u)
    <3>1. loop'[u].waiters = {} /\ flushing' = {} /\ at[u] = "ending"
      BY <1>0, <2>1 DEF DropMark, Fresh
    <3> QED BY <2>0, <2>1, <3>1 DEF WaitersOK
  <2>2. CASE BatchDone(u)
    BY <1>0, <2>0, <2>2 DEF BatchDone, Locals, state
  <2>3. CASE WriteOne(u)
    <3>1. PICK job \in held[u] :
             loop' = [loop EXCEPT ![u].written = Append(SelectSeq(@, LAMBDA q : q # job.path), job.path)]
      BY <2>3 DEF WriteOne
    <3> DEFINE w == Append(SelectSeq(loop[u].written, LAMBDA q : q # job.path), job.path)
    <3>2. loop' = [loop EXCEPT ![u] = [loop[u] EXCEPT !.written = w]]
      BY <3>1, Zenon
    <3> HIDE DEF w
    <3>3. loop'[u].waiters = loop[u].waiters
      BY <1>0, <3>2 DEF Locals
    <3> QED BY <2>0, <2>3, <3>3 DEF WriteOne, state
  <2>4. CASE OneWritten(u)
    BY <1>0, <2>0, <2>4 DEF OneWritten, Locals, state
  <2>5. CASE Woken(u) \/ WriteDue(u) \/ WriteAll(u) \/ TakePending(u) \/ WriteHeld(u)
    BY <2>5 DEF Woken, WriteDue, WriteAll, TakePending, WriteHeld, state
  <2> QED BY <1>3, <2>1, <2>2, <2>3, <2>4, <2>5 DEF TaskStep
<1>4. CASE \E u \in Tasks : LoopTop(u)
  <2>1. PICK u \in Tasks : LoopTop(u)
    BY <1>4
  <2>2. flushing' = {} /\ \A t \in Tasks : t # u => loop'[t] = loop[t]
    BY <2>1, TaskFrame DEF LoopTop, TaskStep
  <2>3. loop[u].waiters = {}
    BY <2>1 DEF LoopTop, WaitersOK
  <2> QED BY <1>1, <2>1, <2>2, <2>3
<1>5. ASSUME NEW work \in blocking, RunBlocking(work)
      PROVE  flushing' = flushing /\ \A t \in Tasks : loop'[t].waiters = loop[t].waiters
  <2>1. PICK version :
           loop' = [loop EXCEPT ![work.by].refused = IF at[work.by] = "await" THEN version ELSE @]
    BY <1>5 DEF RunBlocking
  <2>2. \A t \in Tasks : loop'[t].waiters = loop[t].waiters
    BY <1>0, <2>1 DEF Locals
  <2> QED BY <1>5, <2>2 DEF RunBlocking, state
<1>6. CASE UNCHANGED vars
  BY <1>1, <1>6 DEF vars
<1>7. CASE \E d \in Callers : CallerActs(d)
  BY <1>1, <1>2, <1>7
<1>8. CASE \E u \in Tasks : TaskStep(u) /\ ~LoopTop(u)
  <2>1. PICK u \in Tasks : TaskStep(u) /\ ~LoopTop(u)
    BY <1>8
  <2> QED BY <1>1, <1>3, <2>1
<1>9. CASE \E work \in blocking : RunBlocking(work)
  BY <1>1, <1>5, <1>9
<1> QED BY <1>4, <1>6, <1>7, <1>8, <1>9, StepsOf

Moving == OwnersInv /\ RunInv /\ WaitersOK /\ ClosedOK

LEMMA OnlyRunner ==
  ASSUME Moving, NEW t \in Tasks, at[t] \in Alive, NEW u \in Tasks, at[u] \in Alive
  PROVE  u = t /\ running
BY DEF Moving, RunInv, OneTask, Runners

LEMMA QueueKept ==
  ASSUME Moving, [Next]_vars, ~\E u \in Tasks : Abort(u), NEW c \in Callers, call[c].op = "flush", ~Acts(c),
         NEW p \in Paths, NEW n \in 1..Len(log[p]),
         InQueue(c, p, n), InBatch(c, p, n), Released(c, p, n), ~Settled(p, n)', ~Busy(c, p, n)'
  PROVE  InQueue(c, p, n)' /\ InBatch(c, p, n)' /\ Released(c, p, n)'
<1>0. /\ OwnersInv /\ RunInv /\ WaitersOK /\ ClosedOK /\ DOMAIN call = Callers /\ ~Flush(c) /\ ~TakePending(c)
      /\ Placed
  BY DEF Moving, WaitersOK, Acts, CallerActs, CallerStep, OwnersInv, Owners, PlacesOK
<1>1. \A t \in Tasks : Batched(t, p, n) => Batched(t, p, n)'
  BY <1>0, BatchedMoves
<1>2. Waits(p, n) => Waits(p, n)' \/ \E t \in Tasks : at[t] \in {"select", "all"} /\ Batched(t, p, n)'
  BY <1>0, WaitsMoves
<1>3. \A t \in Tasks : Batched(t, p, n) => at[t] \in {"batch", "await"}
  BY DEF Batched
<1>4. ASSUME NEW t \in Tasks, at[t] \in Alive PROVE \A u \in Tasks : at[u] \in Alive => u = t
  BY <1>4, OnlyRunner
<1>5. InQueue(c, p, n)'
  BY <1>0, <1>1, <1>2, QueueMoves DEF InQueue
<1>6. ASSUME NEW t \in Tasks, c \in loop'[t].waiters
      PROVE  Batched(t, p, n)' \/ (at'[t] = "all" /\ Waits(p, n)')
  <2>1. CASE c \in loop[t].waiters /\ at[t] = "all" /\ Waits(p, n)
    <3>1. CASE Waits(p, n)'
      <4>1. ~WriteAll(t)
        BY <3>1 DEF WriteAll, Waits
      <4>2. ~Acts(t)
        BY <1>0, <2>1, <4>1, Apart DEF Acts, TaskStep, LoopTop, Woken, WriteDue, WriteOne, OneWritten, BatchDone, DropMark,
                                TakePending, WriteHeld
      <4>3. at'[t] = "all"
        BY <1>0, <2>1, <4>2, OthersStay
      <4> QED BY <3>1, <4>3
    <3>2. CASE ~Waits(p, n)'
      <4>1. PICK u \in Tasks : at[u] \in {"select", "all"} /\ Batched(u, p, n)'
        BY <1>2, <2>1, <3>2
      <4>2. u = t
        BY <1>4, <2>1, <4>1 DEF Alive
      <4> QED BY <4>1, <4>2
    <3> QED BY <3>1, <3>2
  <2>2. CASE c \in loop[t].waiters /\ ~(at[t] = "all" /\ Waits(p, n))
    BY <1>1, <2>2 DEF InBatch
  <2>3. CASE c \in flushing /\ LoopTop(t)
    <3>1. at[t] \in {"spawned", "top"} /\ at'[t] = "all"
      BY <1>0, <2>3, QueueMoves
    <3>2. \A u \in Tasks : at[u] \in {"batch", "await", "select", "all"} => FALSE
      BY <1>4, <3>1 DEF Alive
    <3>3. Waits(p, n)
      BY <1>3, <2>3, <3>2 DEF InQueue
    <3>4. Waits(p, n)'
      BY <1>2, <3>2, <3>3
    <3> QED BY <3>1, <3>4
  <2> QED BY <1>0, <1>6, <2>1, <2>2, <2>3, QueueMoves
<1>7. ASSUME c \notin flushing', \A t \in Tasks : c \notin loop'[t].waiters PROVE Left(p, n)'
  <2>1. \A t \in Tasks : c \notin loop[t].waiters
    <3> SUFFICES ASSUME NEW t \in Tasks, c \in loop[t].waiters PROVE FALSE
      OBVIOUS
    <3>1. BatchDone(t)
      BY <1>0, <1>7, QueueMoves
    <3>2. Batched(t, p, n)
      BY <3>1 DEF InBatch, BatchDone
    <3> QED BY <1>0, <3>1, <3>2 DEF Batched, BatchDone, ClosedOK, OwnersInv, Owners, PoolOK
  <2>2. CASE c \notin flushing
    <3>1. Left(p, n)
      BY <2>1, <2>2 DEF Released
    <3> QED BY <1>0, <3>1, LeftMoves
  <2>3. CASE c \in flushing
    <3>1. PICK t \in Tasks : LoopTop(t) \/ DropMark(t)
      BY <1>0, <1>7, <2>3, QueueMoves
    <3>2. DropMark(t)
      BY <1>0, <1>7, <2>3, <3>1, QueueMoves
    <3>3. at[t] = "ending" /\ running' = FALSE
      BY <3>2 DEF DropMark
    <3>4. closed /\ closed' = closed
      BY <1>0, <3>2, <3>3 DEF ClosedOK, DropMark
    <3>5. \A u \in Tasks : at[u] \in {"batch", "await", "select", "all"} => FALSE
      BY <1>4, <3>3 DEF Alive
    <3>6. Waits(p, n)'
      BY <1>2, <1>3, <2>3, <3>5 DEF InQueue
    <3>7. closed'
      BY <3>4, Zenon
    <3>8. ~running'
      BY <3>3
    <3> QED BY <3>6, <3>7, <3>8 DEF Left
  <2> QED BY <2>2, <2>3
<1>8. InBatch(c, p, n)'
  BY <1>6 DEF InBatch
<1>9. Released(c, p, n)'
  BY <1>7 DEF Released
<1> QED BY <1>5, <1>8, <1>9

LEMMA PlaceKept ==
  ASSUME Moving, [Next]_vars, ~\E u \in Tasks : Abort(u), NEW c \in Callers, call[c].op = "flush", ~Flush(c),
         call'[c].op = "flush", NEW p \in Paths, NEW n \in 1..Len(log[p]), Place(c, p, n)
  PROVE  Promise(c, p, n)'
<1>0. /\ OwnersInv /\ RunInv /\ WaitersOK /\ ClosedOK /\ DOMAIN call = Callers /\ Placed
      /\ held \in [Callers \cup Tasks -> SUBSET JobSet]
      /\ at[c] \in {"notifying", "waiting", "draining", "writing"}
  BY DEF Moving, WaitersOK, OwnersInv, Owners, PlacesOK, IInv, JobsOK, Place
<1>1. \A version : version \in After(p, n) => version \in After(p, n)'
  BY <1>0, AfterGrows
<1>2. Writing(c, p, n)' => Promise(c, p, n)'
  BY DEF Writing, Promise, Place
<1>3. Settled(p, n)' \/ Busy(c, p, n)' => Promise(c, p, n)'
  BY DEF Promise
<1>4. CASE at[c] = "writing"
  <2>1. Writing(c, p, n)
    BY <1>4 DEF Place, Writing
  <2> QED BY <1>0, <1>2, <1>3, <2>1, WritingStays
<1>5. CASE ~Acts(c)
  <2>1. at'[c] = at[c] /\ held'[c] = held[c]
    BY <1>0, <1>5, OthersStay
  <2>2. ~TakePending(c)
    BY <1>5 DEF Acts, CallerActs, CallerStep
  <2>3. CASE at[c] = "draining"
    <3>1. Left(p, n)
      BY <2>3 DEF Place
    <3>2. Busy(c, p, n)' \/ Left(p, n)'
      BY <1>0, <2>2, <3>1, LeftMoves
    <3> QED BY <2>1, <2>3, <3>2 DEF Promise, Place
  <2>4. CASE at[c] \in {"notifying", "waiting"} /\ ~Settled(p, n)' /\ ~Busy(c, p, n)'
    <3>1. InQueue(c, p, n)' /\ InBatch(c, p, n)' /\ Released(c, p, n)'
      BY <1>5, <2>4, QueueKept DEF Place
    <3> QED BY <2>1, <2>4, <3>1 DEF Promise, Place
  <2> QED BY <1>0, <1>3, <1>4, <2>3, <2>4
<1>6. CASE Acts(c) /\ at[c] # "writing"
  <2>1. c \notin Tasks
    BY Apart
  <2>2. Notify(c) \/ Answered(c) \/ TakePending(c)
    BY <1>0, <1>6, <2>1 DEF Acts, CallerActs, CallerStep, DrawVersion, Close, Ready, Queue, StartTask, Inline, WriteInline,
                            WriteHeld, Return
  <2>3. CASE Notify(c)
    <3>1. at'[c] = "waiting" /\ at[c] = "notifying"
      BY <1>0, <2>3 DEF Notify, Goes, Placed
    <3>2. UNCHANGED <<pending, running, closed, flushing, loop, held, blocking, log>>
          /\ \A t \in Tasks : at'[t] = at[t]
      BY <1>0, <2>1, <2>3 DEF Notify, Goes, Placed, state
    <3>3. Waits(p, n)' = Waits(p, n) /\ Left(p, n)' = Left(p, n)
      BY <3>2 DEF Waits, Left, After
    <3>4. \A t \in Tasks : Batched(t, p, n) => Batched(t, p, n)'
      BY <3>2 DEF Batched, After
    <3>5. \A t \in Tasks : c \in loop'[t].waiters <=> c \in loop[t].waiters
      BY <3>2
    <3>6. InQueue(c, p, n)'
      BY <3>1, <3>2, <3>3, <3>4 DEF Place, InQueue
    <3>7. InBatch(c, p, n)'
      BY <3>1, <3>2, <3>3, <3>4 DEF Place, InBatch
    <3>8. Released(c, p, n)'
      BY <3>1, <3>2, <3>3 DEF Place, Released
    <3> QED BY <3>1, <3>6, <3>7, <3>8 DEF Promise, Place
  <2>4. CASE Answered(c)
    <3>1. Left(p, n)
      BY <2>4 DEF Answered, Place, Released
    <3>2. at'[c] = "draining"
      BY <1>0, <2>4, <3>1 DEF Answered, Goes, Placed, Left
    <3>3. ~TakePending(c)
      BY <2>4 DEF Answered, TakePending
    <3>4. Busy(c, p, n)' \/ Left(p, n)'
      BY <1>0, <3>1, <3>3, LeftMoves
    <3> QED BY <3>2, <3>4 DEF Promise, Place
  <2>5. CASE TakePending(c)
    <3> PICK version : version = pending[p]
      OBVIOUS
    <3>1. p \in DOMAIN pending /\ version \in After(p, n)
      BY <2>5 DEF TakePending, Place, Left, Waits
    <3>2. Job(p, version) \in held'[c] /\ at'[c] = "writing"
      BY <1>0, <2>5, <3>1 DEF TakePending, Jobs, Goes, Placed
    <3>3. Job(p, version).path = p /\ Job(p, version).version = version
      BY DEF Job
    <3> QED BY <1>1, <1>2, <3>1, <3>2, <3>3 DEF Writing
  <2> QED BY <2>2, <2>3, <2>4, <2>5
<1> QED BY <1>4, <1>5, <1>6

LEMMA PromiseKept ==
  ASSUME Moving, [Next]_vars, ~\E u \in Tasks : Abort(u), NEW c \in Callers, call[c].op = "flush", ~Flush(c),
         call'[c].op = "flush", NEW p \in Paths, NEW n \in 1..Len(log[p]), Promise(c, p, n)
  PROVE  Promise(c, p, n)'
<1>0. OwnersInv /\ DOMAIN call = Callers
  BY DEF Moving, WaitersOK
<1>1. Settled(p, n)' \/ Busy(c, p, n)' => Promise(c, p, n)'
  BY DEF Promise
<1>2. CASE Settled(p, n)
  BY <1>0, <1>1, <1>2, SettledStays
<1>3. CASE Busy(c, p, n)
  BY <1>0, <1>1, <1>3, BusyStays
<1>4. CASE Place(c, p, n)
  BY <1>4, PlaceKept
<1> QED BY <1>2, <1>3, <1>4 DEF Promise

(* where the last version accepted is when a flush begins                  *)
LEMMA Whereabouts ==
  ASSUME OwnersInv, VersionsFresh, ClosedOK, LastKnown, NEW p \in Paths, NEW n, n = Len(log[p]), n # 0,
         NEW c \in Callers, Ready(c)
  PROVE  Settled(p, n) \/ Busy(c, p, n) \/ Waits(p, n) \/ \E t \in Tasks : Batched(t, p, n)
<1>0. log[p] \in Seq(Versions) /\ n \in 1..Len(log[p])
  BY DEF OwnersInv, Owners, LogOK
<1> PICK version : version = Last(p)
  OBVIOUS
<1>1. version \in After(p, n) /\ version = log[p][n]
  BY <1>0 DEF After, Last
<1>2. Known(p, version)
  BY DEF LastKnown
<1>3. CASE disk[p] >= version \/ version \in failed \cup unheard
  BY <1>1, <1>3, DoneSettles
<1>4. CASE p \in DOMAIN pending /\ pending[p] = version
  BY <1>1, <1>4 DEF Waits
<1>5. CASE \E e \in Callers \cup Tasks : Job(p, version) \in held[e]
  <2>1. PICK e \in Callers \cup Tasks : Job(p, version) \in held[e]
    BY <1>5
  <2>2. Job(p, version).path = p /\ Job(p, version).version = version
    BY DEF Job
  <2>3. CASE e \in Callers
    <3>1. at[e] \in {"locking", "inline", "writing"}
      BY <2>1, <2>3 DEF OwnersInv, Owners, HeldOK
    <3>2. at[e] \notin {"locking", "inline"}
      BY <1>0, <1>1, <2>1, <2>2, <2>3 DEF VersionsFresh
    <3>3. e # c /\ at[e] = "writing"
      BY <3>1, <3>2 DEF Ready
    <3> QED BY <1>1, <2>1, <2>2, <3>3 DEF Busy
  <2>4. CASE e \in Tasks
    <3>1. at[e] \in {"batch", "await", "writing"} /\ e # c
      BY <2>1, <2>4, Apart DEF OwnersInv, Owners, HeldOK
    <3>2. CASE at[e] = "writing"
      BY <1>1, <2>1, <2>2, <3>1, <3>2 DEF Busy
    <3>3. CASE at[e] \in {"batch", "await"}
      BY <1>1, <2>1, <2>4, <3>3 DEF Batched
    <3> QED BY <3>1, <3>2, <3>3
  <2> QED BY <2>3, <2>4
<1>6. CASE \E work \in blocking : work.job = Job(p, version)
  BY <1>1, <1>6 DEF Batched, ClosedOK, OwnersInv, Owners, PoolOK
<1>7. CASE \E t \in Tasks : version \in loop[t].refused
  BY <1>1, <1>7 DEF Batched, OwnersInv, Owners, PoolOK
<1>8. CASE \E e \in Callers : at[e] = "inline" /\ \E job \in held[e] : job.path = p
  <2>1. PICK e \in Callers : at[e] = "inline" /\ \E job \in held[e] : job.path = p
    BY <1>8
  <2>2. e # c
    BY <2>1 DEF Ready
  <2> QED BY <2>1, <2>2 DEF Busy
<1> QED BY <1>2, <1>3, <1>4, <1>5, <1>6, <1>7, <1>8 DEF Known

LEMMA FlushBegins ==
  ASSUME Moving, VersionsFresh, LastKnown, NEW c \in Callers, Flush(c), NEW p \in Paths, NEW n \in Nat, n = Len(log[p])
  PROVE  call'[c].since[p] = n /\ Promise(c, p, n)'
<1>0. /\ OwnersInv /\ RunInv /\ WaitersOK /\ ClosedOK /\ DOMAIN call = Callers /\ Placed /\ Ready(c)
  BY DEF Moving, WaitersOK, OwnersInv, Owners, PlacesOK, Flush
<1>1. call'[c].since[p] = n
  BY <1>0 DEF Flush, Calls
<1> SUFFICES Promise(c, p, n)'
  BY <1>1
<1>2. /\ UNCHANGED <<pending, running, closed, loop, held, blocking, log, disk, failed, unheard>>
      /\ \A e \in Callers \cup Tasks : e # c => at'[e] = at[e]
      /\ \A t \in Tasks : at'[t] = at[t]
  BY <1>0, Apart DEF Flush, Goes, Placed, files
<1>3. CASE n = 0
  BY <1>3 DEF Promise, Settled
<1>4. CASE n # 0
  <2>1. Settled(p, n) \/ Busy(c, p, n) \/ Waits(p, n) \/ \E t \in Tasks : Batched(t, p, n)
    BY <1>0, <1>4, Whereabouts
  <2>2. CASE Settled(p, n)
    BY <1>2, <2>2 DEF Promise, Settled
  <2>3. CASE Busy(c, p, n)
    <3>1. Busy(c, p, n)'
      BY <1>2, <2>3 DEF Busy, After
    <3> QED BY <3>1 DEF Promise
  <2>4. CASE Waits(p, n) \/ \E t \in Tasks : Batched(t, p, n)
    <3>1. Waits(p, n)' = Waits(p, n)
      BY <1>2 DEF Waits, After
    <3>2. \A t \in Tasks : Batched(t, p, n) => Batched(t, p, n)'
      BY <1>2 DEF Batched, After
    <3>3. CASE running
      <4>1. at'[c] = "notifying" /\ c \in flushing'
        BY <1>0, <3>3 DEF Flush, Goes, Placed
      <4>2. InQueue(c, p, n)'
        BY <2>4, <3>1, <3>2 DEF InQueue
      <4>3. InBatch(c, p, n)'
        BY <1>0, <1>2 DEF InBatch, WaitersOK, Waiting, Ready
      <4>4. Released(c, p, n)'
        BY <4>1 DEF Released
      <4> QED BY <4>1, <4>2, <4>3, <4>4 DEF Promise, Place
    <3>4. CASE ~running
      <4>1. at'[c] = "draining"
        BY <1>0, <3>4 DEF Flush, Goes, Placed
      <4>2. \A t \in Tasks : ~Batched(t, p, n)
        BY <1>0, <3>4 DEF Batched, RunInv, OneTask, Runners, Alive
      <4>3. Waits(p, n)
        BY <2>4, <4>2
      <4>4. closed
        BY <1>0, <3>4, <4>3 DEF ClosedOK, Waits
      <4>5. closed'
        BY <1>2, <4>4, Zenon
      <4>6. ~running'
        BY <1>2, <3>4, Zenon
      <4>7. Left(p, n)'
        BY <3>1, <4>3, <4>5, <4>6 DEF Left
      <4> QED BY <4>1, <4>7 DEF Promise, Place
    <3> QED BY <3>3, <3>4
  <2> QED BY <2>1, <2>2, <2>3, <2>4
<1> QED BY <1>1, <1>3, <1>4

LEMMA PromisesSteps ==
  ASSUME Moving, VersionsFresh, LastKnown, PromisesKept, [Next]_vars, ~\E u \in Tasks : Abort(u)
  PROVE  PromisesKept'
<1>0. OwnersInv /\ DOMAIN call = Callers
  BY DEF Moving, WaitersOK
<1> SUFFICES ASSUME NEW c \in Callers, NEW p \in Paths, call'[c].op = "flush"
             PROVE  Promise(c, p, call[c].since[p])'
  BY DEF PromisesKept
<1> PICK n : n = call'[c].since[p]
  OBVIOUS
<1>1. CASE Flush(c)
  <2> PICK m : m = Len(log[p])
    OBVIOUS
  <2>1. m \in Nat
    BY <1>0 DEF OwnersInv, Owners, LogOK
  <2>2. call'[c].since[p] = m /\ Promise(c, p, m)'
    BY <1>1, <2>1, FlushBegins
  <2> QED BY <2>2
<1>2. CASE ~Flush(c)
  <2>1. call'[c] = call[c]
    <3>1. CASE ~Acts(c)
      <4>1. at[c] # "unborn"
        BY <1>0 DEF OwnersInv, Owners, PlacesOK
      <4> QED BY <1>0, <3>1, <4>1, OthersStay
    <3>2. CASE Acts(c)
      <4>1. c \notin Tasks
        BY Apart
      <4>2. CASE CallerStep(c)
        BY <4>2 DEF CallerStep, Queue, StartTask, Inline, WriteInline, Notify, Answered, TakePending, WriteHeld, Return
      <4>3. ~Close(c)
        BY <1>0 DEF Close, Calls
      <4>4. ~\E path \in Paths : DrawVersion(c, path)
        BY <1>0 DEF DrawVersion, Calls
      <4> QED BY <1>2, <3>2, <4>1, <4>2, <4>3, <4>4 DEF Acts, CallerActs
    <3> QED BY <3>1, <3>2
  <2>2. n \in 0..Len(log[p]) /\ call[c].op = "flush" /\ n = call[c].since[p] /\ Len(log[p]) \in Nat
    BY <1>0, <2>1 DEF Moving, WaitersOK, OwnersInv, Owners, LogOK
  <2>3. CASE n = 0
    BY <2>3 DEF Promise, Settled
  <2>4. CASE n # 0
    <3>1. n \in 1..Len(log[p]) /\ Promise(c, p, n)
      BY <2>2, <2>4 DEF PromisesKept
    <3> QED BY <1>2, <2>2, <3>1, PromiseKept
  <2> QED BY <2>3, <2>4
<1> QED BY <1>1, <1>2

LEMMA FlushBegin == Init => FlushInv
<1> SUFFICES ASSUME Init PROVE FlushInv
  OBVIOUS
<1>0. \A c \in Callers : c \notin Tasks
  BY Apart
<1>1. OwnersInv /\ LastKnown
  BY OwnersBegin DEF LostInv
<1>2. RunInv
  BY <1>0 DEF Init, RunInv, Placed, OneTask, Runners, Alive
<1>3. VersionsFresh
  BY DEF Init, VersionsFresh
<1>4. WaitersOK
  BY DEF Init, WaitersOK, Fresh
<1>5. ClosedOK
  BY <1>0 DEF Init, ClosedOK, Fresh
<1>6. PromisesKept
  BY DEF Init, PromisesKept
<1> QED BY <1>1, <1>2, <1>3, <1>4, <1>5, <1>6 DEF FlushInv

LEMMA FlushSteps == FlushInv /\ [Next]_vars => FlushInv'
<1> SUFFICES ASSUME FlushInv, [Next]_vars PROVE FlushInv'
  OBVIOUS
<1>0. OwnersInv /\ RunInv /\ VersionsFresh /\ WaitersOK /\ DOMAIN call = Callers
  BY DEF FlushInv, WaitersOK
<1>1. OwnersInv' /\ RunInv' /\ VersionsFresh' /\ WaitersOK'
  BY <1>0, OwnersSteps, RunSteps, FreshSteps, WaitersSteps
<1>2. ASSUME aborts' = 0 PROVE LastKnown' /\ ClosedOK' /\ PromisesKept'
  <2>1. aborts = 0 /\ ~\E t \in Tasks : Abort(t)
    BY <1>0, <1>2, AbortsGrow
  <2>2. LastKnown /\ ClosedOK /\ PromisesKept
    BY <2>1 DEF FlushInv
  <2> QED BY <1>0, <1>2, <2>1, <2>2, KnownSteps, ClosedSteps, PromisesSteps DEF Moving
<1> QED BY <1>1, <1>2 DEF FlushInv

(* flush, Inner::run and RunningMark: while no task is aborted, a flush    *)
(* that returned has nothing of what was accepted before it wait for its   *)
(* turn, whatever the threads, the files and the order of their steps.     *)
THEOREM FlushKeptHolds == Spec => []FlushKept
<1>1. FlushInv => FlushKept
  <2> SUFFICES ASSUME FlushInv, aborts = 0, NEW c \in Callers, NEW p \in Paths,
                      at[c] = "returned", call[c].op = "flush", ~Settled(p, call[c].since[p])
               PROVE  \E e \in DOMAIN at \ {c} : at[e] \in {"writing", "inline"} /\ \E job \in held[e] : job.path = p
    BY DEF FlushKept
  <2>1. Busy(c, p, call[c].since[p])
    BY DEF FlushInv, PromisesKept, Promise, Place
  <2>2. DOMAIN at = Callers \cup Tasks
    BY DEF FlushInv, RunInv, Placed
  <2> QED BY <2>1, <2>2 DEF Busy
<1> QED BY <1>1, FlushBegin, FlushSteps, PTL DEF Spec
=================================================================================
