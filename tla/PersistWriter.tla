------------------------------ MODULE PersistWriter ------------------------------
(***************************************************************************)
(* The writer of small files (persist/writer/mod.rs) and the version check *)
(* of persist/mod.rs that its writes go through.                           *)
(*                                                                         *)
(* A write is put into the map `pending`, where a later one to its path    *)
(* replaces it, and a task takes it out when its path is due.  flush waits *)
(* until the task has written everything, close writes what is pending     *)
(* itself, and so does the task's mark when the task ends or is aborted.   *)
(* The writer is shared by threads; what happens under its mutex, and each *)
(* write under its path's lock, is one step.                               *)
(*                                                                         *)
(* A write is its path and version.  Left out: contents, modes and tags.   *)
(* A write in the blocking pool is run also if its task was aborted.       *)
(***************************************************************************)
EXTENDS Naturals, Sequences, FiniteSets

CONSTANTS
    Paths,          \* the files
    Callers,        \* the threads that call the writer
    InRuntime,      \* those that run inside the tokio runtime
    MayFail,        \* whether a disk may refuse a write
    MaxWrites,      \* bound: versions handed out
    MaxTasks,       \* bound: tasks started
    MaxAborts       \* bound: tasks aborted

ASSUME CallersAssumption == InRuntime \subseteq Callers
ASSUME NamesAssumption == Callers \cap Nat = {}
ASSUME BoundsAssumption == MaxWrites \in Nat /\ MaxTasks \in Nat /\ MaxAborts \in Nat

VARIABLES
    nextVersion,    \* NEXT_VERSION
    pending,        \* State::pending: path -> version
    running,        \* State::running
    closed,         \* Inner::closed
    flushing,       \* State::flushing: the callers that wait
    wake,           \* the permit of Inner::wake
    call,           \* caller -> the call it is in, and for a flush what was accepted before it
    loop,           \* task -> its locals
    at,             \* caller or task -> where it is
    held,           \* caller or task -> the writes it took out and has to do
    blocking,       \* the writes in the blocking pool
    applied,        \* WRITE_LOCKS: path -> the version its lock remembers
    disk,           \* path -> the version the file holds
    log,            \* path -> the versions accepted, in order
    failed,         \* the versions whose failure was reported
    unheard,        \* those the disk refused to a task that was aborted meanwhile
    aborts          \* the aborts so far

state == <<pending, running, closed, flushing>>
files == <<applied, disk, failed>>
vars == <<nextVersion, pending, running, closed, flushing, wake, call, loop, at, held,
          blocking, applied, disk, log, failed, unheard, aborts>>

Tasks == 1..MaxTasks
Job(path, version) == [path |-> path, version |-> version]
Jobs(map) == {Job(path, map[path]) : path \in DOMAIN map}
Without(map, path) == [p \in DOMAIN map \ {path} |-> map[p]]
With(map, path, version) == [p \in DOMAIN map \cup {path} |-> IF p = path THEN version ELSE map[p]]

(* the locals of run: what it saw under the mutex, the paths written in    *)
(* order of time, and the version whose failure it has not reported yet    *)
Fresh == [closed |-> FALSE, waiters |-> {}, deadline |-> {}, written |-> <<>>, refused |-> {}]

Init ==
    /\ nextVersion = 1
    /\ pending = [p \in {} |-> 0] /\ running = FALSE /\ closed = FALSE /\ flushing = {}
    /\ wake = FALSE
    /\ call = [c \in Callers |-> [op |-> "none", since |-> [p \in Paths |-> 0]]]
    /\ loop = [t \in Tasks |-> Fresh]
    /\ at = [e \in Callers \cup Tasks |-> IF e \in Callers THEN "idle" ELSE "unborn"]
    /\ held = [e \in Callers \cup Tasks |-> {}]
    /\ blocking = {}
    /\ applied = [p \in {} |-> 0] /\ disk = [p \in Paths |-> 0]
    /\ log = [p \in Paths |-> <<>>] /\ failed = {} /\ unheard = {}
    /\ aborts = 0

Goes(e, place) == at' = [at EXCEPT ![e] = place]

(***************************************************************************)
(* One write to disk: execute, write_locked, release_unused_locks          *)
(***************************************************************************)
Applied(path) == IF path \in DOMAIN applied THEN applied[path] ELSE 0

(* the table keeps the locks that remember a version                       *)
Kept(map) == [p \in {q \in DOMAIN map : map[q] # 0} |-> map[p]]

(* mutant: no version check *)
StaleNever(job) == FALSE

Stale(job) == job.version <= Applied(job.path)

Execute(job, refused) ==
    \/ /\ Stale(job)
       /\ ~refused
       /\ UNCHANGED <<applied, disk>>
    \/ /\ ~Stale(job)
       /\ ~refused
       /\ disk' = [disk EXCEPT ![job.path] = job.version]
       /\ applied' = Kept(With(applied, job.path, job.version))
    \/ /\ ~Stale(job)
       /\ refused /\ MayFail
       /\ UNCHANGED <<applied, disk>>

(* a caller, or the mark, writes and reports at once *)
ExecuteNow(job) ==
    \E refused \in BOOLEAN :
      /\ Execute(job, refused)
      /\ failed' = IF refused THEN failed \cup {job.version} ELSE failed

Accepted(job) == log' = [log EXCEPT ![job.path] = Append(@, job.version)]

(***************************************************************************)
(* Taking out everything that is pending, and writing it: the two halves   *)
(* of write_pending_now                                                    *)
(***************************************************************************)
TakePending(e) ==
    /\ at[e] = "draining"
    /\ held' = [held EXCEPT ![e] = Jobs(pending)]
    /\ pending' = [p \in {} |-> 0]
    /\ Goes(e, "writing")
    /\ UNCHANGED <<nextVersion, running, closed, flushing, wake, call, loop, blocking, files, log, unheard, aborts>>

WriteHeld(e) ==
    /\ at[e] = "writing"
    /\ \E job \in held[e] :
         /\ ExecuteNow(job)
         /\ held' = [held EXCEPT ![e] = @ \ {job}]
    /\ UNCHANGED <<nextVersion, state, wake, call, loop, at, blocking, log, unheard, aborts>>

(***************************************************************************)
(* Callers                                                                 *)
(***************************************************************************)
Calls(c, op) ==
    call' = [call EXCEPT ![c] = [op |-> op, since |-> [p \in Paths |-> IF op = "flush" THEN Len(log[p]) ELSE 0]]]

Ready(c) == at[c] \in {"idle", "returned"}

(* write_lazy, before the mutex *)
DrawVersion(c, path) ==
    /\ Ready(c)
    /\ nextVersion <= MaxWrites
    /\ Calls(c, "write")
    /\ held' = [held EXCEPT ![c] = {Job(path, nextVersion)}]
    /\ nextVersion' = nextVersion + 1
    /\ Goes(c, "locking")
    /\ UNCHANGED <<state, wake, loop, blocking, files, log, unheard, aborts>>

IsQueued(c) == ~closed /\ (running \/ c \in InRuntime)

(* mutant: the task is not marked as running *)
QueueUnmarked(c) ==
    /\ at[c] = "locking"
    /\ IsQueued(c)
    /\ running \/ \E t \in Tasks : at[t] = "unborn"
    /\ \E job \in held[c] : pending' = With(pending, job.path, job.version) /\ Accepted(job)
    /\ held' = [held EXCEPT ![c] = {}]
    /\ Goes(c, IF running THEN "notifying" ELSE "starting")
    /\ UNCHANGED <<nextVersion, running, closed, flushing, wake, call, loop, blocking, files, unheard, aborts>>

(* write_lazy: queued; the task is started if there is none *)
Queue(c) ==
    /\ at[c] = "locking"
    /\ IsQueued(c)
    /\ running \/ \E t \in Tasks : at[t] = "unborn"
    /\ \E job \in held[c] : pending' = With(pending, job.path, job.version) /\ Accepted(job)
    /\ held' = [held EXCEPT ![c] = {}]
    /\ running' = TRUE
    /\ Goes(c, IF running THEN "notifying" ELSE "starting")
    /\ UNCHANGED <<nextVersion, closed, flushing, wake, call, loop, blocking, files, unheard, aborts>>

(* start_task; a new task has read nothing yet *)
StartTask(c) ==
    /\ at[c] = "starting"
    /\ \E t \in Tasks :
         /\ at[t] = "unborn"
         /\ \A u \in 1..(t - 1) : at[u] # "unborn"
         /\ at' = [at EXCEPT ![c] = "notifying", ![t] = "spawned"]
    /\ UNCHANGED <<nextVersion, state, wake, call, loop, held, blocking, files, log, unheard, aborts>>

(* write_lazy: written by the caller itself, in place of what is pending *)
Inline(c) ==
    /\ at[c] = "locking"
    /\ ~IsQueued(c)
    /\ \E job \in held[c] : pending' = Without(pending, job.path)
    /\ Goes(c, "inline")
    /\ UNCHANGED <<nextVersion, running, closed, flushing, wake, call, loop, held, blocking, files, log, unheard, aborts>>

WriteInline(c) ==
    /\ at[c] = "inline"
    /\ \E job \in held[c] : ExecuteNow(job) /\ Accepted(job)
    /\ held' = [held EXCEPT ![c] = {}]
    /\ Goes(c, "returned")
    /\ UNCHANGED <<nextVersion, state, wake, call, loop, blocking, unheard, aborts>>

(* mutant: a flush that finds nothing pending does not wait *)
FlushWhenPending(c) ==
    /\ Ready(c)
    /\ Calls(c, "flush")
    /\ LET waits == running /\ DOMAIN pending # {}
       IN  /\ flushing' = IF waits THEN flushing \cup {c} ELSE flushing
           /\ Goes(c, IF waits THEN "notifying" ELSE "draining")
    /\ UNCHANGED <<nextVersion, pending, running, closed, wake, loop, held, blocking, files, log, unheard, aborts>>

(* flush: waits for the task that runs, or writes itself *)
Flush(c) ==
    /\ Ready(c)
    /\ Calls(c, "flush")
    /\ flushing' = IF running THEN flushing \cup {c} ELSE flushing
    /\ Goes(c, IF running THEN "notifying" ELSE "draining")
    /\ UNCHANGED <<nextVersion, pending, running, closed, wake, loop, held, blocking, files, log, unheard, aborts>>

Close(c) ==
    /\ Ready(c)
    /\ Calls(c, "close")
    /\ closed' = TRUE
    /\ Goes(c, "notifying")
    /\ UNCHANGED <<nextVersion, pending, running, flushing, wake, loop, held, blocking, files, log, unheard, aborts>>

(* mutant: a write does not wake the task *)
NotifyNotOnWrite(c) ==
    /\ at[c] = "notifying"
    /\ wake' = (wake \/ call[c].op # "write")
    /\ Goes(c, CASE call[c].op = "write" -> "returned"
                 [] call[c].op = "flush" -> "waiting"
                 [] OTHER -> "draining")
    /\ UNCHANGED <<nextVersion, state, call, loop, held, blocking, files, log, unheard, aborts>>

(* notify_one, and what comes after it in each of the three *)
Notify(c) ==
    /\ at[c] = "notifying"
    /\ wake' = TRUE
    /\ Goes(c, CASE call[c].op = "write" -> "returned"
                 [] call[c].op = "flush" -> "waiting"
                 [] OTHER -> "draining")
    /\ UNCHANGED <<nextVersion, state, call, loop, held, blocking, files, log, unheard, aborts>>

(* flush: its sender was used or dropped *)
Answered(c) ==
    /\ at[c] = "waiting"
    /\ c \notin flushing
    /\ \A t \in Tasks : c \notin loop[t].waiters
    /\ Goes(c, IF running THEN "returned" ELSE "draining")
    /\ UNCHANGED <<nextVersion, state, wake, call, loop, held, blocking, files, log, unheard, aborts>>

Return(c) ==
    /\ at[c] = "writing"
    /\ held[c] = {}
    /\ Goes(c, "returned")
    /\ UNCHANGED <<nextVersion, state, wake, call, loop, held, blocking, files, log, unheard, aborts>>

(***************************************************************************)
(* The task: run, write_due, write_all, write_one, and its RunningMark     *)
(***************************************************************************)
IsIn(seq, x) == \E i \in DOMAIN seq : seq[i] = x

Never(t) == {p \in DOMAIN pending : ~IsIn(loop[t].written, p)}

(* next_due: the path whose turn is first; one never written is due now    *)
First(t) ==
    IF Never(t) # {} THEN Never(t)
    ELSE LET turns == SelectSeq(loop[t].written, LAMBDA p : p \in DOMAIN pending)
         IN  IF turns = <<>> THEN {} ELSE {Head(turns)}

(* what is due when the deadline has passed: a path is never before those  *)
(* that were written longer ago                                            *)
DueSets(t) ==
    {S \in SUBSET DOMAIN pending :
       /\ Never(t) \subseteq S
       /\ (loop[t].deadline \cap DOMAIN pending) \subseteq S
       /\ \A i, j \in DOMAIN loop[t].written :
            i < j /\ loop[t].written[j] \in S /\ loop[t].written[i] \in DOMAIN pending
              => loop[t].written[i] \in S}

(* mutant: the waiters are looked at, not taken *)
LoopTopLeavesWaiters(t) ==
    /\ at[t] \in {"spawned", "top"}
    /\ loop' = [loop EXCEPT ![t].closed = closed, ![t].waiters = flushing, ![t].deadline = First(t)]
    /\ Goes(t, IF closed \/ flushing # {} THEN "all" ELSE "select")
    /\ UNCHANGED <<nextVersion, pending, running, closed, flushing, wake, call, held, blocking, files, log, unheard, aborts>>

LoopTop(t) ==
    /\ at[t] \in {"spawned", "top"}
    /\ loop' = [loop EXCEPT ![t].closed = closed, ![t].waiters = flushing, ![t].deadline = First(t)]
    /\ flushing' = {}
    /\ Goes(t, IF closed \/ flushing # {} THEN "all" ELSE "select")
    /\ UNCHANGED <<nextVersion, pending, running, closed, wake, call, held, blocking, files, log, unheard, aborts>>

Woken(t) ==
    /\ at[t] = "select"
    /\ wake
    /\ wake' = FALSE
    /\ Goes(t, "top")
    /\ UNCHANGED <<nextVersion, state, call, loop, held, blocking, files, log, unheard, aborts>>

WriteDue(t) ==
    /\ at[t] = "select"
    /\ loop[t].deadline # {}
    /\ \E S \in DueSets(t) :
         /\ held' = [held EXCEPT ![t] = {Job(p, pending[p]) : p \in S}]
         /\ pending' = [p \in DOMAIN pending \ S |-> pending[p]]
    /\ Goes(t, "batch")
    /\ UNCHANGED <<nextVersion, running, closed, flushing, wake, call, loop, blocking, files, log, unheard, aborts>>

WriteAll(t) ==
    /\ at[t] = "all"
    /\ held' = [held EXCEPT ![t] = Jobs(pending)]
    /\ pending' = [p \in {} |-> 0]
    /\ Goes(t, "batch")
    /\ UNCHANGED <<nextVersion, running, closed, flushing, wake, call, loop, blocking, files, log, unheard, aborts>>

(* write_one: the write goes to the blocking pool, and the task waits *)
WriteOne(t) ==
    /\ at[t] = "batch"
    /\ \E job \in held[t] :
         /\ held' = [held EXCEPT ![t] = @ \ {job}]
         /\ blocking' = blocking \cup {[by |-> t, job |-> job]}
         /\ loop' = [loop EXCEPT ![t].written = Append(SelectSeq(@, LAMBDA p : p # job.path), job.path)]
    /\ Goes(t, "await")
    /\ UNCHANGED <<nextVersion, state, wake, call, files, log, unheard, aborts>>

RunBlocking(work) ==
    /\ \E refused \in BOOLEAN :
         LET version == IF refused THEN {work.job.version} ELSE {}
             awaited == at[work.by] = "await"
         IN  /\ Execute(work.job, refused)
             /\ loop' = [loop EXCEPT ![work.by].refused = IF awaited THEN version ELSE @]
             /\ unheard' = IF awaited THEN unheard ELSE unheard \cup version
    /\ blocking' = blocking \ {work}
    /\ UNCHANGED <<nextVersion, state, wake, call, at, held, failed, log, aborts>>

(* the await is over, a failure is reported *)
OneWritten(t) ==
    /\ at[t] = "await"
    /\ \A work \in blocking : work.by # t
    /\ failed' = failed \cup loop[t].refused
    /\ loop' = [loop EXCEPT ![t].refused = {}]
    /\ Goes(t, "batch")
    /\ UNCHANGED <<nextVersion, state, wake, call, held, blocking, applied, disk, log, unheard, aborts>>

(* all written: the waiters are told, and the task ends if it saw closed *)
BatchDone(t) ==
    /\ at[t] = "batch"
    /\ held[t] = {}
    /\ loop' = [loop EXCEPT ![t].waiters = {}]
    /\ Goes(t, IF loop[t].closed THEN "ending" ELSE "top")
    /\ UNCHANGED <<nextVersion, state, wake, call, held, blocking, files, log, unheard, aborts>>

(* Tasks::abort_all, at an await: what the future held is dropped *)
Abort(t) ==
    /\ at[t] \in {"spawned", "select", "await"}
    /\ aborts < MaxAborts
    /\ aborts' = aborts + 1
    /\ held' = [held EXCEPT ![t] = {}]
    /\ loop' = [loop EXCEPT ![t].waiters = {}, ![t].refused = {}]
    /\ unheard' = unheard \cup loop[t].refused
    /\ Goes(t, "ending")
    /\ UNCHANGED <<nextVersion, state, wake, call, blocking, files, log>>

(* mutant: the mark resets what is pending, too *)
DropMarkResets(t) ==
    /\ at[t] = "ending"
    /\ running' = FALSE
    /\ flushing' = {}
    /\ pending' = [p \in {} |-> 0]
    /\ loop' = [loop EXCEPT ![t] = Fresh]
    /\ Goes(t, "draining")
    /\ UNCHANGED <<nextVersion, closed, wake, call, held, blocking, files, log, unheard, aborts>>

(* RunningMark::drop; the locals are gone *)
DropMark(t) ==
    /\ at[t] = "ending"
    /\ running' = FALSE
    /\ flushing' = {}
    /\ loop' = [loop EXCEPT ![t] = Fresh]
    /\ Goes(t, "draining")
    /\ UNCHANGED <<nextVersion, pending, closed, wake, call, held, blocking, files, log, unheard, aborts>>

TaskStep(t) ==
    \/ LoopTop(t) \/ Woken(t) \/ WriteDue(t) \/ WriteAll(t) \/ WriteOne(t) \/ OneWritten(t)
    \/ BatchDone(t) \/ DropMark(t) \/ TakePending(t) \/ WriteHeld(t)

CallerStep(c) ==
    \/ Queue(c) \/ StartTask(c) \/ Inline(c) \/ WriteInline(c) \/ Notify(c) \/ Answered(c)
    \/ TakePending(c) \/ WriteHeld(c) \/ Return(c)

Next ==
    \/ \E c \in Callers : CallerStep(c) \/ Flush(c) \/ Close(c) \/ \E p \in Paths : DrawVersion(c, p)
    \/ \E t \in Tasks : TaskStep(t) \/ Abort(t)
    \/ \E work \in blocking : RunBlocking(work)

Spec == Init /\ [][Next]_vars

(***************************************************************************)
(* Properties                                                              *)
(***************************************************************************)
Last(path) == log[path][Len(log[path])]

Underway ==
    Jobs(pending) \cup (UNION {held[e] : e \in DOMAIN held}) \cup {work.job : work \in blocking}

(* the n-th write to the path, or one after it, is on disk, or the disk    *)
(* refused it and that was reported, unless its task was aborted meanwhile *)
Settled(path, n) ==
    n = 0 \/ \E i \in n..Len(log[path]) :
               disk[path] >= log[path][i] \/ log[path][i] \in failed \cup unheard

(* Every write that was accepted is under way, about to be replaced by a   *)
(* caller's own, superseded, on disk, or its failure is or will be         *)
(* reported.                                                               *)
NothingLost ==
    \A p \in Paths :
      \/ Settled(p, Len(log[p]))
      \/ Job(p, Last(p)) \in Underway
      \/ \E t \in Tasks : Last(p) \in loop[t].refused
      \/ \E c \in Callers : at[c] = "inline" /\ \E job \in held[c] : job.path = p

(* While no task is aborted, what was accepted before a flush began is     *)
(* settled when it returns, or another thread, or the mark of a task that  *)
(* ended, is writing the file at that moment: nothing waits for its turn.  *)
FlushKept ==
    aborts = 0 =>
      \A c \in Callers, p \in Paths :
        at[c] = "returned" /\ call[c].op = "flush" =>
          \/ Settled(p, call[c].since[p])
          \/ \E e \in DOMAIN at \ {c} : at[e] \in {"writing", "inline"} /\ \E job \in held[e] : job.path = p

(* The mark `running` stands for exactly one task, alive or about to be    *)
(* spawned by the caller that set it: neither two tasks nor none.          *)
Alive == {"starting", "spawned", "top", "select", "all", "batch", "await", "ending"}
Runners == {e \in Callers \cup Tasks : at[e] \in Alive}

OneTask ==
    /\ running <=> Runners # {}
    /\ \A d, e \in Runners : d = e

(* The version a lock remembers is the one on disk, even when the table    *)
(* has dropped the lock in between.                                        *)
AppliedTrue == \A p \in Paths : Applied(p) = disk[p]

(* A file never goes back to an older version. *)
NeverBack == [][\A p \in Paths : disk'[p] >= disk[p]]_vars

(***************************************************************************)
(* Liveness.  A runtime polls its tasks and runs its blocking pool, and a  *)
(* thread goes on; nothing obliges a caller to flush or to close.          *)
(***************************************************************************)
Fairness ==
    /\ \A t \in Tasks : WF_vars(TaskStep(t))
    /\ \A c \in Callers : WF_vars(CallerStep(c))
    /\ WF_vars(\E work \in blocking : RunBlocking(work))

LiveSpec == Spec /\ Fairness

(* What was accepted is settled in the end, though nobody flushes. *)
WritesLand == \A p \in Paths, n \in 1..MaxWrites : Len(log[p]) = n ~> Settled(p, n)

(* Every call returns. *)
CallsReturn == \A c \in Callers : at[c] \notin {"idle", "returned"} ~> at[c] \in {"idle", "returned"}
=================================================================================
