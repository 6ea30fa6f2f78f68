# TLA+ verification of Porthmos

Porthmos (the repository was once called TermConnect) is a dual-panel file
manager: a UI-free engine (`porthmos-core`), a contract for file systems
(`porthmos-vfs`), implementations of it (local files, SFTP, SCP, FTP, S3,
WebDAV), and a terminal front end (`porthmos-tui`). This directory holds TLA+
models of the parts whose correctness rests on the order of events, the TLC
configurations that check them, and TLAPS proofs.

Contents: 1. inventory, 2. modules and how they correspond to the code,
3. what each run checks, with its bounds, 4. fairness, 5. proofs,
6. disagreements found, 7. behaviours a reader should know of, 8. what is not
modelled, 9. plan.

## 1. Inventory

### How the program works

One engine task owns nearly all state (`engine/mod.rs`, `struct Engine`). Its
loop (`Engine::run`) takes, one at a time, a `Command` of the front end, an
`Internal` result that a background task has sent into an unbounded channel, or
the publishing deadline. Handlers never block: long work is spawned through
`Tasks` (`tasks/mod.rs`) under a *scope* (`Transfer(id)`, `Planning(batch)`,
`Edit(id)`, `Session(id)`, `Search`, `Background`), and ends by sending a result.
A panic in a task is caught and becomes the result `TaskPanicked`.

So there are no data races on the engine's state. What is hard is *order*: a
result may lie in the channel while a command that makes it obsolete is handled;
a cancel is a flag the task may look at too late; a failed attempt is tried again
unless somebody asked otherwise; state kept twice (indexes, counters, labels,
what the front end shows, what history holds) must move together on each of a
great many paths. Outside the engine, what is hard is *partial success*: a call
to a server, or to the system keyring, is done although its answer is lost, or
lands after it was given up.

### Components

| Component | State | Operations | Correct when | Here |
| --- | --- | --- | --- | --- |
| Transfer queue `transfer/queue` | jobs, rows, four indexes, counters, row changes, batch labels | enqueue, update, retry, cancel, fail, remove, startable | the indexes, rows and counters follow the jobs; no two running jobs write one file; limits hold | `TransferQueue`, `QueueSpec`, `StartableWalk`; proved |
| Transfer engine `engine/handlers/transfer` | scans, conflict reviews, task marks | copy, resolve, cancel, retry, clear, and eight results | every job and scan is answered once, what may run runs, nothing queues for a session that is gone | `TransferEngine`, `JobLife`; proved |
| Sync `engine/handlers/sync`, `sync/` | scanning batches, plans on screen, ticked rows | start, run, cancel, four results; compare; tick, flip, filter | a cancelled sync copies nothing; a second sync finds nothing to do | `TransferEngine`, `SyncRuns`; proved |
| History `engine/handlers/history`, `history/` | recorded rows, counted jobs, the log file | process_row_changes, record_interrupted, clear | each finished row is recorded once and each file counted once | `TransferEngine` |
| Tasks `tasks/` | live tasks, cancel marks | spawn, cancel, forget, take_cancelled, shutdown | a mark is for work that goes on | `TransferEngine`, `RemoteEdits` |
| Connections `engine/handlers/connect`, `engine/prompter`, the protocols' `connect` | sessions, profiles being connected, open questions, known keys | connect, answer, disconnect | one session per profile; a password goes only to a server that was accepted | `Connections`; proved |
| Copy planning `transfer/plan`, `transfer/conflicts` | the plan, the answers | plan_copy, resolve | nothing is replaced that nobody agreed to replace | `CopyPlan`; proved |
| Attempts `transfer/execute` and the streams | the partial file | execute | the target appears whole, of one version of the source | `ResumedCopies`, `S3Uploads`; proved |
| Durable writes `persist/`, `persist/writer` | pending writes, versions per file, flush waiters | write, flush, close | an older version never replaces a newer one; nothing accepted is lost | `PersistWriter`; proved |
| Editing `engine/handlers/edit` | edits and their phases | open, saved, inspect, upload | a changed remote file is never overwritten unasked; what was typed is kept | `RemoteEdits`; proved |
| Keyring jobs and secrets `handlers/profiles/keyring`, `secrets/` | job queue, latest job per owner, cache, waiting calls | save, move, erase, look up | the markers in the store agree with the keyring | `KeyringJobs`, `KeyringWaiting`; proved |
| Profiles `profiles/`, `handlers/profiles` | connection store | add, edit, rename, delete | a profile's secrets go with it | `KeyringJobs` |
| Files and listings `handlers/fs`, `listing/`, `widgets/panel_view` | rows, cursor, filter, selection | list, create, rename, delete, sort, filter | the panel shows what is there, and an operation takes what is shown | `Panels`; proved |
| Search `handlers/search`, `porthmos-vfs/src/search` | search generation, results | search, cancel | results are those of the pattern on screen, and all of them | `Searches`; proved |
| File systems `porthmos-lfs`, `protocols/*/src/fs` | - | rename, remove, create, open_write | a failed or unanswered call loses nothing | `RemoteFiles`, `ResumedCopies` |
| FTP pool `protocols/ftp/src/pool` | main and idle connections, out-of-step mark | attempt, ask_once, borrow, give_back | no command is answered with another's reply | `FtpPool`; proved |
| S3 uploads `protocols/s3/src/{fs,upload,staging}` | uploads on the server, what this run started | open_write, rename, remove | only whole uploads of this file are completed | `S3Uploads`; proved |
| Terminal front end `porthmos-tui/src/app` | screen, dialog, pending action, queues of questions, sessions | keys, events of the core | what it shows is what the engine waits for | `FrontEnd` (proved), and the views in `SyncRuns`, `CopyPlan`, `Searches`, `Panels` |
| Settings, paths, bookmarks `config/`, `paths/` | small files | load, save | | left out |
| Logging, terminal set-up | | | | left out |

The hazards that follow from this are listed in `PROJECT.json`, each with the
line where it bites and the properties that would catch it.

## 2. Modules

### TransferQueue, QueueSpec, StartableWalk

`TransferQueue` holds the queue as one record, field by field the struct of
`transfer/queue/mod.rs:139-154`, and its methods as operators from queue to queue.
Vectors of ids that are kept in ascending order are sets; a row (`RowCounters`)
keeps its counts per status, its bytes and its ids. `Reconcile` is the code's
`JobGuard::drop`: what a change of some jobs does to counters, indexes and
`changes`. A job's data is its session, direction, path, sizes, resume flag and
attempts; names, error texts and speeds are left out.

`QueueSpec` makes each call a step, in the contexts in which the handlers make
it (the queue itself accepts, for instance, completing a job twice; no caller
does it). `IsStartable(q, S)` says declaratively which sets of jobs
`startable_limited` may return; `StartableWalk` has the code's walk through the
queued ids, and the run `QueueSlots` checks that what the walk returns is
startable in that sense, in every reachable queue.

### TransferEngine, JobLife

The engine with its tasks and its channel of results.

| Variable | In the code |
| --- | --- |
| `sessions`, `nextSession` | `Engine::sessions`, `next_session_id` |
| `transfers` | `Engine::transfers`, the record of `TransferQueue` |
| `planning`, `reviews` | `Engine::planning`, `Engine::reviews`, by batch |
| `sync` | `SyncState`: `scanning`, `plans` |
| `tasks`, `cancelled` | `Tasks::live` with each task's flag, `Tasks::cancelled` |
| `removals` | the live remove-partials tasks and the files each has left |
| `internal` | the channel of results, in order |
| `history` | `HistoryLog`'s `recorded` and `counted`, with two observers: how many entries count a completed job, how many were written for an interrupted row |
| `shown`, `stale` | the front end: the questions and plans it shows; the places whose listing misses a completed file |
| `phase` | where `Engine::run`, `shutdown_work` and `Drop` are |

A command's handler is one action, with all it calls: `Settle` is
`process_row_changes`, which every handler ends with, `Fill` is
`fill_transfer_slots` followed by it. A task's run is one step, its end, which
puts any result into the channel that it may send: done; given up, if its flag
was set; failed; or nothing, when it panics. A task whose flag was set may still
complete: it looks at the flag between steps, never after the last
(`transfer/execute/mod.rs`, `copy_with_progress`). `HandleInternal` takes the
first result and runs its handler, at the earliest right away, at the latest
after any number of commands.

Which commands and which unhappy ends an instance has is given by `Commands` and
`Endings`; what a scan can find by `CopyPlans` and `SyncPlans`.

`JobLife` is what the engine promises about each job, without queue, tasks and
channel: a job appears only for a live session; starts, is withdrawn, or is given
up with its session; ends cancelled exactly if it was asked to stop and did not
complete first; is tried again only if it was not asked to stop and its session
lives; a request to stop stands until the job ends; nothing waits for a session
that is gone. `TransferEngine` implements it under the mapping at `JobsLive`.

### PersistWriter

The one part of the engine that several threads share: the writer of small files
(`persist/writer/mod.rs`) and the version check each of its writes goes through
(`persist/mod.rs`). A caller inside the tokio runtime, or one that finds a task
running, leaves its write in `pending`; any other writes at once. A task takes
out what is due (every file at most once per interval) and writes it in the
blocking pool; `flush` asks the task to write everything and waits; `close` and
the mark of a task that ends write what is pending themselves.

| Variable | In the code |
| --- | --- |
| `pending`, `running`, `flushing`, `closed` | `State` and `Inner::closed`, under the mutex |
| `wake` | the permit of `Notify` |
| `at`, `held`, `loop` | where each thread and task is, the writes it has taken out, the locals of `run` |
| `blocking` | writes in the blocking pool; they run also if their task was aborted |
| `applied` | `WRITE_LOCKS`, with the version each lock remembers |
| `nextVersion`, `disk` | `NEXT_VERSION`, and the version each file holds |
| `log`, `failed` | observers: writes accepted per file, failures reported |

What happens under the mutex is one step, so is each write under its file's lock.
A write is its file and version. The instant a file was last written is kept as
an order (`loop[t].written`): which files may be due at once follows from it.
`write_atomic`, which has no version, and the temporary file with its rename are
left out.

### RemoteEdits

Editing a remote file (`handlers/edit`). `edits` is `EditState::sessions`, `task`
and `internal` are the tasks and results of edits, `temps` and `kept` the private
folders; `remote` is the file on the server, which others may write too. An edit
goes through download, editor, inspection, maybe a question, and upload; `Prepare`
and `Upload` take the steps between two calls to the server one by one, because
what was looked at may be stale by the next. Shutdown (`engine/mod.rs:269`) waits
for uploads for a while, then stops tasks wherever they are. Others may write also
between an upload's look at the remote file and its opening, which no look can see (section 7). A text is a number:
what others write are 1, 2, ..., the user's text in edit `id` is `Mine(id)`, and the
file that an upload has truncated and not yet filled holds `Truncated(id)`, which is
nobody's text.

### KeyringJobs, KeyringWaiting

A saved secret is in the system keyring, in the run's cache, and as a marker in
`connections.toml`. `KeyringJobs` has every handler that changes one of them
(`SaveProfile`, `DeleteProfile`, `MoveSshLabels`, `SaveTypedPassword`, ...), the
queue of jobs, and calls that fail, that find no keyring, or that are given up and
land later (`LateLands`). `KeyringWaiting` is the counter behind the message that
the keyring waits for the user (`secrets/mod.rs`, `waiting_calls`).

### FtpPool, ResumedCopies, S3Uploads, RemoteFiles

These are about servers whose answers may be lost. `FtpPool` has FTP's
connections: which answers are still to come on each (`owed`), and the mark
`outOfStep` of the main one. `RemoteFiles` has rename, remove and create of the
local file system and each protocol, call by call; a call is done or refused, and
answered or not. `ResumedCopies` has the content of one file: an attempt opens the
partial file at an offset, the writer of the protocol may have stored any part of
what was on its way, and the next attempt resumes. The source may be written anew, or be
replaced by a file of any earlier date, at any time. `S3Uploads` stays with S3,
whose partial file is a multipart upload, and with what the run remembers of
uploads for accounts that may not list them, as tables from upload to parts.

### SyncRuns, CopyPlan

What a sync and a copy do to the folders. `SyncRuns`: scanning both trees,
`compare` with its tolerance for times, the screen's ticks and flips, the copies
in any order, and (in the property) the next sync. `CopyPlan`: the look at the
destination, with every way it may fail (`looks`: a folder whose listing and stat fail counts as
empty, a name whose stat fails as free), the classification of conflicts, the dialog's answers with "same for
the rest", the names found by renaming, and the copies. Both take the scanned
folders from small sets given in `MCMachines`.

### Searches, Connections, Panels, FrontEnd

`Searches`: the search box, its debounced task, the walk with its limits, the
pattern matching, and the events on their way back. `Connections`: two profiles
being connected by tasks that meet keys, ask, remember and log in, each protocol in
its own way; a certificate is remembered in three steps, the last of which renames a file that
all tasks share (`known["temporary"]`); a server changes meanwhile. `Panels`: a file panel (rows, cursor,
filter and its anchor, selection) over listings and changes that run as tasks.
`FrontEnd`: one dialog, one pending action, the queues of questions that wait
behind it, the screens and the sessions.

### MC modules

`MCTransferQueue`, `MCTransferEngine`, `MCPersistWriter` and `MCKeyring` give
values to constants for TLC; `Maps` has the operators of Rust's maps. The smaller
machines share no state. They share a run: `MCMachines` extends `RemoteEdits` and `FrontEnd`,
instantiates the others over the same variables `v1`, `v2`, ... and `part` says which of them a
behaviour is about, so that its reachable states are the disjoint union of theirs, not their product.

### Proof modules

`QueueLemmas` and `QueueProofs` are about `TransferQueue` and `QueueSpec`,
`PersistProofs` about `PersistWriter`, `KeyringProofs` about `KeyringJobs` and `KeyringWaiting`,
`SessionProofs` about `Connections`, `S3Uploads`, `FtpPool` and `Panels`,
`CopyProofs` about `CopyPlan`, `ResumedCopies`, `SyncRuns` and `Searches`, `EngineProofs` about `TransferEngine` and its
refinement of `JobLife`, and `MachineProofs` about `RemoteEdits`, `FrontEnd` and what `MCMachines`
joins (section 5).

## 3. Runs

Every bound is a constant of the `.cfg` or a guard named in the module.

| Run | Question | Bounds | Why they suffice |
| --- | --- | --- | --- |
| `QueueCalls` | Do indexes, rows, counters and bytes follow the jobs? Does `row_changes` tell of every row that changed? | 2 jobs of one byte, 1 batch, 2 attempts, 2 unread changes | a row of two jobs and two rows of one; removing the job a row is keyed by; retry and cancel of part of a row; progress before and after a failure. That this holds for more jobs is proved (section 5) |
| `QueueSlots` | Are destinations distinct? Is the walk right? | 3 jobs, `MaxParallel` 2, a session with one channel and one without a cap, uploads and downloads of both | a shared destination across sessions, a full session, a full queue, running jobs of two sessions |
| `EngineJobs` | Jobs over copies, cancels, retries, disconnects, panics; implements `JobLife` | 2 sessions, 2 batches of one file, 2 attempts, 2 slots, one session with one channel | two jobs that compete for a slot, a channel and a destination, each retried automatically and by the user, with a session lost between |
| `EngineScans` | Scans, reviews and sync plans, which end under fair scheduling | 1 session, 3 batches, 2 scans | a sync whose plan becomes two batches, or a copy, a review and another copy |
| `EngineHistory` | Entries of history, with shutdown and drop; is every place listed again? | 1 session, 1 slot, 2 attempts, one scan of two files, or of one with a question, or a sync of two batches | a row with one completed and one cancelled file, retried and cleared; a file has arrived, and the last waiting job fails or is cancelled; a shutdown with a scan, a review or jobs open |
| `WriterVersions` | Does every accepted write survive, in order? Is what came before a flush written when it returns? Is there one task? | 1 file, a thread in the runtime and one outside, 2 writes, 2 tasks, 1 abort, the disk may refuse | a write in the blocking pool while another is pending or written by its caller; a task that ends while a second one is started; a flush with a batch under way, one that finds nothing pending, one after `close` |
| `WriterLive` | Do writes land and calls return? | 1 file, 2 threads, 2 writes, 2 tasks, 1 abort | a write just after the deadline was computed, a flush whose task is aborted |
| `Keyring` | Do keyring, cache and markers agree? Is the last report of a waiting keyring right? | 2 profiles, 2 SSH hosts (symmetric), 2 secrets, 2 jobs, 1 connect; one kind of trouble per behaviour; 4 calls | a rename over another profile, a replacement behind a move, a late call after the next one, a connect that looks up what is being moved |
| `Machines` | The properties of the smaller machines, one part per behaviour | see below | |
| `CancelledScan`, `LateAnswer`, `DeleteElsewhere` | expected violations, section 6 | | |

`Machines.cfg` and the definitions of `MCMachines` bound the parts:

| Part | Bounds | What they reach |
| --- | --- | --- |
| edits | 2 edits of one file, 1 foreign write | an edit that finds the other's text, or somebody else's, before and between its looks |
| dialogs | 3 events of the core, 2 saves or plans pending, 2 sessions | a question behind a question behind a dialog, withdrawn or overtaken |
| ftp | 2 commands (the first connects), 3 mishaps | a late answer, a lost new connection and another late answer |
| copies | 2 versions of 2 to 4 units, of any dates, 3 attempts, each kind of end | resumed twice, with a source that grew, shrank or stayed, or was replaced by an older one |
| s3 | a source of 3 parts, 3 uploads, 4 faults | an aborted, an unanswered and a live upload of the same key, across a restart |
| files | one call, each server, every answer lost or refused | all steps of a rename with a backup and its rollback |
| syncs | a file, a folder with a file, a link and partial files; times before, within and after the tolerance; three kinds of server | each verdict in each direction; mismatched kinds; odd listings |
| plans | one name twice, its first free name, a file in a new or old folder, each of which is listed, or not, in every way | renaming into a name that another renaming, or a planned file, takes; files that the look overlooked |
| searches | a tree of depth 3, 3 patterns, limit 2, depth 1, 3 keys | three searches on top of each other, a truncated one, unreadable folders |
| connects | 2 connects of 2 profiles, 4 set-ups, 2 keys, 1 change of a server | the same host asked about twice at once; another key at the second contact; a typed password |
| panels | a folder, 3 files of which one is hidden, 2 orders, 3 keys | filter, move and a listing in any order; a deletion under a selection |

The properties, and what could break them (each has a comment at its definition):

* `IndexesConsistent`, `RowsConsistent`, `CountersConsistent` are the code's own
  `assert_consistent` (`transfer/queue/mod.rs:603`), which only the tests run.
* `ChangesTellAll`: a reader of `row_changes` that knew the rows before can bring
  itself up to date by re-reading only the rows it is told about.
* `BytesConsistent`, `DestinationsDistinct`, `WalkPicksStartable`: as named.
* `OneAnswerEach`: each running job and each scan has exactly one end under way,
  nothing else has any. `WorkConserving`: after each handler nothing more could be
  started. `ImplementsJobLife`: the refinement.
* `NothingLeftOver`: a cancel mark belongs to work that goes on; a label exists
  exactly while its batch is a scan, a review or a row. A dozen paths end a scan.
* `FrontEndKnows`: the questions and plans on screen are those the engine waits
  for, and their sessions live. `CancelledSyncCopiesNothing`: also when its result
  was in the channel already. `WorkEnds`: a row that waits or runs finishes, a scan
  ends.
* `HistoryExact`: each finished row has one entry, each completed file is counted
  in one, an interrupted row is recorded once. `ListingsFresh`: the listing of a
  place misses no completed file once nothing more is under way to it.
* `NothingLost`: an accepted write is under way, superseded, on disk, or its failure
  is reported, over the abort of the task. `OneTask`: `running` stands for exactly
  one task. `NeverBack`: no file goes back to an older version, although the table
  drops locks. `WritesLand`, `CallsReturn`: though nobody flushes.
* `FlushKept`: while no task is aborted, what was accepted before a flush is settled
  when it returns, or another thread is writing the file at that moment.
* `KeyringAgrees`: at rest, keyring, markers and what the user gave last agree, but for
  what an error was reported of, and for secrets that lost their owner (section 7).
  `MarkersAhead`: what a queued job will bring stays marked. `ToldAtRest`: when no
  call waits, the last report says so.
* `OneOwner`: an edit goes on through exactly one task, editor or question.
  `ReplacesWhatWasRead`: an upload replaces no text that was there when it looked, but
  the one that the edit began with or that the user was asked about (what is written after
  that look is replaced unseen, section 7). `TypedKept` (an action property): what was typed stays in its private
  folder until it is uploaded whole.
* `QuestionsKept`: every question of the core waits until it is answered or withdrawn.
* `InStep`: no command takes another's answer. `CallsSafe`: a success is true, and
  nothing is lost. `CopiedWhole`: what is put in place is one version with all
  its units, but for a source that changed while it was copied, or between attempts to one
  whose date does not tell it from the last (section 7).
  `CompletesOwn`: an S3 upload that is completed has exactly the source's parts.
* `SyncSettles`: a second sync finds nothing to do. `NothingReplacedUnasked`: of what the
  look at the destination told, nothing is replaced that nobody was asked about.
  `SearchFindsAll`, `OneSessionEach`, `OnlyAccepted`, `PanelTrue`: as their comments
  say.

`CHECK_DEADLOCK FALSE` is set where the system may stop: in `EngineHistory` (a dropped
engine), in `Keyring` and `Machines` (a finished call, copy or bounded machine), and
in two violation runs. The other runs check for deadlock.

## 4. Fairness

`EngineScans` and `WriterLive` assume some. In `EngineScans`, `WF_internal(Received)`: the loop handles a result
that waits; `tokio::select!` polls its branches in random order, so that commands
cannot starve the channel. Weak fairness of the end of each scan and of *some*
running transfer: tokio runs every task that is woken, and a server that no
longer answers ends in an error (the SFTP request timeout,
`protocols/sftp/src/subsystem/mod.rs:5`; the FTP and SCP command timeouts; the
idle limits of S3 and WebDAV). Nothing is assumed of the user: no command is
fair, so that the reviews and plans that wait for an answer may wait for ever.
`RetryRow` is not among that run's commands, since a user who retries for ever
keeps a row from finishing.

In `WriterLive`, each task and each caller within a call takes its next step in the
end, and some write in the blocking pool is run: the runtime polls what is woken, the
mutexes are held for a moment only, and a task's sleep ends. Calls are begun by nobody
in particular: `DrawVersion`, `Flush` and `Close` are not fair, nor is `Abort`. The time
limit that the shutdown sets for its flush is left out.


## 5. Proofs

TLC checks instances; what follows is proved with TLAPS for all values of the
constants, from the named assumptions of the modules (sizes are natural numbers,
limits and caps are positive, plans are of the paths and sizes there are, the set of
keyring calls is finite) and, in some modules, from a hypothesis of the theorem itself.

`QueueProofs` proves of `QueueSpec`, for all sessions, paths, sizes, inputs and
limits: `TypeOK`, `IndexesConsistent`, `RowsConsistent`, `CountersConsistent`,
`DestinationsDistinct`, `WithinLimits`, `AttemptsBounded`, `LabelsKept` and `ChangesTellAll`. None of
them is inductive alone: that a counter is right after a change needs the row's ids to be
right, and these need each job to be in one row. The inductive invariant `IInv` is
`QueueOK(transfers) /\ SlotsOK(transfers) /\ LabelsOK(transfers)`; `QueueOK` is the type
with the three consistency predicates, `SlotsOK` says of the running jobs that
destinations differ and limits hold, `LabelsOK` relates labels to rows and batch ids.
`QueueLemmas` proves of each operator that it keeps `QueueOK`, from lemmas on `Reconcile`
(statuses change: the affected counters and sets move by what the affected jobs
contribute) and on counting: a row's counters are cardinalities of sets of its jobs,
so that moving jobs between statuses is set arithmetic. `IsStartable` is what makes
`SlotsOK` inductive, and `WalkCorrect` proves that the code's walk returns just what it describes:
the loop of `StartableWalk` is a recursive function whose invariant, `WalkOK`, says what was chosen
and what of each session is still ahead, and each turn takes one job from what is ahead
(`Ahead`), so that it ends; that `IsStartable` holds of one set only does the rest. `BytesCorrect` proves
`BytesConsistent`: a sum over a set of jobs is a fold, and what a fold gives for a set with one
job more or less is had by induction on the set, from a smallest counterexample; `BytesOK`,
that the bytes of each row are such sums, is inductive on top of `IInv`. `ChangesTellAll` rests on one lemma
for each operation, `Tells`: a row that is in no change is finished after the operation
exactly if it was before, and no change is lost.

`PersistProofs` proves of `PersistWriter`, for all files, threads, tasks, aborts and
versions: `AppliedTrue`, `NeverBack`, `OneTask`, `NothingLost` and `FlushKept`. For the first
two the inductive invariant says that every write under way is of a known file and a
positive version and that `applied` agrees with the disk; the lemma `ExecuteForward` does the
work: a write of *any* job, in whatever order the locks are taken, raises the file's
version or leaves it, and a lock may be dropped from the table only if it remembers
none, which is what an absent one stands for. `OneTask` is inductive with the domain of `at`:
all but three actions leave the set of runners alone. `NothingLost` adds who holds which
writes at which place of the code (`Owners`), and follows the last accepted version of each
file from hand to hand (`LastKnown`). It has a hypothesis, `DropsNothing`: the writer has one
file, or no task is aborted. Without it the theorem is false (section 7): a task
aborted between two writes of a batch drops what it had taken out. The engine writes
one file. `FlushKept` is stated while nothing was aborted; its invariant `FlushInv` says of each
flush and each file where what it waits for is: pending with a task that will take
it, in a batch whose task will tell the flush, in the hands of somebody who is
writing it, or on disk.

`KeyringProofs` proves `MarkersAhead` of `KeyringJobs`, for any owners, secret options and
jobs, whatever fails, times out or is reported late. Alone it is not inductive: that a job
which failed may take its markers away rests on no later job being queued for its owner. The
inductive invariant `MarkersIInv` says: markers are of owners and of what they may have;
the jobs queued and those whose results wait are in the order of their ids, whoever has jobs
queued has their latest id in `latest`, and a job's calls are for its owner (`QueueOrdered`);
and what the queue as it stands will write last is marked, or its owner went before the job
was queued, and the secret is a stray (`Bringing`). The lemma `Enqueued` says what a new job changes of
what the queue brings; `ChangeCallsTouch`, that the calls of `apply_secret_changes` touch
whatever loses its marker, so that no earlier job brings it any more.
It also proves `KeyringAgrees`: at rest the keyring holds exactly what is marked, each secret
the one the user gave last, but for secrets of which an error was reported (`told`) and those
that lost their owner (`strays`). The property looks at rest only; the invariant `AgreeIInv` says what is
owed before. A view (`Views`) is what each account holds, and the accounts of which nothing is
claimed; a call takes one view to the next (`Delivers`), and a job, and the queue, take a view
through one view per call (`CallsLead`, `QueueLeads`). `Owed` says that there is a view the keyring
agrees with outside what is lost, from which the queued calls lead to a view that has
what the user wants saved, marked exactly where it has something (`Right`). `Accounted` says why
nothing else disturbs this: an error was reported of both accounts of every call that is late, of every
marker a failed job takes back or puts back, and of every secret while there is no keyring. Losing more only
claims less (`SpoiltQueueLeads`), which is the case of a call that fails, times out or lands
late; `ChangesLead` says what moves, writes and erasings of one job lead to, in whatever order
`SetToSeq` lists them; a command then has to show only that its calls lead from
what was wanted to what is wanted now (`OwedEnqueued`).

It also proves `ToldAtRest` of `KeyringWaiting`, for any finite set of keyring calls. The counter
is the number of calls that are counted in, and whoever was told to wait has a call left that
will say otherwise.

`SessionProofs` proves `OnlyAccepted` and `OneSessionEach` of `Connections`, for any hosts, keys,
passwords, numbers of connects and changes of servers, and any sets of profiles with
one of the protocols and a host (`SetupsSound`, which the instance of `MCMachines` satisfies).
For `OnlyAccepted` the invariant says: whatever is known was agreed to; the key that a
task carries stands for an agreement, except between the step that meets it and the
one that puts it in place; so were the keys in the file that is about to be renamed, whoever
wrote it; the pins a task has loaded were agreed to when it loaded them
(and, agreements being never taken back, still are); a typed password is carried only
where the connection has been accepted, or by a protocol that has not yet sent it;
results and sessions inherit that. `OneSessionEach` takes three more facts: no two tasks or
results are of one profile, the profiles of tasks and results are in `connecting`, and
none of them has a session; the counts in the property follow by cardinality.

It proves `CompletesOwn` of `S3Uploads` for a source of any length (`SourceSound`), any number of
uploads, faults and restarts. The invariant: the upload being written is the one that the
next look would find, and its parts before the next one were put whole, on the server if
parts may be listed, in the run's memory otherwise. The lemma `ProgressWhole` is what resuming
rests on: `Progress` counts the whole parts up to the first gap, and a set of numbers that
contains, with each, all smaller ones is the interval up to its cardinality.

It proves `InStep` of `FtpPool` for any finite number of commands. The invariant, `FtpIInv`: a
connection that is open and is not main is idle or one transfer's, never both (`Apart`); one
command at a time uses main, and main is out of step only between commands or when
the next has just begun (`TakesTurns`); answers are on their way only on main, which is then
marked, about to be replaced, or one of the two exceptions the property names
(`AnswersKnown`). That an opened connection is a new one (`Fresh`) follows by cardinality: there are
fewer open connections than twice the commands.

It proves `PanelTrue` of `Panels`, for any names, sort orders, filters and keys, and any number
of tasks and events (`PanelSound`: the sort orders list names, and no name is one of the marks
the model uses). The invariant `PanelIInv` has three parts. The cursor is on a row (`CursorOn`). The row that it
was on before the filter was changed is the filter's anchor, is a row when nothing is filtered,
and has the cursor whenever it is shown (`HeldOn`); this is why the panel keeps both the
anchor and where it put the cursor. And while `unsure` is false, at most one
listing runs, and one of these is so (`Shows`): a listing has yet to read, or has read what
is there now; a deletion under way, or a `LocationChanged` that waits, will ask for another; or the
last listing that waits, or the panel, is right. The rows are a recursive function over the sort
order (`Sifted`); what they hold, and that only what is visible is among them, is proved of the
least place in the order for which it fails (`RowsUpTo`).

`EngineProofs` proves eight properties of `TransferEngine`, whatever of the commands, results,
panics and disconnects overtakes what. `FrontEndKnows` (no question or plan is left on
screen that nobody waits for) is inductive with `TasksKnown` and `ResultsKnown`, by which
every result that arrives is one that some handler takes, so that `HandleInternal` has
no case left over. `OneAnswerEach`, `NothingLeftOver` and `WorkConserving` need each other; their
invariant `IInv` says: the queue is sound (`QueueOK`, `SlotsOK`), each queued or running job has a
live session, each label is of exactly one scan, review or row (`Held`); each running job
and awaited scan has exactly one task or result, each mark is of work that goes on,
and what a task carries fits what it is for (`Going`); and nothing more may be started. That a
step ends so is what `Fill` does, and that it *can* is the lemma `StartableExists` of
`QueueLemmas`: in every queue some set of jobs is startable. The proof builds it as the
code's walk does, job by job, and takes the least id that the walk could not reach
(`LeastNat`: a set of naturals has a least element), which is how induction over one
given predicate is had without the library's theorem about all of them. A handler is
proved once: it keeps the invariant (`Runs`) and moves each job only as `JobMove` allows, so
that `ImplementsJobLife`, the refinement, and `CancelledSyncCopiesNothing` follow from the same
lemmas.

`HistoryExact` takes a second invariant, `HistoryInv`: history has an entry of exactly the
finished rows; a job is in as many entries as its row's count says; only what is completed
is counted, and all of it when its row is finished; and after the end, that each open row and
scan was recorded as interrupted once. It is kept because every handler
tells of each row that begins or ceases to be finished (`StepTells`, from the `Tells` of the
queue's operations that `ChangesTellAll` rests on) and because the jobs move so that an id
that was handed out never stands for another job (`Follows`).

`ListingsFresh` has the invariant `Fresh`: a place whose listing misses a
completed file has a job on its way to it. A disconnect breaks it for downloads (section 7),
so the theorem supposes that `Disconnect` is not among the commands, as in the run
that checks it; `RemoteListingsFreshHold` proves, with no such hypothesis, what is true
with disconnects: the part about the uploads.

`MachineProofs` proves of `RemoteEdits`, for any edits, uploads and writes of others:
`ReplacesWhatWasRead`, `OneOwner` and `TypedKept`. The invariant, `EditsIInv`, gives each edit
one owner and says, at each place of its task, what is in its temporary file and
what the base it compares with is worth: the base was on the server at one time, and a
text that was replaced never comes back (each text has one writer), so that equal
looks mean that nothing was written between (`Sound`). The theorem says nothing of a text that
is written between the second look and the opening of the file. It also carries the
invariants of `SessionProofs` to the machines that `MCMachines` joins, so that `CompletesOwn`,
`InStep`, `OnlyAccepted`, `OneSessionEach` and `PanelTrue` are proved as the run states them.

`CopyProofs` proves `NothingReplacedUnasked` of `CopyPlan`, for any finite selection of different
files, any settings, any contents of the destination, any failures of the look at it and any
answers (`SelectionSound`). What the look overlooked is not covered. The invariant
`PlanIInv` says what the pieces of `resolve` know of each other: what was answered for a
file that has a conflict, or by a "same for the rest" given while the dialog spoke of the same
thing, is what `agreed` holds; the names taken in a folder are those that were listed, those of the
files planned there, and those handed out so far. What `resolve` gives each file is a recursive
function of the files before it (`ResolvedUpTo`); that a file's name is different from all
earlier ones is proved of the least file for which it fails. That `unique_name` finds a free name among
its numbers is a counting argument: there are more numbers than names taken.

It proves `CopiedWhole` of `ResumedCopies`, for sources of any lengths, any versions, dates, attempts
and tolerance (`CopySound`). The invariant `CopyIInv` says what the next attempt may go on with: what the
partial file holds is the beginning of one version of the source, or the source is newer than
it by more than the tolerance, so that the attempt starts anew (`Good`), or the source is one
that `resume_offset` cannot tell from the last (`untold`), of which nothing is claimed. Within an attempt it
says where the protocol's writer stands (`Goes`): what was stored is what was sent, up to
SFTP's last units on their way, of which any may be stored without those before them, and
which the next attempt therefore sends again; or, over S3, the parts of an upload, each of
which is a whole part of the source. A file put together of parts is `FlattenSeq`, a recursive
function, and that it is the beginning of the source is proved of the least part for which it
would not be.

It proves `SyncSettles` of `SyncRuns`, for any folders, time resolutions, servers and options, whatever
is ticked, flipped and filtered and whichever copies fail. The folders it takes are those in which what
lies in a folder has that folder above it, and no partial file is left from before (`FolderSound`; a partial
file that is there is a row like others, section 7). The invariant `SyncIInv` says: what the screen
shows to be done can be done (`ViewOK`), which is why `run_sync` refuses nothing; the jobs are of files of the
plan, one for each path (`JobsOK`); no row is another's partial file (`PartsOK`), nor, which follows, a
folder that is yet to be made; and of what was not copied the trees still say what the plan said, while of
what was copied with its time they say nothing (`StillSaid`). The last rests on `WrittenIs` and
`CopyAgrees`: a time rounded to what its side can keep differs from the source's by no more than
`compare` tolerates.

It proves `SearchFindsAll` of `Searches`, for any tree of folders, any patterns, depth and limit, and any
typing, cancelling and interleaving of walks. The trees are those in which each folder is one
entry of one folder, the names within a folder differ, and no name has a `*` (`SearchSound`; why not that, see
section 7). Three arguments meet. `GlobFinds`: the loop of `match_from` has one point to go back to, and
yet misses nothing, because wherever it stands it has reached no further into the name than a way of
cutting the name into the pattern's pieces allows; so it cannot fail while there is such a way. The
walk: a set of passed folders is kept for each task, such that of each of them all is told that matches and all
that is inside is passed or ahead (`Covers`), no folder is passed twice (`Once`), and the
task's counter is the number of paths it told (`Counted`), which makes the limit true of
what is *shown*. And the screen: while an answer is awaited, the last command is the search of what is typed; or
none is left, and a task that nobody cancelled answers for just that (`Answering`), or all was told, or
the limit, or an error is on its way (`AnswerComes`). This is where it matters that `search` cancels
before it spawns, and counts the generation that the debounce compares.

`MachineProofs` proves `QuestionsKept` of `FrontEnd`, with no assumption on the bounds. The invariant,
`DialogInv`, says what the property leaves out: the pending action fits the dialog (`UiOK`: none
without a dialog or with a message, a conflict's only while the prompt at the front of the queue
is shown, an edit's only with the question that is open), and while nothing is late, an empty
screen has empty queues (`Shown`). The lemma `AfterKey` is what every key in a dialog rests on:
what `after_dialog_key` opens is one of those that waited, and whatever waited still does.
`MachineProofs` carries it to `MCMachines`, which extends `FrontEnd`, and so it does the four properties
of `CopyProofs`.

Only model-checked are:

* `WorkEnds`, `WritesLand` and `CallsReturn`: liveness needs `ENABLED`, which is out of the
  prover's reach.
* `CallsSafe` of `RemoteFiles`: it has no constants, so that the run covers all there is.

What a recursive definition computes for *every* input has no proof by induction here: the
library's induction theorems take an operator as a parameter, which the provers cannot
instantiate, and `RECURSIVE` operators cannot be unfolded. Where a proof needs induction, over the
jobs of a row, the turns of a loop, the letters of a name or the parts of a file, the data are
recursive *functions* or folds, and the proof takes a least counterexample.

## 6. Disagreements between the code and what it says

Three runs are expected to fail. Each has one property, taken from the README, a text
of the program or a test, and TLC shows how the code breaks it.

* `CancelledScan`: a copy is cancelled after its scan has ended and before the loop has
  handled `PlanReady`. The handler does not ask for the cancel mark, and the files are queued
  and copied. The sync handlers do ask.
* `LateAnswer`: `Pool::attempt` of FTP opens main anew when an answer does not come in time. If
  that fails, or the second try is not answered in time either, main stays with a
  command whose answer is on its way, and nothing marks it; the next command takes that
  answer for its own. (`ask_once` does set the mark.)
* `DeleteElsewhere`: the dialog names a file when it opens; what is deleted or renamed is
  computed when it is confirmed, from the panel as it is then. A listing that comes
  in between, or a connection made or lost, moves the cursor to something else.

## 7. Behaviours a reader should know of

Seen while modelling, and left out of the properties or the runs where they would
break them:

* *Partial files.* `clear_finished_rows` decides which partial files nobody uses and a task
  deletes them later (`transfer/mod.rs:566`): a copy of the same file may have begun.
  `PartialsKept` of `TransferEngine` states it and is run by nothing. Partial files left by a
  stopped copy are ordinary files to the next sync. Copying `x` and `x.part` together uses one
  file for both.
* *Listings.* Downloads that are done are listed when no more are pending; a disconnect
  that fails the pending ones lists nothing. The run with `ListingsFresh` has no `Disconnect`.
  Results of two listings may arrive out of order. A deletion that fails midway
  announces nothing.
* *The writer.* A task aborted in the middle of a batch writes only what is still in
  `pending`; the rest of its batch is lost. The engine writes one file through it, so that
  this is latent.
* *Sources.* A source that changed within `CLOCK_SKEW_TOLERANCE` of its partial file, or that was
  replaced by an older file (`mv`, `cp -p`), is not noticed when a copy resumes
  (`transfer/execute/mod.rs:79`): the new file's rest is put behind the old one's beginning. A sync
  overwrites a file that changed since
  its scan, and a copy overwrites what a batch planned before it, but run later, has put
  there meanwhile.
* *Destinations.* When a destination folder can neither be listed nor looked at, for whatever
  reason, it counts as empty; when it cannot be listed, a planned name whose stat fails counts as
  free, and names that nobody planned are not looked for (`transfer/plan/mod.rs:273-279`). So does a
  folder whose stat fails and that `create_dir` then makes, or does not mind. What is there is
  replaced without a question, and renaming may take its name. `CopyPlan` has all of this (`looks`),
  and `NothingReplacedUnasked` leaves out what was overlooked.
* *Edits.* The upload of an edit looks at the remote file and then truncates it
  (`handlers/edit/mod.rs:179-196`). What somebody writes in between is replaced, unseen by the
  user and by `ReplacesWhatWasRead`.
* *Secrets.* A job that failed after a newer job of the same owner was queued is not
  rolled back (`keyring.rs:317`); renaming over a profile deletes its secret before the new one
  is saved; `MoveSshLabels` overwrites the marker of its target; a profile deleted before its
  secret was stored may leave the secret in the keyring. `KeyringAgrees` excludes the secrets that
  lost their owner so (`strays`); `DeletedLeavesNothing` of `KeyringJobs` states the last one and is run
  by nothing.
* *Servers.* Over SFTP, when the server itself renames over existing files, nothing looks
  at `to.bak` before it is used, nor whether a rename without an answer was done:
  `CallsSafe` asks only for a true success there. S3's copy may spoil the file it
  replaces. An S3 upload that the run remembers and the server has lost makes later
  calls for its key fail until one of them has been told so: `UploadsWork` of `S3Uploads`, the
  opposite, is run by nothing.
* *Search.* `match_from` compares the pattern's letter with the name's before it takes a `*` for any
  letters (`porthmos-vfs/src/search/mod.rs:50`), so that a `*` in a *name* uses up the pattern's
  own: `*xa` is not found by what is typed as `a`. The theorem is about names without a `*`.
* *Connecting.* A connect task that panics leaves its profile in `connecting`, so that it cannot
  connect again in this run. A profile that is deleted and made anew under its name
  is answered with the old session. Two connects that remember certificates at once
  may lose one of them, which is asked for again, or find the temporary file renamed by the
  other, and fail. That they may write it at the same time, and mix, is left out.
* *Front end.* A question about a connection replaces an older one, and `ProfileSaved`
  closes whatever dialog is open: these are the two ways to lose a question that
  `QuestionsKept` allows for. A stale search's `Done` can overwrite that the new one was
  truncated, and its late results are shown among the new ones and count towards their limit.
  The cursor jumps back to the row it was on when a filter was begun.

## 8. Not modelled

* Texts, names, icons, layout; logging; the speed and progress shown; key bindings
  and text input.
* When snapshots of the transfers are published (`publish_transfers`): whether a front end
  eventually sees a state, not which states there are.
* The wire protocols, which libraries and servers do most of. What is modelled is which
  calls are made, done, refused and answered.
* Parsing of files and replies (TOML, ssh config, listings, XML, URLs), signing,
  quoting; settings, paths and bookmarks. They are sequential, have no state that
  interacts, and are covered by unit tests.
* The history entries of failed scans (`record_failed_scan`), which tell of no row and of no
  job, and `clear_history`.
* SFTP's own search, which runs `find` on the server; a profile that is renamed while it is
  connected; the texts of two writers mixed in one temporary file.
* Overflow of 64-bit ids and sizes.

Each model also leaves something to assumptions: in `SyncRuns` the clock is later than all files
and nobody else writes; in `Connections` the system's roots know no certificate and saved
secrets are in the cache already; in `Panels` a command's wait in the queue and its task are
one wait, folders are not renamed and nobody else writes; in `RemoteFiles` there is one call at a time.

## 9. Plan

Done: all modules of section 2, their runs, and the proofs of section 5.

What is left: a run for each statement of section 7 that is run by nothing, if the code is
changed to keep it.
