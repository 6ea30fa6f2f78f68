------------------------------ MODULE EngineProofs ------------------------------
(***************************************************************************)
(* Theorems about TransferEngine, for any sessions, plans and commands,    *)
(* whatever of the tasks' results and the user's answers overtakes what:   *)
(* the front end shows the questions and sync plans that wait; each job    *)
(* and scan has one end coming; nothing that could run waits; no table     *)
(* keeps what is over; a cancelled sync copies nothing; the engine         *)
(* implements JobLife; history is told of each finished row, once; and     *)
(* listings miss a finished copy only while another is on its way.  First  *)
(* come the screens, with an invariant of their own, then the invariant of *)
(* the jobs and scans (Runs), handler by handler, and its theorems; the    *)
(* history and the listings, which rest on it, are last.                   *)
(***************************************************************************)
EXTENDS TransferEngine, QueueLemmas

Names == {"transfer", "plan-copy", "sync-scan", "sync-folders"}
Whats ==
    {"Completed", "Cancelled", "Failed", "PlanReady", "PlanCancelled", "PlanFailed", "SyncPlanReady",
     "SyncCancelled", "SyncFailed", "SyncFoldersReady", "PartialsRemoved", "Panicked"}

IsTask(task) == "name" \in DOMAIN task /\ task.name \in Names

TasksKnown == \A scope \in DOMAIN tasks : IsTask(tasks[scope])

(* what is on its way is a result that some handler takes *)
ResultsKnown == \E S : internal \in Seq(S) /\ \A result \in S : result.what \in Whats

(* what is shown, and what waits, as tables *)
Tables ==
    /\ shown = [questions |-> shown.questions, plans |-> shown.plans]
    /\ sync = [scanning |-> sync.scanning, plans |-> sync.plans]

EngineIInv == TasksKnown /\ ResultsKnown /\ Tables /\ FrontEndKnows

---------------------------------------------------------------------------
(* the tasks: Tasks::spawn, cancel, and fill_transfer_slots *)
LEMMA NewTask ==
    ASSUME NEW name \in Names, NEW session, NEW direction, NEW files
    PROVE  IsTask(Task(name, session, direction, files))
  BY DEF Task, IsTask

LEMMA FlaggedKnown ==
    ASSUME TasksKnown, NEW scopes, tasks' = Flagged(tasks, scopes)
    PROVE  TasksKnown'
<1>1. ASSUME NEW task, IsTask(task) PROVE IsTask([task EXCEPT !.cancel = TRUE])
  <2>1. "name" \in DOMAIN [task EXCEPT !.cancel = TRUE] /\ [task EXCEPT !.cancel = TRUE].name = task.name
    BY <1>1 DEF IsTask
  <2> QED
    BY <1>1, <2>1 DEF IsTask
<1> QED
  BY <1>1 DEF Flagged, TasksKnown

LEMMA SpawnedKnown ==
    ASSUME TasksKnown, NEW scope, NEW name \in Names, NEW session, NEW direction, NEW files,
           tasks' = Spawned(tasks, scope, Task(name, session, direction, files))
    PROVE  TasksKnown'
  BY NewTask DEF Spawned, With, TasksKnown

LEMMA WithoutKnown ==
    ASSUME TasksKnown, NEW scopes, tasks' = Without(tasks, scopes)
    PROVE  TasksKnown'
  BY DEF Without, TasksKnown

LEMMA FillKnown ==
    ASSUME TasksKnown, NEW q, NEW st, Fill(q, st)
    PROVE  TasksKnown'
<1>1. \A session, direction, files : IsTask(Task("transfer", session, direction, files))
  BY NewTask DEF Names
<1> QED
  BY <1>1 DEF Fill, TasksKnown

---------------------------------------------------------------------------
(* what is shown follows what waits *)
LEMMA Unshown ==
    ASSUME EngineIInv, TasksKnown', ResultsKnown', UNCHANGED <<sessions, sync, reviews, shown>>
    PROVE  EngineIInv'
  BY DEF EngineIInv, Tables, FrontEndKnows

(* a question goes with its review *)
LEMMA QuestionGone ==
    ASSUME EngineIInv, TasksKnown', ResultsKnown', UNCHANGED <<sessions, sync>>, NEW batches, NEW asked,
           asked \cap DOMAIN reviews = batches \cap DOMAIN reviews,
           reviews' = Without(reviews, batches),
           shown' = [shown EXCEPT !.questions = @ \ asked]
    PROVE  EngineIInv'
<1>1. shown' = [questions |-> shown.questions \ asked, plans |-> shown.plans] /\ Tables'
  BY DEF EngineIInv, Tables
<1> QED
  BY <1>1 DEF EngineIInv, FrontEndKnows, Without

(* a sync's plan goes, and some reviews *)
LEMMA PlansGone ==
    ASSUME EngineIInv, TasksKnown', ResultsKnown', NEW batches, NEW ids, NEW scanning,
           reviews' = Without(reviews, batches),
           sync' = [scanning |-> scanning, plans |-> Without(sync.plans, ids)],
           shown' = [questions |-> shown.questions \ batches, plans |-> shown.plans \ ids],
           \A b \in DOMAIN reviews \ batches : reviews[b].session \in sessions',
           \A b \in DOMAIN sync.plans \ ids : sync.plans[b].session \in sessions'
    PROVE  EngineIInv'
<1>1. Tables' /\ sync'.plans = Without(sync.plans, ids)
      /\ shown'.questions = shown.questions \ batches /\ shown'.plans = shown.plans \ ids
  BY DEF Tables
<1> QED
  BY <1>1 DEF EngineIInv, FrontEndKnows, Without

---------------------------------------------------------------------------
(* the commands *)
LEMMA CopyKeeps ==
    ASSUME EngineIInv, NEW session, NEW direction, Copy(session, direction)
    PROVE  EngineIInv'
<1>1. TasksKnown'
  BY SpawnedKnown DEF Copy, StartScan, EngineIInv, Names
<1> QED
  BY <1>1, Unshown DEF Copy, ResultsKnown, EngineIInv, front

LEMMA ResolveConflictsKeeps ==
    ASSUME EngineIInv, NEW batch, ResolveConflicts(batch) \/ DeclineConflicts(batch)
    PROVE  EngineIInv'
<1>1. TasksKnown'
  BY FillKnown DEF ResolveConflicts, DeclineConflicts, ApplyPlan, EngineIInv, TasksKnown
<1>2. ResultsKnown'
  BY DEF ResolveConflicts, DeclineConflicts, ResultsKnown, EngineIInv
<1> QED
  BY <1>1, <1>2, QuestionGone DEF ResolveConflicts, DeclineConflicts, Answered

LEMMA CancelScanKeeps ==
    ASSUME EngineIInv, NEW batch, CancelScan(batch)
    PROVE  EngineIInv'
<1>1. TasksKnown' /\ ResultsKnown'
  BY FlaggedKnown DEF CancelScan, Cancel, EngineIInv, ResultsKnown
<1> QED
  BY <1>1, QuestionGone DEF CancelScan, DropReviews

LEMMA DropKeeps ==
    ASSUME EngineIInv, TasksKnown', ResultsKnown', NEW batches, NEW ids, DropReviewsAndPlans(batches, ids),
           \A b \in DOMAIN reviews \ batches : reviews[b].session \in sessions',
           \A b \in DOMAIN sync.plans \ ids : sync.plans[b].session \in sessions'
    PROVE  EngineIInv'
<1>1. sync' = [scanning |-> sync.scanning, plans |-> Without(sync.plans, ids)]
  BY DEF DropReviewsAndPlans, EngineIInv, Tables
<1> QED
  BY <1>1, PlansGone DEF DropReviewsAndPlans

LEMMA CancelAllKeeps ==
    ASSUME EngineIInv, CancelAll
    PROVE  EngineIInv'
<1>1. TasksKnown' /\ ResultsKnown'
  BY FlaggedKnown DEF CancelAll, Cancel, EngineIInv, ResultsKnown
<1> QED
  BY <1>1, DropKeeps DEF CancelAll

LEMMA DisconnectKeeps ==
    ASSUME EngineIInv, NEW session, Disconnect(session)
    PROVE  EngineIInv'
<1>1. TasksKnown' /\ ResultsKnown'
  BY FlaggedKnown DEF Disconnect, Cancel, EngineIInv, ResultsKnown
<1>2. /\ \A b \in DOMAIN reviews \ OfSession(reviews, session) : reviews[b].session \in sessions'
      /\ \A b \in DOMAIN sync.plans \ OfSession(sync.plans, session) : sync.plans[b].session \in sessions'
  BY DEF Disconnect, OfSession, EngineIInv, FrontEndKnows
<1> QED
  BY <1>1, <1>2, DropKeeps DEF Disconnect

LEMMA RowsKeep ==
    ASSUME EngineIInv, NEW kind, CancelRow(kind) \/ RetryRow(kind) \/ ClearFinished
    PROVE  EngineIInv'
<1>1. TasksKnown'
  BY FlaggedKnown, FillKnown DEF CancelRow, Cancel, RetryRow, ClearFinished, EngineIInv, TasksKnown
<1> QED
  BY <1>1, Unshown DEF CancelRow, RetryRow, ClearFinished, ResultsKnown, EngineIInv, scans

LEMMA StartSyncKeeps ==
    ASSUME EngineIInv, NEW session, StartSync(session)
    PROVE  EngineIInv'
<1>1. TasksKnown' /\ ResultsKnown'
  BY SpawnedKnown DEF StartSync, StartScan, EngineIInv, Names, ResultsKnown
<1>2. sync' = [scanning |-> sync.scanning \cup {transfers.nextBatch}, plans |-> sync.plans]
  BY DEF StartSync, EngineIInv, Tables
<1> QED
  BY <1>1, <1>2 DEF StartSync, front, EngineIInv, Tables, FrontEndKnows

LEMMA RunSyncKeeps ==
    ASSUME EngineIInv, NEW id, RunSync(id)
    PROVE  EngineIInv'
<1>1. \A session, direction, files : IsTask(Task("sync-folders", session, direction, files))
  BY NewTask DEF Names
<1>2. TasksKnown' /\ ResultsKnown'
  <2>1. PICK session, first, batches : tasks' = WithFolders(tasks, session, first, batches)
    BY DEF RunSync
  <2>2. ResultsKnown'
    BY DEF RunSync, EngineIInv, ResultsKnown
  <2> QED
    BY <1>1, <2>1, <2>2 DEF WithFolders, EngineIInv, TasksKnown
<1>3. PICK scanning : sync' = [scanning |-> scanning, plans |-> Without(sync.plans, {id})]
  BY DEF RunSync
<1>4. shown' = [questions |-> shown.questions, plans |-> shown.plans \ {id}] /\ reviews' = reviews
      /\ sessions' = sessions
  BY DEF RunSync, EngineIInv, Tables
<1>5. Tables'
  BY <1>3, <1>4 DEF EngineIInv, Tables
<1> QED
  BY <1>2, <1>3, <1>4, <1>5 DEF EngineIInv, FrontEndKnows, Without

LEMMA CancelSyncKeeps ==
    ASSUME EngineIInv, NEW id, CancelSyncScan(id) \/ CancelSyncPlan(id)
    PROVE  EngineIInv'
<1>1. TasksKnown' /\ ResultsKnown'
  BY FlaggedKnown DEF CancelSyncScan, CancelSyncPlan, Cancel, EngineIInv, TasksKnown, ResultsKnown
<1>2. CASE CancelSyncScan(id)
  BY <1>1, <1>2, Unshown DEF CancelSyncScan, scans, front
<1>3. CASE CancelSyncPlan(id)
  <2>1. /\ sync' = [scanning |-> sync.scanning, plans |-> Without(sync.plans, {id})]
        /\ shown' = [questions |-> shown.questions, plans |-> shown.plans \ {id}]
    BY <1>3 DEF CancelSyncPlan, EngineIInv, Tables
  <2> QED
    BY <1>1, <1>3, <2>1 DEF CancelSyncPlan, EngineIInv, Tables, FrontEndKnows, Without
<1> QED
  BY <1>2, <1>3

LEMMA FinishConnectKeeps ==
    ASSUME EngineIInv, FinishConnect
    PROVE  EngineIInv'
  BY DEF FinishConnect, scans, front, EngineIInv, TasksKnown, ResultsKnown, Tables, FrontEndKnows

---------------------------------------------------------------------------
(* the ends of tasks *)
LEMMA AppendKnown ==
    ASSUME ResultsKnown, NEW result, result.what \in Whats, internal' = Append(internal, result)
    PROVE  ResultsKnown'
<1> PICK S : internal \in Seq(S) /\ \A r \in S : r.what \in Whats
  BY DEF ResultsKnown
<1> DEFINE T == S \cup {result}
<1>1. internal \in Seq(T) /\ result \in T
  OBVIOUS
<1>2. internal' \in Seq(T)
  BY <1>1
<1> QED
  BY <1>2 DEF ResultsKnown

LEMMA BackgroundKeeps ==
    ASSUME EngineIInv, Background
    PROVE  EngineIInv'
<1>1. ASSUME NEW scope, TaskEnds(scope) PROVE EngineIInv'
  <2>1. IsTask(tasks[scope]) /\ TasksKnown'
    BY <1>1, WithoutKnown DEF TaskEnds, EngineIInv, TasksKnown
  <2>2. PICK result \in Results(scope) : internal' = Append(internal, result)
    BY <1>1 DEF TaskEnds
  <2>3. /\ \A what, plan : Result(scope, what, plan).what = what
        /\ \A name \in Names : {Done(name), GaveUp(name), Broke(name), "Panicked"} \subseteq Whats
    BY DEF Result, Names, Whats, Done, GaveUp, Broke
  <2>4. result.what \in Whats
    BY <2>1, <2>2, <2>3 DEF Results, IsTask
  <2>5. ResultsKnown'
    BY <2>2, <2>4, AppendKnown DEF EngineIInv
  <2> QED
    BY <1>1, <2>1, <2>5, Unshown DEF TaskEnds, scans, front
<1>2. ASSUME NEW i, RemovePart(i) \/ RemovalPanics(i) PROVE EngineIInv'
  <2>1. TasksKnown'
    BY <1>2 DEF RemovePart, RemovalPanics, EngineIInv, TasksKnown
  <2>2. \A what, session : Notice(what, session).what = what
    BY DEF Notice
  <2>3. \/ internal' = internal
        \/ \E what \in Whats : \E session : internal' = Append(internal, Notice(what, session))
    BY <1>2 DEF RemovePart, RemovalPanics, Whats
  <2>4. ResultsKnown'
    BY <2>2, <2>3, AppendKnown DEF EngineIInv, ResultsKnown
  <2> QED
    BY <1>2, <2>1, <2>4, Unshown DEF RemovePart, RemovalPanics, scans, front
<1> QED
  BY <1>1, <1>2 DEF Background

---------------------------------------------------------------------------
(* the handlers of results *)
LEMMA HeadKnown ==
    ASSUME ResultsKnown, Received
    PROVE  Head(internal).what \in Whats /\ ResultsKnown'
<1> PICK S : internal \in Seq(S) /\ \A r \in S : r.what \in Whats
  BY DEF ResultsKnown
<1>1. internal # <<>> /\ internal' = Tail(internal)
  BY DEF Received
<1>2. Head(internal) \in S /\ internal' \in Seq(S)
  BY <1>1
<1> QED
  BY <1>2 DEF ResultsKnown

LEMMA SyncEndedKeeps ==
    ASSUME EngineIInv, ResultsKnown', UNCHANGED sessions, NEW batch, SyncEnded(batch)
    PROVE  EngineIInv'
<1>1. TasksKnown'
  BY DEF SyncEnded, DropScan, EngineIInv, TasksKnown
<1>2. sync' = [scanning |-> sync.scanning \ {batch}, plans |-> sync.plans]
  BY DEF SyncEnded, EngineIInv, Tables
<1> QED
  BY <1>1, <1>2 DEF SyncEnded, front, EngineIInv, Tables, FrontEndKnows

LEMMA TransferEndsKeep ==
    ASSUME EngineIInv, ResultsKnown', UNCHANGED sessions, NEW id, NEW status,
           Finished(id, status) \/ Failed(id)
    PROVE  EngineIInv'
<1>1. TasksKnown'
  BY FillKnown DEF Finished, Failed, EngineIInv
<1> QED
  BY <1>1, Unshown DEF Finished, Failed, scans

LEMMA DropScanKeeps ==
    ASSUME EngineIInv, ResultsKnown', UNCHANGED <<sessions, reviews, sync, shown>>, NEW batch, DropScan(batch)
    PROVE  EngineIInv'
<1>1. TasksKnown'
  BY DEF DropScan, EngineIInv, TasksKnown
<1> QED
  BY <1>1, Unshown

LEMMA PlanReadyKeeps ==
    ASSUME EngineIInv, ResultsKnown', UNCHANGED sessions, NEW batch, NEW result, PlanReady(batch, result)
    PROVE  EngineIInv'
<1>1. CASE result.session \notin sessions
  BY <1>1, DropScanKeeps DEF PlanReady, front
<1>2. CASE result.session \in sessions /\ result.plan.asks
  <2> DEFINE review == [session |-> result.session, direction |-> result.direction, files |-> result.plan.files]
  <2>1. /\ reviews' = With(reviews, batch, review) /\ sync' = sync /\ tasks' = tasks
        /\ shown' = [shown EXCEPT !.questions = @ \cup {batch}]
    BY <1>2 DEF PlanReady
  <2>2. shown' = [questions |-> shown.questions \cup {batch}, plans |-> shown.plans]
    BY <2>1 DEF EngineIInv, Tables
  <2>3. DOMAIN reviews' = DOMAIN reviews \cup {batch}
        /\ \A b \in DOMAIN reviews' : reviews'[b] = IF b = batch THEN review ELSE reviews[b]
    BY <2>1 DEF With
  <2>4. \A b \in DOMAIN reviews' : reviews'[b].session \in sessions
    BY <1>2, <2>3 DEF EngineIInv, FrontEndKnows
  <2>5. TasksKnown' /\ Tables'
    BY <2>1, <2>2 DEF EngineIInv, TasksKnown, Tables
  <2> QED
    BY <2>1, <2>2, <2>3, <2>4, <2>5 DEF EngineIInv, FrontEndKnows
<1>3. CASE result.session \in sessions /\ ~result.plan.asks
  <2>1. TasksKnown'
    BY <1>3, FillKnown DEF PlanReady, ApplyPlan, EngineIInv
  <2> QED
    BY <1>3, <2>1, Unshown DEF PlanReady
<1> QED
  BY <1>1, <1>2, <1>3

LEMMA SyncPlanReadyKeeps ==
    ASSUME EngineIInv, ResultsKnown', UNCHANGED sessions, NEW batch, NEW result, SyncPlanReady(batch, result)
    PROVE  EngineIInv'
<1>1. CASE SyncEnded(batch)
  BY <1>1, SyncEndedKeeps
<1>2. CASE ~SyncEnded(batch)
  <2> DEFINE plan == [session |-> result.session, uploads |-> result.plan.uploads,
                      downloads |-> result.plan.downloads]
             show == result.session \in sessions /\ (result.plan.uploads # <<>> \/ result.plan.downloads # <<>>)
  <2>1. /\ sync' = [scanning |-> sync.scanning \ {batch},
                    plans |-> IF show THEN With(sync.plans, batch, plan) ELSE sync.plans]
        /\ shown' = IF show THEN [shown EXCEPT !.plans = @ \cup {batch}] ELSE shown
        /\ reviews' = reviews /\ tasks' = tasks
    BY <1>2 DEF SyncPlanReady, DropScan
  <2>2. TasksKnown' /\ Tables' /\ shown'.questions = shown.questions
        /\ shown'.plans = IF show THEN shown.plans \cup {batch} ELSE shown.plans
    BY <2>1 DEF EngineIInv, TasksKnown, Tables
  <2>3. CASE show
    <3>1. DOMAIN sync'.plans = DOMAIN sync.plans \cup {batch}
          /\ \A b \in DOMAIN sync'.plans : sync'.plans[b] = IF b = batch THEN plan ELSE sync.plans[b]
      BY <2>1, <2>3 DEF With
    <3>2. \A b \in DOMAIN sync'.plans : sync'.plans[b].session \in sessions
      BY <2>3, <3>1 DEF EngineIInv, FrontEndKnows
    <3> QED
      BY <2>1, <2>2, <2>3, <3>1, <3>2 DEF EngineIInv, FrontEndKnows
  <2>4. CASE ~show
    BY <2>1, <2>2, <2>4 DEF EngineIInv, FrontEndKnows
  <2> QED
    BY <2>3, <2>4
<1> QED
  BY <1>1, <1>2

LEMMA SyncFoldersReadyKeeps ==
    ASSUME EngineIInv, ResultsKnown', UNCHANGED sessions, NEW batch, NEW result, SyncFoldersReady(batch, result)
    PROVE  EngineIInv'
<1>1. CASE SyncEnded(batch)
  BY <1>1, SyncEndedKeeps
<1>2. CASE batch \notin sync.scanning
  <2>1. TasksKnown'
    BY <1>2 DEF SyncFoldersReady, EngineIInv, TasksKnown
  <2> QED
    BY <1>2, <2>1, Unshown DEF SyncFoldersReady, scans, front
<1>3. CASE batch \in sync.scanning /\ ~SyncEnded(batch)
  <2>1. /\ sync' = [sync EXCEPT !.scanning = @ \ {batch}] /\ UNCHANGED <<reviews, shown>>
        /\ ApplyPlan(transfers, batch, result.session, result.direction, result.plan.files)
    BY <1>3 DEF SyncFoldersReady
  <2>2. TasksKnown'
    BY <2>1, FillKnown DEF ApplyPlan, EngineIInv
  <2>3. sync' = [scanning |-> sync.scanning \ {batch}, plans |-> sync.plans]
    BY <2>1 DEF EngineIInv, Tables
  <2> QED
    BY <2>1, <2>2, <2>3 DEF EngineIInv, Tables, FrontEndKnows
<1> QED
  BY <1>1, <1>2, <1>3

LEMMA UnheardKeeps ==
    ASSUME EngineIInv, ResultsKnown', UNCHANGED <<sessions, tasks, shown>>, UNCHANGED scans
    PROVE  EngineIInv'
  BY DEF scans, EngineIInv, TasksKnown, Tables, FrontEndKnows

LEMMA PanickedKeeps ==
    ASSUME EngineIInv, ResultsKnown', UNCHANGED sessions, NEW scope, Panicked(scope)
    PROVE  EngineIInv'
  BY TransferEndsKeep, SyncEndedKeeps, DropScanKeeps, UnheardKeeps DEF Panicked, PlanFailed, front

LEMMA HandleInternalKeeps ==
    ASSUME EngineIInv, HandleInternal
    PROVE  EngineIInv'
<1> DEFINE result == Head(internal)
           on == result.scope[2]
<1>1. result.what \in Whats /\ ResultsKnown' /\ UNCHANGED sessions
  BY HeadKnown DEF HandleInternal, EngineIInv
<1>2. Handle(result)
  BY DEF HandleInternal
<1>3. CASE result.what \in {"Completed", "Cancelled", "Failed"}
  <2>1. Finished(on, "Completed") \/ Finished(on, "Cancelled") \/ Failed(on)
    BY <1>2, <1>3 DEF Handle
  <2> QED
    BY <1>1, <2>1, TransferEndsKeep
<1>4. CASE result.what = "PlanReady"
  BY <1>1, <1>2, <1>4, PlanReadyKeeps DEF Handle
<1>5. CASE result.what \in {"PlanCancelled", "PlanFailed"}
  <2>1. DropScan(on) /\ UNCHANGED <<reviews, sync, shown>>
    BY <1>2, <1>5 DEF Handle, PlanCancelled, PlanFailed, front
  <2> QED
    BY <1>1, <2>1, DropScanKeeps
<1>6. CASE result.what = "SyncPlanReady"
  BY <1>1, <1>2, <1>6, SyncPlanReadyKeeps DEF Handle
<1>7. CASE result.what \in {"SyncCancelled", "SyncFailed"}
  BY <1>1, <1>2, <1>7, SyncEndedKeeps DEF Handle
<1>8. CASE result.what = "SyncFoldersReady"
  BY <1>1, <1>2, <1>8, SyncFoldersReadyKeeps DEF Handle
<1>9. CASE result.what = "PartialsRemoved"
  <2>1. PartialsRemoved(result.session)
    BY <1>2, <1>9 DEF Handle
  <2> QED
    BY <1>1, <2>1, UnheardKeeps DEF PartialsRemoved
<1>10. CASE result.what = "Panicked"
  BY <1>1, <1>2, <1>10, PanickedKeeps DEF Handle
<1> QED
  BY <1>1, <1>3, <1>4, <1>5, <1>6, <1>7, <1>8, <1>9, <1>10 DEF Whats

---------------------------------------------------------------------------
LEMMA StopKeeps ==
    ASSUME EngineIInv, Stop
    PROVE  EngineIInv'
<1>1. TasksKnown'
  BY FlaggedKnown, WithoutKnown DEF Stop, Shutdown, DropLate, StopTasks, DropEngine, EngineIInv, TasksKnown
<1>2. ResultsKnown'
  <2> PICK S : internal \in Seq(S) /\ \A r \in S : r.what \in Whats
    BY DEF EngineIInv, ResultsKnown
  <2>1. internal' = internal \/ (internal # <<>> /\ internal' = Tail(internal)) \/ internal' = <<>>
    BY DEF Stop, Shutdown, DropLate, StopTasks, DropEngine
  <2>2. CASE internal' = internal
    BY <2>2 DEF ResultsKnown
  <2>3. CASE internal # <<>> /\ internal' = Tail(internal)
    <3>1. internal' \in Seq(S)
      BY <2>3
    <3> QED
      BY <3>1 DEF ResultsKnown
  <2>4. CASE internal' = <<>>
    <3>1. internal' \in Seq(S)
      BY <2>4
    <3> QED
      BY <3>1 DEF ResultsKnown
  <2> QED
    BY <2>1, <2>2, <2>3, <2>4
<1> QED
  BY <1>1, <1>2, Unshown DEF Stop, Shutdown, DropLate, StopTasks, DropEngine, scans, front

LEMMA NextKeeps ==
    ASSUME EngineIInv, [Next]_vars
    PROVE  EngineIInv'
<1>1. CASE UNCHANGED vars
  BY <1>1 DEF vars, EngineIInv, TasksKnown, ResultsKnown, Tables, FrontEndKnows
<1>2. CASE Command
  BY <1>2, CopyKeeps, ResolveConflictsKeeps, CancelScanKeeps, RowsKeep, CancelAllKeeps, StartSyncKeeps,
     DisconnectKeeps, RunSyncKeeps, CancelSyncKeeps DEF Command
<1> QED
  BY <1>1, <1>2, FinishConnectKeeps, BackgroundKeeps, HandleInternalKeeps, StopKeeps DEF Next

(* Every handler that ends a review or a sync's plan announces it, and a   *)
(* result is looked at for its session when it is handled: in every order  *)
(* of commands, results and disconnects, the front end shows exactly the   *)
(* questions and plans the engine waits for, and their sessions are live.  *)
THEOREM FrontEndKnowsHolds == Spec => []FrontEndKnows
<1>1. Init => EngineIInv
  <2> SUFFICES ASSUME Init PROVE EngineIInv
    OBVIOUS
  <2>1. internal \in Seq({})
    BY DEF Init
  <2> QED
    BY <2>1 DEF Init, EngineIInv, TasksKnown, ResultsKnown, Tables, FrontEndKnows
<1>2. EngineIInv /\ [Next]_vars => EngineIInv'
  BY NextKeeps
<1>3. EngineIInv => FrontEndKnows
  BY DEF EngineIInv
<1> QED
  BY <1>1, <1>2, <1>3, PTL DEF Spec

---------------------------------------------------------------------------
(***************************************************************************)
(* The invariant behind the rest: what the queue, the scans, the tasks and *)
(* the channel have to do with each other.  Its parts are stated of their  *)
(* values, so that a handler's steps can be followed one after the other.  *)
(***************************************************************************)
Background0 == <<"Background", 0>>

(* A waiting job's session is live, and so is a running one's unless the   *)
(* job was asked to stop; the jobs of a batch are one session's.           *)
JobsHeld(q, live, marks) ==
    /\ \A id \in DOMAIN q.jobs : q.jobs[id].batch # NoBatch
    /\ \A i, j \in DOMAIN q.jobs : q.jobs[i].batch = q.jobs[j].batch => q.jobs[i].session = q.jobs[j].session
    /\ \A id \in q.queued : q.jobs[id].session \in live
    /\ \A id \in q.running : q.jobs[id].session \in live \/ Transfer(id) \in marks

(* A batch is a scan, a review or a row, never two of them, and labelled   *)
(* as long as it is one; a plan's batch is no scan any more.               *)
BatchesHeld(q, plan, rev, syn) ==
    /\ q.batchLabels = DOMAIN plan \cup DOMAIN rev \cup DOMAIN q.batchRow
    /\ q.batchLabels \cup DOMAIN syn.plans \subseteq 0..(q.nextBatch - 1)
    /\ DOMAIN plan \cap DOMAIN rev = {}
    /\ DOMAIN q.batchRow \cap (DOMAIN plan \cup DOMAIN rev) = {}
    /\ syn.scanning \subseteq DOMAIN plan
    /\ DOMAIN syn.plans \cap DOMAIN plan = {}

PlansHeld(rev, syn) ==
    /\ \A b \in DOMAIN rev : rev[b].direction \in Direction /\ rev[b].files \in Files
    /\ \A b \in DOMAIN syn.plans : syn.plans[b].uploads \in Files /\ syn.plans[b].downloads \in Files

Held(q, live, marks, plan, rev, syn) ==
    QueueOK(q) /\ JobsHeld(q, live, marks) /\ BatchesHeld(q, plan, rev, syn) /\ PlansHeld(rev, syn)

(* Each piece of work has one end coming: a task or a result.              *)
AnswersHeld(ts, chan, work) ==
    /\ DOMAIN ts \subseteq work
    /\ \A i \in DOMAIN chan : chan[i].scope \in (work \ DOMAIN ts) \cup {Background0}
    /\ \A i, j \in DOMAIN chan : chan[i].scope = chan[j].scope /\ chan[i].scope # Background0 => i = j
    /\ \A scope \in work \ DOMAIN ts : \E i \in DOMAIN chan : chan[i].scope = scope

(* A task does what its scope is for, and ends with a result of its kind.  *)
TaskHeld(scope, task, scanning, marks) ==
    /\ DOMAIN task = {"name", "session", "direction", "files", "cancel"}
    /\ task.direction \in Direction
    /\ task.files \in Files
    /\ task.cancel = TRUE => scope \in marks
    /\ \/ scope[1] = "Transfer" /\ task.name = "transfer"
       \/ scope[1] = "Planning" /\ scope[2] \notin scanning /\ task.name = "plan-copy"
       \/ scope[1] = "Planning" /\ scope[2] \in scanning /\ task.name \in {"sync-scan", "sync-folders"}

ResultHeld(result, scanning, marks) ==
    \/ result.scope = Background0 /\ result.what \in {"PartialsRemoved", "Panicked"}
    \/ /\ result.scope[1] = "Transfer"
       /\ result.what \in {"Completed", "Cancelled", "Failed", "Panicked"}
       /\ result.what = "Cancelled" => result.scope \in marks
    \/ /\ result.scope[1] = "Planning" /\ result.scope[2] \notin scanning
       /\ result.what \in {"PlanReady", "PlanCancelled", "PlanFailed", "Panicked"}
       /\ result.what = "PlanReady" => result.direction \in Direction /\ result.plan.files \in Files
    \/ /\ result.scope[1] = "Planning" /\ result.scope[2] \in scanning
       /\ result.what \in {"SyncPlanReady", "SyncFoldersReady", "SyncCancelled", "SyncFailed", "Panicked"}
       /\ result.what = "SyncPlanReady" => result.plan.uploads \in Files /\ result.plan.downloads \in Files
       /\ result.what = "SyncFoldersReady" => result.direction \in Direction /\ result.plan.files \in Files

Going(work, ts, chan, marks, scanning) ==
    /\ \E S : chan \in Seq(S)
    /\ AnswersHeld(ts, chan, work)
    /\ marks \subseteq work
    /\ \A scope \in DOMAIN ts : TaskHeld(scope, ts[scope], scanning, marks)
    /\ \A i \in DOMAIN chan : ResultHeld(chan[i], scanning, marks)

WorkNow == Work(DOMAIN planning, transfers.running)

IInv ==
    /\ EngineIInv
    /\ sessions \subseteq Sessions
    /\ Held(transfers, sessions, cancelled, planning, reviews, sync)
    /\ phase = "running" =>
         /\ Going(WorkNow, tasks, internal, cancelled, sync.scanning)
         /\ IsStartable(transfers, {})

---------------------------------------------------------------------------
(* what a user chooses of a list is such a list *)
LEMMA ChosenFiles ==
    ASSUME NEW files \in Files, NEW chosen \in Chosen(files)
    PROVE  chosen \in Files
<1> DEFINE F == [path: Paths, total: Nat, resume: BOOLEAN]
<1>1. PICK n \in 0..Len(files) : \E place \in [1..n -> DOMAIN files] : chosen = [i \in 1..n |-> files[place[i]]]
  BY DEF Chosen
<1>2. PICK place \in [1..n -> DOMAIN files] : chosen = [i \in 1..n |-> files[place[i]]]
  BY <1>1
<1>3. files \in Seq(F)
  BY DEF Files
<1> HIDE DEF F
<1>4. Len(files) \in Nat /\ \A i \in DOMAIN files : files[i] \in F
  BY <1>3
<1>5. n \in Nat
  BY <1>4
<1>6. \A i \in 1..n : files[place[i]] \in F
  BY <1>4
<1>7. chosen \in [1..n -> F]
  BY <1>2, <1>6
<1>8. chosen \in Seq(F)
  BY <1>5, <1>7
<1> QED
  BY <1>8 DEF F, Files

LEMMA FoundFiles == FileLists \subseteq Files
<1> DEFINE F == [path: Paths, total: Nat, resume: BOOLEAN]
           G == [path: Paths, total: Sizes, resume: BOOLEAN]
<1>1. \A g \in G : g \in F
  BY SizesAssumption
<1>2. ASSUME NEW files \in Seq(G) PROVE files \in Seq(F)
  <2> HIDE DEF F, G
  <2>1. Len(files) \in Nat /\ files \in [1..Len(files) -> G]
    OBVIOUS
  <2>2. files \in [1..Len(files) -> F]
    BY <1>1, <2>1
  <2> QED
    BY <2>1, <2>2
<1> QED
  BY <1>2 DEF FileLists, Files

(* the scopes *)
LEMMA Scopes ==
    /\ \A i, j : Transfer(i) = Transfer(j) => i = j
    /\ \A i, j : Planning(i) = Planning(j) => i = j
    /\ \A i, j : Transfer(i) # Planning(j)
    /\ \A i : Transfer(i) # Background0 /\ Planning(i) # Background0
    /\ \A i : Transfer(i)[1] = "Transfer" /\ Transfer(i)[2] = i
    /\ \A i : Planning(i)[1] = "Planning" /\ Planning(i)[2] = i
    /\ \A B, I, scope : scope \in Work(B, I) <=>
         (\E b \in B : scope = Planning(b)) \/ (\E id \in I : scope = Transfer(id))
  BY DEF Transfer, Planning, Background0, Work

(* spawn: tasks for new work *)
LEMMA SpawnGoes ==
    ASSUME NEW work, NEW ts, NEW chan, NEW marks, NEW scanning, Going(work, ts, chan, marks, scanning),
           NEW new, new \cap work = {}, Background0 \notin new,
           NEW ts2, DOMAIN ts2 = DOMAIN ts \cup new, \A scope \in DOMAIN ts : ts2[scope] = ts[scope],
           NEW scanning2, scanning \subseteq scanning2, \A b \in scanning2 \ scanning : Planning(b) \in new,
           \A scope \in new : TaskHeld(scope, ts2[scope], scanning2, marks),
           \A scope \in work : scope[1] = "Planning" => scope = Planning(scope[2])
    PROVE  Going(work \cup new, ts2, chan, marks, scanning2)
<1>1. \A scope \in work : scope[1] = "Planning" => (scope[2] \in scanning2 <=> scope[2] \in scanning)
  OBVIOUS
<1>2. AnswersHeld(ts2, chan, work \cup new)
  BY DEF Going, AnswersHeld
<1>3. ASSUME NEW scope \in DOMAIN ts2
      PROVE  TaskHeld(scope, ts2[scope], scanning2, marks)
  <2>1. CASE scope \in DOMAIN ts
    BY <1>1, <2>1 DEF Going, AnswersHeld, TaskHeld
  <2> QED
    BY <2>1
<1>4. ASSUME NEW i \in DOMAIN chan
      PROVE  ResultHeld(chan[i], scanning2, marks)
  <2>1. ResultHeld(chan[i], scanning, marks) /\ chan[i].scope \in work \cup {Background0}
    BY DEF Going, AnswersHeld
  <2>2. Background0[1] # "Planning"
    BY DEF Background0
  <2> QED
    BY <1>1, <2>1, <2>2 DEF ResultHeld
<1> QED
  BY <1>2, <1>3, <1>4 DEF Going

(* cancel: marks and flags for work that goes on *)
LEMMA CancelGoes ==
    ASSUME NEW work, NEW ts, NEW chan, NEW marks, NEW scanning, Going(work, ts, chan, marks, scanning),
           NEW scopes \in SUBSET work
    PROVE  Going(work, Flagged(ts, scopes), chan, marks \cup scopes, scanning)
<1> DEFINE ts2 == Flagged(ts, scopes)
<1>1. DOMAIN ts2 = DOMAIN ts
  BY DEF Flagged
<1>2. ASSUME NEW scope \in DOMAIN ts
      PROVE  TaskHeld(scope, ts2[scope], scanning, marks \cup scopes)
  <2>1. TaskHeld(scope, ts[scope], scanning, marks)
    BY DEF Going
  <2>2. ts2[scope] = IF scope \in scopes THEN [ts[scope] EXCEPT !.cancel = TRUE] ELSE ts[scope]
    BY DEF Flagged
  <2> HIDE DEF ts2
  <2>3. /\ DOMAIN ts2[scope] = DOMAIN ts[scope] /\ ts2[scope].name = ts[scope].name
        /\ ts2[scope].direction = ts[scope].direction /\ ts2[scope].files = ts[scope].files
        /\ ts2[scope].cancel = TRUE => ts[scope].cancel = TRUE \/ scope \in scopes
    BY <2>1, <2>2 DEF TaskHeld
  <2> QED
    BY <2>1, <2>3 DEF TaskHeld
<1> HIDE DEF ts2
<1>3. AnswersHeld(ts2, chan, work)
  BY <1>1 DEF Going, AnswersHeld
<1>4. \A i \in DOMAIN chan : ResultHeld(chan[i], scanning, marks \cup scopes)
  BY DEF Going, ResultHeld
<1>5. Going(work, ts2, chan, marks \cup scopes, scanning)
  BY <1>1, <1>2, <1>3, <1>4 DEF Going
<1> QED
  BY <1>5 DEF ts2

(* a channel and what is sent on it *)
Sent1(chan, result, chan2) ==
    /\ \E S : chan2 \in Seq(S)
    /\ DOMAIN chan2 = DOMAIN chan \cup {Len(chan) + 1}
    /\ Len(chan) + 1 \notin DOMAIN chan
    /\ \A i \in DOMAIN chan : chan2[i] = chan[i]
    /\ chan2[Len(chan) + 1] = result

LEMMA Sends ==
    ASSUME NEW chan, \E T : chan \in Seq(T), NEW result, NEW chan2, chan2 = Append(chan, result)
    PROVE  Sent1(chan, result, chan2)
<1> PICK T : chan \in Seq(T)
  OBVIOUS
<1> DEFINE S == T \cup {result}
<1>1. chan \in Seq(S) /\ result \in S
  OBVIOUS
<1>2. chan2 \in Seq(S)
  BY <1>1
<1>3. /\ DOMAIN chan2 = DOMAIN chan \cup {Len(chan) + 1}
      /\ Len(chan) + 1 \notin DOMAIN chan
      /\ \A i \in DOMAIN chan : chan2[i] = chan[i]
      /\ chan2[Len(chan) + 1] = result
  OBVIOUS
<1> QED
  BY <1>2, <1>3 DEF Sent1

(* a task ends: its result is its answer *)
LEMMA EndGoes ==
    ASSUME NEW work, NEW ts, NEW chan, NEW marks, NEW scanning, Going(work, ts, chan, marks, scanning),
           Background0 \notin work,
           NEW scope \in DOMAIN ts, NEW result, result.scope = scope, ResultHeld(result, scanning, marks)
    PROVE  Going(work, Without(ts, {scope}), Append(chan, result), marks, scanning)
<1> DEFINE ts2 == Without(ts, {scope})
           chan2 == Append(chan, result)
           n == Len(chan) + 1
<1>1. DOMAIN ts2 = DOMAIN ts \ {scope} /\ \A s \in DOMAIN ts2 : ts2[s] = ts[s]
  BY DEF Without
<1>2. /\ \E S : chan2 \in Seq(S)
      /\ DOMAIN chan2 = DOMAIN chan \cup {n} /\ n \notin DOMAIN chan
      /\ \A i \in DOMAIN chan : chan2[i] = chan[i]
      /\ chan2[n] = result
  <2>1. \E T : chan \in Seq(T)
    BY DEF Going
  <2>2. chan2 = Append(chan, result)
    OBVIOUS
  <2> HIDE DEF chan2
  <2>3. Sent1(chan, result, chan2)
    BY <2>1, <2>2, Sends
  <2> QED
    BY <2>3 DEF Sent1
<1> HIDE DEF ts2, chan2, n
<1>3. \A i \in DOMAIN chan : chan[i].scope # scope
  BY DEF Going, AnswersHeld
<1>4. AnswersHeld(ts2, chan2, work)
  <2>1. DOMAIN ts2 \subseteq work
    BY <1>1 DEF Going, AnswersHeld
  <2>2. \A i \in DOMAIN chan2 : chan2[i].scope \in (work \ DOMAIN ts2) \cup {Background0}
    BY <1>1, <1>2 DEF Going, AnswersHeld
  <2>3. \A i, j \in DOMAIN chan2 : chan2[i].scope = chan2[j].scope /\ chan2[i].scope # Background0 => i = j
    BY <1>2, <1>3 DEF Going, AnswersHeld
  <2>4. \A s \in work \ DOMAIN ts2 : \E i \in DOMAIN chan2 : chan2[i].scope = s
    BY <1>1, <1>2 DEF Going, AnswersHeld
  <2> QED
    BY <2>1, <2>2, <2>3, <2>4 DEF AnswersHeld
<1>5. \A s \in DOMAIN ts2 : TaskHeld(s, ts2[s], scanning, marks)
  BY <1>1 DEF Going
<1>6. \A i \in DOMAIN chan2 : ResultHeld(chan2[i], scanning, marks)
  BY <1>2 DEF Going
<1>7. Going(work, ts2, chan2, marks, scanning)
  BY <1>2, <1>4, <1>5, <1>6 DEF Going
<1> QED
  BY <1>7 DEF ts2, chan2

(* a notice is nobody's answer *)
LEMMA NoticeGoes ==
    ASSUME NEW work, NEW ts, NEW chan, NEW marks, NEW scanning, Going(work, ts, chan, marks, scanning),
           NEW what \in {"PartialsRemoved", "Panicked"}, NEW session
    PROVE  Going(work, ts, Append(chan, Notice(what, session)), marks, scanning)
<1> DEFINE result == Notice(what, session)
           chan2 == Append(chan, result)
           n == Len(chan) + 1
<1>1. result.scope = Background0 /\ result.what = what
  BY DEF Notice, Background0
<1>2. ResultHeld(result, scanning, marks)
  BY <1>1 DEF ResultHeld
<1> HIDE DEF result
<1>3. /\ \E S : chan2 \in Seq(S)
      /\ DOMAIN chan2 = DOMAIN chan \cup {n} /\ n \notin DOMAIN chan
      /\ \A i \in DOMAIN chan : chan2[i] = chan[i]
      /\ chan2[n] = result
  <2>1. \E T : chan \in Seq(T)
    BY DEF Going
  <2>2. chan2 = Append(chan, result)
    OBVIOUS
  <2> HIDE DEF chan2
  <2>3. Sent1(chan, result, chan2)
    BY <2>1, <2>2, Sends
  <2> QED
    BY <2>3 DEF Sent1
<1> HIDE DEF chan2, n
<1>4. AnswersHeld(ts, chan2, work)
  BY <1>1, <1>3 DEF Going, AnswersHeld
<1>5. \A i \in DOMAIN chan2 : ResultHeld(chan2[i], scanning, marks)
  BY <1>2, <1>3 DEF Going
<1>6. Going(work, ts, chan2, marks, scanning)
  BY <1>3, <1>4, <1>5 DEF Going
<1> QED
  BY <1>6 DEF chan2, result

(* the loop takes a result: what is left in the channel *)
LEMMA Takes ==
    ASSUME NEW chan, NEW T, chan \in Seq(T), chan # <<>>, NEW chan2, chan2 = Tail(chan)
    PROVE  /\ chan2 \in Seq(T)
           /\ 1 \in DOMAIN chan /\ Head(chan) = chan[1]
           /\ \A i \in DOMAIN chan2 : i \in Nat /\ i + 1 \in DOMAIN chan /\ i + 1 # 1 /\ chan2[i] = chan[i + 1]
           /\ \A i \in DOMAIN chan \ {1} : i \in Nat /\ i - 1 \in DOMAIN chan2 /\ chan2[i - 1] = chan[i]
  OBVIOUS

(* its work, if it is any, is over: the mark goes with it *)
LEMMA TakeGoes ==
    ASSUME NEW work, NEW ts, NEW chan, NEW marks, NEW scanning, Going(work, ts, chan, marks, scanning),
           chan # <<>>, NEW scope, scope = Head(chan).scope, scope # Background0,
           NEW scanning2, scanning2 \subseteq scanning,
           \A b \in scanning \ scanning2 : scope = Planning(b),
           \A s \in work : s[1] = "Planning" => s = Planning(s[2])
    PROVE  Going(work \ {scope}, ts, Tail(chan), marks \ {scope}, scanning2)
<1> DEFINE chan2 == Tail(chan)
<1>1. /\ \E S : chan2 \in Seq(S)
      /\ 1 \in DOMAIN chan /\ Head(chan) = chan[1]
      /\ \A i \in DOMAIN chan2 : i \in Nat /\ i + 1 \in DOMAIN chan /\ i + 1 # 1 /\ chan2[i] = chan[i + 1]
      /\ \A i \in DOMAIN chan \ {1} : i \in Nat /\ i - 1 \in DOMAIN chan2 /\ chan2[i - 1] = chan[i]
  <2>1. PICK S : chan \in Seq(S)
    BY DEF Going
  <2> QED
    BY <2>1, Takes
<1> HIDE DEF chan2
<1>2. scope \in work \ DOMAIN ts /\ \A i \in DOMAIN chan2 : chan2[i].scope # scope
  BY <1>1 DEF Going, AnswersHeld
<1>3. AnswersHeld(ts, chan2, work \ {scope})
  <2>1. DOMAIN ts \subseteq work \ {scope}
    BY <1>2 DEF Going, AnswersHeld
  <2>2. \A i \in DOMAIN chan2 : chan2[i].scope \in ((work \ {scope}) \ DOMAIN ts) \cup {Background0}
    BY <1>1, <1>2 DEF Going, AnswersHeld
  <2>3. \A i, j \in DOMAIN chan2 : chan2[i].scope = chan2[j].scope /\ chan2[i].scope # Background0 => i = j
    <3> SUFFICES ASSUME NEW i \in DOMAIN chan2, NEW j \in DOMAIN chan2,
                        chan2[i].scope = chan2[j].scope, chan2[i].scope # Background0
                 PROVE  i = j
      OBVIOUS
    <3>1. i + 1 \in DOMAIN chan /\ j + 1 \in DOMAIN chan /\ i \in Nat /\ j \in Nat
          /\ chan[i + 1].scope = chan[j + 1].scope /\ chan[i + 1].scope # Background0
      BY <1>1
    <3>2. i + 1 = j + 1
      BY <3>1 DEF Going, AnswersHeld
    <3> QED
      BY <3>1, <3>2
  <2>4. ASSUME NEW s \in (work \ {scope}) \ DOMAIN ts PROVE \E i \in DOMAIN chan2 : chan2[i].scope = s
    <3>1. PICK i \in DOMAIN chan : chan[i].scope = s
      BY DEF Going, AnswersHeld
    <3>2. i # 1
      BY <1>1, <3>1
    <3> QED
      BY <1>1, <3>1, <3>2
  <2> QED
    BY <2>1, <2>2, <2>3, <2>4 DEF AnswersHeld
<1>4. \A s \in work \ {scope} : s[1] = "Planning" => (s[2] \in scanning2 <=> s[2] \in scanning)
  OBVIOUS
<1>5. ASSUME NEW s \in DOMAIN ts PROVE TaskHeld(s, ts[s], scanning2, marks \ {scope})
  <2>1. TaskHeld(s, ts[s], scanning, marks) /\ s \in work \ {scope}
    BY <1>2 DEF Going, AnswersHeld
  <2> QED
    BY <1>4, <2>1 DEF TaskHeld
<1>6. ASSUME NEW i \in DOMAIN chan2 PROVE ResultHeld(chan2[i], scanning2, marks \ {scope})
  <2>1. ResultHeld(chan2[i], scanning, marks) /\ chan2[i].scope \in (work \ {scope}) \cup {Background0}
    BY <1>1, <1>3 DEF Going, AnswersHeld
  <2>2. Background0[1] # "Planning"
    BY DEF Background0
  <2> QED
    BY <1>4, <2>1, <2>2 DEF ResultHeld
<1>7. Going(work \ {scope}, ts, chan2, marks \ {scope}, scanning2)
  BY <1>1, <1>3, <1>5, <1>6 DEF Going
<1> QED
  BY <1>7 DEF chan2

(* ... of a notice, none *)
LEMMA TakeNoticeGoes ==
    ASSUME NEW work, NEW ts, NEW chan, NEW marks, NEW scanning, Going(work, ts, chan, marks, scanning),
           chan # <<>>, Background0 = Head(chan).scope, Background0 \notin work
    PROVE  Going(work, ts, Tail(chan), marks, scanning)
<1> DEFINE chan2 == Tail(chan)
<1>1. /\ \E S : chan2 \in Seq(S)
      /\ 1 \in DOMAIN chan /\ Head(chan) = chan[1]
      /\ \A i \in DOMAIN chan2 : i \in Nat /\ i + 1 \in DOMAIN chan /\ i + 1 # 1 /\ chan2[i] = chan[i + 1]
      /\ \A i \in DOMAIN chan \ {1} : i \in Nat /\ i - 1 \in DOMAIN chan2 /\ chan2[i - 1] = chan[i]
  <2>1. PICK S : chan \in Seq(S)
    BY DEF Going
  <2> QED
    BY <2>1, Takes
<1> HIDE DEF chan2
<1>2. AnswersHeld(ts, chan2, work)
  <2>1. \A i \in DOMAIN chan2 : chan2[i].scope \in (work \ DOMAIN ts) \cup {Background0}
    BY <1>1 DEF Going, AnswersHeld
  <2>2. \A i, j \in DOMAIN chan2 : chan2[i].scope = chan2[j].scope /\ chan2[i].scope # Background0 => i = j
    <3> SUFFICES ASSUME NEW i \in DOMAIN chan2, NEW j \in DOMAIN chan2,
                        chan2[i].scope = chan2[j].scope, chan2[i].scope # Background0
                 PROVE  i = j
      OBVIOUS
    <3>1. i + 1 \in DOMAIN chan /\ j + 1 \in DOMAIN chan /\ i \in Nat /\ j \in Nat
          /\ chan[i + 1].scope = chan[j + 1].scope /\ chan[i + 1].scope # Background0
      BY <1>1
    <3>2. i + 1 = j + 1
      BY <3>1 DEF Going, AnswersHeld
    <3> QED
      BY <3>1, <3>2
  <2>3. ASSUME NEW s \in work \ DOMAIN ts PROVE \E i \in DOMAIN chan2 : chan2[i].scope = s
    <3>1. PICK i \in DOMAIN chan : chan[i].scope = s
      BY DEF Going, AnswersHeld
    <3> QED
      BY <1>1, <3>1
  <2> QED
    BY <2>1, <2>2, <2>3 DEF Going, AnswersHeld
<1>3. \A i \in DOMAIN chan2 : ResultHeld(chan2[i], scanning, marks)
  BY <1>1 DEF Going
<1>4. Going(work, ts, chan2, marks, scanning)
  BY <1>1, <1>2, <1>3 DEF Going
<1> QED
  BY <1>4 DEF chan2

---------------------------------------------------------------------------
(***************************************************************************)
(* How a job's status may change from a queue q to a queue r, while the    *)
(* live sessions become live2 and the cancel marks marks2: JobLife, said   *)
(* of the engine's values.                                                 *)
(***************************************************************************)
JobMove(q, r, id, live, live2, marks, marks2) ==
    LET was == q.jobs[id].status
        is == r.jobs[id].status
        owner == q.jobs[id].session
        asked == Transfer(id) \in marks
        asked2 == Transfer(id) \in marks2
    IN  \/ /\ id \notin DOMAIN q.jobs /\ id \in DOMAIN r.jobs /\ id >= q.nextId
           /\ is \in {"Queued", "InProgress"} /\ r.jobs[id].session \in live /\ ~asked2
        \/ /\ id \in DOMAIN q.jobs /\ id \notin DOMAIN r.jobs
           /\ was \in {"Completed", "Failed", "Cancelled"}
        \/ /\ id \in DOMAIN q.jobs /\ id \in DOMAIN r.jobs
           /\ \/ was = "Queued" /\ is = "InProgress" /\ owner \in live /\ ~asked2
              \/ was = "Queued" /\ is = "Cancelled"
              \/ was = "Queued" /\ is = "Failed" /\ owner \notin live2
              \/ was = "InProgress" /\ is = "Completed"
              \/ was = "InProgress" /\ is = "Failed" /\ ~asked
              \/ was = "InProgress" /\ is = "Cancelled" /\ asked
              \/ was = "InProgress" /\ is = "Queued" /\ ~asked /\ owner \in live
              \/ was \in {"Failed", "Cancelled"} /\ is \in {"Queued", "InProgress"} /\ owner \in live /\ ~asked2
              \/ was = is /\ (was = "InProgress" /\ asked => asked2)

Moves(q, r, live, live2, marks, marks2) ==
    /\ 0..(r.nextId - 1) = 0..(q.nextId - 1) \cup DOMAIN r.jobs
    /\ \A id \in DOMAIN q.jobs \cap DOMAIN r.jobs :
         r.jobs[id].session = q.jobs[id].session /\ r.jobs[id].batch = q.jobs[id].batch
    /\ \A id \in DOMAIN q.jobs \cup DOMAIN r.jobs : JobMove(q, r, id, live, live2, marks, marks2)

(* the two sets the statuses define, of jobs that start *)
LEMMA StartedSets ==
    ASSUME NEW q, QueueOK(q), NEW S \in SUBSET q.queued, NEW r, MovedTo(q, S, "InProgress", r)
    PROVE  r.running = q.running \cup S /\ r.queued = q.queued \ S
  BY DEF MovedTo, SameJobs, QueueOK, IndexesMatch, WithStatus

LEMMA Indexed ==
    ASSUME NEW q, QueueOK(q)
    PROVE  /\ q.running = {id \in DOMAIN q.jobs : q.jobs[id].status = "InProgress"}
           /\ q.queued = {id \in DOMAIN q.jobs : q.jobs[id].status = "Queued"}
           /\ 0..(q.nextId - 1) = 0..(q.nextId - 1) \cup DOMAIN q.jobs
           /\ q.nextId \in Nat /\ q.nextBatch \in Nat
           /\ \A id \in DOMAIN q.jobs : q.jobs[id].session \in Sessions /\ q.jobs[id].direction \in Direction
                                        /\ q.jobs[id].status \in JobStatus
  BY DEF QueueOK, QueueTyped, IndexesMatch, WithStatus, Job

LEMMA MovesBy ==
    ASSUME NEW q, QueueOK(q), NEW S \in SUBSET DOMAIN q.jobs, NEW st, NEW r, MovedTo(q, S, st, r),
           NEW live, NEW live2, NEW marks, NEW marks2,
           \A id \in S : JobMove(q, r, id, live, live2, marks, marks2),
           \A id \in q.running \ S : Transfer(id) \in marks => Transfer(id) \in marks2
    PROVE  Moves(q, r, live, live2, marks, marks2)
<1>1. DOMAIN r.jobs = DOMAIN q.jobs /\ r.nextId = q.nextId
      /\ \A id \in DOMAIN q.jobs : r.jobs[id].session = q.jobs[id].session /\ r.jobs[id].batch = q.jobs[id].batch
  BY DEF MovedTo, SameJobs
<1>2. \A id \in DOMAIN q.jobs \ S : r.jobs[id].status = q.jobs[id].status
  BY DEF MovedTo
<1>3. \A id \in DOMAIN q.jobs \ S : JobMove(q, r, id, live, live2, marks, marks2)
  BY <1>1, <1>2, Indexed DEF JobMove
<1> QED
  BY <1>1, <1>3, Indexed DEF Moves

(* the jobs that then start *)
LEMMA MovesThenStart ==
    ASSUME NEW q0, NEW q, QueueOK(q), NEW S \in SUBSET q.queued, NEW r, MovedTo(q, S, "InProgress", r),
           NEW live, NEW marks, NEW marks2, Moves(q0, q, live, live, marks, marks2),
           \A id \in S : q.jobs[id].session \in live /\ Transfer(id) \notin marks2
    PROVE  Moves(q0, r, live, live, marks, marks2)
<1>1. /\ DOMAIN r.jobs = DOMAIN q.jobs /\ r.nextId = q.nextId
      /\ \A id \in DOMAIN q.jobs : r.jobs[id].session = q.jobs[id].session /\ r.jobs[id].batch = q.jobs[id].batch
  BY DEF MovedTo, SameJobs
<1>2. \A id \in DOMAIN q.jobs : r.jobs[id].status = IF id \in S THEN "InProgress" ELSE q.jobs[id].status
  BY DEF MovedTo
<1>3. ASSUME NEW id \in DOMAIN q0.jobs \cup DOMAIN r.jobs
      PROVE  JobMove(q0, r, id, live, live, marks, marks2)
  <2>1. JobMove(q0, q, id, live, live, marks, marks2)
    BY <1>1 DEF Moves
  <2>2. CASE id \notin S
    BY <1>1, <1>2, <2>1, <2>2 DEF JobMove
  <2>3. CASE id \in S
    <3>1. /\ id \in DOMAIN q.jobs /\ q.jobs[id].status = "Queued" /\ r.jobs[id].status = "InProgress"
          /\ q.jobs[id].session \in live /\ Transfer(id) \notin marks2
      BY <1>2, <2>3, Indexed
    <3>2. id \in DOMAIN q0.jobs => q0.jobs[id].session \in live
      BY <3>1 DEF Moves
    <3> QED
      BY <1>1, <2>1, <3>1, <3>2 DEF JobMove
  <2> QED
    BY <2>2, <2>3
<1>4. \A id \in DOMAIN q0.jobs \cap DOMAIN r.jobs :
        r.jobs[id].session = q0.jobs[id].session /\ r.jobs[id].batch = q0.jobs[id].batch
  BY <1>1 DEF Moves
<1>5. 0..(r.nextId - 1) = 0..(q0.nextId - 1) \cup DOMAIN r.jobs
  BY <1>1 DEF Moves
<1> QED
  BY <1>3, <1>4, <1>5 DEF Moves

(* the tables do not care which jobs run *)
LEMMA HeldMoved ==
    ASSUME NEW q, NEW live, NEW marks, NEW plan, NEW rev, NEW syn, Held(q, live, marks, plan, rev, syn),
           NEW S \in SUBSET q.queued, NEW r, MovedTo(q, S, "InProgress", r)
    PROVE  Held(r, live, marks, plan, rev, syn)
<1>1. S \subseteq DOMAIN q.jobs
  BY Indexed DEF Held
<1>2. r.running = q.running \cup S /\ r.queued = q.queued \ S
  BY StartedSets DEF Held
<1>3. q.running \subseteq DOMAIN q.jobs /\ q.queued \subseteq DOMAIN q.jobs
  BY Indexed DEF Held
<1>4. JobsHeld(r, live, marks)
  BY <1>1, <1>2, <1>3 DEF Held, JobsHeld, MovedTo, SameJobs
<1>5. BatchesHeld(r, plan, rev, syn)
  BY DEF Held, BatchesHeld, MovedTo, SameJobs
<1> QED
  BY <1>4, <1>5 DEF Held, MovedTo

(* the end of a handler without a free slot *)
LEMMA AfterSettle ==
    ASSUME NEW q, QueueOK(q), Settle(q)
    PROVE  /\ MovedTo(q, {}, "InProgress", transfers')
           /\ transfers'.running = q.running /\ transfers'.queued = q.queued
           /\ IsStartable(q, {}) => IsStartable(transfers', {})
<1> DEFINE r == [q EXCEPT !.changes = {}]
<1>1. transfers' = r
  BY DEF Settle
<1>2. SameIndexes(q, r) /\ r.batchLabels = q.batchLabels /\ r.nextBatch = q.nextBatch
  BY MarksOK, MarksSee
<1> HIDE DEF r
<1>3. QueueOK(r)
  BY <1>2, SameIndexesOK
<1>4. MovedTo(q, {}, "InProgress", r) /\ r.running = q.running /\ r.queued = q.queued
  BY <1>2, <1>3 DEF MovedTo, SameJobs, SameIndexes
<1>5. r.jobs = q.jobs
  BY <1>2 DEF SameIndexes
<1>6. IsStartable(q, {}) => IsStartable(r, {})
  BY <1>4, <1>5, RestKept
<1> QED
  BY <1>1, <1>4, <1>6

(* fill_transfer_slots: what it starts *)
LEMMA FillStarts ==
    ASSUME NEW q, QueueOK(q), NEW st, Fill(q, st), \A id \in q.queued : q.jobs[id].session \in sessions
    PROVE  \E S \in SUBSET q.queued :
             /\ IsStartable(q, S)
             /\ MovedTo(q, S, "InProgress", transfers')
             /\ tasks' = [scope \in DOMAIN tasks \cup {Transfer(id) : id \in S} |->
                  IF scope \in DOMAIN tasks THEN tasks[scope]
                  ELSE Task("transfer", q.jobs[scope[2]].session, q.jobs[scope[2]].direction, <<>>)]
<1> DEFINE S == Startable(q)
           r == StartJobs(q, S)
           filled == SetStatus(r, {}, "Failed")
<1>1. S \in SUBSET q.queued /\ IsStartable(q, S)
  BY StartableExists DEF Startable
<1> HIDE DEF S
<1>2. {id \in S : q.jobs[id].session \in sessions} = S /\ S \ S = {}
  BY <1>1
<1>3. /\ tasks' = [scope \in DOMAIN tasks \cup {Transfer(id) : id \in S} |->
           IF scope \in DOMAIN tasks THEN tasks[scope]
           ELSE Task("transfer", q.jobs[scope[2]].session, q.jobs[scope[2]].direction, <<>>)]
      /\ Settle(filled)
  BY <1>2 DEF Fill, S
<1> HIDE DEF r
<1>4. MovedTo(q, S, "InProgress", r)
  BY <1>1, StartJobsMoves DEF r
<1>5. MovedTo(r, {}, "Failed", filled)
  BY <1>4, SetStatusMoves DEF MovedTo, JobStatus
<1> HIDE DEF filled
<1>6. MovedTo(filled, {}, "InProgress", transfers')
  BY <1>3, <1>5, AfterSettle DEF MovedTo
<1>7. MovedTo(q, S, "InProgress", transfers')
  BY <1>4, <1>5, <1>6, MovedNone
<1> QED
  BY <1>1, <1>3, <1>7

(* the end of a handler that fills the slots *)
LEMMA AfterFill ==
    ASSUME NEW q, NEW st, Fill(q, st), sessions \subseteq Sessions,
           NEW marks, NEW plan, NEW rev, NEW syn, Held(q, sessions, marks, plan, rev, syn),
           NEW chan, Going(Work(DOMAIN plan, q.running), tasks, chan, marks, syn.scanning)
    PROVE  /\ Held(transfers', sessions, marks, plan, rev, syn)
           /\ Going(Work(DOMAIN plan, transfers'.running), tasks', chan, marks, syn.scanning)
           /\ IsStartable(transfers', {})
           /\ \A q0, marks0 : Moves(q0, q, sessions, sessions, marks0, marks)
                                => Moves(q0, transfers', sessions, sessions, marks0, marks)
<1>1. QueueOK(q) /\ \A id \in q.queued : q.jobs[id].session \in sessions
  BY DEF Held, JobsHeld
<1>2. PICK S \in SUBSET q.queued :
        /\ IsStartable(q, S)
        /\ MovedTo(q, S, "InProgress", transfers')
        /\ tasks' = [scope \in DOMAIN tasks \cup {Transfer(id) : id \in S} |->
             IF scope \in DOMAIN tasks THEN tasks[scope]
             ELSE Task("transfer", q.jobs[scope[2]].session, q.jobs[scope[2]].direction, <<>>)]
  BY <1>1, FillStarts
<1>3. /\ S \subseteq DOMAIN q.jobs /\ S \cap q.running = {}
      /\ \A id \in S : q.jobs[id].direction \in Direction
  BY <1>1, Indexed
<1>4. transfers'.running = q.running \cup S /\ transfers'.queued = q.queued \ S
  BY <1>1, <1>2, StartedSets
<1> DEFINE work == Work(DOMAIN plan, q.running)
           new == {Transfer(id) : id \in S}
<1>5. /\ Work(DOMAIN plan, q.running \cup S) = work \cup new
      /\ new \cap work = {} /\ Background0 \notin new
      /\ \A scope \in work : scope[1] = "Planning" => scope = Planning(scope[2])
  BY <1>3, Scopes
<1>6. \A id \in S : Transfer(id) \notin marks
  BY <1>5 DEF Going
<1>7. IsStartable(transfers', {})
  BY <1>1, <1>2, <1>4, StartedRests DEF MovedTo
<1>8. Held(transfers', sessions, marks, plan, rev, syn)
  BY <1>2, HeldMoved
<1>9. Going(work \cup new, tasks', chan, marks, syn.scanning)
  <2>1. DOMAIN tasks' = DOMAIN tasks \cup new /\ \A scope \in DOMAIN tasks : tasks'[scope] = tasks[scope]
    BY <1>2
  <2>2. ASSUME NEW id \in S
        PROVE  TaskHeld(Transfer(id), tasks'[Transfer(id)], syn.scanning, marks)
    <3>1. Transfer(id) \notin DOMAIN tasks /\ Transfer(id) \in new
      BY <1>5 DEF Going, AnswersHeld
    <3>2. tasks'[Transfer(id)] = Task("transfer", q.jobs[id].session, q.jobs[id].direction, <<>>)
      BY <1>2, <3>1, Scopes
    <3>3. <<>> \in Files
      BY DEF Files
    <3> QED
      BY <1>3, <3>2, <3>3, Scopes DEF TaskHeld, Task
  <2>3. \A scope \in new : TaskHeld(scope, tasks'[scope], syn.scanning, marks)
    BY <2>2
  <2>4. Going(work, tasks, chan, marks, syn.scanning)
    OBVIOUS
  <2> HIDE DEF work, new
  <2> QED
    BY <1>5, <2>1, <2>3, <2>4, SpawnGoes
<1>10. ASSUME NEW q0, NEW marks0, Moves(q0, q, sessions, sessions, marks0, marks)
       PROVE  Moves(q0, transfers', sessions, sessions, marks0, marks)
  BY <1>1, <1>2, <1>6, <1>10, MovesThenStart
<1> QED
  BY <1>4, <1>5, <1>7, <1>8, <1>9, <1>10

---------------------------------------------------------------------------
(***************************************************************************)
(* The invariant while the loop runs, and what a handler does to it: the   *)
(* state stays so, and the jobs move as JobMove says.                      *)
(***************************************************************************)
Runs ==
    /\ EngineIInv
    /\ sessions \subseteq Sessions
    /\ Held(transfers, sessions, cancelled, planning, reviews, sync)
    /\ Going(WorkNow, tasks, internal, cancelled, sync.scanning)
    /\ IsStartable(transfers, {})

RunsOn ==
    /\ sessions' \subseteq Sessions
    /\ Held(transfers', sessions', cancelled', planning', reviews', sync')
    /\ Going(Work(DOMAIN planning', transfers'.running), tasks', internal', cancelled', sync'.scanning)
    /\ IsStartable(transfers', {})
    /\ Moves(transfers, transfers', sessions, sessions', cancelled, cancelled')

LEMMA BatchesSame ==
    ASSUME NEW q, NEW r, r.batchLabels = q.batchLabels, DOMAIN r.batchRow = DOMAIN q.batchRow,
           r.nextBatch = q.nextBatch,
           NEW plan, NEW rev, NEW syn, BatchesHeld(q, plan, rev, syn)
    PROVE  BatchesHeld(r, plan, rev, syn)
  BY DEF BatchesHeld

LEMMA JobsMoved ==
    ASSUME NEW q, QueueOK(q), NEW S \in SUBSET DOMAIN q.jobs, NEW st, NEW r, MovedTo(q, S, st, r),
           NEW live, NEW marks, JobsHeld(q, live, marks), NEW live2, NEW marks2, st # "InProgress",
           st = "Queued" => \A id \in S : q.jobs[id].session \in live2,
           \A id \in q.queued \ S : q.jobs[id].session \in live2,
           \A id \in q.running \ S : q.jobs[id].session \in live2 \/ Transfer(id) \in marks2
    PROVE  JobsHeld(r, live2, marks2)
<1>1. r.running = q.running \ S /\ r.queued = IF st = "Queued" THEN q.queued \cup S ELSE q.queued \ S
  BY DEF MovedTo, SameJobs, QueueOK, IndexesMatch, WithStatus
<1>2. q.running \subseteq DOMAIN q.jobs /\ q.queued \subseteq DOMAIN q.jobs
  BY Indexed
<1> QED
  BY <1>1, <1>2 DEF JobsHeld, MovedTo, SameJobs

LEMMA HeldBy ==
    ASSUME NEW q, NEW live, NEW marks, NEW plan, NEW rev, NEW syn, Held(q, live, marks, plan, rev, syn),
           NEW S \in SUBSET DOMAIN q.jobs, NEW st, NEW r, MovedTo(q, S, st, r),
           NEW live2, NEW marks2, st # "InProgress",
           st = "Queued" => \A id \in S : q.jobs[id].session \in live2,
           \A id \in q.queued \ S : q.jobs[id].session \in live2,
           \A id \in q.running \ S : q.jobs[id].session \in live2 \/ Transfer(id) \in marks2
    PROVE  Held(r, live2, marks2, plan, rev, syn)
<1>1. QueueOK(q) /\ JobsHeld(q, live, marks) /\ BatchesHeld(q, plan, rev, syn) /\ PlansHeld(rev, syn)
  BY DEF Held
<1>2. JobsHeld(r, live2, marks2)
  BY <1>1, JobsMoved
<1>3. QueueOK(r) /\ r.batchLabels = q.batchLabels /\ DOMAIN r.batchRow = DOMAIN q.batchRow
      /\ r.nextBatch = q.nextBatch
  BY DEF MovedTo, SameJobs
<1>4. BatchesHeld(r, plan, rev, syn)
  BY <1>1, <1>3, BatchesSame
<1> QED
  BY <1>1, <1>2, <1>3, <1>4 DEF Held

(* the end of a handler that fills no slot *)
LEMMA Settles ==
    ASSUME NEW q, Settle(q), sessions' \subseteq Sessions,
           Held(q, sessions', cancelled', planning', reviews', sync'),
           Going(Work(DOMAIN planning', q.running), tasks', internal', cancelled', sync'.scanning),
           IsStartable(q, {}),
           Moves(transfers, q, sessions, sessions', cancelled, cancelled')
    PROVE  RunsOn
<1>1. QueueOK(q)
  BY DEF Held
<1>2. /\ MovedTo(q, {}, "InProgress", transfers')
      /\ transfers'.running = q.running /\ transfers'.queued = q.queued
      /\ IsStartable(transfers', {})
  BY <1>1, AfterSettle
<1>3. SameJobs(q, transfers') /\ QueueOK(transfers')
      /\ \A id \in DOMAIN q.jobs : transfers'.jobs[id].status = q.jobs[id].status
  BY <1>2 DEF MovedTo
<1>4. Held(transfers', sessions', cancelled', planning', reviews', sync')
  <2>1. q.running \subseteq DOMAIN q.jobs /\ q.queued \subseteq DOMAIN q.jobs
    BY <1>1, Indexed
  <2>2. JobsHeld(transfers', sessions', cancelled')
    BY <1>2, <1>3, <2>1 DEF Held, JobsHeld, SameJobs
  <2>3. BatchesHeld(transfers', planning', reviews', sync')
    BY <1>3 DEF Held, BatchesHeld, SameJobs
  <2> QED
    BY <1>3, <2>2, <2>3 DEF Held
<1>5. Moves(transfers, transfers', sessions, sessions', cancelled, cancelled')
  BY <1>3 DEF Moves, JobMove, SameJobs
<1> QED
  BY <1>2, <1>4, <1>5 DEF RunsOn

(* the end of one that does *)
LEMMA Fills ==
    ASSUME NEW q, NEW st, Fill(q, st), UNCHANGED sessions, sessions \subseteq Sessions,
           Held(q, sessions, cancelled', planning', reviews', sync'),
           Going(Work(DOMAIN planning', q.running), tasks, internal', cancelled', sync'.scanning),
           Moves(transfers, q, sessions, sessions, cancelled, cancelled')
    PROVE  RunsOn
<1>1. /\ Held(transfers', sessions, cancelled', planning', reviews', sync')
      /\ Going(Work(DOMAIN planning', transfers'.running), tasks', internal', cancelled', sync'.scanning)
      /\ IsStartable(transfers', {})
      /\ Moves(transfers, transfers', sessions, sessions, cancelled, cancelled')
  BY AfterFill
<1> QED
  BY <1>1 DEF RunsOn

---------------------------------------------------------------------------
(* the batch operations, which leave the jobs alone *)
LEMMA Marked ==
    ASSUME NEW q, QueueOK(q), NEW r, SameIndexes(q, r),
           NEW live, NEW marks, JobsHeld(q, live, marks), NEW live2, NEW marks2,
           \A id \in q.running : Transfer(id) \in marks => Transfer(id) \in marks2
    PROVE  /\ QueueOK(r) /\ JobsHeld(r, live, marks)
           /\ r.running = q.running /\ r.queued = q.queued
           /\ DOMAIN r.batchRow = DOMAIN q.batchRow
           /\ IsStartable(q, {}) => IsStartable(r, {})
           /\ Moves(q, r, live, live2, marks, marks2)
<1>1. QueueOK(r)
  BY SameIndexesOK
<1>2. r.running = q.running /\ r.queued = q.queued /\ r.jobs = q.jobs /\ r.nextId = q.nextId
      /\ r.batchRow = q.batchRow
  BY DEF SameIndexes
<1>3. JobsHeld(r, live, marks)
  BY <1>2 DEF JobsHeld
<1>4. IsStartable(q, {}) => IsStartable(r, {})
  BY <1>2, RestKept
<1>5. Moves(q, r, live, live2, marks, marks2)
  BY <1>2, Indexed DEF Moves, JobMove
<1> QED
  BY <1>1, <1>2, <1>3, <1>4, <1>5

(* start_copy_plan and start_sync: a new batch and its scan *)
LEMMA ScanStarts ==
    ASSUME Runs, UNCHANGED <<sessions, reviews, cancelled, internal>>,
           NEW name, NEW session, NEW direction \in Direction, StartScan(name, session, direction),
           NEW b, b = transfers.nextBatch,
           \/ name = "plan-copy" /\ UNCHANGED sync
           \/ name = "sync-scan" /\ sync' = [sync EXCEPT !.scanning = @ \cup {b}]
    PROVE  RunsOn
<1> DEFINE q == StartBatch(transfers)
           new == {Planning(b)}
<1>1. /\ QueueOK(transfers) /\ JobsHeld(transfers, sessions, cancelled)
      /\ BatchesHeld(transfers, planning, reviews, sync) /\ PlansHeld(reviews, sync)
      /\ Going(WorkNow, tasks, internal, cancelled, sync.scanning) /\ IsStartable(transfers, {})
      /\ sessions \subseteq Sessions
  BY DEF Runs, Held
<1>2. b \in Nat
  BY <1>1, Indexed
<1>3. /\ DOMAIN planning' = DOMAIN planning \cup {b}
      /\ tasks' = With(tasks, Planning(b), Task(name, session, direction, <<>>))
      /\ Settle(q)
  BY DEF StartScan, With, Spawned
<1>4. SameIndexes(transfers, q) /\ q.batchLabels = transfers.batchLabels \cup {b} /\ q.nextBatch = b + 1
  BY <1>1, MarksOK, MarksSee
<1> HIDE DEF q
<1>5. /\ QueueOK(q) /\ JobsHeld(q, sessions, cancelled) /\ IsStartable(q, {}) /\ q.running = transfers.running
      /\ DOMAIN q.batchRow = DOMAIN transfers.batchRow
      /\ Moves(transfers, q, sessions, sessions', cancelled, cancelled')
  BY <1>1, <1>4, Marked
<1>6. /\ sync'.plans = sync.plans
      /\ sync'.scanning = sync.scanning \cup (IF name = "sync-scan" THEN {b} ELSE {})
  BY DEF Runs, EngineIInv, Tables
<1>7. b \notin DOMAIN planning \cup DOMAIN reviews \cup DOMAIN transfers.batchRow \cup DOMAIN sync.plans
  BY <1>1, <1>2 DEF BatchesHeld
<1>8. BatchesHeld(q, planning', reviews', sync')
  <2>1. 0..(q.nextBatch - 1) = 0..(transfers.nextBatch - 1) \cup {b}
    BY <1>2, <1>4
  <2> QED
    BY <1>1, <1>3, <1>4, <1>5, <1>6, <1>7, <2>1 DEF BatchesHeld
<1>9. PlansHeld(reviews', sync')
  BY <1>1, <1>6 DEF PlansHeld
<1>10. Going(WorkNow \cup new, tasks', internal, cancelled, sync'.scanning)
  <2>1. new \cap WorkNow = {} /\ Background0 \notin new
    BY <1>7, Scopes DEF WorkNow
  <2>2. DOMAIN tasks' = DOMAIN tasks \cup new /\ \A scope \in DOMAIN tasks : scope \notin new => tasks'[scope] = tasks[scope]
    BY <1>3 DEF With
  <2>3. DOMAIN tasks \subseteq WorkNow
    BY <1>1 DEF Going, AnswersHeld
  <2>4. tasks'[Planning(b)] = Task(name, session, direction, <<>>)
    BY <1>3 DEF With
  <2>5. <<>> \in Files
    BY DEF Files
  <2>6. TaskHeld(Planning(b), tasks'[Planning(b)], sync'.scanning, cancelled)
    <3>1. b \in sync'.scanning <=> name = "sync-scan"
      BY <1>1, <1>6, <1>7 DEF BatchesHeld
    <3> QED
      BY <2>4, <2>5, <3>1, Scopes DEF TaskHeld, Task
  <2>7. \A c \in sync'.scanning \ sync.scanning : Planning(c) \in new
    BY <1>6
  <2>8. \A scope \in WorkNow : scope[1] = "Planning" => scope = Planning(scope[2])
    BY Scopes DEF WorkNow
  <2>9. \A scope \in DOMAIN tasks : tasks'[scope] = tasks[scope]
    BY <2>1, <2>2, <2>3
  <2>10. \A scope \in new : TaskHeld(scope, tasks'[scope], sync'.scanning, cancelled)
    BY <2>6
  <2>11. Going(WorkNow, tasks, internal, cancelled, sync.scanning)
    BY <1>1
  <2>12. sync.scanning \subseteq sync'.scanning /\ DOMAIN tasks' = DOMAIN tasks \cup new
    BY <1>6, <2>2
  <2> HIDE DEF new
  <2> QED
    BY ONLY <2>1, <2>7, <2>8, <2>9, <2>10, <2>11, <2>12, SpawnGoes
<1>11. Work(DOMAIN planning', q.running) = WorkNow \cup new
  BY <1>3, <1>5 DEF Work, WorkNow
<1>12. Held(q, sessions', cancelled', planning', reviews', sync')
  BY <1>5, <1>8, <1>9 DEF Held
<1> HIDE DEF new
<1> QED
  BY <1>1, <1>3, <1>5, <1>10, <1>11, <1>12, Settles

LEMMA CopyRuns ==
    ASSUME Runs, NEW session, NEW direction \in Direction, Copy(session, direction)
    PROVE  RunsOn
  BY ScanStarts DEF Copy

LEMMA StartSyncRuns ==
    ASSUME Runs, NEW session, StartSync(session)
    PROVE  RunsOn
  BY ScanStarts DEF StartSync, Direction

(* run_sync: the batches of the plan, each with its folders' task *)
LEMMA SyncBatchesHeld ==
    ASSUME NEW session, NEW up \in Files, NEW down \in Files,
           NEW batches, batches = SyncBatches(session, up, down)
    PROVE  /\ Len(batches) \in Nat
           /\ \A i \in 1..Len(batches) : batches[i].direction \in Direction /\ batches[i].files \in Files
<1> DEFINE B == [direction: Direction, files: Files]
           Batch(direction, files) ==
             IF files = <<>> \/ session \notin sessions THEN <<>> ELSE <<[direction |-> direction, files |-> files]>>
<1>1. ASSUME NEW direction \in Direction, NEW files \in Files
      PROVE  Batch(direction, files) \in Seq(B)
  <2> DEFINE b == [direction |-> direction, files |-> files]
  <2>1. b \in B
    OBVIOUS
  <2> HIDE DEF b, B
  <2>2. <<>> \in Seq(B) /\ <<b>> \in Seq(B)
    BY <2>1
  <2> QED
    BY <2>2 DEF b
<1>2. batches = Batch("Upload", up) \o Batch("Download", down)
  BY DEF SyncBatches
<1>3. Batch("Upload", up) \in Seq(B) /\ Batch("Download", down) \in Seq(B)
  BY <1>1 DEF Direction
<1> HIDE DEF Batch
<1>4. \A b \in B : b.direction \in Direction /\ b.files \in Files
  OBVIOUS
<1> HIDE DEF B
<1>5. batches \in Seq(B)
  BY <1>2, <1>3
<1>6. Len(batches) \in Nat /\ \A i \in 1..Len(batches) : batches[i] \in B
  BY <1>5
<1> QED
  BY <1>4, <1>6

LEMMA RunSyncRuns ==
    ASSUME Runs, NEW id, RunSync(id)
    PROVE  RunsOn
<1> DEFINE plan == sync.plans[id]
           first == transfers.nextBatch
<1>1. /\ QueueOK(transfers) /\ JobsHeld(transfers, sessions, cancelled)
      /\ BatchesHeld(transfers, planning, reviews, sync) /\ PlansHeld(reviews, sync)
      /\ Going(WorkNow, tasks, internal, cancelled, sync.scanning) /\ IsStartable(transfers, {})
      /\ sessions \subseteq Sessions
  BY DEF Runs, Held
<1>2. plan.uploads \in Files /\ plan.downloads \in Files
  BY <1>1 DEF RunSync, PlansHeld
<1>3. PICK up \in Chosen(plan.uploads), down \in Chosen(plan.downloads) :
        LET batches == SyncBatches(plan.session, up, down)
            ids == first..(first + Len(batches) - 1)
        IN  /\ planning' = [b \in DOMAIN planning \cup ids |->
                 IF b \in ids THEN Scan(plan.session, batches[b - first + 1].direction) ELSE planning[b]]
            /\ tasks' = WithFolders(tasks, plan.session, first, batches)
            /\ sync' = [scanning |-> sync.scanning \cup ids, plans |-> Without(sync.plans, {id})]
            /\ Settle([transfers EXCEPT !.nextBatch = @ + Len(batches), !.batchLabels = @ \cup ids])
  BY DEF RunSync
<1> DEFINE batches == SyncBatches(plan.session, up, down)
           ids == first..(first + Len(batches) - 1)
           q == [transfers EXCEPT !.nextBatch = @ + Len(batches), !.batchLabels = @ \cup ids]
           new == {Planning(b) : b \in ids}
<1>4. /\ DOMAIN planning' = DOMAIN planning \cup ids
      /\ tasks' = WithFolders(tasks, plan.session, first, batches)
      /\ sync' = [scanning |-> sync.scanning \cup ids, plans |-> Without(sync.plans, {id})]
      /\ Settle(q)
      /\ UNCHANGED <<sessions, reviews, cancelled, internal>>
  BY <1>3 DEF RunSync
<1>5. Len(batches) \in Nat
      /\ \A i \in 1..Len(batches) : batches[i].direction \in Direction /\ batches[i].files \in Files
  BY <1>2, ChosenFiles, SyncBatchesHeld
<1> HIDE DEF batches
<1>6. first \in Nat
  BY <1>1, Indexed
<1>7. SameIndexes(transfers, q) /\ q.batchLabels = transfers.batchLabels \cup ids
      /\ q.nextBatch = transfers.nextBatch + Len(batches)
  BY <1>1, <1>5, <1>6 DEF QueueOK, QueueTyped, QueueFields, SameIndexes
<1> HIDE DEF q
<1>8. /\ QueueOK(q) /\ JobsHeld(q, sessions, cancelled) /\ IsStartable(q, {}) /\ q.running = transfers.running
      /\ DOMAIN q.batchRow = DOMAIN transfers.batchRow
      /\ Moves(transfers, q, sessions, sessions', cancelled, cancelled')
  BY <1>1, <1>4, <1>7, Marked
<1>9. /\ DOMAIN sync'.plans = DOMAIN sync.plans \ {id}
      /\ \A b \in DOMAIN sync'.plans : sync'.plans[b] = sync.plans[b]
      /\ sync'.scanning = sync.scanning \cup ids
  BY <1>4 DEF Without
<1>10. ids \cap (DOMAIN planning \cup DOMAIN reviews \cup DOMAIN transfers.batchRow \cup DOMAIN sync.plans) = {}
  BY <1>1, <1>6 DEF BatchesHeld
<1>11. 0..(q.nextBatch - 1) = 0..(transfers.nextBatch - 1) \cup ids
  BY <1>5, <1>6, <1>7
<1>12. \A b \in ids : b - first + 1 \in 1..Len(batches)
  BY <1>5, <1>6
<1>13. \A b \in ids : Planning(b) \in new
  OBVIOUS
<1>14. \A scope \in new : \E b \in ids : scope = Planning(b)
  OBVIOUS
<1>15. Work(DOMAIN planning', q.running) = WorkNow \cup new
  BY <1>4, <1>8 DEF Work, WorkNow
<1>16. /\ DOMAIN tasks' = DOMAIN tasks \cup new
       /\ \A scope \in DOMAIN tasks : tasks'[scope] = tasks[scope]
       /\ \A b \in ids : Planning(b) \notin DOMAIN tasks =>
            tasks'[Planning(b)] = Task("sync-folders", plan.session, batches[b - first + 1].direction,
                                       batches[b - first + 1].files)
  BY <1>4, Scopes DEF WithFolders
<1> HIDE DEF new, ids
<1>17. BatchesHeld(q, planning', reviews', sync')
  BY <1>1, <1>4, <1>7, <1>8, <1>9, <1>10, <1>11 DEF BatchesHeld
<1>18. PlansHeld(reviews', sync')
  BY <1>1, <1>4, <1>9 DEF PlansHeld
<1>19. Held(q, sessions', cancelled', planning', reviews', sync')
  BY <1>4, <1>8, <1>17, <1>18 DEF Held
<1>20. Going(WorkNow \cup new, tasks', internal, cancelled, sync'.scanning)
  <2>1. new \cap WorkNow = {} /\ Background0 \notin new
    BY <1>10, <1>14, Scopes DEF WorkNow
  <2>2. DOMAIN tasks \subseteq WorkNow
    BY <1>1 DEF Going, AnswersHeld
  <2>3. ASSUME NEW b \in ids
        PROVE  TaskHeld(Planning(b), tasks'[Planning(b)], sync'.scanning, cancelled)
    <3>1. tasks'[Planning(b)] = Task("sync-folders", plan.session, batches[b - first + 1].direction,
                                     batches[b - first + 1].files)
      BY <1>13, <1>16, <2>1, <2>2
    <3>2. batches[b - first + 1].direction \in Direction /\ batches[b - first + 1].files \in Files
      BY <1>5, <1>12
    <3>3. b \in sync'.scanning
      BY <1>9
    <3> QED
      BY <3>1, <3>2, <3>3, Scopes DEF TaskHeld, Task
  <2>4. \A scope \in new : TaskHeld(scope, tasks'[scope], sync'.scanning, cancelled)
    BY <1>14, <2>3
  <2>5. \A c \in sync'.scanning \ sync.scanning : Planning(c) \in new
    BY <1>9, <1>13
  <2>6. \A scope \in WorkNow : scope[1] = "Planning" => scope = Planning(scope[2])
    BY Scopes DEF WorkNow
  <2>7. Going(WorkNow, tasks, internal, cancelled, sync.scanning)
    BY <1>1
  <2>8. sync.scanning \subseteq sync'.scanning
    BY <1>9
  <2> QED
    BY ONLY <1>16, <2>1, <2>4, <2>5, <2>6, <2>7, <2>8, SpawnGoes
<1> QED
  BY <1>1, <1>4, <1>8, <1>15, <1>19, <1>20, Settles

---------------------------------------------------------------------------
(* queued jobs are withdrawn, or given up with their session *)
LEMMA Withdraws ==
    ASSUME NEW q, QueueOK(q), NEW S \in SUBSET q.queued, NEW st \in {"Cancelled", "Failed"},
           NEW r, r = SetStatus(q, S, st)
    PROVE  /\ MovedTo(q, S, st, r)
           /\ S \in SUBSET DOMAIN q.jobs
           /\ r.running = q.running /\ r.queued = q.queued \ S
           /\ IsStartable(q, {}) => IsStartable(r, {})
<1>1. S \in SUBSET DOMAIN q.jobs /\ S \cap q.running = {}
  BY Indexed
<1>2. MovedTo(q, S, st, r)
  BY <1>1, SetStatusMoves DEF JobStatus
<1>3. r.running = q.running /\ r.queued = q.queued \ S
  BY <1>1, <1>2 DEF MovedTo, SameJobs, QueueOK, IndexesMatch, WithStatus
<1>4. IsStartable(q, {}) => IsStartable(r, {})
  <2>1. q.running \subseteq DOMAIN q.jobs /\ q.queued \subseteq DOMAIN q.jobs
    BY Indexed
  <2>2. \A id \in q.queued \cup q.running : id \in r.queued \cup r.running =>
          /\ r.jobs[id].session = q.jobs[id].session
          /\ r.jobs[id].direction = q.jobs[id].direction
          /\ r.jobs[id].path = q.jobs[id].path
    BY <1>2, <2>1 DEF MovedTo, SameJobs
  <2> QED
    BY <1>3, <2>2, RestKept
<1> QED
  BY <1>1, <1>2, <1>3, <1>4

LEMMA WithdrawMoves ==
    ASSUME NEW q, QueueOK(q), NEW S \in SUBSET q.queued, NEW st \in {"Cancelled", "Failed"},
           NEW r, MovedTo(q, S, st, r),
           NEW live, NEW live2, NEW marks, NEW marks2, marks \subseteq marks2,
           st = "Failed" => \A id \in S : q.jobs[id].session \notin live2
    PROVE  Moves(q, r, live, live2, marks, marks2)
<1>1. S \in SUBSET DOMAIN q.jobs /\ \A id \in S : q.jobs[id].status = "Queued"
  BY Indexed
<1>2. ASSUME NEW id \in S PROVE JobMove(q, r, id, live, live2, marks, marks2)
  <2>1. id \in DOMAIN q.jobs /\ id \in DOMAIN r.jobs /\ q.jobs[id].status = "Queued" /\ r.jobs[id].status = st
    BY <1>1 DEF MovedTo, SameJobs
  <2> QED
    BY <2>1 DEF JobMove
<1> QED
  BY <1>1, <1>2, MovesBy

(* two queues with the same jobs move alike *)
LEMMA MovesAlike ==
    ASSUME NEW q, NEW q2, q2.jobs = q.jobs, q2.nextId = q.nextId,
           NEW r, NEW r2, r2.jobs = r.jobs, r2.nextId = r.nextId,
           NEW live, NEW live2, NEW marks, NEW marks2, Moves(q, r, live, live2, marks, marks2)
    PROVE  Moves(q2, r2, live, live2, marks, marks2)
  BY DEF Moves, JobMove

(* a job that nothing happens to *)
LEMMA MovesNot ==
    ASSUME NEW q, QueueOK(q), NEW live, NEW live2, NEW marks, NEW marks2,
           \A id \in q.running : Transfer(id) \in marks => Transfer(id) \in marks2
    PROVE  Moves(q, q, live, live2, marks, marks2)
  BY Indexed DEF Moves, JobMove

(* drop_conflict_reviews and drop_sync_plans, and the labels that go       *)
LEMMA ReviewsGone ==
    ASSUME NEW q, NEW live, NEW marks, NEW plan, NEW rev, NEW syn, Held(q, live, marks, plan, rev, syn),
           NEW gone \in SUBSET DOMAIN rev, NEW r, r = ForgetEmpty(q, gone),
           NEW rev2, DOMAIN rev2 = DOMAIN rev \ gone, \A b \in DOMAIN rev2 : rev2[b] = rev[b],
           NEW syn2, syn2.scanning = syn.scanning, DOMAIN syn2.plans \subseteq DOMAIN syn.plans,
           \A b \in DOMAIN syn2.plans : syn2.plans[b] = syn.plans[b],
           NEW marks2, marks \subseteq marks2
    PROVE  SameIndexes(q, r) /\ Held(r, live, marks2, plan, rev2, syn2)
<1>1. QueueOK(q) /\ JobsHeld(q, live, marks) /\ BatchesHeld(q, plan, rev, syn) /\ PlansHeld(rev, syn)
  BY DEF Held
<1>2. SameIndexes(q, r) /\ r.batchLabels = q.batchLabels \ (gone \ DOMAIN q.batchRow) /\ r.nextBatch = q.nextBatch
  BY <1>1, MarksOK, MarksSee
<1>3. QueueOK(r)
  BY <1>1, <1>2, SameIndexesOK
<1>4. r.jobs = q.jobs /\ r.queued = q.queued /\ r.running = q.running /\ r.batchRow = q.batchRow
  BY <1>2 DEF SameIndexes
<1>5. JobsHeld(r, live, marks2)
  BY <1>1, <1>4 DEF JobsHeld
<1>6. BatchesHeld(r, plan, rev2, syn2)
  BY <1>1, <1>2, <1>4 DEF BatchesHeld
<1>7. PlansHeld(rev2, syn2)
  BY <1>1 DEF PlansHeld
<1> QED
  BY <1>2, <1>3, <1>5, <1>6, <1>7 DEF Held

(* what a handler finds *)
LEMMA RunsParts ==
    ASSUME Runs
    PROVE  /\ Held(transfers, sessions, cancelled, planning, reviews, sync)
           /\ QueueOK(transfers) /\ JobsHeld(transfers, sessions, cancelled)
           /\ BatchesHeld(transfers, planning, reviews, sync) /\ PlansHeld(reviews, sync)
           /\ Going(WorkNow, tasks, internal, cancelled, sync.scanning) /\ IsStartable(transfers, {})
           /\ sessions \subseteq Sessions
           /\ sync = [scanning |-> sync.scanning, plans |-> sync.plans]
           /\ cancelled \subseteq WorkNow
           /\ \A scope \in WorkNow : scope[1] = "Planning" => scope = Planning(scope[2])
<1>1. Going(WorkNow, tasks, internal, cancelled, sync.scanning)
  BY DEF Runs
<1>2. \A scope \in WorkNow : scope[1] = "Planning" => scope = Planning(scope[2])
  BY Scopes DEF WorkNow
<1> QED
  BY <1>1, <1>2 DEF Runs, Held, EngineIInv, Tables, Going

LEMMA CancelAllRuns ==
    ASSUME Runs, CancelAll
    PROVE  RunsOn
<1> DEFINE q1 == ForgetEmpty(transfers, DOMAIN reviews)
           q2 == CancelAllQueued(q1)
<1>1. /\ sync'.scanning = sync.scanning /\ sync'.plans = Without(sync.plans, DOMAIN sync.plans)
      /\ reviews' = Without(reviews, DOMAIN reviews)
      /\ tasks' = Flagged(tasks, WorkNow) /\ cancelled' = cancelled \cup WorkNow
      /\ Settle(q2)
      /\ UNCHANGED <<sessions, planning, internal>>
  BY RunsParts DEF CancelAll, DropReviewsAndPlans, Cancel, WorkNow
<1>2. SameIndexes(transfers, q1) /\ Held(q1, sessions, cancelled', planning, reviews', sync')
  <2>1. DOMAIN reviews' = DOMAIN reviews \ DOMAIN reviews /\ \A b \in DOMAIN reviews' : reviews'[b] = reviews[b]
    BY <1>1 DEF Without
  <2>2. DOMAIN sync'.plans \subseteq DOMAIN sync.plans /\ \A b \in DOMAIN sync'.plans : sync'.plans[b] = sync.plans[b]
    BY <1>1 DEF Without
  <2>3. cancelled \subseteq cancelled' /\ sync'.scanning = sync.scanning /\ DOMAIN reviews \in SUBSET DOMAIN reviews
    BY <1>1
  <2>4. Held(transfers, sessions, cancelled, planning, reviews, sync) /\ q1 = ForgetEmpty(transfers, DOMAIN reviews)
    BY RunsParts
  <2> HIDE DEF q1
  <2> QED
    BY ONLY <2>1, <2>2, <2>3, <2>4, ReviewsGone
<1> HIDE DEF q1
<1>3. q1.running = transfers.running /\ q1.queued = transfers.queued /\ q1.jobs = transfers.jobs
      /\ q1.nextId = transfers.nextId /\ QueueOK(q1)
  BY <1>2 DEF SameIndexes, Held
<1>4. IsStartable(q1, {})
  BY <1>3, RunsParts, RestKept
<1>5. q2 = SetStatus(q1, q1.queued, "Cancelled")
  BY DEF CancelAllQueued
<1> HIDE DEF q2
<1>6. /\ MovedTo(q1, q1.queued, "Cancelled", q2) /\ q1.queued \in SUBSET DOMAIN q1.jobs
      /\ q2.running = q1.running /\ IsStartable(q2, {})
  BY <1>3, <1>4, <1>5, Withdraws
<1>7. Held(q2, sessions, cancelled', planning, reviews', sync')
  <2>1. \A id \in q1.queued \ q1.queued : q1.jobs[id].session \in sessions
    OBVIOUS
  <2>2. \A id \in q1.running \ q1.queued : q1.jobs[id].session \in sessions \/ Transfer(id) \in cancelled'
    BY <1>2 DEF Held, JobsHeld
  <2>3. \A id \in q1.queued : "Cancelled" = "Queued" => q1.jobs[id].session \in sessions
    OBVIOUS
  <2> QED
    BY ONLY <1>2, <1>6, <2>1, <2>2, <2>3, HeldBy
<1>8. Moves(transfers, q2, sessions, sessions, cancelled, cancelled')
  <2>1. Moves(q1, q2, sessions, sessions, cancelled, cancelled')
    BY <1>1, <1>3, <1>6, WithdrawMoves
  <2> QED
    BY <1>3, <2>1, MovesAlike
<1>9. Going(WorkNow, tasks', internal, cancelled', sync.scanning)
  BY <1>1, RunsParts, CancelGoes
<1> QED
  BY <1>1, <1>3, <1>6, <1>7, <1>8, <1>9, RunsParts, Settles DEF WorkNow

LEMMA DeclineRuns ==
    ASSUME Runs, NEW batch, DeclineConflicts(batch)
    PROVE  RunsOn
<1> DEFINE gone == {batch}
           q == ForgetEmpty(transfers, gone)
<1>1. /\ gone \in SUBSET DOMAIN reviews
      /\ reviews' = Without(reviews, gone) /\ Settle(q)
      /\ UNCHANGED <<sessions, planning, sync, tasks, cancelled, internal>>
  BY DEF DeclineConflicts
<1>2. SameIndexes(transfers, q) /\ Held(q, sessions, cancelled, planning, reviews', sync)
  <2>1. DOMAIN reviews' = DOMAIN reviews \ gone /\ \A b \in DOMAIN reviews' : reviews'[b] = reviews[b]
    BY <1>1 DEF Without
  <2>2. Held(transfers, sessions, cancelled, planning, reviews, sync) /\ q = ForgetEmpty(transfers, gone)
    BY RunsParts
  <2>3. gone \in SUBSET DOMAIN reviews /\ cancelled \subseteq cancelled
    BY <1>1
  <2> HIDE DEF q, gone
  <2> QED
    BY ONLY <2>1, <2>2, <2>3, ReviewsGone
<1> HIDE DEF q, gone
<1>3. q.running = transfers.running /\ IsStartable(q, {})
      /\ Moves(transfers, q, sessions, sessions, cancelled, cancelled)
  BY <1>2, RunsParts, Marked
<1> QED
  BY <1>1, <1>2, <1>3, RunsParts, Settles DEF WorkNow

LEMMA CancelScanRuns ==
    ASSUME Runs, NEW batch, CancelScan(batch)
    PROVE  RunsOn
<1> DEFINE gone == {batch} \cap DOMAIN reviews
           scopes == Work({batch} \cap DOMAIN planning, {})
           q == ForgetEmpty(transfers, gone)
<1>1. /\ gone \in SUBSET DOMAIN reviews
      /\ reviews' = Without(reviews, {batch}) /\ Settle(q)
      /\ tasks' = Flagged(tasks, scopes) /\ cancelled' = cancelled \cup scopes
      /\ UNCHANGED <<sessions, planning, sync, internal>>
  BY DEF CancelScan, DropReviews, Cancel
<1>2. scopes \in SUBSET WorkNow
  BY DEF Work, WorkNow
<1>3. SameIndexes(transfers, q) /\ Held(q, sessions, cancelled', planning, reviews', sync)
  <2>1. DOMAIN reviews' = DOMAIN reviews \ gone /\ \A b \in DOMAIN reviews' : reviews'[b] = reviews[b]
    BY <1>1 DEF Without
  <2>2. Held(transfers, sessions, cancelled, planning, reviews, sync) /\ q = ForgetEmpty(transfers, gone)
    BY RunsParts
  <2>3. gone \in SUBSET DOMAIN reviews /\ cancelled \subseteq cancelled'
    BY <1>1
  <2> HIDE DEF q, gone
  <2> QED
    BY ONLY <2>1, <2>2, <2>3, ReviewsGone
<1> HIDE DEF q, gone, scopes
<1>4. q.running = transfers.running /\ IsStartable(q, {})
      /\ Moves(transfers, q, sessions, sessions, cancelled, cancelled')
  <2>1. \A id \in transfers.running : Transfer(id) \in cancelled => Transfer(id) \in cancelled'
    BY <1>1
  <2> QED
    BY <1>3, <2>1, RunsParts, Marked
<1>5. Going(WorkNow, tasks', internal, cancelled', sync.scanning)
  BY <1>1, <1>2, RunsParts, CancelGoes
<1> QED
  BY <1>1, <1>3, <1>4, <1>5, RunsParts, Settles DEF WorkNow

LEMMA CancelRowRuns ==
    ASSUME Runs, NEW kind, CancelRow(kind)
    PROVE  RunsOn
<1> DEFINE S == JobsOf(transfers, kind) \cap transfers.queued
           scopes == Work({}, JobsOf(transfers, kind) \cap transfers.running)
           q == SetStatus(transfers, S, "Cancelled")
<1>1. /\ Settle(q)
      /\ tasks' = Flagged(tasks, scopes) /\ cancelled' = cancelled \cup scopes
      /\ UNCHANGED <<sessions, planning, reviews, sync, internal>>
  BY DEF CancelRow, Cancel, scans
<1>2. scopes \in SUBSET WorkNow /\ S \in SUBSET transfers.queued
  BY DEF Work, WorkNow
<1> HIDE DEF S, scopes
<1>3. /\ MovedTo(transfers, S, "Cancelled", q) /\ S \in SUBSET DOMAIN transfers.jobs
      /\ q.running = transfers.running /\ IsStartable(q, {})
  BY <1>2, RunsParts, Withdraws
<1> HIDE DEF q
<1>4. Held(q, sessions, cancelled', planning, reviews, sync)
  <2>1. \A id \in transfers.queued \ S : transfers.jobs[id].session \in sessions
    BY RunsParts DEF JobsHeld
  <2>2. \A id \in transfers.running \ S : transfers.jobs[id].session \in sessions \/ Transfer(id) \in cancelled'
    BY <1>1, RunsParts DEF JobsHeld
  <2>3. Held(transfers, sessions, cancelled, planning, reviews, sync)
    BY RunsParts
  <2> QED
    BY <1>3, <2>1, <2>2, <2>3, HeldBy
<1>5. Moves(transfers, q, sessions, sessions, cancelled, cancelled')
  BY <1>1, <1>2, <1>3, RunsParts, WithdrawMoves
<1>6. Going(WorkNow, tasks', internal, cancelled', sync.scanning)
  BY <1>1, <1>2, RunsParts, CancelGoes
<1> QED
  BY <1>1, <1>3, <1>4, <1>5, <1>6, RunsParts, Settles DEF WorkNow

LEMMA CancelSyncRuns ==
    ASSUME Runs, NEW id, CancelSyncScan(id) \/ CancelSyncPlan(id)
    PROVE  RunsOn
<1>1. /\ UNCHANGED <<sessions, transfers, planning, reviews, internal>>
      /\ sync'.scanning = sync.scanning
      /\ DOMAIN sync'.plans \subseteq DOMAIN sync.plans
      /\ \A b \in DOMAIN sync'.plans : sync'.plans[b] = sync.plans[b]
      /\ \/ tasks' = Flagged(tasks, {Planning(id)}) /\ cancelled' = cancelled \cup {Planning(id)}
            /\ id \in sync.scanning
         \/ UNCHANGED <<tasks, cancelled>>
  BY RunsParts DEF CancelSyncScan, CancelSyncPlan, Cancel, scans, Without
<1>2. cancelled \subseteq cancelled'
  BY <1>1
<1>3. Held(transfers, sessions, cancelled', planning, reviews, sync')
  <2>1. JobsHeld(transfers, sessions, cancelled')
    BY <1>2, RunsParts DEF JobsHeld
  <2>2. BatchesHeld(transfers, planning, reviews, sync') /\ PlansHeld(reviews, sync')
    BY <1>1, RunsParts DEF BatchesHeld, PlansHeld
  <2> QED
    BY <2>1, <2>2, RunsParts DEF Held
<1>4. Moves(transfers, transfers, sessions, sessions, cancelled, cancelled')
  BY <1>2, RunsParts, MovesNot
<1>5. Going(WorkNow, tasks', internal, cancelled', sync.scanning)
  <2>1. id \in sync.scanning => {Planning(id)} \in SUBSET WorkNow
    BY RunsParts, Scopes DEF BatchesHeld, WorkNow
  <2> QED
    BY <1>1, <2>1, RunsParts, CancelGoes
<1> QED
  BY <1>1, <1>3, <1>4, <1>5, RunsParts DEF RunsOn, WorkNow

LEMMA FinishConnectRuns ==
    ASSUME Runs, FinishConnect
    PROVE  RunsOn
<1>1. /\ sessions' = sessions \cup {nextSession} /\ nextSession \in Sessions
      /\ UNCHANGED <<transfers, planning, reviews, sync, tasks, cancelled, internal>>
  BY DEF FinishConnect, scans
<1>2. Held(transfers, sessions', cancelled, planning, reviews, sync)
  <2>1. JobsHeld(transfers, sessions', cancelled)
    BY <1>1, RunsParts DEF JobsHeld
  <2> QED
    BY <2>1, RunsParts DEF Held
<1>3. Moves(transfers, transfers, sessions, sessions', cancelled, cancelled)
  BY RunsParts, MovesNot
<1> QED
  BY <1>1, <1>2, <1>3, RunsParts DEF RunsOn, WorkNow

LEMMA DisconnectRuns ==
    ASSUME Runs, NEW session, Disconnect(session)
    PROVE  RunsOn
<1> DEFINE S == transfers.queuedBySession[session]
           gone == OfSession(reviews, session)
           scopes == Work(OfSession(planning, session), InSession(transfers, transfers.running, session))
           q1 == SetStatus(transfers, S, "Failed")
           q2 == ForgetEmpty(q1, gone)
<1>1. /\ session \in Sessions /\ sessions' = sessions \ {session}
      /\ tasks' = Flagged(tasks, scopes) /\ cancelled' = cancelled \cup scopes
      /\ sync'.scanning = sync.scanning /\ sync'.plans = Without(sync.plans, OfSession(sync.plans, session))
      /\ reviews' = Without(reviews, gone)
      /\ Settle(q2)
      /\ UNCHANGED <<planning, internal>>
  BY RunsParts DEF Disconnect, DropReviewsAndPlans, Cancel, FailQueuedForSession
<1>2. S = {id \in transfers.queued : transfers.jobs[id].session = session}
  BY <1>1, RunsParts DEF QueueOK, IndexesMatch
<1>3. scopes \in SUBSET WorkNow /\ gone \in SUBSET DOMAIN reviews
  BY DEF Work, WorkNow, OfSession, InSession
<1>4. \A id \in transfers.running : transfers.jobs[id].session = session => Transfer(id) \in scopes
  BY DEF Work, InSession
<1> HIDE DEF S, scopes, gone
<1>5. /\ MovedTo(transfers, S, "Failed", q1) /\ S \in SUBSET DOMAIN transfers.jobs
      /\ q1.running = transfers.running /\ IsStartable(q1, {})
  <2>1. S \in SUBSET transfers.queued /\ QueueOK(transfers) /\ IsStartable(transfers, {})
    BY <1>2, RunsParts
  <2> QED
    BY <2>1, Withdraws
<1> HIDE DEF q1
<1>6. Held(q1, sessions', cancelled', planning, reviews, sync)
  <2>1. \A id \in transfers.queued \ S : transfers.jobs[id].session \in sessions'
    BY <1>1, <1>2, RunsParts DEF JobsHeld
  <2>2. \A id \in transfers.running \ S : transfers.jobs[id].session \in sessions' \/ Transfer(id) \in cancelled'
    BY <1>1, <1>4, RunsParts DEF JobsHeld
  <2>3. Held(transfers, sessions, cancelled, planning, reviews, sync)
    BY RunsParts
  <2> QED
    BY <1>5, <2>1, <2>2, <2>3, HeldBy
<1>7. SameIndexes(q1, q2) /\ Held(q2, sessions', cancelled', planning, reviews', sync')
  <2>1. DOMAIN reviews' = DOMAIN reviews \ gone /\ \A b \in DOMAIN reviews' : reviews'[b] = reviews[b]
    BY <1>1 DEF Without
  <2>2. DOMAIN sync'.plans \subseteq DOMAIN sync.plans /\ \A b \in DOMAIN sync'.plans : sync'.plans[b] = sync.plans[b]
    BY <1>1 DEF Without
  <2>3. sync'.scanning = sync.scanning /\ q2 = ForgetEmpty(q1, gone)
    BY <1>1
  <2> HIDE DEF q2
  <2> QED
    BY ONLY <1>3, <1>6, <2>1, <2>2, <2>3, ReviewsGone
<1> HIDE DEF q2
<1>8. q2.running = q1.running /\ q2.queued = q1.queued /\ q2.jobs = q1.jobs /\ q2.nextId = q1.nextId
  BY <1>7 DEF SameIndexes
<1>9. IsStartable(q2, {})
  BY <1>5, <1>6, <1>8, RestKept DEF Held
<1>10. Moves(transfers, q2, sessions, sessions', cancelled, cancelled')
  <2>1. \A id \in S : transfers.jobs[id].session \notin sessions'
    BY <1>1, <1>2
  <2>2. Moves(transfers, q1, sessions, sessions', cancelled, cancelled')
    BY <1>1, <1>2, <1>5, <2>1, RunsParts, WithdrawMoves
  <2> QED
    BY <1>8, <2>2, MovesAlike
<1>11. Going(WorkNow, tasks', internal, cancelled', sync.scanning)
  BY <1>1, <1>3, RunsParts, CancelGoes
<1> QED
  BY <1>1, <1>5, <1>7, <1>8, <1>9, <1>10, <1>11, RunsParts, Settles DEF WorkNow

---------------------------------------------------------------------------
(* the jobs of a batch's row, and of a finished row *)
LEMMA RowsShare ==
    ASSUME NEW q, QueueOK(q), NEW b
    PROVE  /\ JobsOf(q, <<"Batch", b>>) \subseteq DOMAIN q.jobs
           /\ \A i, j \in JobsOf(q, <<"Batch", b>>) : q.jobs[i].batch = q.jobs[j].batch
<1> DEFINE kind == <<"Batch", b>>
<1>1. CASE ~HasRow(q, kind)
  BY <1>1 DEF JobsOf
<1>2. CASE HasRow(q, kind)
  <2>1. PICK key \in DOMAIN q.rows : q.rows[key].kind = kind
    BY <1>2 DEF HasRow
  <2>2. q.jobs[key].batch = b /\ b # NoBatch
    <3>1. KindOf(key, q.jobs[key].batch) = <<"Batch", b>>
      BY <2>1 DEF QueueOK, RowsMatch
    <3>2. KindOf(key, NoBatch) # <<"Batch", b>>
      BY DEF KindOf
    <3> QED
      BY <3>1, <3>2 DEF KindOf
  <2>3. q.batchRow[b] = key
    BY <2>1, <2>2 DEF QueueOK, RowsMatch
  <2>4. JobsOf(q, kind) = q.rows[key].order
    BY <1>2, <2>3 DEF JobsOf, RowKey
  <2> QED
    BY <2>1, <2>4 DEF QueueOK, RowsMatch
<1> QED
  BY <1>1, <1>2

LEMMA FinishedRowEnded ==
    ASSUME NEW q, QueueOK(q), NEW key \in DOMAIN q.rows, RowFinished(q.rows[key]), NEW id \in q.rows[key].order
    PROVE  id \in DOMAIN q.jobs /\ q.jobs[id].status \in {"Completed", "Failed", "Cancelled"}
<1> DEFINE order == q.rows[key].order
<1>1. order \subseteq DOMAIN q.jobs
  BY DEF QueueOK, RowsMatch
<1>2. IsFiniteSet(order)
  BY <1>1, JobsFinite, FS_Subset DEF QueueOK
<1>3. ASSUME NEW st \in {"Queued", "InProgress"} PROVE WithStatus(q, order, st) = {}
  <2>1. q.rows[key].n[st] = Cardinality(WithStatus(q, order, st))
    BY DEF QueueOK, CountersMatch, JobStatus
  <2>2. q.rows[key].n[st] = 0
    BY DEF RowFinished
  <2>3. IsFiniteSet(WithStatus(q, order, st))
    BY <1>2, FS_Subset DEF WithStatus
  <2> QED
    BY <2>1, <2>2, <2>3, FS_EmptySet
<1>4. q.jobs[id].status \in JobStatus
  BY <1>1, Indexed
<1> QED
  BY <1>1, <1>3, <1>4 DEF WithStatus, JobStatus

LEMMA RetryRowRuns ==
    ASSUME Runs, NEW b, RetryRow(<<"Batch", b>>)
    PROVE  RunsOn
<1> DEFINE kind == <<"Batch", b>>
           S == {id \in JobsOf(transfers, kind) : IsRetryable(transfers.jobs[id])}
           q == RetryJobs(transfers, S)
<1>1. /\ S # {} /\ transfers.jobs[Min(S)].session \in sessions
      /\ Fill(q, stale)
      /\ UNCHANGED <<sessions, planning, reviews, sync, cancelled, internal>>
  BY DEF RetryRow, scans
<1>2. /\ S \in SUBSET DOMAIN transfers.jobs
      /\ \A id \in S : IsRetryable(transfers.jobs[id])
      /\ \A i, j \in S : transfers.jobs[i].batch = transfers.jobs[j].batch
  BY RowsShare, RunsParts
<1> HIDE DEF S
<1>3. \A id \in S : transfers.jobs[id].session \in sessions
  <2>1. S \in SUBSET Nat
    BY <1>2, JobsFinite, RunsParts DEF QueueOK
  <2>2. Min(S) \in S
    BY <1>1, <2>1, MinIsLeast
  <2> QED
    BY <1>1, <1>2, <2>2, RunsParts DEF JobsHeld
<1>4. MovedTo(transfers, S, "Queued", q)
  BY <1>2, RetryJobsMoves, RunsParts
<1> HIDE DEF q
<1>5. S \cap transfers.running = {} /\ \A id \in S : transfers.jobs[id].status \in {"Failed", "Cancelled"}
  BY <1>2, RunsParts, Indexed DEF IsRetryable
<1>6. q.running = transfers.running
  BY <1>2, <1>4, <1>5, RunsParts DEF MovedTo, SameJobs, QueueOK, IndexesMatch, WithStatus
<1>7. Held(q, sessions, cancelled, planning, reviews, sync)
  <2>1. \A id \in transfers.queued \ S : transfers.jobs[id].session \in sessions
    BY RunsParts DEF JobsHeld
  <2>2. \A id \in transfers.running \ S : transfers.jobs[id].session \in sessions \/ Transfer(id) \in cancelled
    BY RunsParts DEF JobsHeld
  <2>3. Held(transfers, sessions, cancelled, planning, reviews, sync)
    BY RunsParts
  <2> QED
    BY <1>2, <1>3, <1>4, <2>1, <2>2, <2>3, HeldBy
<1>8. Moves(transfers, q, sessions, sessions, cancelled, cancelled)
  <2>1. ASSUME NEW id \in S PROVE JobMove(transfers, q, id, sessions, sessions, cancelled, cancelled)
    <3>1. id \in DOMAIN transfers.jobs /\ id \in DOMAIN q.jobs /\ q.jobs[id].status = "Queued"
      BY <1>2, <1>4 DEF MovedTo, SameJobs
    <3>2. Transfer(id) \notin cancelled
      BY <1>5, RunsParts, Scopes DEF WorkNow
    <3> QED
      BY <1>3, <1>5, <3>1, <3>2 DEF JobMove
  <2> QED
    BY <1>2, <1>4, <2>1, MovesBy, RunsParts
<1> QED
  BY <1>1, <1>6, <1>7, <1>8, RunsParts, Fills DEF WorkNow

LEMMA ClearFinishedRuns ==
    ASSUME Runs, ClearFinished
    PROVE  RunsOn
<1> DEFINE ids == UNION {q.order : q \in {transfers.rows[key] : key \in
                    {k \in DOMAIN transfers.rows : RowFinished(transfers.rows[k])}}}
           q == RemoveJobs(transfers, ids)
<1>1. Settle(q) /\ UNCHANGED <<sessions, planning, reviews, sync, tasks, cancelled, internal>>
  BY DEF ClearFinished, scans
<1>2. \A id \in ids : /\ id \in DOMAIN transfers.jobs
                      /\ transfers.jobs[id].status \in {"Completed", "Failed", "Cancelled"}
  BY FinishedRowEnded, RunsParts
<1> HIDE DEF ids
<1>3. ids \cap transfers.running = {} /\ ids \cap transfers.queued = {}
  BY <1>2, Indexed, RunsParts
<1>4. /\ DOMAIN q.jobs = DOMAIN transfers.jobs \ ids
      /\ \A id \in DOMAIN q.jobs : q.jobs[id] = transfers.jobs[id]
      /\ q.running = transfers.running /\ q.queued = transfers.queued
      /\ DOMAIN q.batchRow \subseteq DOMAIN transfers.batchRow
      /\ q.batchLabels = transfers.batchLabels \ (DOMAIN transfers.batchRow \ DOMAIN q.batchRow)
      /\ q.nextId = transfers.nextId /\ q.nextBatch = transfers.nextBatch
  <2>1. /\ DOMAIN q.jobs = DOMAIN transfers.jobs \ ids
        /\ \A id \in DOMAIN transfers.jobs \ ids : q.jobs[id] = transfers.jobs[id]
        /\ q.running = transfers.running \ ids /\ q.queued = transfers.queued \ ids
        /\ DOMAIN q.batchRow \subseteq DOMAIN transfers.batchRow
        /\ q.batchLabels = transfers.batchLabels \ (DOMAIN transfers.batchRow \ DOMAIN q.batchRow)
        /\ q.nextId = transfers.nextId /\ q.nextBatch = transfers.nextBatch
    BY RemoveTakes, RunsParts
  <2> HIDE DEF q
  <2> QED
    BY <1>3, <2>1
<1>5. QueueOK(q)
  BY RemoveJobsOK, RunsParts
<1> HIDE DEF q
<1>6. q.running \subseteq DOMAIN q.jobs /\ q.queued \subseteq DOMAIN q.jobs
  BY <1>5, Indexed
<1>7. Held(q, sessions, cancelled, planning, reviews, sync)
  <2>1. JobsHeld(q, sessions, cancelled)
    BY <1>4, <1>6, RunsParts DEF JobsHeld
  <2>2. BatchesHeld(q, planning, reviews, sync)
    BY <1>4, RunsParts DEF BatchesHeld
  <2> QED
    BY <1>5, <2>1, <2>2, RunsParts DEF Held
<1>8. IsStartable(q, {})
  BY <1>4, <1>6, RunsParts, RestKept
<1>9. Moves(transfers, q, sessions, sessions, cancelled, cancelled)
  <2>1. \A id \in DOMAIN transfers.jobs \cup DOMAIN q.jobs :
          JobMove(transfers, q, id, sessions, sessions, cancelled, cancelled)
    BY <1>2, <1>4 DEF JobMove
  <2>2. 0..(q.nextId - 1) = 0..(transfers.nextId - 1) \cup DOMAIN q.jobs
    BY <1>4, <1>5, Indexed
  <2> QED
    BY <1>4, <2>1, <2>2 DEF Moves
<1> QED
  BY <1>1, <1>4, <1>7, <1>8, <1>9, RunsParts, Settles DEF WorkNow

---------------------------------------------------------------------------
(* apply_plan_ready: a scan or a review becomes a row, or nothing          *)
LEMMA BatchForgotten ==
    ASSUME NEW q, QueueOK(q), NEW gone, NEW r, r = ForgetEmpty(q, gone)
    PROVE  /\ SameIndexes(q, r) /\ QueueOK(r)
           /\ r.batchLabels = q.batchLabels \ (gone \ DOMAIN q.batchRow)
           /\ r.nextBatch = q.nextBatch
           /\ r.jobs = q.jobs /\ r.running = q.running /\ r.queued = q.queued
           /\ r.batchRow = q.batchRow /\ r.nextId = q.nextId
<1>1. SameIndexes(q, r)
  BY MarksOK
<1>2. r.batchLabels = q.batchLabels \ (gone \ DOMAIN q.batchRow) /\ r.nextBatch = q.nextBatch
  BY MarksSee
<1> QED
  BY <1>1, <1>2, SameIndexesOK DEF SameIndexes

(* the batch that is over, in the tables of the scans and the reviews      *)
Over(batch, plan, rev, syn, plan2, rev2, syn2) ==
    /\ batch \in DOMAIN plan \cup DOMAIN rev
    /\ DOMAIN plan2 = DOMAIN plan \ {batch}
    /\ DOMAIN rev2 = DOMAIN rev \ {batch}
    /\ \A b \in DOMAIN rev2 : rev2[b] = rev[b]
    /\ syn2.scanning = syn.scanning \ {batch}
    /\ syn2.plans = syn.plans

(* the marks: of running jobs, and no job's goes *)
MarksOver(q, marks, marks2) ==
    /\ \A id : Transfer(id) \in marks => Transfer(id) \in marks2
    /\ \A id : Transfer(id) \in marks2 => id \in q.running

LEMMA ScanOver ==
    ASSUME NEW q, NEW live, NEW marks, NEW plan, NEW rev, NEW syn,
           Held(q, live, marks, plan, rev, syn),
           NEW batch, NEW plan2, NEW rev2, NEW syn2, Over(batch, plan, rev, syn, plan2, rev2, syn2),
           NEW r, r = ForgetEmpty(q, {batch}),
           NEW marks2, MarksOver(q, marks, marks2)
    PROVE  /\ Held(r, live, marks2, plan2, rev2, syn2)
           /\ r.running = q.running
           /\ SameIndexes(q, r)
           /\ Moves(q, r, live, live, marks, marks2)
<1>1. QueueOK(q) /\ JobsHeld(q, live, marks) /\ BatchesHeld(q, plan, rev, syn) /\ PlansHeld(rev, syn)
  BY DEF Held
<1>2. /\ SameIndexes(q, r) /\ QueueOK(r)
      /\ r.batchLabels = q.batchLabels \ ({batch} \ DOMAIN q.batchRow)
      /\ r.nextBatch = q.nextBatch
      /\ r.jobs = q.jobs /\ r.running = q.running /\ r.queued = q.queued
      /\ r.batchRow = q.batchRow /\ r.nextId = q.nextId
  BY ONLY <1>1, r = ForgetEmpty(q, {batch}), BatchForgotten
<1>3. PlansHeld(rev2, syn2)
  BY <1>1 DEF PlansHeld, Over
<1>4. JobsHeld(r, live, marks2)
  BY ONLY <1>1, <1>2, MarksOver(q, marks, marks2) DEF JobsHeld, MarksOver
<1>5. BatchesHeld(r, plan2, rev2, syn2)
  BY ONLY <1>1, <1>2, Over(batch, plan, rev, syn, plan2, rev2, syn2) DEF BatchesHeld, Over
<1>6. Moves(q, q, live, live, marks, marks2)
  BY <1>1, MovesNot DEF MarksOver
<1>7. Moves(q, r, live, live, marks, marks2)
  BY ONLY <1>2, <1>6, MovesAlike
<1> QED
  BY <1>2, <1>3, <1>4, <1>5, <1>7 DEF Held

LEMMA PlanEnqueued ==
    ASSUME NEW q, NEW live, NEW marks, NEW plan, NEW rev, NEW syn,
           Held(q, live, marks, plan, rev, syn),
           NEW session \in live, NEW batch \in Nat,
           NEW plan2, NEW rev2, NEW syn2, Over(batch, plan, rev, syn, plan2, rev2, syn2),
           NEW e, QueueOK(e), NEW ids, Added(q, e, ids, session, batch), NEW r, r = ForgetEmpty(e, {batch}),
           NEW marks2, MarksOver(q, marks, marks2)
    PROVE  /\ Held(r, live, marks2, plan2, rev2, syn2)
           /\ r.running = q.running
           /\ Moves(q, r, live, live, marks, marks2)
<1>1. QueueOK(q) /\ JobsHeld(q, live, marks) /\ BatchesHeld(q, plan, rev, syn) /\ PlansHeld(rev, syn)
  BY DEF Held
<1>2. /\ QueueOK(r)
      /\ r.batchLabels = e.batchLabels \ ({batch} \ DOMAIN e.batchRow)
      /\ r.nextBatch = e.nextBatch
      /\ r.jobs = e.jobs /\ r.running = e.running /\ r.queued = e.queued
      /\ r.batchRow = e.batchRow /\ r.nextId = e.nextId
  BY ONLY QueueOK(e), r = ForgetEmpty(e, {batch}), BatchForgotten
<1>3. PlansHeld(rev2, syn2)
  BY <1>1 DEF PlansHeld, Over
<1>4. q.running \subseteq DOMAIN q.jobs /\ q.queued \subseteq DOMAIN q.jobs
  BY <1>1, Indexed
<1>5. batch # NoBatch
  BY DEF NoBatch
<1>6. \A id \in DOMAIN q.jobs : q.jobs[id].batch # batch
  <2>1. \A id \in DOMAIN q.jobs : q.jobs[id].batch # NoBatch => q.jobs[id].batch \in DOMAIN q.batchRow
    BY ONLY <1>1 DEF QueueOK, RowsMatch
  <2>2. batch \notin DOMAIN q.batchRow
    BY <1>1 DEF BatchesHeld, Over
  <2> QED
    BY <1>5, <2>1, <2>2
<1>7. JobsHeld(r, live, marks2)
  <2>1. \A id \in DOMAIN r.jobs : r.jobs[id].batch # NoBatch
    BY ONLY <1>1, <1>2, <1>5, Added(q, e, ids, session, batch) DEF JobsHeld, Added
  <2>2. \A i, j \in DOMAIN r.jobs : r.jobs[i].batch = r.jobs[j].batch => r.jobs[i].session = r.jobs[j].session
    BY ONLY <1>1, <1>2, <1>6, Added(q, e, ids, session, batch) DEF JobsHeld, Added
  <2>3. \A id \in r.queued : r.jobs[id].session \in live
    BY ONLY <1>1, <1>2, <1>4, session \in live, Added(q, e, ids, session, batch) DEF JobsHeld, Added
  <2>4. \A id \in r.running : r.jobs[id].session \in live \/ Transfer(id) \in marks2
    BY ONLY <1>1, <1>2, <1>4, Added(q, e, ids, session, batch), MarksOver(q, marks, marks2)
       DEF JobsHeld, Added, MarksOver
  <2> QED
    BY <2>1, <2>2, <2>3, <2>4 DEF JobsHeld
<1>8. BatchesHeld(r, plan2, rev2, syn2)
  BY ONLY <1>1, <1>2, Added(q, e, ids, session, batch), Over(batch, plan, rev, syn, plan2, rev2, syn2)
     DEF BatchesHeld, Added, Over
<1>9. Moves(q, r, live, live, marks, marks2)
  <2>1. ASSUME NEW id \in ids PROVE JobMove(q, r, id, live, live, marks, marks2)
    <3>1. Transfer(id) \notin marks2
      BY <1>4 DEF Added, MarksOver
    <3> QED
      BY <1>2, <3>1 DEF JobMove, Added
  <2>2. ASSUME NEW id \in DOMAIN q.jobs PROVE JobMove(q, r, id, live, live, marks, marks2)
    BY <1>2 DEF JobMove, Added, MarksOver
  <2>3. 0..(r.nextId - 1) = 0..(q.nextId - 1) \cup DOMAIN r.jobs
    <3>1. 0..(q.nextId - 1) = 0..(q.nextId - 1) \cup DOMAIN q.jobs
      BY <1>1, Indexed
    <3> QED
      BY <1>2, <3>1 DEF Added
  <2> QED
    BY <1>2, <2>1, <2>2, <2>3 DEF Moves, Added
<1> QED
  BY <1>2, <1>3, <1>7, <1>8, <1>9 DEF Held, Added

LEMMA PlanApplied ==
    ASSUME NEW q, NEW live \in SUBSET Sessions, NEW marks, NEW plan, NEW rev, NEW syn,
           Held(q, live, marks, plan, rev, syn),
           NEW session \in live, NEW direction \in Direction, NEW files \in Files,
           NEW batch, NEW plan2, NEW rev2, NEW syn2, Over(batch, plan, rev, syn, plan2, rev2, syn2),
           NEW r, r = ForgetEmpty(Enqueue(q, session, direction, files, batch), {batch}),
           NEW marks2, MarksOver(q, marks, marks2)
    PROVE  /\ Held(r, live, marks2, plan2, rev2, syn2)
           /\ r.running = q.running
           /\ Moves(q, r, live, live, marks, marks2)
<1>1. CASE files = <<>>
  <2>1. r = ForgetEmpty(q, {batch})
    BY <1>1 DEF Enqueue
  <2> QED
    BY <2>1, ScanOver
<1>2. CASE files # <<>>
  <2> DEFINE e == Enqueue(q, session, direction, files, batch)
             ids == NewIds(q, files)
  <2>1. QueueOK(q) /\ BatchesHeld(q, plan, rev, syn)
    BY DEF Held
  <2>2. batch \in Nat /\ session \in Sessions /\ batch # NoBatch
    BY <2>1, Indexed DEF BatchesHeld, Over, NoBatch
  <2>3. Added(q, e, ids, session, batch)
    BY ONLY <1>2, <2>1, <2>2, files \in Files, EnqueueAdds
  <2>4. QueueOK(e)
    BY <2>1, <2>2, EnqueueOK
  <2>5. r = ForgetEmpty(e, {batch})
    OBVIOUS
  <2> HIDE DEF e, ids
  <2> QED
    BY <2>2, <2>3, <2>4, <2>5, PlanEnqueued
<1> QED
  BY <1>1, <1>2

LEMMA ResolveRuns ==
    ASSUME Runs, NEW batch, ResolveConflicts(batch)
    PROVE  RunsOn
<1> DEFINE review == reviews[batch]
<1>1. /\ batch \in DOMAIN reviews
      /\ reviews' = Without(reviews, {batch})
      /\ UNCHANGED <<sessions, planning, sync, cancelled, internal>>
      /\ \E files \in Chosen(review.files) :
           ApplyPlan(transfers, batch, review.session, review.direction, files)
  BY DEF ResolveConflicts
<1>2. review.session \in sessions /\ review.direction \in Direction /\ review.files \in Files
  BY <1>1, RunsParts DEF Runs, EngineIInv, FrontEndKnows, PlansHeld
<1>3. PICK files \in Files : ApplyPlan(transfers, batch, review.session, review.direction, files)
  BY <1>1, <1>2, ChosenFiles
<1> DEFINE q == ForgetEmpty(Enqueue(transfers, review.session, review.direction, files, batch), {batch})
           st == IF files = <<>> THEN stale \ {Place(review.session, review.direction)} ELSE stale
<1>4. Fill(q, st)
  BY <1>3 DEF ApplyPlan
<1>5. /\ Held(q, sessions, cancelled, planning, reviews', sync)
      /\ q.running = transfers.running
      /\ Moves(transfers, q, sessions, sessions, cancelled, cancelled)
  <2>1. Over(batch, planning, reviews, sync, planning, reviews', sync)
    BY <1>1, RunsParts DEF BatchesHeld, Over, Without
  <2>2. MarksOver(transfers, cancelled, cancelled)
    BY RunsParts, Scopes DEF WorkNow, MarksOver
  <2>3. Held(transfers, sessions, cancelled, planning, reviews, sync) /\ sessions \in SUBSET Sessions
    BY RunsParts
  <2> HIDE DEF review
  <2> QED
    BY <1>2, <2>1, <2>2, <2>3, PlanApplied
<1> HIDE DEF q, st
<1> QED
  BY <1>1, <1>4, <1>5, RunsParts, Fills DEF WorkNow

---------------------------------------------------------------------------
(* the ends of tasks *)
LEMMA ResultsHeld ==
    ASSUME NEW scope \in DOMAIN tasks, NEW scanning, NEW marks,
           TaskHeld(scope, tasks[scope], scanning, marks), NEW result \in Results(scope)
    PROVE  result.scope = scope /\ ResultHeld(result, scanning, marks)
<1> DEFINE task == tasks[scope]
<1>1. \A what, plan : /\ Result(scope, what, plan).what = what
                      /\ Result(scope, what, plan).scope = scope
                      /\ Result(scope, what, plan).plan = plan
                      /\ Result(scope, what, plan).direction = task.direction
  BY DEF Result
<1>2. \/ \E plan \in Found(task) : result = Result(scope, Done(task.name), plan)
      \/ task.cancel = TRUE /\ result = Result(scope, GaveUp(task.name), <<>>)
      \/ result = Result(scope, Broke(task.name), <<>>)
      \/ result = Result(scope, "Panicked", <<>>)
  BY DEF Results
<1>3. /\ task.direction \in Direction /\ task.files \in Files
      /\ task.cancel = TRUE => scope \in marks
      /\ \/ scope[1] = "Transfer" /\ task.name = "transfer"
         \/ scope[1] = "Planning" /\ scope[2] \notin scanning /\ task.name = "plan-copy"
         \/ scope[1] = "Planning" /\ scope[2] \in scanning /\ task.name \in {"sync-scan", "sync-folders"}
  BY DEF TaskHeld
<1>4. \A plan \in Found(task) :
        /\ task.name \in {"plan-copy", "sync-folders"} => plan.files \in Files
        /\ task.name = "sync-scan" => plan.uploads \in Files /\ plan.downloads \in Files
  BY <1>3, FoundFiles, PlansAssumption DEF Found
<1> HIDE DEF task
<1>5. \/ result.what = Done(task.name) /\ result.plan \in Found(task)
      \/ task.cancel = TRUE /\ result.what = GaveUp(task.name)
      \/ result.what = Broke(task.name)
      \/ result.what = "Panicked"
  BY <1>1, <1>2
<1>6. result.scope = scope /\ result.direction = task.direction
  BY <1>1, <1>2
<1>7. CASE task.name = "transfer"
  BY <1>3, <1>5, <1>6, <1>7 DEF ResultHeld, Done, GaveUp, Broke
<1>8. CASE task.name = "plan-copy"
  BY <1>3, <1>4, <1>5, <1>6, <1>8 DEF ResultHeld, Done, GaveUp, Broke
<1>9. CASE task.name = "sync-scan"
  BY <1>3, <1>4, <1>5, <1>6, <1>9 DEF ResultHeld, Done, GaveUp, Broke
<1>10. CASE task.name = "sync-folders"
  BY <1>3, <1>4, <1>5, <1>6, <1>10 DEF ResultHeld, Done, GaveUp, Broke
<1> QED
  BY <1>3, <1>6, <1>7, <1>8, <1>9, <1>10

(* a step that only moves an end along *)
LEMMA Along ==
    ASSUME Runs, UNCHANGED <<sessions, transfers, planning, reviews, sync, cancelled>>,
           Going(WorkNow, tasks', internal', cancelled, sync.scanning)
    PROVE  RunsOn
<1>1. Moves(transfers, transfers, sessions, sessions, cancelled, cancelled)
  BY RunsParts, MovesNot
<1> QED
  BY <1>1, RunsParts DEF RunsOn, WorkNow

LEMMA TaskEndsRuns ==
    ASSUME Runs, NEW scope, TaskEnds(scope)
    PROVE  RunsOn
<1>1. PICK result \in Results(scope) : internal' = Append(internal, result)
  BY DEF TaskEnds
<1>2. scope \in DOMAIN tasks /\ tasks' = Without(tasks, {scope})
      /\ UNCHANGED <<sessions, transfers, planning, reviews, sync, cancelled>>
  BY DEF TaskEnds, scans
<1>3. TaskHeld(scope, tasks[scope], sync.scanning, cancelled)
  BY <1>2, RunsParts DEF Going
<1>4. result.scope = scope /\ ResultHeld(result, sync.scanning, cancelled)
  BY <1>2, <1>3, ResultsHeld
<1>5. Background0 \notin WorkNow
  BY Scopes DEF WorkNow
<1>6. Going(WorkNow, tasks', internal', cancelled, sync.scanning)
  BY <1>1, <1>2, <1>4, <1>5, RunsParts, EndGoes
<1> QED
  BY <1>2, <1>6, Along

LEMMA RemovalRuns ==
    ASSUME Runs, NEW i, RemovePart(i) \/ RemovalPanics(i)
    PROVE  RunsOn
<1>1. \/ internal' = internal
      \/ \E what \in {"PartialsRemoved", "Panicked"} : \E session : internal' = Append(internal, Notice(what, session))
  BY DEF RemovePart, RemovalPanics
<1>2. UNCHANGED <<sessions, transfers, planning, reviews, sync, cancelled, tasks>>
  BY DEF RemovePart, RemovalPanics, scans
<1>3. Going(WorkNow, tasks', internal', cancelled, sync.scanning)
  BY <1>1, <1>2, RunsParts, NoticeGoes
<1> QED
  BY <1>2, <1>3, Along

---------------------------------------------------------------------------
(* the loop takes a result: what it is *)
LEMMA HeadHeld ==
    ASSUME Runs, Received, NEW result, result = Head(internal)
    PROVE  /\ ResultHeld(result, sync.scanning, cancelled)
           /\ result.scope \in WorkNow \cup {Background0}
           /\ result.scope = Background0 \/ result.scope[1] \in {"Planning", "Transfer"}
           /\ internal # <<>> /\ internal' = Tail(internal)
<1>1. internal # <<>> /\ internal' = Tail(internal)
  BY DEF Received
<1>2. 1 \in DOMAIN internal /\ Head(internal) = internal[1]
  <2>1. PICK S : internal \in Seq(S)
    BY RunsParts DEF Going
  <2> QED
    BY <1>1, <2>1
<1>3. ResultHeld(result, sync.scanning, cancelled) /\ result.scope \in WorkNow \cup {Background0}
  BY <1>2, RunsParts DEF Going, AnswersHeld
<1>4. result.scope = Background0 \/ result.scope[1] \in {"Planning", "Transfer"}
  BY <1>3, Scopes DEF WorkNow
<1> QED
  BY <1>1, <1>3, <1>4

(* ... the end of an attempt *)
LEMMA AttemptEnds ==
    ASSUME Runs, Received, NEW scope, scope = Head(internal).scope, scope[1] = "Transfer",
           NEW id, id = scope[2]
    PROVE  /\ scope = Transfer(id) /\ id \in transfers.running /\ id \in DOMAIN transfers.jobs
           /\ Going(Work(DOMAIN planning, transfers.running \ {id}), tasks, internal',
                    cancelled \ {Transfer(id)}, sync.scanning)
<1>1. scope \in WorkNow /\ internal # <<>> /\ internal' = Tail(internal)
  BY HeadHeld DEF Background0
<1>2. scope = Transfer(id) /\ id \in transfers.running
  BY <1>1, Scopes DEF WorkNow
<1>3. id \in DOMAIN transfers.jobs
  BY <1>2, RunsParts, Indexed
<1>4. scope # Background0 /\ \A b \in sync.scanning \ sync.scanning : scope = Planning(b)
  BY <1>2, Scopes
<1>5. Going(WorkNow \ {scope}, tasks, Tail(internal), cancelled \ {scope}, sync.scanning)
  BY <1>1, <1>4, RunsParts, TakeGoes
<1>6. WorkNow \ {Transfer(id)} = Work(DOMAIN planning, transfers.running \ {id})
  BY Scopes DEF WorkNow
<1> QED
  BY <1>1, <1>2, <1>3, <1>5, <1>6

(* ... the end of a scan *)
LEMMA ScanEnds ==
    ASSUME Runs, Received, NEW scope, scope = Head(internal).scope, scope[1] = "Planning",
           NEW b, b = scope[2]
    PROVE  /\ scope = Planning(b) /\ b \in DOMAIN planning
           /\ Going(Work(DOMAIN planning \ {b}, transfers.running), tasks, internal',
                    cancelled \ {Planning(b)}, sync.scanning \ {b})
<1>1. scope \in WorkNow /\ internal # <<>> /\ internal' = Tail(internal)
  BY HeadHeld DEF Background0
<1>2. scope = Planning(b) /\ b \in DOMAIN planning
  BY <1>1, Scopes DEF WorkNow
<1>3. /\ scope # Background0 /\ sync.scanning \ {b} \subseteq sync.scanning
      /\ \A c \in sync.scanning \ (sync.scanning \ {b}) : scope = Planning(c)
  BY <1>2, Scopes
<1>4. Going(WorkNow \ {scope}, tasks, Tail(internal), cancelled \ {scope}, sync.scanning \ {b})
  BY <1>1, <1>3, RunsParts, TakeGoes
<1>5. WorkNow \ {Planning(b)} = Work(DOMAIN planning \ {b}, transfers.running)
  BY Scopes DEF WorkNow
<1> QED
  BY <1>1, <1>2, <1>4, <1>5

(* ... a notice *)
LEMMA NoticeTaken ==
    ASSUME Runs, Received, Head(internal).scope = Background0,
           UNCHANGED <<sessions, transfers, planning, reviews, sync, cancelled, tasks>>
    PROVE  RunsOn
<1>1. Background0 \notin WorkNow
  BY Scopes DEF WorkNow
<1>2. internal # <<>> /\ internal' = Tail(internal)
  BY DEF Received
<1>3. Going(WorkNow, tasks, Tail(internal), cancelled, sync.scanning)
  BY <1>1, <1>2, RunsParts, TakeNoticeGoes
<1> QED
  BY <1>2, <1>3, Along

---------------------------------------------------------------------------
(* the handlers of the results of transfers *)
LEMMA EndsAs ==
    ASSUME Runs, NEW id \in transfers.running, NEW st \in {"Completed", "Failed", "Cancelled"},
           NEW q, q = SetStatus(transfers, {id} \cap DOMAIN transfers.jobs, st),
           NEW marks, marks = cancelled \ {Transfer(id)},
           st = "Failed" => Transfer(id) \notin cancelled,
           st = "Cancelled" => Transfer(id) \in cancelled
    PROVE  /\ MovedTo(transfers, {id}, st, q)
           /\ Held(q, sessions, marks, planning, reviews, sync)
           /\ q.running = transfers.running \ {id}
           /\ Moves(transfers, q, sessions, sessions, cancelled, marks)
<1> DEFINE S == {id}
<1>1. S \in SUBSET DOMAIN transfers.jobs /\ transfers.jobs[id].status = "InProgress"
  BY RunsParts, Indexed
<1>2. {id} \cap DOMAIN transfers.jobs = S
  BY <1>1
<1> HIDE DEF S
<1>3. MovedTo(transfers, S, st, q)
  BY <1>1, <1>2, RunsParts, SetStatusMoves DEF JobStatus
<1>4. q.running = transfers.running \ S
  BY ONLY <1>3, <1>1, RunsParts, Runs, st \in {"Completed", "Failed", "Cancelled"}
     DEF MovedTo, SameJobs, QueueOK, IndexesMatch, WithStatus
<1>5. \A i \in transfers.running \ S : Transfer(i) \in cancelled => Transfer(i) \in marks
  BY Scopes DEF S
<1>6. Held(q, sessions, marks, planning, reviews, sync)
  <2>1. \A i \in transfers.queued \ S : transfers.jobs[i].session \in sessions
    BY RunsParts DEF JobsHeld
  <2>2. \A i \in transfers.running \ S : transfers.jobs[i].session \in sessions \/ Transfer(i) \in marks
    BY <1>5, RunsParts DEF JobsHeld
  <2>3. Held(transfers, sessions, cancelled, planning, reviews, sync) /\ st # "InProgress" /\ st # "Queued"
    BY RunsParts
  <2> QED
    BY ONLY <1>1, <1>3, <2>1, <2>2, <2>3, HeldBy
<1>7. Moves(transfers, q, sessions, sessions, cancelled, marks)
  <2>1. ASSUME NEW i \in S PROVE JobMove(transfers, q, i, sessions, sessions, cancelled, marks)
    <3>1. i = id /\ i \in DOMAIN transfers.jobs /\ i \in DOMAIN q.jobs /\ q.jobs[i].status = st
      BY <1>1, <1>3 DEF MovedTo, SameJobs, S
    <3> QED
      BY <1>1, <3>1 DEF JobMove
  <2> QED
    BY <1>1, <1>3, <1>5, <2>1, RunsParts, MovesBy
<1> QED
  BY <1>3, <1>4, <1>6, <1>7 DEF S

LEMMA FinishedRuns ==
    ASSUME Runs, Received, UNCHANGED sessions,
           NEW scope, scope = Head(internal).scope, scope[1] = "Transfer", NEW id, id = scope[2],
           NEW status \in {"Completed", "Cancelled"}, Finished(id, status),
           status = "Cancelled" => scope \in cancelled
    PROVE  RunsOn
<1> DEFINE q == SetStatus(transfers, {id} \cap DOMAIN transfers.jobs, status)
<1>1. /\ scope = Transfer(id) /\ id \in transfers.running /\ id \in DOMAIN transfers.jobs
      /\ Going(Work(DOMAIN planning, transfers.running \ {id}), tasks, internal',
               cancelled \ {Transfer(id)}, sync.scanning)
  BY AttemptEnds
<1>2. /\ cancelled' = cancelled \ {Transfer(id)}
      /\ UNCHANGED <<planning, reviews, sync>>
      /\ \E st : Fill(q, st)
  BY DEF Finished, Forget, scans
<1>3. /\ Held(q, sessions, cancelled', planning, reviews, sync)
      /\ q.running = transfers.running \ {id}
      /\ Moves(transfers, q, sessions, sessions, cancelled, cancelled')
  <2>1. /\ status \in {"Completed", "Failed", "Cancelled"} /\ status # "Failed"
        /\ status = "Cancelled" => Transfer(id) \in cancelled
        /\ q = SetStatus(transfers, {id} \cap DOMAIN transfers.jobs, status)
    BY <1>1
  <2> HIDE DEF q
  <2> QED
    BY ONLY Runs, <1>1, <1>2, <2>1, EndsAs
<1> HIDE DEF q
<1> QED
  BY <1>1, <1>2, <1>3, RunsParts, Fills

LEMMA FailedRuns ==
    ASSUME Runs, Received, UNCHANGED sessions,
           NEW scope, scope = Head(internal).scope, scope[1] = "Transfer", NEW id, id = scope[2],
           Failed(id)
    PROVE  RunsOn
<1> DEFINE asked == Transfer(id) \in cancelled
           st == IF asked THEN "Cancelled" ELSE "Failed"
           q == SetStatus(transfers, {id} \cap DOMAIN transfers.jobs, st)
           retried == ~asked /\ CanRetry(q, id)
           r == RetryOrGiveUp(q, id)
<1>1. /\ scope = Transfer(id) /\ id \in transfers.running /\ id \in DOMAIN transfers.jobs
      /\ Going(Work(DOMAIN planning, transfers.running \ {id}), tasks, internal',
               cancelled \ {Transfer(id)}, sync.scanning)
  BY AttemptEnds
<1>2. /\ cancelled' = cancelled \ {Transfer(id)}
      /\ UNCHANGED <<planning, reviews, sync>>
      /\ IF retried THEN \E s : Fill(r, s) ELSE \E s : Fill(q, s)
  BY DEF Failed, Forget, scans
<1>3. /\ MovedTo(transfers, {id}, st, q)
      /\ Held(q, sessions, cancelled', planning, reviews, sync)
      /\ q.running = transfers.running \ {id}
      /\ Moves(transfers, q, sessions, sessions, cancelled, cancelled')
  BY <1>1, <1>2, EndsAs
<1>4. CASE ~retried
  <2> HIDE DEF q, r
  <2> QED
    BY <1>1, <1>2, <1>3, <1>4, RunsParts, Fills
<1>5. CASE retried
  <2> DEFINE S == {id}
  <2>1. /\ transfers.jobs[id].status = "InProgress" /\ S \in SUBSET DOMAIN transfers.jobs
        /\ transfers.jobs[id].session \in sessions
    BY <1>1, <1>5, RunsParts, Indexed DEF JobsHeld
  <2>2. CanRetry(q, id) /\ QueueOK(q)
    BY <1>3, <1>5 DEF MovedTo
  <2> HIDE DEF q, S, st
  <2>3. MovedTo(q, S, "Queued", r)
    BY <2>2, RetryOrGiveUpMoves DEF S
  <2> HIDE DEF r
  <2>4. MovedTo(transfers, S, "Queued", r)
    BY <1>3, <2>3 DEF MovedTo, SameJobs, S
  <2>5. r.running = transfers.running \ {id}
    BY ONLY <2>1, <2>4, RunsParts, Runs DEF MovedTo, SameJobs, QueueOK, IndexesMatch, WithStatus, S
  <2>6. \A i \in transfers.running \ S : Transfer(i) \in cancelled => Transfer(i) \in cancelled'
    BY <1>2, Scopes DEF S
  <2>7. Held(r, sessions, cancelled', planning, reviews, sync)
    <3>1. \A i \in transfers.queued \ S : transfers.jobs[i].session \in sessions
      BY RunsParts DEF JobsHeld
    <3>2. \A i \in transfers.running \ S : transfers.jobs[i].session \in sessions \/ Transfer(i) \in cancelled'
      BY <2>6, RunsParts DEF JobsHeld
    <3>3. Held(transfers, sessions, cancelled, planning, reviews, sync)
          /\ \A i \in S : transfers.jobs[i].session \in sessions
      BY <2>1, RunsParts DEF S
    <3> QED
      BY ONLY <2>1, <2>4, <3>1, <3>2, <3>3, HeldBy
  <2>8. Moves(transfers, r, sessions, sessions, cancelled, cancelled')
    <3>1. ASSUME NEW i \in S PROVE JobMove(transfers, r, i, sessions, sessions, cancelled, cancelled')
      <4>1. i = id /\ i \in DOMAIN transfers.jobs /\ i \in DOMAIN r.jobs /\ r.jobs[i].status = "Queued"
        BY <2>1, <2>4 DEF MovedTo, SameJobs, S
      <4> QED
        BY <1>5, <2>1, <4>1 DEF JobMove
    <3> QED
      BY <2>1, <2>4, <2>6, <3>1, RunsParts, MovesBy
  <2> QED
    BY <1>1, <1>2, <1>5, <2>5, <2>7, <2>8, RunsParts, Fills
<1> QED
  BY <1>4, <1>5

---------------------------------------------------------------------------
(* the handlers of the results of scans *)
LEMMA ScanMarks ==
    ASSUME Runs, NEW b, NEW marks, marks = cancelled \ {Planning(b)}
    PROVE  MarksOver(transfers, cancelled, marks)
  BY RunsParts, Scopes DEF WorkNow, MarksOver

(* a scan that ends without files to copy *)
LEMMA DropScanHeld ==
    ASSUME Runs, NEW b \in DOMAIN planning, DropScan(b), UNCHANGED reviews,
           NEW syn2, syn2.scanning = sync.scanning \ {b}, syn2.plans = sync.plans,
           NEW q, q = ForgetEmpty(transfers, {b})
    PROVE  /\ Settle(q) /\ UNCHANGED tasks
           /\ cancelled' = cancelled \ {Planning(b)} /\ DOMAIN planning' = DOMAIN planning \ {b}
           /\ Held(q, sessions, cancelled', planning', reviews, syn2)
           /\ q.running = transfers.running
           /\ IsStartable(q, {})
           /\ Moves(transfers, q, sessions, sessions, cancelled, cancelled')
<1>1. /\ Settle(q) /\ UNCHANGED tasks
      /\ cancelled' = cancelled \ {Planning(b)}
      /\ DOMAIN planning' = DOMAIN planning \ {b}
  BY DEF DropScan, ClearPlanning, Forget, Without
<1>2. Over(b, planning, reviews, sync, planning', reviews, syn2)
  BY <1>1, RunsParts DEF Over, BatchesHeld
<1>3. MarksOver(transfers, cancelled, cancelled')
  BY <1>1, ScanMarks
<1>4. /\ Held(q, sessions, cancelled', planning', reviews, syn2)
      /\ q.running = transfers.running
      /\ SameIndexes(transfers, q)
      /\ Moves(transfers, q, sessions, sessions, cancelled, cancelled')
  <2>1. Held(transfers, sessions, cancelled, planning, reviews, sync)
    BY RunsParts
  <2> QED
    BY ONLY <1>2, <1>3, <2>1, q = ForgetEmpty(transfers, {b}), ScanOver
<1>5. IsStartable(q, {})
  <2>1. q.jobs = transfers.jobs /\ q.queued = transfers.queued
    BY <1>4 DEF SameIndexes
  <2> QED
    BY <1>4, <2>1, RunsParts, RestKept
<1> QED
  BY <1>1, <1>4, <1>5

LEMMA DropScanRuns ==
    ASSUME Runs, Received, UNCHANGED <<sessions, reviews>>,
           NEW scope, scope = Head(internal).scope, scope[1] = "Planning", NEW b, b = scope[2],
           DropScan(b), sync'.scanning = sync.scanning \ {b}, sync'.plans = sync.plans
    PROVE  RunsOn
<1> DEFINE q == ForgetEmpty(transfers, {b})
<1>1. /\ b \in DOMAIN planning
      /\ Going(Work(DOMAIN planning \ {b}, transfers.running), tasks, internal',
               cancelled \ {Planning(b)}, sync.scanning \ {b})
  BY ScanEnds
<1>2. /\ Settle(q) /\ UNCHANGED tasks
      /\ cancelled' = cancelled \ {Planning(b)} /\ DOMAIN planning' = DOMAIN planning \ {b}
      /\ Held(q, sessions, cancelled', planning', reviews, sync')
      /\ q.running = transfers.running
      /\ IsStartable(q, {})
      /\ Moves(transfers, q, sessions, sessions, cancelled, cancelled')
  BY <1>1, DropScanHeld
<1> HIDE DEF q
<1> QED
  BY <1>1, <1>2, RunsParts, Settles

LEMMA SyncEndedRuns ==
    ASSUME Runs, Received, UNCHANGED sessions,
           NEW scope, scope = Head(internal).scope, scope[1] = "Planning", NEW b, b = scope[2],
           SyncEnded(b)
    PROVE  RunsOn
<1>1. sync'.scanning = sync.scanning \ {b} /\ sync'.plans = sync.plans
  BY RunsParts DEF SyncEnded
<1> QED
  BY <1>1, DropScanRuns DEF SyncEnded

(* ... with a plan for the user *)
LEMMA SyncPlanReadyRuns ==
    ASSUME Runs, Received, UNCHANGED sessions, NEW result, result = Head(internal),
           NEW scope, scope = result.scope, scope[1] = "Planning", NEW b, b = scope[2],
           SyncPlanReady(b, result), result.plan.uploads \in Files /\ result.plan.downloads \in Files
    PROVE  RunsOn
<1>1. CASE SyncEnded(b)
  BY <1>1, SyncEndedRuns
<1>2. CASE ~SyncEnded(b)
  <2> DEFINE show == /\ result.session \in sessions
                     /\ result.plan.uploads # <<>> \/ result.plan.downloads # <<>>
             plan == [session |-> result.session, uploads |-> result.plan.uploads,
                      downloads |-> result.plan.downloads]
             q == ForgetEmpty(transfers, {b})
             syn2 == [scanning |-> sync.scanning \ {b}, plans |-> sync.plans]
  <2>1. /\ DropScan(b) /\ UNCHANGED reviews
        /\ sync' = [scanning |-> sync.scanning \ {b},
                    plans |-> IF show THEN With(sync.plans, b, plan) ELSE sync.plans]
    BY <1>2 DEF SyncPlanReady
  <2>2. /\ b \in DOMAIN planning
        /\ Going(Work(DOMAIN planning \ {b}, transfers.running), tasks, internal',
                 cancelled \ {Planning(b)}, sync.scanning \ {b})
    BY ScanEnds
  <2>3. syn2.scanning = sync.scanning \ {b} /\ syn2.plans = sync.plans
    OBVIOUS
  <2>4. /\ sync'.scanning = syn2.scanning
        /\ DOMAIN sync'.plans \subseteq DOMAIN sync.plans \cup {b}
        /\ \A c \in DOMAIN sync'.plans : \/ c \in DOMAIN sync.plans /\ sync'.plans[c] = sync.plans[c]
                                         \/ sync'.plans[c] = plan
    BY <2>1 DEF With
  <2>5. plan.uploads \in Files /\ plan.downloads \in Files
    OBVIOUS
  <2> HIDE DEF syn2, plan, show
  <2>6. /\ Settle(q) /\ UNCHANGED tasks
        /\ cancelled' = cancelled \ {Planning(b)} /\ DOMAIN planning' = DOMAIN planning \ {b}
        /\ Held(q, sessions, cancelled', planning', reviews, syn2)
        /\ q.running = transfers.running
        /\ IsStartable(q, {})
        /\ Moves(transfers, q, sessions, sessions, cancelled, cancelled')
    BY ONLY Runs, <2>1, <2>2, <2>3, DropScanHeld
  <2>7. q.nextBatch = transfers.nextBatch
    BY RunsParts, MarksSee
  <2> HIDE DEF q
  <2>8. BatchesHeld(q, planning', reviews, sync')
    <3>1. b \in 0..(q.nextBatch - 1) /\ b \notin DOMAIN planning'
      BY <2>2, <2>6, <2>7, RunsParts DEF BatchesHeld
    <3>2. BatchesHeld(q, planning', reviews, syn2)
      BY <2>6 DEF Held
    <3> QED
      BY ONLY <2>3, <2>4, <2>6, <3>1, <3>2 DEF BatchesHeld
  <2>9. PlansHeld(reviews, sync')
    BY <2>4, <2>5, RunsParts DEF PlansHeld
  <2>10. Held(q, sessions, cancelled', planning', reviews, sync')
    BY <2>6, <2>8, <2>9 DEF Held
  <2> QED
    BY <2>1, <2>2, <2>3, <2>4, <2>6, <2>10, RunsParts, Settles
<1> QED
  BY <1>1, <1>2

(* apply_plan_ready, at the end of a scan *)
LEMMA ApplyRuns ==
    ASSUME Runs, Received, UNCHANGED <<sessions, reviews>>, NEW result, result = Head(internal),
           NEW scope, scope = result.scope, scope[1] = "Planning", NEW b, b = scope[2],
           result.session \in sessions, result.direction \in Direction, result.plan.files \in Files,
           ClearPlanning(b), Forget(Planning(b)),
           ApplyPlan(transfers, b, result.session, result.direction, result.plan.files),
           sync'.scanning = sync.scanning \ {b}, sync'.plans = sync.plans
    PROVE  RunsOn
<1> DEFINE q == ForgetEmpty(Enqueue(transfers, result.session, result.direction, result.plan.files, b), {b})
<1>1. /\ b \in DOMAIN planning
      /\ Going(Work(DOMAIN planning \ {b}, transfers.running), tasks, internal',
               cancelled \ {Planning(b)}, sync.scanning \ {b})
  BY ScanEnds
<1>2. DOMAIN planning' = DOMAIN planning \ {b} /\ cancelled' = cancelled \ {Planning(b)}
      /\ \E st : Fill(q, st)
  BY DEF ClearPlanning, Forget, Without, ApplyPlan
<1>3. Over(b, planning, reviews, sync, planning', reviews', sync')
  <2>1. b \notin DOMAIN reviews /\ reviews' = reviews
    BY <1>1, RunsParts DEF BatchesHeld
  <2>2. DOMAIN reviews' = DOMAIN reviews \ {b} /\ \A c \in DOMAIN reviews' : reviews'[c] = reviews[c]
    BY <2>1
  <2> QED
    BY <1>1, <1>2, <2>2 DEF Over
<1>4. MarksOver(transfers, cancelled, cancelled')
  BY <1>2, ScanMarks
<1>5. /\ Held(q, sessions, cancelled', planning', reviews', sync')
      /\ q.running = transfers.running
      /\ Moves(transfers, q, sessions, sessions, cancelled, cancelled')
  <2>1. Held(transfers, sessions, cancelled, planning, reviews, sync) /\ sessions \in SUBSET Sessions
        /\ result.session \in sessions /\ result.direction \in Direction /\ result.plan.files \in Files
    BY RunsParts
  <2> QED
    BY ONLY <1>3, <1>4, <2>1, PlanApplied
<1> HIDE DEF q
<1> QED
  BY <1>1, <1>2, <1>5, RunsParts, Fills

(* a plan that waits for answers: the scan becomes a review *)
LEMMA AsksRuns ==
    ASSUME Runs, Received, UNCHANGED <<sessions, sync, tasks>>, NEW result, result = Head(internal),
           NEW scope, scope = result.scope, scope[1] = "Planning", NEW b, b = scope[2],
           b \notin sync.scanning,
           result.direction \in Direction, result.plan.files \in Files,
           ClearPlanning(b), Forget(Planning(b)), Settle(transfers),
           reviews' = With(reviews, b, [session |-> result.session, direction |-> result.direction,
                                        files |-> result.plan.files])
    PROVE  RunsOn
<1> DEFINE review == [session |-> result.session, direction |-> result.direction, files |-> result.plan.files]
<1>1. /\ b \in DOMAIN planning
      /\ Going(Work(DOMAIN planning \ {b}, transfers.running), tasks, internal',
               cancelled \ {Planning(b)}, sync.scanning \ {b})
  BY ScanEnds
<1>2. sync.scanning \ {b} = sync.scanning
  OBVIOUS
<1>3. DOMAIN planning' = DOMAIN planning \ {b} /\ cancelled' = cancelled \ {Planning(b)}
  BY DEF ClearPlanning, Forget, Without
<1>4. /\ DOMAIN reviews' = DOMAIN reviews \cup {b}
      /\ \A c \in DOMAIN reviews' : \/ c \in DOMAIN reviews /\ reviews'[c] = reviews[c]
                                    \/ reviews'[c] = review
  BY DEF With
<1>5. review.direction \in Direction /\ review.files \in Files
  OBVIOUS
<1> HIDE DEF review
<1>6. BatchesHeld(transfers, planning', reviews', sync)
  BY ONLY <1>1, <1>3, <1>4, b \notin sync.scanning, Runs, RunsParts DEF BatchesHeld
<1>7. PlansHeld(reviews', sync)
  BY <1>4, <1>5, RunsParts DEF PlansHeld
<1>8. JobsHeld(transfers, sessions, cancelled')
  <2>1. \A id : Transfer(id) \in cancelled => Transfer(id) \in cancelled'
    BY <1>3, Scopes
  <2> QED
    BY <2>1, RunsParts DEF JobsHeld
<1>9. Held(transfers, sessions, cancelled', planning', reviews', sync)
  BY <1>6, <1>7, <1>8, RunsParts DEF Held
<1>10. Moves(transfers, transfers, sessions, sessions, cancelled, cancelled')
  <2>1. \A id \in transfers.running : Transfer(id) \in cancelled => Transfer(id) \in cancelled'
    BY <1>3, Scopes
  <2> QED
    BY <2>1, RunsParts, MovesNot
<1> QED
  BY <1>1, <1>2, <1>3, <1>9, <1>10, RunsParts, Settles

LEMMA PlanReadyRuns ==
    ASSUME Runs, Received, UNCHANGED sessions, NEW result, result = Head(internal),
           NEW scope, scope = result.scope, scope[1] = "Planning", NEW b, b = scope[2],
           b \notin sync.scanning,
           result.direction \in Direction, result.plan.files \in Files, PlanReady(b, result)
    PROVE  RunsOn
<1>1. sync' = sync /\ sync.scanning \ {b} = sync.scanning
  BY DEF PlanReady
<1>2. CASE result.session \notin sessions
  <2>1. DropScan(b) /\ UNCHANGED reviews
    BY <1>2 DEF PlanReady
  <2> QED
    BY <1>1, <2>1, DropScanRuns
<1>3. CASE result.session \in sessions /\ result.plan.asks
  <2>1. /\ ClearPlanning(b) /\ Forget(Planning(b)) /\ Settle(transfers) /\ UNCHANGED tasks
        /\ reviews' = With(reviews, b, [session |-> result.session, direction |-> result.direction,
                                        files |-> result.plan.files])
    BY <1>3 DEF PlanReady
  <2> QED
    BY <1>1, <2>1, AsksRuns
<1>4. CASE result.session \in sessions /\ ~result.plan.asks
  <2>1. /\ ClearPlanning(b) /\ Forget(Planning(b)) /\ UNCHANGED reviews
        /\ ApplyPlan(transfers, b, result.session, result.direction, result.plan.files)
    BY <1>4 DEF PlanReady
  <2> QED
    BY <1>1, <1>4, <2>1, ApplyRuns
<1> QED
  BY <1>2, <1>3, <1>4

LEMMA SyncFoldersReadyRuns ==
    ASSUME Runs, Received, UNCHANGED sessions, NEW result, result = Head(internal),
           NEW scope, scope = result.scope, scope[1] = "Planning", NEW b, b = scope[2],
           b \in sync.scanning,
           result.direction \in Direction, result.plan.files \in Files, SyncFoldersReady(b, result)
    PROVE  RunsOn
<1>1. CASE SyncEnded(b)
  BY <1>1, SyncEndedRuns
<1>2. CASE ~SyncEnded(b)
  <2>1. /\ ClearPlanning(b) /\ Forget(Planning(b)) /\ UNCHANGED reviews
        /\ ApplyPlan(transfers, b, result.session, result.direction, result.plan.files)
        /\ result.session \in sessions
        /\ sync' = [sync EXCEPT !.scanning = @ \ {b}]
    BY <1>2 DEF SyncFoldersReady
  <2>2. sync'.scanning = sync.scanning \ {b} /\ sync'.plans = sync.plans
    BY <2>1, RunsParts
  <2> QED
    BY <2>1, <2>2, ApplyRuns
<1> QED
  BY <1>1, <1>2

(* the scan of a copy that ends without files *)
LEMMA CopyScanEndsRuns ==
    ASSUME Runs, Received, UNCHANGED sessions,
           NEW scope, scope = Head(internal).scope, scope[1] = "Planning", NEW b, b = scope[2],
           b \notin sync.scanning, DropScan(b), UNCHANGED <<reviews, sync>>
    PROVE  RunsOn
<1>1. sync'.scanning = sync.scanning \ {b} /\ sync'.plans = sync.plans
  OBVIOUS
<1> QED
  BY <1>1, DropScanRuns

LEMMA PanickedRuns ==
    ASSUME Runs, Received, UNCHANGED sessions, NEW scope, scope = Head(internal).scope, Panicked(scope)
    PROVE  RunsOn
<1>1. scope \in WorkNow \cup {Background0} /\ (scope = Background0 \/ scope[1] \in {"Planning", "Transfer"})
  BY HeadHeld
<1>2. CASE scope = Background0
  <2>1. UNCHANGED <<sessions, transfers, planning, reviews, sync, cancelled, tasks>>
    BY <1>2 DEF Panicked, Background0, scans
  <2> QED
    BY <1>2, <2>1, NoticeTaken
<1>3. CASE scope[1] = "Transfer"
  <2>1. scope[2] \in transfers.running
    BY <1>3, AttemptEnds
  <2>2. Failed(scope[2])
    BY <1>3, <2>1 DEF Panicked
  <2> QED
    BY <1>3, <2>2, FailedRuns
<1>4. CASE scope[1] = "Planning"
  <2>1. scope[2] \in DOMAIN planning
    BY <1>4, ScanEnds
  <2>2. CASE scope[2] \in sync.scanning
    <3>1. SyncEnded(scope[2])
      BY <1>4, <2>2 DEF Panicked
    <3> QED
      BY <1>4, <3>1, SyncEndedRuns
  <2>3. CASE scope[2] \notin sync.scanning
    <3>1. DropScan(scope[2]) /\ UNCHANGED <<reviews, sync>>
      BY <1>4, <2>1, <2>3 DEF Panicked, PlanFailed
    <3> QED
      BY <1>4, <2>3, <3>1, CopyScanEndsRuns
  <2> QED
    BY <2>2, <2>3
<1> QED
  BY <1>1, <1>2, <1>3, <1>4

LEMMA HandleInternalRuns ==
    ASSUME Runs, HandleInternal
    PROVE  RunsOn
<1> DEFINE result == Head(internal)
           scope == result.scope
           on == scope[2]
<1>1. Received /\ UNCHANGED sessions /\ Handle(result)
  BY DEF HandleInternal
<1>2. ResultHeld(result, sync.scanning, cancelled)
      /\ (scope = Background0 \/ scope[1] \in {"Planning", "Transfer"})
  BY <1>1, HeadHeld
<1>3. Background0[1] = "Background"
  BY DEF Background0
<1>4. CASE result.what = "Panicked"
  <2>1. Panicked(scope)
    BY <1>1, <1>4 DEF Handle
  <2> QED
    BY <1>1, <2>1, PanickedRuns
<1>5. CASE result.what = "PartialsRemoved"
  <2>1. UNCHANGED <<transfers, planning, reviews, sync, tasks, cancelled>> /\ scope = Background0
    BY <1>1, <1>2, <1>5 DEF Handle, PartialsRemoved, scans, ResultHeld
  <2> QED
    BY <1>1, <2>1, NoticeTaken
<1>6. CASE scope[1] = "Transfer" /\ result.what # "Panicked"
  <2>1. result.what \in {"Completed", "Cancelled", "Failed"} /\ (result.what = "Cancelled" => scope \in cancelled)
    BY <1>2, <1>3, <1>6 DEF ResultHeld
  <2>2. CASE result.what = "Completed"
    <3>1. Finished(on, "Completed")
      BY <1>1, <2>2 DEF Handle
    <3> QED
      BY <1>1, <1>6, <3>1, FinishedRuns
  <2>3. CASE result.what = "Cancelled"
    <3>1. Finished(on, "Cancelled")
      BY <1>1, <2>3 DEF Handle
    <3> QED
      BY <1>1, <1>6, <2>1, <2>3, <3>1, FinishedRuns
  <2>4. CASE result.what = "Failed"
    <3>1. Failed(on)
      BY <1>1, <2>4 DEF Handle
    <3> QED
      BY <1>1, <1>6, <3>1, FailedRuns
  <2> QED
    BY <2>1, <2>2, <2>3, <2>4
<1>7. CASE scope[1] = "Planning" /\ on \notin sync.scanning /\ result.what # "Panicked"
  <2>1. /\ result.what \in {"PlanReady", "PlanCancelled", "PlanFailed"}
        /\ result.what = "PlanReady" => result.direction \in Direction /\ result.plan.files \in Files
    BY <1>2, <1>3, <1>7 DEF ResultHeld
  <2>2. CASE result.what = "PlanReady"
    <3>1. PlanReady(on, result)
      BY <1>1, <2>2 DEF Handle
    <3> QED
      BY <1>1, <1>7, <2>1, <2>2, <3>1, PlanReadyRuns
  <2>3. CASE result.what \in {"PlanCancelled", "PlanFailed"}
    <3>1. DropScan(on) /\ UNCHANGED <<reviews, sync>>
      BY <1>1, <2>3 DEF Handle, PlanCancelled, PlanFailed
    <3> QED
      BY <1>1, <1>7, <3>1, CopyScanEndsRuns
  <2> QED
    BY <2>1, <2>2, <2>3
<1>8. CASE scope[1] = "Planning" /\ on \in sync.scanning /\ result.what # "Panicked"
  <2>1. /\ result.what \in {"SyncPlanReady", "SyncFoldersReady", "SyncCancelled", "SyncFailed"}
        /\ result.what = "SyncPlanReady" => result.plan.uploads \in Files /\ result.plan.downloads \in Files
        /\ result.what = "SyncFoldersReady" => result.direction \in Direction /\ result.plan.files \in Files
    BY <1>2, <1>3, <1>8 DEF ResultHeld
  <2>2. CASE result.what = "SyncPlanReady"
    <3>1. SyncPlanReady(on, result)
      BY <1>1, <2>2 DEF Handle
    <3> QED
      BY <1>1, <1>8, <2>1, <2>2, <3>1, SyncPlanReadyRuns
  <2>3. CASE result.what = "SyncFoldersReady"
    <3>1. SyncFoldersReady(on, result)
      BY <1>1, <2>3 DEF Handle
    <3> QED
      BY <1>1, <1>8, <2>1, <2>3, <3>1, SyncFoldersReadyRuns
  <2>4. CASE result.what \in {"SyncCancelled", "SyncFailed"}
    <3>1. SyncEnded(on)
      BY <1>1, <2>4 DEF Handle
    <3> QED
      BY <1>1, <1>8, <3>1, SyncEndedRuns
  <2> QED
    BY <2>1, <2>2, <2>3, <2>4
<1>9. scope = Background0 => result.what \in {"PartialsRemoved", "Panicked"}
  BY <1>2, <1>3 DEF ResultHeld
<1> QED
  BY <1>2, <1>4, <1>5, <1>6, <1>7, <1>8, <1>9

---------------------------------------------------------------------------
(* the whole engine *)
JobsMove == Moves(transfers, transfers', sessions, sessions', cancelled, cancelled')

LEMMA CommandRuns ==
    ASSUME Runs, Command
    PROVE  RunsOn
  BY CopyRuns, ResolveRuns, DeclineRuns, CancelScanRuns, CancelRowRuns, RetryRowRuns, CancelAllRuns,
     ClearFinishedRuns, StartSyncRuns, DisconnectRuns, RunSyncRuns, CancelSyncRuns DEF Command

LEMMA BackgroundRuns ==
    ASSUME Runs, Background
    PROVE  RunsOn
  BY TaskEndsRuns, RemovalRuns DEF Background

(* once the loop has ended, nothing of it moves any more *)
LEMMA StillHeld ==
    ASSUME IInv, UNCHANGED <<sessions, transfers, planning, reviews, sync>>, cancelled \subseteq cancelled'
    PROVE  JobsMove /\ sessions' \subseteq Sessions
           /\ Held(transfers', sessions', cancelled', planning', reviews', sync')
<1>1. /\ QueueOK(transfers) /\ JobsHeld(transfers, sessions, cancelled)
      /\ BatchesHeld(transfers, planning, reviews, sync) /\ PlansHeld(reviews, sync)
      /\ sessions \subseteq Sessions
  BY DEF IInv, Held
<1>2. JobsHeld(transfers, sessions, cancelled')
  BY <1>1 DEF JobsHeld
<1>3. Moves(transfers, transfers, sessions, sessions, cancelled, cancelled')
  BY <1>1, MovesNot
<1> QED
  BY <1>1, <1>2, <1>3 DEF JobsMove, Held

LEMMA NextRuns ==
    ASSUME IInv, [Next]_vars
    PROVE  IInv' /\ JobsMove
<1>1. EngineIInv'
  BY NextKeeps DEF IInv
<1>2. phase = "running" => Runs
  BY DEF IInv, Runs, WorkNow
<1>3. ASSUME RunsOn, UNCHANGED phase PROVE IInv' /\ JobsMove
  BY <1>1, <1>3 DEF RunsOn, IInv, JobsMove, WorkNow
<1>4. CASE UNCHANGED vars
  <2>1. JobsMove
    BY <1>4, StillHeld DEF vars
  <2> QED
    BY <1>1, <1>4, <2>1 DEF vars, IInv, WorkNow
<1>5. CASE FinishConnect
  BY <1>2, <1>3, <1>5, FinishConnectRuns DEF FinishConnect
<1>6. CASE Command
  <2>1. phase = "running" /\ UNCHANGED phase
    BY <1>6 DEF Command, Sent, Copy, ResolveConflicts, DeclineConflicts, CancelScan, CancelRow, RetryRow,
       CancelAll, ClearFinished, StartSync, Disconnect, RunSync, CancelSyncScan, CancelSyncPlan
  <2> QED
    BY <1>2, <1>3, <1>6, <2>1, CommandRuns
<1>7. CASE Background
  <2>1. UNCHANGED <<phase, sessions, transfers, planning, reviews, sync, cancelled>>
    BY <1>7 DEF Background, TaskEnds, RemovePart, RemovalPanics, scans
  <2>2. CASE phase = "running"
    BY <1>2, <1>3, <1>7, <2>1, <2>2, BackgroundRuns
  <2>3. CASE phase # "running"
    BY <1>1, <2>1, <2>3, StillHeld DEF IInv
  <2> QED
    BY <2>2, <2>3
<1>8. CASE HandleInternal
  BY <1>2, <1>3, <1>8, HandleInternalRuns DEF HandleInternal, Received
<1>9. CASE Stop
  <2>1. /\ UNCHANGED <<sessions, transfers, planning, reviews, sync>> /\ cancelled \subseteq cancelled'
        /\ phase' # "running"
    BY <1>9 DEF Stop, Shutdown, DropLate, StopTasks, DropEngine, scans
  <2> QED
    BY <1>1, <2>1, StillHeld DEF IInv
<1> QED
  BY <1>4, <1>5, <1>6, <1>7, <1>8, <1>9 DEF Next

LEMMA InitRuns ==
    ASSUME Init
    PROVE  IInv
<1>1. EngineIInv
  <2>1. internal \in Seq({})
    BY DEF Init
  <2> QED
    BY <2>1 DEF Init, EngineIInv, TasksKnown, ResultsKnown, Tables, FrontEndKnows
<1>2. /\ transfers = NewQueue /\ sessions = {} /\ cancelled = {} /\ internal = <<>>
      /\ DOMAIN planning = {} /\ DOMAIN reviews = {} /\ DOMAIN tasks = {}
      /\ sync.scanning = {} /\ DOMAIN sync.plans = {}
  BY DEF Init
<1>3. /\ DOMAIN transfers.jobs = {} /\ transfers.queued = {} /\ transfers.running = {}
      /\ transfers.batchLabels = {} /\ DOMAIN transfers.batchRow = {} /\ transfers.nextBatch = 0
  BY <1>2 DEF NewQueue
<1>4. QueueOK(transfers)
  BY <1>2, NewQueueOK
<1>5. Held(transfers, sessions, cancelled, planning, reviews, sync)
  BY <1>2, <1>3, <1>4 DEF Held, JobsHeld, BatchesHeld, PlansHeld
<1>6. WorkNow = {}
  BY <1>2, <1>3 DEF WorkNow, Work
<1>7. Going(WorkNow, tasks, internal, cancelled, sync.scanning)
  <2>1. internal \in Seq({})
    BY <1>2
  <2> QED
    BY <1>2, <1>6, <2>1 DEF Going, AnswersHeld
<1>8. IsStartable(transfers, {})
  <2>1. Cardinality({}) = 0 /\ FreeSlots(transfers) \in Nat
    BY <1>3, FS_EmptySet, LimitsAssumption DEF FreeSlots, SaturatingSub
  <2>2. \A s : InSession(transfers, {}, s) = {}
    BY DEF InSession
  <2> QED
    BY <1>3, <2>1, <2>2 DEF IsStartable
<1> QED
  BY <1>1, <1>2, <1>5, <1>7, <1>8 DEF IInv

(* the invariant of the engine, and how its jobs move *)
LEMMA EngineInvariant == Spec => []IInv /\ [][JobsMove]_vars
<1>1. Init => IInv
  BY InitRuns
<1>2. IInv /\ [Next]_vars => IInv' /\ JobsMove
  BY NextRuns
<1> QED
  BY <1>1, <1>2, PTL DEF Spec

(***************************************************************************)
(* What the runs check of it                                               *)
(***************************************************************************)
(* Every handler that frees a slot, a destination or a session's channel,  *)
(* or adds a job, fills the slots again: when the loop waits for its next  *)
(* command or result, the walk over the queue finds nothing to start.      *)
THEOREM WorkConservingHolds == Spec => []WorkConserving
<1>1. IInv => WorkConserving
  BY DEF IInv, WorkConserving
<1> QED
  BY <1>1, EngineInvariant, PTL

(* The marks, labels and sets the engine keeps beside the queue hold what  *)
(* goes on and nothing else, whatever command or result comes when: no     *)
(* mark of an attempt is left for the next one, no batch keeps a label     *)
(* without being a scan, a review or a row, and none is two of them.       *)
THEOREM NothingLeftOverHolds == Spec => []NothingLeftOver
<1>1. IInv => NothingLeftOver
  BY DEF IInv, Held, BatchesHeld, Going, WorkNow, NothingLeftOver, MarksHaveOwners
<1> QED
  BY <1>1, EngineInvariant, PTL

(* Every running transfer and every scan has exactly one end coming, a     *)
(* task or a result in the channel, and nothing else has one: a cancel, a  *)
(* retry or a disconnect that comes before the handling of a result leaves *)
(* no transfer without an end, and gives none a second.                    *)
THEOREM OneAnswerEachHolds == Spec => []OneAnswerEach
<1>1. ASSUME IInv, phase = "running", NEW scope, scope # Background0
      PROVE  Pending(scope) = IF scope \in WorkNow THEN 1 ELSE 0
  <2> DEFINE on == {i \in DOMAIN internal : internal[i].scope = scope}
  <2>1. AnswersHeld(tasks, internal, WorkNow)
    BY <1>1 DEF IInv, Going
  <2>2. CASE scope \in DOMAIN tasks
    <3>1. on = {} /\ scope \in WorkNow
      BY <1>1, <2>1, <2>2 DEF AnswersHeld
    <3>2. Cardinality(on) = 0
      BY <3>1, FS_EmptySet
    <3> QED
      BY <2>2, <3>1, <3>2 DEF Pending
  <2>3. CASE scope \in WorkNow \ DOMAIN tasks
    <3>1. PICK i \in DOMAIN internal : internal[i].scope = scope
      BY <2>1, <2>3 DEF AnswersHeld
    <3>2. on = {i}
      BY <1>1, <2>1, <3>1 DEF AnswersHeld
    <3>3. Cardinality(on) = 1
      BY <3>2, FS_Singleton
    <3> QED
      BY <2>3, <3>3 DEF Pending
  <2>4. CASE scope \notin WorkNow
    <3>1. on = {} /\ scope \notin DOMAIN tasks
      BY <1>1, <2>1, <2>4 DEF AnswersHeld
    <3> QED
      BY <2>4, <3>1, FS_EmptySet DEF Pending
  <2> QED
    BY <2>2, <2>3, <2>4
<1>2. IInv => OneAnswerEach
  <2> SUFFICES ASSUME IInv, phase = "running" PROVE OneAnswerEach
    BY DEF OneAnswerEach
  <2>1. \A id : Pending(Transfer(id)) = IF id \in transfers.running THEN 1 ELSE 0
    BY <1>1, Scopes DEF WorkNow
  <2>2. \A b : Pending(Planning(b)) = IF b \in DOMAIN planning THEN 1 ELSE 0
    BY <1>1, Scopes DEF WorkNow
  <2> QED
    BY <2>1, <2>2 DEF OneAnswerEach
<1> QED
  BY <1>2, EngineInvariant, PTL

---------------------------------------------------------------------------
(* The jobs of the engine live as JobLife says, whatever the tasks, the    *)
(* handlers and the channel do: in every step each job makes one of the    *)
(* moves of its life, no id is used again, and a session that goes leaves  *)
(* no job waiting and none running that was not asked to stop.             *)
LEMMA JobsLiveOn ==
    ASSUME IInv, IInv', JobsMove
    PROVE  JobsLive!Next
<1> DEFINE status == [id \in DOMAIN transfers.jobs |-> transfers.jobs[id].status]
           owner == [id \in DOMAIN transfers.jobs |-> transfers.jobs[id].session]
           asked == {id \in transfers.running : Transfer(id) \in cancelled}
<1>1. /\ QueueOK(transfers)
      /\ JobsHeld(transfers, sessions, cancelled)
  BY DEF IInv, Held
<1>2. /\ QueueOK(transfers')
      /\ JobsHeld(transfers', sessions', cancelled')
  BY DEF IInv, Held
<1>3. Moves(transfers, transfers', sessions, sessions', cancelled, cancelled')
  BY DEF JobsMove
<1>4. /\ transfers.running = {id \in DOMAIN transfers.jobs : transfers.jobs[id].status = "InProgress"}
      /\ transfers'.running = {id \in DOMAIN transfers'.jobs : transfers'.jobs[id].status = "InProgress"}
      /\ transfers'.queued = {id \in DOMAIN transfers'.jobs : transfers'.jobs[id].status = "Queued"}
      /\ \A id \in DOMAIN transfers'.jobs : id \in 0..(transfers'.nextId - 1) 
  BY <1>1, <1>2, <1>3, Indexed DEF Moves
<1>5. /\ DOMAIN status = DOMAIN transfers.jobs /\ DOMAIN owner = DOMAIN transfers.jobs
      /\ DOMAIN status' = DOMAIN transfers'.jobs /\ DOMAIN owner' = DOMAIN transfers'.jobs
      /\ \A id \in DOMAIN transfers.jobs :
           status[id] = transfers.jobs[id].status /\ owner[id] = transfers.jobs[id].session
      /\ \A id \in DOMAIN transfers'.jobs :
           status'[id] = transfers'.jobs[id].status /\ owner'[id] = transfers'.jobs[id].session
  OBVIOUS
<1>6. \A id : /\ id \in asked <=> id \in DOMAIN transfers.jobs /\ transfers.jobs[id].status = "InProgress"
                                  /\ Transfer(id) \in cancelled
              /\ id \in asked' <=> id \in DOMAIN transfers'.jobs /\ transfers'.jobs[id].status = "InProgress"
                                   /\ Transfer(id) \in cancelled'
  BY <1>4 DEF Transfer
<1>7. ASSUME NEW id \in DOMAIN status \cup DOMAIN status' PROVE JobsLive!Lives(id)
  <2>1. JobMove(transfers, transfers', id, sessions, sessions', cancelled, cancelled')
    BY <1>3, <1>5, <1>7 DEF Moves
  <2>2. id >= transfers.nextId => id \notin 0..(transfers.nextId - 1)
    BY <1>1, Indexed
  <2> HIDE DEF status, owner, asked
  <2>3. CASE id \notin DOMAIN transfers.jobs
    <3>1. JobsLive!Appears(id)
      BY <2>1, <2>2, <2>3, <1>5, <1>6
      DEF JobMove, JobsLive!Appears, JobsLive!Becomes, JobsLive!Active
    <3> QED
      BY <3>1 DEF JobsLive!Lives
  <2>4. CASE id \in DOMAIN transfers.jobs /\ id \notin DOMAIN transfers'.jobs
    <3>1. JobsLive!Cleared(id)
      BY <2>1, <2>4, <1>5 DEF JobMove, JobsLive!Cleared, JobsLive!Is
    <3> QED
      BY <3>1 DEF JobsLive!Lives
  <2>5. CASE id \in DOMAIN transfers.jobs /\ id \in DOMAIN transfers'.jobs
    <3>1. /\ id \in DOMAIN status /\ id \in DOMAIN status'
          /\ status[id] = transfers.jobs[id].status /\ owner[id] = transfers.jobs[id].session
          /\ status'[id] = transfers'.jobs[id].status
          /\ id \in asked <=> status[id] = "InProgress" /\ Transfer(id) \in cancelled
          /\ id \in asked' <=> status'[id] = "InProgress" /\ Transfer(id) \in cancelled'
      BY <2>5, <1>5, <1>6
    <3>2. \/ status[id] = "Queued" /\ status'[id] = "InProgress" /\ owner[id] \in sessions /\ id \notin asked'
          \/ status[id] = "Queued" /\ status'[id] = "Cancelled"
          \/ status[id] = "Queued" /\ status'[id] = "Failed" /\ owner[id] \notin sessions'
          \/ status[id] = "InProgress" /\ status'[id] = "Completed"
          \/ status[id] = "InProgress" /\ status'[id] = "Failed" /\ id \notin asked
          \/ status[id] = "InProgress" /\ status'[id] = "Cancelled" /\ id \in asked
          \/ status[id] = "InProgress" /\ status'[id] = "Queued" /\ id \notin asked /\ owner[id] \in sessions
          \/ status[id] \in {"Failed", "Cancelled"} /\ status'[id] \in {"Queued", "InProgress"}
                /\ owner[id] \in sessions /\ id \notin asked'
          \/ status'[id] = status[id] /\ (id \in asked => id \in asked')
      BY <2>1, <2>5, <3>1 DEF JobMove
    <3>3. /\ (status[id] = "Queued" /\ status'[id] = "InProgress" /\ owner[id] \in sessions /\ id \notin asked') => JobsLive!Starts(id)
          /\ (status[id] = "Queued" /\ status'[id] = "Cancelled") => JobsLive!Withdrawn(id)
          /\ (status[id] = "Queued" /\ status'[id] = "Failed" /\ owner[id] \notin sessions') => JobsLive!Abandoned(id)
          /\ (status[id] = "InProgress" /\ status'[id] = "Completed") => JobsLive!Completes(id)
          /\ (status[id] = "InProgress" /\ status'[id] = "Failed" /\ id \notin asked) => JobsLive!Fails(id)
          /\ (status[id] = "InProgress" /\ status'[id] = "Cancelled" /\ id \in asked) => JobsLive!Stops(id)
          /\ (status[id] = "InProgress" /\ status'[id] = "Queued" /\ id \notin asked /\ owner[id] \in sessions) => JobsLive!Again(id)
          /\ (status[id] \in {"Failed", "Cancelled"} /\ status'[id] \in {"Queued", "InProgress"} /\ owner[id] \in sessions
               /\ id \notin asked') => JobsLive!Retried(id)
          /\ (status'[id] = status[id] /\ (id \in asked => id \in asked')) => JobsLive!Stays(id)
      BY <3>1
      DEF status, owner, asked, JobsLive!Starts, JobsLive!Withdrawn, JobsLive!Abandoned, JobsLive!Completes, JobsLive!Fails, JobsLive!Stops,
          JobsLive!Again, JobsLive!Retried, JobsLive!Stays, JobsLive!Is, JobsLive!Becomes, JobsLive!Active
    <3> QED
      BY <3>2, <3>3 DEF JobsLive!Lives
  <2> QED
    BY <2>3, <2>4, <2>5
<1>8. \A id \in DOMAIN status \cap DOMAIN status' : owner'[id] = owner[id]
  BY <1>3, <1>5 DEF Moves
<1>9. asked' \subseteq {id \in DOMAIN status' : status'[id] = "InProgress"}
  BY <1>5, <1>6
<1>10. 0..(transfers'.nextId - 1) = 0..(transfers.nextId - 1) \cup DOMAIN status'
  BY <1>3, <1>5 DEF Moves
<1>11. JobsLive!LetGo
  BY <1>2, <1>4, <1>5, <1>6 DEF JobsLive!LetGo, JobsHeld
<1> QED
  BY <1>7, <1>8, <1>9, <1>10, <1>11 DEF JobsLive!Next

THEOREM ImplementsJobLifeHolds == Spec => ImplementsJobLife
<1>1. Init => JobsLive!Init
  BY DEF Init, NewQueue, JobsLive!Init
<1>2. IInv /\ IInv' /\ JobsMove => JobsLive!Next
  BY JobsLiveOn
<1>3. IInv /\ IInv' /\ (JobsMove \/ UNCHANGED vars) => [JobsLive!Next]_(JobsLive!vars)
  BY <1>2 DEF vars, JobsLive!vars
<1> QED
  BY <1>1, <1>3, EngineInvariant, PTL DEF Spec, ImplementsJobLife, JobsLive!Spec

---------------------------------------------------------------------------
(* a scan goes on until the loop handles its result *)
LEMMA ScanStays ==
    ASSUME IInv, Next, NEW b \in DOMAIN planning
    PROVE  b \in DOMAIN planning' \/ (Runs /\ HandleInternal /\ Head(internal).scope = Planning(b))
<1>1. CASE FinishConnect \/ Background \/ Stop
  <2>1. UNCHANGED planning
    BY <1>1 DEF FinishConnect, Background, TaskEnds, RemovePart, RemovalPanics, Stop, Shutdown, DropLate,
       StopTasks, DropEngine, scans
  <2> QED
    BY <2>1
<1>2. CASE Command
  <2>1. DOMAIN planning \subseteq DOMAIN planning'
    BY <1>2 DEF Command, Copy, ResolveConflicts, DeclineConflicts, CancelScan, CancelRow, RetryRow, CancelAll,
       ClearFinished, StartSync, Disconnect, RunSync, CancelSyncScan, CancelSyncPlan, StartScan, With, scans
  <2> QED
    BY <2>1
<1>3. CASE HandleInternal
  <2> DEFINE result == Head(internal)
             scope == result.scope
             on == scope[2]
  <2>1. Runs /\ Received /\ Handle(result)
    BY <1>3 DEF HandleInternal, Received, IInv, Runs, WorkNow
  <2>2. ResultHeld(result, sync.scanning, cancelled) /\ scope \in WorkNow \cup {Background0}
    BY <2>1, HeadHeld
  <2>3. scope = Background0 \/ scope = Transfer(on) \/ scope = Planning(on)
    BY <2>2, Scopes DEF WorkNow
  <2>4. CASE scope = Planning(on)
    <3>1. scope[1] = "Planning" /\ scope # Background0
      BY <2>4, Scopes
    <3>2. result.what \in {"PlanReady", "PlanCancelled", "PlanFailed", "SyncPlanReady", "SyncFoldersReady",
                           "SyncCancelled", "SyncFailed", "Panicked"}
      BY <2>2, <3>1 DEF ResultHeld
    <3>3. PlanReady(on, result) \/ PlanCancelled(on, result) \/ PlanFailed(on) \/ SyncPlanReady(on, result)
          \/ SyncFoldersReady(on, result) \/ SyncEnded(on) \/ Panicked(scope)
      BY <2>1, <3>2 DEF Handle
    <3>4. planning' = planning \/ planning' = Without(planning, {on})
      BY <3>1, <3>3 DEF PlanReady, PlanCancelled, PlanFailed, SyncPlanReady, SyncFoldersReady, SyncEnded,
         Panicked, DropScan, ClearPlanning, scans
    <3> QED
      BY <1>3, <2>1, <2>4, <3>4 DEF Without
  <2>5. CASE scope # Planning(on)
    <3>1. scope[1] # "Planning"
      BY <2>3, <2>5, Scopes DEF Background0
    <3>2. result.what \in {"Completed", "Cancelled", "Failed", "PartialsRemoved", "Panicked"}
      BY <2>2, <3>1 DEF ResultHeld
    <3>3. Finished(on, "Completed") \/ Finished(on, "Cancelled") \/ Failed(on)
          \/ PartialsRemoved(result.session) \/ Panicked(scope)
      BY <2>1, <3>2 DEF Handle
    <3> QED
      BY <3>1, <3>3 DEF Finished, Failed, PartialsRemoved, Panicked, scans
  <2> QED
    BY <2>4, <2>5
<1> QED
  BY <1>1, <1>2, <1>3 DEF Next

(* A sync that was asked to stop copies nothing, also when its scan ended  *)
(* before it looked at the request and its result was already in the       *)
(* channel: no plan is shown for it and no row made of it.                 *)
THEOREM CancelledSyncCopiesNothingHolds == Spec => CancelledSyncCopiesNothing
<1>1. ASSUME IInv, IInv', [Next]_vars, NEW b \in sync.scanning, Planning(b) \in cancelled
      PROVE  b \notin DOMAIN sync'.plans \cup DOMAIN transfers'.batchRow
  <2>1. BatchesHeld(transfers, planning, reviews, sync) /\ b \in DOMAIN planning
    BY <1>1 DEF IInv, Held, BatchesHeld
  <2>2. BatchesHeld(transfers', planning', reviews', sync')
    BY <1>1 DEF IInv, Held
  <2>3. CASE b \in DOMAIN planning'
    BY <2>2, <2>3 DEF BatchesHeld
  <2>4. CASE b \notin DOMAIN planning'
    <3> DEFINE result == Head(internal)
    <3>1. Next
      BY <1>1, <2>1, <2>4 DEF vars
    <3>2. Runs /\ HandleInternal /\ result.scope = Planning(b)
      BY <1>1, <2>1, <2>4, <3>1, ScanStays
    <3>3. Received /\ Handle(result)
      BY <3>2 DEF HandleInternal
    <3>4. result.scope[1] = "Planning" /\ result.scope[2] = b /\ result.scope # Background0
      BY <3>2, Scopes
    <3>5. ResultHeld(result, sync.scanning, cancelled)
      BY <3>2, <3>3, HeadHeld
    <3>6. result.what \in {"SyncPlanReady", "SyncFoldersReady", "SyncCancelled", "SyncFailed", "Panicked"}
      BY <1>1, <3>4, <3>5 DEF ResultHeld
    <3>7. SyncPlanReady(b, result) \/ SyncFoldersReady(b, result) \/ SyncEnded(b) \/ Panicked(result.scope)
      BY <3>3, <3>4, <3>6 DEF Handle
    <3>8. SyncEnded(b)
      BY <1>1, <3>4, <3>7 DEF SyncPlanReady, SyncFoldersReady, Panicked
    <3>9. sync'.plans = sync.plans
      BY <3>2, <3>8, RunsParts DEF SyncEnded
    <3>10. transfers'.batchRow = transfers.batchRow
      <4>1. ForgetEmpty(transfers, {b}).batchRow = transfers.batchRow
        BY DEF ForgetEmpty
      <4>2. transfers' = [ForgetEmpty(transfers, {b}) EXCEPT !.changes = {}]
        BY <3>8 DEF SyncEnded, DropScan, Settle
      <4> QED
        BY <4>1, <4>2
    <3> QED
      BY <2>1, <3>9, <3>10 DEF BatchesHeld
  <2> QED
    BY <2>3, <2>4
<1>2. IInv /\ IInv' /\ [Next]_vars =>
        \A b \in sync.scanning :
          Planning(b) \in cancelled => b \notin DOMAIN sync'.plans \cup DOMAIN transfers'.batchRow
  BY <1>1
<1> QED
  BY <1>2, EngineInvariant, PTL DEF Spec, CancelledSyncCopiesNothing

---------------------------------------------------------------------------
(***************************************************************************)
(* History.  Each handler hands process_row_changes a queue whose changes  *)
(* name every row that has finished, opened again or gone since the last   *)
(* one (Tells); with the jobs' moves, that is enough for the log to follow *)
(* the rows.                                                               *)
(***************************************************************************)
Recorded ==
    \/ UNCHANGED <<transfers, history>>
    \/ \E q : Settle(q) /\ Tells(transfers, q)

LEMMA TellsOn ==
    ASSUME NEW q, NEW r, NEW s, Tells(q, r), Tells(r, s)
    PROVE  Tells(q, s)
  BY DEF Tells

LEMMA FillTells ==
    ASSUME NEW q, QueueOK(q), NEW st, Fill(q, st), Tells(transfers, q)
    PROVE  Recorded
<1> DEFINE S == Startable(q)
           go == {id \in S : q.jobs[id].session \in sessions}
           r == StartJobs(q, go)
           filled == SetStatus(r, S \ go, "Failed")
<1>1. S \in SUBSET q.queued
  BY StartableExists DEF Startable
<1>2. Settle(filled)
  BY DEF Fill
<1> HIDE DEF S
<1>3. QueueOK(r) /\ Tells(q, r)
  BY <1>1, StartJobsOK, ReconcileTells DEF StartJobs
<1> HIDE DEF r
<1>4. Tells(r, filled)
  BY <1>3, ReconcileTells DEF SetStatus
<1> HIDE DEF filled, go
<1>5. Tells(transfers, filled)
  BY <1>3, <1>4, TellsOn
<1> QED
  BY <1>2, <1>5 DEF Recorded

LEMMA ApplyTells ==
    ASSUME QueueOK(transfers), NEW batch \in Nat, NEW session \in Sessions, NEW direction \in Direction,
           NEW files \in Files, ApplyPlan(transfers, batch, session, direction, files)
    PROVE  Recorded
<1> DEFINE e == Enqueue(transfers, session, direction, files, batch)
           r == ForgetEmpty(e, {batch})
           st == IF files = <<>> THEN stale \ {Place(session, direction)} ELSE stale
<1>1. Fill(r, st)
  BY DEF ApplyPlan
<1>2. batch # NoBatch
  BY DEF NoBatch
<1>3. QueueOK(e) /\ Tells(transfers, e)
  BY <1>2, EnqueueOK, EnqueueTells
<1> HIDE DEF e, st
<1>4. QueueOK(r) /\ Tells(e, r)
  BY <1>3, MarksTell, BatchForgotten
<1> HIDE DEF r
<1>5. Tells(transfers, r)
  BY <1>3, <1>4, TellsOn
<1> QED
  BY <1>1, <1>4, <1>5, FillTells

LEMMA ForgetTells ==
    ASSUME QueueOK(transfers), NEW gone, Settle(ForgetEmpty(transfers, gone))
    PROVE  Recorded
  BY MarksTell DEF Recorded

LEMMA SameTells ==
    ASSUME Settle(transfers)
    PROVE  Recorded
<1>1. Tells(transfers, transfers)
  BY DEF Tells
<1> QED
  BY <1>1 DEF Recorded

LEMMA ScanStartTells ==
    ASSUME QueueOK(transfers), NEW name, NEW session, NEW direction, StartScan(name, session, direction)
    PROVE  Recorded
  BY MarksTell DEF StartScan, Recorded

LEMMA CancelAllTells ==
    ASSUME QueueOK(transfers), CancelAll
    PROVE  Recorded
<1> DEFINE r == ForgetEmpty(transfers, DOMAIN reviews)
           q == CancelAllQueued(r)
<1>1. Settle(q)
  BY DEF CancelAll
<1>2. QueueOK(r) /\ Tells(transfers, r)
  BY MarksTell, BatchForgotten
<1> HIDE DEF r
<1>3. Tells(r, q)
  BY <1>2, ReconcileTells DEF CancelAllQueued, SetStatus
<1> HIDE DEF q
<1> QED
  BY <1>1, <1>2, <1>3, TellsOn DEF Recorded

LEMMA CancelRowTells ==
    ASSUME QueueOK(transfers), NEW kind, CancelRow(kind)
    PROVE  Recorded
<1> DEFINE q == SetStatus(transfers, JobsOf(transfers, kind) \cap transfers.queued, "Cancelled")
<1>1. Settle(q)
  BY DEF CancelRow
<1>2. Tells(transfers, q)
  BY ReconcileTells DEF SetStatus
<1> HIDE DEF q
<1> QED
  BY <1>1, <1>2 DEF Recorded

LEMMA RetryRowTells ==
    ASSUME QueueOK(transfers), NEW kind, RetryRow(kind)
    PROVE  Recorded
<1> DEFINE S == {id \in JobsOf(transfers, kind) : IsRetryable(transfers.jobs[id])}
           q == RetryJobs(transfers, S)
<1>1. Fill(q, stale)
  BY DEF RetryRow
<1> HIDE DEF S
<1>2. QueueOK(q)
  BY RetryJobsOK
<1>3. Tells(transfers, q)
  BY ReconcileTells DEF RetryJobs
<1> HIDE DEF q
<1> QED
  BY <1>1, <1>2, <1>3, FillTells

LEMMA ClearFinishedTells ==
    ASSUME QueueOK(transfers), ClearFinished
    PROVE  Recorded
<1>1. PICK ids : Settle(RemoveJobs(transfers, ids))
  BY DEF ClearFinished
<1>2. Tells(transfers, RemoveJobs(transfers, ids))
  BY RemoveTells
<1> QED
  BY <1>1, <1>2 DEF Recorded

LEMMA RunSyncTells ==
    ASSUME QueueOK(transfers), NEW id, RunSync(id)
    PROVE  Recorded
<1>1. PICK n, ids :
        Settle([transfers EXCEPT !.nextBatch = transfers.nextBatch + n, !.batchLabels = transfers.batchLabels \cup ids])
  BY DEF RunSync
<1> DEFINE q == [transfers EXCEPT !.nextBatch = transfers.nextBatch + n, !.batchLabels = transfers.batchLabels \cup ids]
<1>2. q.changes = transfers.changes /\ q.rows = transfers.rows
  BY DEF QueueOK, QueueTyped, QueueFields
<1>3. Settle(q)
  BY <1>1
<1> HIDE DEF q
<1>4. Tells(transfers, q)
  BY <1>2, SameRowsTell
<1> QED
  BY <1>3, <1>4 DEF Recorded

LEMMA DisconnectTells ==
    ASSUME QueueOK(transfers), NEW session \in Sessions, Disconnect(session)
    PROVE  Recorded
<1> DEFINE gone == OfSession(reviews, session)
           r == FailQueuedForSession(transfers, session)
           q == ForgetEmpty(r, gone)
<1>1. Settle(q)
  BY DEF Disconnect
<1>2. transfers.queuedBySession[session] \in SUBSET DOMAIN transfers.jobs
  BY Indexed DEF QueueOK, IndexesMatch
<1>3. QueueOK(r) /\ Tells(transfers, r)
  BY <1>2, SetStatusOK, ReconcileTells DEF FailQueuedForSession, SetStatus, JobStatus
<1> HIDE DEF r, gone
<1>4. Tells(r, q)
  BY <1>3, MarksTell
<1> HIDE DEF q
<1> QED
  BY <1>1, <1>3, <1>4, TellsOn DEF Recorded

LEMMA FinishedTells ==
    ASSUME QueueOK(transfers), NEW id, NEW status \in {"Completed", "Cancelled"}, Finished(id, status)
    PROVE  Recorded
<1> DEFINE q == SetStatus(transfers, {id} \cap DOMAIN transfers.jobs, status)
<1>1. \E st : Fill(q, st)
  BY DEF Finished
<1>2. QueueOK(q)
  BY SetStatusOK DEF JobStatus
<1>3. Tells(transfers, q)
  BY ReconcileTells DEF SetStatus
<1> HIDE DEF q
<1> QED
  BY <1>1, <1>2, <1>3, FillTells

LEMMA FailedTells ==
    ASSUME QueueOK(transfers), NEW id, Failed(id)
    PROVE  Recorded
<1> DEFINE asked == Transfer(id) \in cancelled
           q == SetStatus(transfers, {id} \cap DOMAIN transfers.jobs, IF asked THEN "Cancelled" ELSE "Failed")
           r == RetryOrGiveUp(q, id)
<1>1. \E st : Fill(q, st) \/ Fill(r, st)
  BY DEF Failed
<1>2. QueueOK(q)
  BY SetStatusOK DEF JobStatus
<1>3. Tells(transfers, q)
  BY ReconcileTells DEF SetStatus
<1> HIDE DEF q
<1>4. QueueOK(r)
  BY <1>2, RetryOrGiveUpOK
<1>5. Tells(q, r)
  <2>1. Tells(q, q)
    BY DEF Tells
  <2> QED
    BY <1>2, <2>1, ReconcileTells DEF RetryOrGiveUp
<1> HIDE DEF r
<1> QED
  BY <1>1, <1>2, <1>3, <1>4, <1>5, TellsOn, FillTells

(* the fields a plan that is applied needs *)
LEMMA PlanFields ==
    ASSUME Runs, HandleInternal, Head(internal).what \in {"PlanReady", "SyncFoldersReady"}
    PROVE  /\ Head(internal).scope[2] \in Nat /\ Head(internal).direction \in Direction
           /\ Head(internal).plan.files \in Files
<1> DEFINE result == Head(internal)
<1>1. ResultHeld(result, sync.scanning, cancelled) /\ result.scope \in WorkNow \cup {Background0}
  BY HeadHeld DEF HandleInternal
<1> HIDE DEF result
<1>2. DOMAIN planning \subseteq Nat
  BY RunsParts, Indexed DEF BatchesHeld
<1>3. result.what \in {"PlanReady", "SyncFoldersReady"}
  BY DEF result
<1>4. result.scope[1] = "Planning" /\ result.direction \in Direction /\ result.plan.files \in Files
  BY <1>1, <1>3 DEF ResultHeld
<1>5. result.scope[2] \in DOMAIN planning
  BY <1>1, <1>4, Scopes DEF WorkNow, Background0, Work, Planning, Transfer
<1> QED
  BY <1>2, <1>4, <1>5 DEF result

(* resolve_conflicts applies what the user chose of a review *)
LEMMA ReviewApplied ==
    ASSUME Runs, NEW batch, ResolveConflicts(batch)
    PROVE  /\ batch \in Nat /\ reviews[batch].session \in Sessions /\ reviews[batch].direction \in Direction
           /\ \E files \in Files :
                ApplyPlan(transfers, batch, reviews[batch].session, reviews[batch].direction, files)
<1>1. batch \in DOMAIN reviews
      /\ \E files \in Chosen(reviews[batch].files) :
           ApplyPlan(transfers, batch, reviews[batch].session, reviews[batch].direction, files)
  BY DEF ResolveConflicts
<1>2. /\ reviews[batch].session \in Sessions /\ reviews[batch].direction \in Direction
      /\ reviews[batch].files \in Files
  BY <1>1, RunsParts DEF Runs, EngineIInv, FrontEndKnows, PlansHeld
<1>3. batch \in Nat
  BY <1>1, RunsParts, Indexed DEF BatchesHeld
<1>4. \A files \in Chosen(reviews[batch].files) : files \in Files
  BY <1>2, ChosenFiles
<1> QED
  BY <1>1, <1>2, <1>3, <1>4

LEMMA HandledTells ==
    ASSUME Runs, HandleInternal
    PROVE  Recorded
<1> DEFINE result == Head(internal)
           on == result.scope[2]
<1>1. Received /\ Handle(result) /\ QueueOK(transfers)
  BY RunsParts DEF HandleInternal
<1>2. ResultHeld(result, sync.scanning, cancelled)
  BY <1>1, HeadHeld
<1>3. result.what \in {"PlanReady", "SyncFoldersReady"} =>
        on \in Nat /\ result.direction \in Direction /\ result.plan.files \in Files
  BY PlanFields
<1>4. sessions \subseteq Sessions
  BY RunsParts
<1>5. \A b : DropScan(b) => Recorded
  BY <1>1, ForgetTells DEF DropScan
<1> HIDE DEF result
<1>6. CASE result.what \in {"Completed", "Cancelled"}
  BY <1>1, <1>6, FinishedTells DEF Handle
<1>7. CASE result.what = "Failed"
  BY <1>1, <1>7, FailedTells DEF Handle
<1>8. CASE result.what = "PlanReady"
  <2>1. PlanReady(on, result)
    BY <1>1, <1>8 DEF Handle
  <2> QED
    BY <1>1, <1>3, <1>4, <1>5, <1>8, <2>1, SameTells, ApplyTells DEF PlanReady
<1>9. CASE result.what \in {"PlanCancelled", "PlanFailed", "SyncCancelled", "SyncFailed"}
  BY <1>1, <1>5, <1>9 DEF Handle, PlanCancelled, PlanFailed, SyncEnded
<1>10. CASE result.what = "SyncPlanReady"
  BY <1>1, <1>5, <1>10 DEF Handle, SyncPlanReady, SyncEnded
<1>11. CASE result.what = "SyncFoldersReady"
  <2>1. SyncFoldersReady(on, result)
    BY <1>1, <1>11 DEF Handle
  <2> QED
    BY <1>1, <1>3, <1>4, <1>5, <1>11, <2>1, SameTells, ApplyTells DEF SyncFoldersReady, SyncEnded
<1>12. CASE result.what = "PartialsRemoved"
  BY <1>1, <1>12 DEF Handle, PartialsRemoved, Recorded
<1>13. CASE result.what = "Panicked"
  <2>1. Panicked(result.scope)
    BY <1>1, <1>13 DEF Handle
  <2> QED
    BY <1>1, <1>5, <2>1, FailedTells DEF Panicked, SyncEnded, PlanFailed, Recorded
<1> QED
  BY <1>2, <1>6, <1>7, <1>8, <1>9, <1>10, <1>11, <1>12, <1>13 DEF ResultHeld

LEMMA ResolveTells ==
    ASSUME Runs, NEW batch, ResolveConflicts(batch)
    PROVE  Recorded
  BY RunsParts, ReviewApplied, ApplyTells

LEMMA CommandTells ==
    ASSUME Runs, Command
    PROVE  Recorded
<1>1. QueueOK(transfers)
  BY RunsParts
<1>2. ASSUME NEW s \in Sessions, NEW d \in Direction, Copy(s, d) PROVE Recorded
  BY <1>1, <1>2, ScanStartTells DEF Copy
<1>3. ASSUME NEW b \in Batches, DeclineConflicts(b) \/ CancelScan(b) PROVE Recorded
  BY <1>1, <1>3, ForgetTells DEF DeclineConflicts, CancelScan
<1>4. ASSUME NEW s \in Sessions, StartSync(s) PROVE Recorded
  BY <1>1, <1>4, ScanStartTells DEF StartSync
<1>5. ASSUME NEW b \in Batches, CancelSyncScan(b) \/ CancelSyncPlan(b) PROVE Recorded
  BY <1>5 DEF CancelSyncScan, CancelSyncPlan, Recorded
<1> QED
  BY <1>1, <1>2, <1>3, <1>4, <1>5, ResolveTells, CancelRowTells, RetryRowTells, CancelAllTells,
     ClearFinishedTells, DisconnectTells, RunSyncTells DEF Command

(* a step of the running loop *)
LEMMA StepTells ==
    ASSUME IInv, phase = "running", [Next]_vars, phase' = "running"
    PROVE  Recorded
<1>1. Runs
  BY DEF IInv, Runs, WorkNow
<1>2. CASE FinishConnect \/ Background \/ UNCHANGED vars
  BY <1>2 DEF FinishConnect, Background, TaskEnds, RemovePart, RemovalPanics, vars, Recorded
<1>3. ~Stop
  BY DEF Stop, Shutdown, DropLate, StopTasks, DropEngine
<1> QED
  BY <1>1, <1>2, <1>3, CommandTells, HandledTells DEF Next

(* the kind of a job's row *)
JobKind(q, id) == KindOf(id, q.jobs[id].batch)

LEMMA KindOfRow ==
    ASSUME NEW q, QueueOK(q)
    PROVE  /\ \A k \in DOMAIN q.rows : RowKey(q, q.rows[k].kind) = k
           /\ \A k \in DOMAIN q.rows : \A id \in q.rows[k].order :
                id \in DOMAIN q.jobs /\ q.rowOf[id] = k /\ JobKind(q, id) = q.rows[k].kind
           /\ \A id \in DOMAIN q.jobs : q.rowOf[id] \in DOMAIN q.rows /\ id \in q.rows[q.rowOf[id]].order
<1>1. RowsMatch(q)
  BY DEF QueueOK
<1>2. ASSUME NEW k \in DOMAIN q.rows PROVE RowKey(q, q.rows[k].kind) = k
  <2>1. /\ q.rows[k].kind = KindOf(k, q.jobs[k].batch)
        /\ q.jobs[k].batch # NoBatch => q.batchRow[q.jobs[k].batch] = k
    BY <1>1 DEF RowsMatch
  <2>2. CASE q.jobs[k].batch = NoBatch
    BY <2>1, <2>2 DEF KindOf, RowKey
  <2>3. CASE q.jobs[k].batch # NoBatch
    BY <2>1, <2>3 DEF KindOf, RowKey
  <2> QED
    BY <2>2, <2>3
<1>3. ASSUME NEW k \in DOMAIN q.rows, NEW id \in q.rows[k].order
      PROVE  id \in DOMAIN q.jobs /\ q.rowOf[id] = k /\ JobKind(q, id) = q.rows[k].kind
  <2>1. /\ id \in DOMAIN q.jobs /\ q.rowOf[id] = k
        /\ q.jobs[id].batch = q.jobs[k].batch
        /\ q.jobs[id].batch = NoBatch => id = k
        /\ q.rows[k].kind = KindOf(k, q.jobs[k].batch)
    BY <1>1 DEF RowsMatch
  <2> QED
    BY <2>1 DEF JobKind, KindOf
<1>4. \A id \in DOMAIN q.jobs : q.rowOf[id] \in DOMAIN q.rows /\ id \in q.rows[q.rowOf[id]].order
  BY <1>1 DEF RowsMatch
<1> QED
  BY <1>2, <1>3, <1>4

(* the completed jobs that history sees of a kind *)
LEMMA CompletedOf ==
    ASSUME NEW q, QueueOK(q), NEW kind, NEW id
    PROVE  id \in Completed(q, kind) <=>
             id \in DOMAIN q.jobs /\ JobKind(q, id) = kind /\ q.jobs[id].status = "Completed"
<1>1. ASSUME id \in JobsOf(q, kind) PROVE id \in DOMAIN q.jobs /\ JobKind(q, id) = kind
  <2>1. PICK k \in DOMAIN q.rows : q.rows[k].kind = kind /\ id \in q.rows[RowKey(q, kind)].order
    BY <1>1 DEF JobsOf, HasRow
  <2> QED
    BY <2>1, KindOfRow
<1>2. ASSUME id \in DOMAIN q.jobs, JobKind(q, id) = kind PROVE id \in JobsOf(q, kind)
  <2>1. q.rowOf[id] \in DOMAIN q.rows /\ id \in q.rows[q.rowOf[id]].order
    BY <1>2, KindOfRow
  <2>2. q.rows[q.rowOf[id]].kind = kind /\ RowKey(q, kind) = q.rowOf[id]
    BY <1>2, <2>1, KindOfRow
  <2> QED
    BY <2>1, <2>2 DEF JobsOf, HasRow
<1> QED
  BY <1>1, <1>2 DEF Completed, WithStatus

(* a row is open or finished; the jobs of a finished one have ended *)
LEMMA OpenOrFinished ==
    ASSUME NEW q, QueueOK(q)
    PROVE  /\ \A kind \in OpenKinds(q) : kind \notin FinishedKinds(q)
           /\ \A id \in DOMAIN q.jobs : JobKind(q, id) \in OpenKinds(q) \cup FinishedKinds(q)
           /\ \A id \in DOMAIN q.jobs : JobKind(q, id) \in FinishedKinds(q) => ~IsPending(q.jobs[id])
           /\ \A kind \in FinishedKinds(q) \cup OpenKinds(q) : \A b : kind # <<"Scan", b>>
<1>1. \A kind : kind \in OpenKinds(q) <=> \E k \in DOMAIN q.rows : q.rows[k].kind = kind /\ ~RowFinished(q.rows[k])
  BY DEF OpenKinds
<1>2. \A i, j \in DOMAIN q.rows : q.rows[i].kind = q.rows[j].kind => i = j
  <2>1. \A k \in DOMAIN q.rows : RowKey(q, q.rows[k].kind) = k
    BY KindOfRow
  <2> QED
    BY <2>1
<1>3. \A kind \in OpenKinds(q) : kind \notin FinishedKinds(q)
  BY <1>1, <1>2, FinishedOf
<1>4. ASSUME NEW id \in DOMAIN q.jobs PROVE JobKind(q, id) \in OpenKinds(q) \cup FinishedKinds(q)
  <2>1. q.rowOf[id] \in DOMAIN q.rows /\ q.rows[q.rowOf[id]].kind = JobKind(q, id)
    BY KindOfRow
  <2> QED
    BY <1>1, <2>1, FinishedOf
<1>5. ASSUME NEW id \in DOMAIN q.jobs, JobKind(q, id) \in FinishedKinds(q) PROVE ~IsPending(q.jobs[id])
  <2>1. PICK k \in DOMAIN q.rows : q.rows[k].kind = JobKind(q, id) /\ RowFinished(q.rows[k])
    BY <1>5, FinishedOf
  <2>2. q.rowOf[id] \in DOMAIN q.rows /\ id \in q.rows[q.rowOf[id]].order
        /\ q.rows[q.rowOf[id]].kind = JobKind(q, id)
    BY KindOfRow
  <2>3. id \in q.rows[k].order
    BY <1>2, <2>1, <2>2
  <2> QED
    BY <2>1, <2>3, FinishedRowEnded DEF IsPending
<1>6. \A k \in DOMAIN q.rows : \A b : q.rows[k].kind # <<"Scan", b>>
  <2>1. \A k \in DOMAIN q.rows : q.rows[k].kind = KindOf(k, q.jobs[k].batch)
    BY DEF QueueOK, RowsMatch
  <2>2. \A i, batch, b : KindOf(i, batch) # <<"Scan", b>>
    BY DEF KindOf
  <2> QED
    BY <2>1, <2>2
<1>7. \A kind \in FinishedKinds(q) \cup OpenKinds(q) : \A b : kind # <<"Scan", b>>
  BY <1>1, <1>6, FinishedOf
<1> QED
  BY <1>3, <1>4, <1>5, <1>7

HistoryFields == {"recorded", "counted", "credit", "interrupted"}

(* While the loop runs: what has an entry is what is finished, a job is in *)
(* as many entries as its row's count says, only what is completed (and    *)
(* was handed out) is counted, and all of it when the row is finished.     *)
HistoryHeld(q, h) ==
    /\ h.recorded = FinishedKinds(q)
    /\ DOMAIN h.interrupted = {}
    /\ DOMAIN h.credit \subseteq DOMAIN q.jobs
    /\ \A id \in DOMAIN q.jobs : Count(h.credit, id) = IF id \in Counted(h, JobKind(q, id)) THEN 1 ELSE 0
    /\ \A kind : Counted(h, kind) \subseteq 0..(q.nextId - 1)
    /\ \A kind : \A id \in Counted(h, kind) \cap DOMAIN q.jobs : q.jobs[id].status = "Completed"
    /\ \A id \in DOMAIN q.jobs : q.jobs[id].status = "Completed" /\ JobKind(q, id) \in FinishedKinds(q)
                                   => id \in Counted(h, JobKind(q, id))

(* what history sees of the jobs' moves *)
Follows(q, r) ==
    /\ 0..(q.nextId - 1) \subseteq 0..(r.nextId - 1)
    /\ DOMAIN r.jobs \subseteq 0..(r.nextId - 1)
    /\ \A id \in DOMAIN r.jobs \ DOMAIN q.jobs :
         id \notin 0..(q.nextId - 1) /\ r.jobs[id].status # "Completed"
    /\ \A id \in DOMAIN r.jobs \cap DOMAIN q.jobs :
         /\ JobKind(r, id) = JobKind(q, id)
         /\ q.jobs[id].status = "Completed" => r.jobs[id].status = "Completed"
         /\ r.jobs[id].status = "Completed" => q.jobs[id].status \in {"Completed", "InProgress"}

LEMMA MovesFollow ==
    ASSUME NEW q, QueueOK(q), NEW r, QueueOK(r), NEW live, NEW live2, NEW marks, NEW marks2,
           Moves(q, r, live, live2, marks, marks2)
    PROVE  Follows(q, r)
<1>1. 0..(q.nextId - 1) \subseteq 0..(r.nextId - 1) /\ DOMAIN r.jobs \subseteq 0..(r.nextId - 1)
  BY DEF Moves
<1>2. ASSUME NEW id \in DOMAIN r.jobs \ DOMAIN q.jobs
      PROVE  id \notin 0..(q.nextId - 1) /\ r.jobs[id].status # "Completed"
  <2>1. JobMove(q, r, id, live, live2, marks, marks2)
    BY DEF Moves
  <2>2. id >= q.nextId /\ r.jobs[id].status \in {"Queued", "InProgress"}
    BY <2>1 DEF JobMove
  <2>3. q.nextId \in Nat
    BY Indexed
  <2> QED
    BY <2>2, <2>3
<1>3. ASSUME NEW id \in DOMAIN r.jobs \cap DOMAIN q.jobs
      PROVE  /\ JobKind(r, id) = JobKind(q, id)
             /\ q.jobs[id].status = "Completed" => r.jobs[id].status = "Completed"
             /\ r.jobs[id].status = "Completed" => q.jobs[id].status \in {"Completed", "InProgress"}
  <2>1. JobMove(q, r, id, live, live2, marks, marks2) /\ r.jobs[id].batch = q.jobs[id].batch
    BY DEF Moves
  <2>2. /\ q.jobs[id].status = "Completed" => r.jobs[id].status = "Completed"
        /\ r.jobs[id].status = "Completed" => q.jobs[id].status \in {"Completed", "InProgress"}
    BY <2>1 DEF JobMove
  <2> QED
    BY <2>1, <2>2 DEF JobKind
<1> QED
  BY <1>1, <1>2, <1>3 DEF Follows

(* entry_for_row: the entries add a job once, to its own row's *)
LEMMA CreditedOnce ==
    ASSUME NEW q, QueueOK(q), NEW h, NEW kinds, NEW id \in DOMAIN q.jobs, Count(h.credit, id) \in Nat
    PROVE  Count(Credited(h, q, kinds), id) = Count(h.credit, id) +
             IF /\ JobKind(q, id) \in kinds
                /\ q.jobs[id].status = "Completed"
                /\ id \notin Counted(h, JobKind(q, id))
             THEN 1 ELSE 0
<1> DEFINE in == {k \in kinds : id \in Completed(q, k) \ Counted(h, k)}
           new == /\ JobKind(q, id) \in kinds
                  /\ q.jobs[id].status = "Completed"
                  /\ id \notin Counted(h, JobKind(q, id))
<1>1. Count(Credited(h, q, kinds), id) = Count(h.credit, id) + Cardinality(in)
  BY DEF Credited, Count
<1>2. \A k \in kinds : id \in Completed(q, k) <=> JobKind(q, id) = k /\ q.jobs[id].status = "Completed"
  BY CompletedOf
<1>3. new => in = {JobKind(q, id)}
  BY <1>2
<1>4. ~new => in = {}
  BY <1>2
<1> HIDE DEF in
<1>5. Cardinality(in) = IF new THEN 1 ELSE 0
  BY <1>3, <1>4, FS_EmptySet, FS_Singleton
<1> QED
  BY <1>1, <1>5

(* process_row_changes, what it does to the log *)
LEMMA RowsRecordedAs ==
    ASSUME NEW q, QueueOK(q), NEW h, DOMAIN h = HistoryFields,
           NEW fresh, fresh = {k \in q.changes : k \in FinishedKinds(q)} \ h.recorded
    PROVE  LET h2 == RowsRecorded(h, q)
           IN  /\ DOMAIN h2 = HistoryFields
               /\ h2.interrupted = h.interrupted
               /\ \A k : k \in h2.recorded <=> \/ k \in h.recorded /\ k \notin q.changes
                                               \/ k \in q.changes /\ k \in FinishedKinds(q)
               /\ h2.credit = Credited(h, q, fresh)
               /\ \A k : \/ k \in fresh /\ Counted(h2, k) = Completed(q, k)
                         \/ k \notin fresh /\ ~HasRow(q, k) /\ Counted(h2, k) = {}
                         \/ k \notin fresh /\ Counted(h2, k) = Counted(h, k)
<1> DEFINE finished == {k \in q.changes : KindFinished(q, k)}
           gone == {k \in q.changes : ~HasRow(q, k)}
           counted == [k \in (DOMAIN h.counted \ gone) \cup fresh |->
                         IF k \in fresh THEN Completed(q, k) ELSE h.counted[k]]
           h2 == RowsRecorded(h, q)
<1>1. finished = {k \in q.changes : k \in FinishedKinds(q)} /\ fresh = finished \ h.recorded
  <2>1. \A k \in q.changes : KindFinished(q, k) <=> k \in FinishedKinds(q)
    BY KindsFinished
  <2> QED
    BY <2>1
<1>2. h2 = [h EXCEPT !.recorded = (h.recorded \ q.changes) \cup finished,
                     !.counted = counted, !.credit = Credited(h, q, fresh)]
  BY <1>1 DEF RowsRecorded
<1> HIDE DEF h2
<1>3. /\ DOMAIN h2 = HistoryFields
      /\ h2.interrupted = h.interrupted
      /\ h2.recorded = (h.recorded \ q.changes) \cup finished
      /\ h2.credit = Credited(h, q, fresh)
      /\ h2.counted = counted
  BY <1>2 DEF HistoryFields
<1>4. ASSUME NEW k
      PROVE  \/ k \in fresh /\ Counted(h2, k) = Completed(q, k)
             \/ k \notin fresh /\ ~HasRow(q, k) /\ Counted(h2, k) = {}
             \/ k \notin fresh /\ Counted(h2, k) = Counted(h, k)
  <2>1. DOMAIN h2.counted = (DOMAIN h.counted \ gone) \cup fresh
        /\ \A j \in DOMAIN h2.counted : h2.counted[j] = IF j \in fresh THEN Completed(q, j) ELSE h.counted[j]
    BY <1>3
  <2> HIDE DEF counted, finished
  <2> QED
    BY <2>1 DEF Counted
<1>5. \A k : k \in h2.recorded <=> \/ k \in h.recorded /\ k \notin q.changes
                                   \/ k \in q.changes /\ k \in FinishedKinds(q)
  BY <1>1, <1>3
<1> QED
  BY <1>3, <1>4, <1>5 DEF h2

LEMMA HistoryFollows ==
    ASSUME NEW q, QueueOK(q), NEW h, DOMAIN h = HistoryFields, HistoryHeld(q, h),
           q.changes = {}, NEW r, QueueOK(r), Tells(q, r), Follows(q, r)
    PROVE  HistoryHeld(r, RowsRecorded(h, r)) /\ DOMAIN RowsRecorded(h, r) = HistoryFields
<1> DEFINE fresh == {k \in r.changes : k \in FinishedKinds(r)} \ h.recorded
           h2 == RowsRecorded(h, r)
<1>1. /\ DOMAIN h2 = HistoryFields
      /\ h2.interrupted = h.interrupted
      /\ \A k : k \in h2.recorded <=> \/ k \in h.recorded /\ k \notin r.changes
                                      \/ k \in r.changes /\ k \in FinishedKinds(r)
      /\ h2.credit = Credited(h, r, fresh)
      /\ \A k : \/ k \in fresh /\ Counted(h2, k) = Completed(r, k)
                \/ k \notin fresh /\ ~HasRow(r, k) /\ Counted(h2, k) = {}
                \/ k \notin fresh /\ Counted(h2, k) = Counted(h, k)
  BY RowsRecordedAs
<1>2. \A k : k \in fresh <=> k \in r.changes /\ k \in FinishedKinds(r) /\ k \notin FinishedKinds(q)
  BY DEF HistoryHeld
<1> HIDE DEF fresh, h2
<1>3. h2.recorded = FinishedKinds(r)
  <2>1. \A k : k \in h2.recorded <=> k \in FinishedKinds(r)
    BY <1>1 DEF HistoryHeld, Tells
  <2> QED
    BY <2>1
<1>4. DOMAIN h2.credit \subseteq DOMAIN r.jobs
  BY <1>1 DEF Credited
<1>5. ASSUME NEW id \in DOMAIN r.jobs PROVE HasRow(r, JobKind(r, id))
  <2>1. r.rowOf[id] \in DOMAIN r.rows /\ id \in r.rows[r.rowOf[id]].order
    BY KindOfRow
  <2>2. r.rows[r.rowOf[id]].kind = JobKind(r, id)
    BY <2>1, KindOfRow
  <2> QED
    BY <2>1, <2>2 DEF HasRow
<1>6. \A k, id : id \in Completed(r, k) <=>
                   id \in DOMAIN r.jobs /\ JobKind(r, id) = k /\ r.jobs[id].status = "Completed"
  BY CompletedOf
(* what was counted is completed still *)
<1>7. ASSUME NEW k, NEW id \in Counted(h, k) \cap DOMAIN r.jobs
      PROVE  id \in DOMAIN q.jobs /\ r.jobs[id].status = "Completed"
  BY DEF HistoryHeld, Follows
<1>8. ASSUME NEW id \in DOMAIN r.jobs
      PROVE  Count(h2.credit, id) = IF id \in Counted(h2, JobKind(r, id)) THEN 1 ELSE 0
  <2> DEFINE kind == JobKind(r, id)
  <2>1. Count(h.credit, id) = IF id \in Counted(h, kind) THEN 1 ELSE 0
    <3>1. CASE id \in DOMAIN q.jobs
      BY <3>1 DEF HistoryHeld, Follows
    <3>2. CASE id \notin DOMAIN q.jobs
      BY <3>2, <1>7 DEF HistoryHeld, Count
    <3> QED
      BY <3>1, <3>2
  <2>2. Count(h.credit, id) \in Nat
    BY <2>1
  <2>3. Count(h2.credit, id) = Count(h.credit, id) +
          IF kind \in fresh /\ r.jobs[id].status = "Completed" /\ id \notin Counted(h, kind) THEN 1 ELSE 0
    BY <1>1, <2>2, CreditedOnce
  <2>4. CASE kind \in fresh
    <3>1. id \in Counted(h2, kind) <=> r.jobs[id].status = "Completed"
      BY <1>1, <1>6, <2>4
    <3>2. id \in Counted(h, kind) => r.jobs[id].status = "Completed"
      BY <1>7
    <3> QED
      BY <2>1, <2>3, <2>4, <3>1, <3>2
  <2>5. CASE kind \notin fresh
    <3>1. Counted(h2, kind) = Counted(h, kind)
      BY <1>1, <1>5, <2>5
    <3> QED
      BY <2>1, <2>3, <2>5, <3>1
  <2> QED
    BY <2>4, <2>5
<1>9. ASSUME NEW k PROVE Counted(h2, k) \subseteq 0..(r.nextId - 1)
  <2>1. Completed(r, k) \subseteq 0..(r.nextId - 1)
    BY <1>6 DEF Follows
  <2>2. Counted(h, k) \subseteq 0..(r.nextId - 1)
    BY DEF HistoryHeld, Follows
  <2> QED
    BY <1>1, <2>1, <2>2
<1>10. ASSUME NEW k, NEW id \in Counted(h2, k) \cap DOMAIN r.jobs PROVE r.jobs[id].status = "Completed"
  BY <1>1, <1>6, <1>7, <1>10
<1>11. ASSUME NEW id \in DOMAIN r.jobs, r.jobs[id].status = "Completed", JobKind(r, id) \in FinishedKinds(r)
       PROVE  id \in Counted(h2, JobKind(r, id))
  <2>1. CASE JobKind(r, id) \in fresh
    BY <1>1, <1>6, <1>11, <2>1
  <2>2. CASE JobKind(r, id) \notin fresh
    <3>1. JobKind(r, id) \in FinishedKinds(q)
      BY <1>2, <1>11, <2>2 DEF Tells
    <3>2. id \in DOMAIN q.jobs /\ JobKind(q, id) = JobKind(r, id)
          /\ q.jobs[id].status \in {"Completed", "InProgress"}
      BY <1>11 DEF Follows
    <3>3. q.jobs[id].status = "Completed"
      BY <3>1, <3>2, OpenOrFinished DEF IsPending
    <3>4. id \in Counted(h, JobKind(r, id))
      BY <3>1, <3>2, <3>3 DEF HistoryHeld
    <3>5. Counted(h2, JobKind(r, id)) = Counted(h, JobKind(r, id))
      BY <1>1, <1>5, <2>2
    <3> QED
      BY <3>4, <3>5
  <2> QED
    BY <2>1, <2>2
<1>12. DOMAIN h2.interrupted = {}
  BY <1>1 DEF HistoryHeld
<1>13. HistoryHeld(r, h2)
  BY <1>3, <1>4, <1>8, <1>9, <1>10, <1>11, <1>12 DEF HistoryHeld
<1> QED
  BY <1>1, <1>13 DEF h2

HistoryInv ==
    /\ DOMAIN history = HistoryFields
    /\ phase = "running" => transfers.changes = {} /\ HistoryHeld(transfers, history)
    /\ InterruptedOnce

LEMMA RecordedHolds ==
    ASSUME QueueOK(transfers), transfers.changes = {}, DOMAIN history = HistoryFields,
           HistoryHeld(transfers, history), QueueOK(transfers'), Follows(transfers, transfers'), Recorded
    PROVE  /\ DOMAIN history' = HistoryFields
           /\ transfers'.changes = {} /\ HistoryHeld(transfers', history')
<1>1. CASE UNCHANGED <<transfers, history>>
  BY <1>1
<1>2. ASSUME NEW q, Settle(q), Tells(transfers, q)
      PROVE  /\ DOMAIN history' = HistoryFields
             /\ transfers'.changes = {} /\ HistoryHeld(transfers', history')
  <2>1. transfers' = [q EXCEPT !.changes = {}] /\ history' = RowsRecorded(history, q)
    BY <1>2 DEF Settle
  <2>2. DOMAIN q = QueueFields /\ transfers'.nextBatch \in Nat
    BY <2>1 DEF QueueOK, QueueTyped
  <2>3. SameIndexes(transfers', q) /\ transfers'.changes = {}
    BY <2>1, <2>2 DEF SameIndexes, QueueFields
  <2>4. QueueOK(q)
    BY <2>3, SameIndexesOK
  <2>5. q.jobs = transfers'.jobs /\ q.rows = transfers'.rows /\ q.nextId = transfers'.nextId
    BY <2>3 DEF SameIndexes
  <2>6. Follows(transfers, q)
    BY <2>5 DEF Follows, JobKind
  <2>7. HistoryHeld(q, history') /\ DOMAIN history' = HistoryFields
    BY <1>2, <2>1, <2>4, <2>6, HistoryFollows
  <2>8. FinishedKinds(q) = FinishedKinds(transfers')
    BY <2>5 DEF FinishedKinds
  <2>9. HistoryHeld(transfers', history')
    BY <2>5, <2>7, <2>8 DEF HistoryHeld, JobKind
  <2> QED
    BY <2>3, <2>7, <2>9
<1> QED
  BY <1>1, <1>2 DEF Recorded

(* record_interrupted, what it does to the log *)
LEMMA InterruptedAs ==
    ASSUME DOMAIN history = HistoryFields,
           NEW open, open = (OpenKinds(transfers) \cup OpenScans) \ history.recorded,
           history' = Interrupted(history, transfers)
    PROVE  /\ DOMAIN history' = HistoryFields
           /\ history'.recorded = history.recorded \cup open
           /\ history'.credit = Credited(history, transfers, open)
           /\ DOMAIN history'.interrupted = DOMAIN history.interrupted \cup open
           /\ \A k \in DOMAIN history'.interrupted :
                history'.interrupted[k] = Count(history.interrupted, k) + IF k \in open THEN 1 ELSE 0
<1>1. history' = [history EXCEPT
          !.recorded = history.recorded \cup open,
          !.credit = Credited(history, transfers, open),
          !.interrupted = [k \in DOMAIN history.interrupted \cup open |->
                             Count(history.interrupted, k) + IF k \in open THEN 1 ELSE 0]]
  BY DEF Interrupted
<1> QED
  BY <1>1 DEF HistoryFields

(* the first of them: the loop ends *)
LEMMA InterruptsRunning ==
    ASSUME QueueOK(transfers), HistoryInv, phase = "running", history' = Interrupted(history, transfers),
           UNCHANGED <<transfers, planning, reviews, sync>>
    PROVE  InterruptedOnce'
<1> DEFINE open == (OpenKinds(transfers) \cup OpenScans) \ history.recorded
<1>1. DOMAIN history = HistoryFields /\ HistoryHeld(transfers, history)
  BY DEF HistoryInv
<1>2. open = OpenKinds(transfers) \cup OpenScans
  <2>1. \A k \in OpenScans : \E b : k = <<"Scan", b>>
    BY DEF OpenScans
  <2> QED
    BY <1>1, <2>1, OpenOrFinished DEF HistoryHeld
<1>3. /\ history'.recorded = history.recorded \cup open
      /\ history'.credit = Credited(history, transfers, open)
      /\ DOMAIN history'.interrupted = DOMAIN history.interrupted \cup open
      /\ \A k \in DOMAIN history'.interrupted :
           history'.interrupted[k] = Count(history.interrupted, k) + IF k \in open THEN 1 ELSE 0
  BY <1>1, InterruptedAs
<1> HIDE DEF open
<1>4. DOMAIN history'.interrupted = open
  BY <1>1, <1>3 DEF HistoryHeld
<1>5. \A k \in open : history'.interrupted[k] = 1
  BY <1>1, <1>3, <1>4 DEF HistoryHeld, Count
<1>6. ASSUME NEW id \in DOMAIN transfers.jobs
      PROVE  Count(history'.credit, id) = IF transfers.jobs[id].status = "Completed" THEN 1 ELSE 0
  <2> DEFINE kind == JobKind(transfers, id)
  <2>1. Count(history.credit, id) = IF id \in Counted(history, kind) THEN 1 ELSE 0
    BY <1>1 DEF HistoryHeld
  <2>2. Count(history'.credit, id) = Count(history.credit, id) +
          IF kind \in open /\ transfers.jobs[id].status = "Completed" /\ id \notin Counted(history, kind)
          THEN 1 ELSE 0
    BY <1>3, <2>1, CreditedOnce
  <2>3. id \in Counted(history, kind) => transfers.jobs[id].status = "Completed"
    BY <1>1 DEF HistoryHeld
  <2>4. transfers.jobs[id].status = "Completed" => id \in Counted(history, kind) \/ kind \in open
    BY <1>1, <1>2, OpenOrFinished DEF HistoryHeld
  <2> HIDE DEF kind
  <2> QED
    BY <2>1, <2>2, <2>3, <2>4
<1>7. OpenKinds(transfers') = OpenKinds(transfers) /\ OpenScans' = OpenScans
  BY DEF OpenScans
<1> QED
  BY <1>2, <1>3, <1>4, <1>5, <1>6, <1>7 DEF InterruptedOnce

(* a drop after a shutdown finds everything recorded *)
LEMMA InterruptsAgain ==
    ASSUME QueueOK(transfers), HistoryInv, phase # "running", history' = Interrupted(history, transfers),
           UNCHANGED <<transfers, planning, reviews, sync>>
    PROVE  InterruptedOnce'
<1>1. /\ DOMAIN history = HistoryFields
      /\ (OpenKinds(transfers) \cup OpenScans) \ history.recorded = {}
  BY DEF HistoryInv, InterruptedOnce
<1>2. /\ history'.recorded = history.recorded
      /\ history'.credit = Credited(history, transfers, {})
      /\ DOMAIN history'.interrupted = DOMAIN history.interrupted
      /\ \A k \in DOMAIN history'.interrupted : history'.interrupted[k] = Count(history.interrupted, k) + 0
  BY <1>1, InterruptedAs
<1>3. \A k \in DOMAIN history'.interrupted : history'.interrupted[k] = 1
  BY <1>2 DEF HistoryInv, InterruptedOnce, Count
<1>4. ASSUME NEW id \in DOMAIN transfers.jobs
      PROVE  Count(history'.credit, id) = IF transfers.jobs[id].status = "Completed" THEN 1 ELSE 0
  <2>1. Count(history.credit, id) = IF transfers.jobs[id].status = "Completed" THEN 1 ELSE 0
    BY DEF HistoryInv, InterruptedOnce
  <2>2. Count(Credited(history, transfers, {}), id) = Count(history.credit, id) + 0
    BY <2>1, CreditedOnce
  <2> QED
    BY <1>2, <2>1, <2>2
<1>5. OpenKinds(transfers') = OpenKinds(transfers) /\ OpenScans' = OpenScans
  BY DEF OpenScans
<1> QED
  BY <1>2, <1>3, <1>4, <1>5 DEF InterruptedOnce, HistoryInv

LEMMA HistoryNext ==
    ASSUME IInv, IInv', JobsMove, HistoryInv, [Next]_vars
    PROVE  HistoryInv'
<1>1. QueueOK(transfers) /\ QueueOK(transfers')
  BY DEF IInv, Held
<1>2. CASE phase = "running" /\ phase' = "running"
  <2>1. Recorded
    BY <1>2, StepTells
  <2>2. Follows(transfers, transfers')
    BY <1>1, MovesFollow DEF JobsMove
  <2>3. DOMAIN history' = HistoryFields /\ transfers'.changes = {} /\ HistoryHeld(transfers', history')
    BY <1>1, <1>2, <2>1, <2>2, RecordedHolds DEF HistoryInv
  <2>4. InterruptedOnce'
    BY <1>2 DEF InterruptedOnce
  <2> QED
    BY <2>3, <2>4 DEF HistoryInv
<1>3. CASE Shutdown \/ DropEngine
  <2>1. /\ history' = Interrupted(history, transfers)
        /\ UNCHANGED <<transfers, planning, reviews, sync>>
        /\ phase' # "running"
    BY <1>3 DEF Shutdown, DropEngine, scans
  <2>2. InterruptedOnce'
    BY <1>1, <2>1, InterruptsRunning, InterruptsAgain
  <2>3. DOMAIN history' = HistoryFields
    BY <2>1, InterruptedAs DEF HistoryInv
  <2> QED
    BY <2>1, <2>2, <2>3 DEF HistoryInv
<1>4. CASE phase # "running" /\ ~(Shutdown \/ DropEngine)
  <2>1. ~FinishConnect /\ ~HandleInternal
    BY <1>4 DEF FinishConnect, HandleInternal, Received
  <2>2. ~Command
    BY <1>4 DEF Command, Sent, Copy, ResolveConflicts, DeclineConflicts, CancelScan, CancelRow, RetryRow,
       CancelAll, ClearFinished, StartSync, Disconnect, RunSync, CancelSyncScan, CancelSyncPlan
  <2>3. UNCHANGED <<transfers, planning, reviews, sync, history>> /\ phase' # "running"
    BY <1>4, <2>1, <2>2 DEF Next, Background, Stop, TaskEnds, RemovePart, RemovalPanics, DropLate, StopTasks,
       scans, vars
  <2>4. OpenScans' = OpenScans
    BY <2>3 DEF OpenScans
  <2> QED
    BY <1>4, <2>3, <2>4 DEF HistoryInv, InterruptedOnce
<1>5. phase = "running" /\ phase' # "running" => Shutdown \/ DropEngine
  BY DEF Next, FinishConnect, Command, Background, HandleInternal, Stop, TaskEnds, RemovePart, RemovalPanics,
     DropLate, StopTasks, vars, Copy, ResolveConflicts, DeclineConflicts, CancelScan, CancelRow, RetryRow,
     CancelAll, ClearFinished, StartSync, Disconnect, RunSync, CancelSyncScan, CancelSyncPlan
<1> QED
  BY <1>2, <1>3, <1>4, <1>5

(* process_row_changes and record_interrupted: while the loop runs there   *)
(* is an entry for exactly the rows that are finished, a completed file is *)
(* counted once however often its row is retried, and whatever ends the    *)
(* loop, each row and scan it interrupts is recorded once.                 *)
THEOREM HistoryExactHolds == Spec => []HistoryExact
<1>1. Init => HistoryInv
  <2> SUFFICES ASSUME Init PROVE HistoryInv
    OBVIOUS
  <2>1. /\ DOMAIN history = HistoryFields /\ phase = "running"
        /\ history.recorded = {} /\ DOMAIN history.counted = {} /\ DOMAIN history.credit = {}
        /\ DOMAIN history.interrupted = {}
    BY DEF Init, HistoryFields
  <2>2. DOMAIN transfers.jobs = {} /\ DOMAIN transfers.rows = {} /\ transfers.changes = {}
    BY DEF Init, NewQueue
  <2> QED
    BY <2>1, <2>2 DEF HistoryInv, HistoryHeld, InterruptedOnce, Counted, FinishedKinds
<1>2. IInv /\ HistoryInv /\ [Next]_vars => HistoryInv'
  BY NextRuns, HistoryNext
<1>3. IInv /\ HistoryInv => HistoryExact
  <2> SUFFICES ASSUME IInv, HistoryInv, phase = "running" PROVE
        /\ history.recorded = {transfers.rows[key].kind : key \in
                                 {k \in DOMAIN transfers.rows : RowFinished(transfers.rows[k])}}
        /\ \A key \in DOMAIN transfers.rows, id \in DOMAIN transfers.jobs :
             RowFinished(transfers.rows[key]) /\ id \in transfers.rows[key].order =>
               Count(history.credit, id) = IF transfers.jobs[id].status = "Completed" THEN 1 ELSE 0
    BY DEF HistoryExact, HistoryInv
  <2>1. HistoryHeld(transfers, history) /\ QueueOK(transfers)
    BY DEF HistoryInv, IInv, Held
  <2>2. ASSUME NEW key \in DOMAIN transfers.rows, NEW id \in transfers.rows[key].order,
               RowFinished(transfers.rows[key])
        PROVE  Count(history.credit, id) = IF transfers.jobs[id].status = "Completed" THEN 1 ELSE 0
    <3>1. id \in DOMAIN transfers.jobs /\ JobKind(transfers, id) \in FinishedKinds(transfers)
      BY <2>1, <2>2, KindOfRow, FinishedOf
    <3> QED
      BY <2>1, <3>1 DEF HistoryHeld
  <2> QED
    BY <2>1, <2>2 DEF HistoryHeld, FinishedKinds
<1> QED
  BY <1>1, <1>2, <1>3, EngineInvariant, PTL DEF Spec

---------------------------------------------------------------------------
(***************************************************************************)
(* Listings.  A place whose listing misses a file has a waiting or running *)
(* job on its way; the last of them lists it when it ends.  A disconnect   *)
(* ends waiting downloads without that, so that a download's place is held *)
(* to it only where nobody disconnects.                                    *)
(***************************************************************************)
PlaceOf(q, id) == Place(q.jobs[id].session, q.jobs[id].direction)

OnTheirWay(q) == q.queued \cup q.running

Fresh(q, st) ==
    \A place \in st :
      place # Local \/ "Disconnect" \notin Commands =>
        \E id \in OnTheirWay(q) : PlaceOf(q, id) = place

(* a place to be listed has a job on its way, or one that is ending *)
FreshBut(q, S, st) ==
    \A place \in st :
      place # Local \/ "Disconnect" \notin Commands =>
        \E id \in OnTheirWay(q) \cup S : PlaceOf(q, id) = place

(* what is left of st when the jobs in S have ended *)
Listed(st, r, S) == Refreshed(st, r, {DestinationOf(r, id) : id \in S})

LEMMA OnTheirWayAre ==
    ASSUME NEW q, QueueOK(q)
    PROVE  OnTheirWay(q) = {id \in DOMAIN q.jobs : IsPending(q.jobs[id])}
  BY Indexed DEF OnTheirWay, IsPending

LEMMA FreshKept ==
    ASSUME NEW q, NEW st, Fresh(q, st), NEW st2 \in SUBSET st, NEW r,
           \A id \in OnTheirWay(q) : id \in OnTheirWay(r) /\ PlaceOf(r, id) = PlaceOf(q, id)
    PROVE  Fresh(r, st2)
  BY DEF Fresh

LEMMA FreshAlike ==
    ASSUME NEW q, NEW st, Fresh(q, st), NEW st2 \in SUBSET st, NEW r, SameIndexes(q, r)
    PROVE  Fresh(r, st2)
  BY DEF Fresh, SameIndexes, OnTheirWay, PlaceOf

(* has_pending tells whether more is on its way to a destination *)
LEMMA PendingThere ==
    ASSUME NEW q, QueueOK(q), NEW id \in DOMAIN q.jobs, HasPending(q, q.jobs[id].session, q.jobs[id].direction)
    PROVE  \E j \in OnTheirWay(q) : PlaceOf(q, j) = PlaceOf(q, id)
<1> DEFINE dest == <<q.jobs[id].session, q.jobs[id].direction>>
<1>1. dest \in Sessions \X Direction
  BY Indexed
<1>2. q.pending[dest] = Cardinality(PendingIds(q, dest)) /\ q.pending[dest] > 0
  BY <1>1 DEF QueueOK, IndexesMatch, HasPending
<1>3. PendingIds(q, dest) # {}
  BY <1>2, FS_EmptySet
<1>4. PICK j \in DOMAIN q.jobs : IsPending(q.jobs[j]) /\ q.jobs[j].session = dest[1] /\ q.jobs[j].direction = dest[2]
  BY <1>3 DEF PendingIds
<1> QED
  BY <1>4, OnTheirWayAre DEF PlaceOf

(* jobs end, and refresh_destinations_without_pending lists what is done *)
LEMMA FreshEnded ==
    ASSUME NEW q, QueueOK(q), NEW S \in SUBSET DOMAIN q.jobs, NEW ended \in {"Completed", "Failed", "Cancelled"},
           NEW r, MovedTo(q, S, ended, r), NEW st,
           FreshBut(q, S, st)
    PROVE  Fresh(r, Listed(st, r, S))
<1> DEFINE dests == {DestinationOf(r, id) : id \in S}
           idle == {Place(d[1], d[2]) : d \in {e \in dests : ~HasPending(r, e[1], e[2])}}
<1>1. QueueOK(r) /\ DOMAIN r.jobs = DOMAIN q.jobs /\ \A id \in DOMAIN q.jobs : PlaceOf(r, id) = PlaceOf(q, id)
  BY DEF MovedTo, SameJobs, PlaceOf
<1>2. ASSUME NEW id \in S, ~HasPending(r, r.jobs[id].session, r.jobs[id].direction)
      PROVE  PlaceOf(r, id) \in idle
  <2>1. DestinationOf(r, id) \in {e \in dests : ~HasPending(r, e[1], e[2])}
    BY <1>2 DEF DestinationOf
  <2> HIDE DEF dests
  <2> QED
    BY <2>1 DEF PlaceOf, DestinationOf
<1> HIDE DEF idle
<1>3. ASSUME NEW place \in st \ idle, place # Local \/ "Disconnect" \notin Commands
      PROVE  \E id \in OnTheirWay(r) : PlaceOf(r, id) = place
  <2>1. PICK id \in OnTheirWay(q) \cup S : PlaceOf(q, id) = place
    BY <1>3 DEF FreshBut
  <2>2. id \in DOMAIN q.jobs /\ PlaceOf(r, id) = place
    BY <1>1, <2>1, OnTheirWayAre
  <2>3. CASE id \in S
    BY <1>1, <1>2, <1>3, <2>2, <2>3, PendingThere
  <2>4. CASE id \notin S
    <3>1. r.jobs[id].status = q.jobs[id].status /\ IsPending(q.jobs[id])
      BY <2>1, <2>2, <2>4, OnTheirWayAre DEF MovedTo
    <3> QED
      BY <1>1, <2>2, <3>1, OnTheirWayAre DEF IsPending
  <2> QED
    BY <2>3, <2>4
<1>4. Listed(st, r, S) = st \ idle
  BY DEF Listed, Refreshed, idle
<1> QED
  BY <1>3, <1>4 DEF Fresh

(* the ends of handlers *)
LEMMA SettleFresh ==
    ASSUME NEW q, QueueOK(q), Settle(q), Fresh(q, stale')
    PROVE  Fresh(transfers', stale')
<1>1. MovedTo(q, {}, "InProgress", transfers') /\ OnTheirWay(transfers') = OnTheirWay(q)
  BY AfterSettle DEF OnTheirWay
<1>2. \A id \in OnTheirWay(q) : PlaceOf(transfers', id) = PlaceOf(q, id)
  BY <1>1, OnTheirWayAre DEF MovedTo, SameJobs, PlaceOf
<1> QED
  BY <1>1, <1>2, FreshKept

LEMMA FillFresh ==
    ASSUME NEW q, QueueOK(q), NEW st, Fill(q, st), Fresh(q, st)
    PROVE  Fresh(transfers', stale')
<1> DEFINE S == Startable(q)
           go == {id \in S : q.jobs[id].session \in sessions}
           dead == S \ go
           r == StartJobs(q, go)
           filled == SetStatus(r, dead, "Failed")
<1>1. S \in SUBSET q.queued
  BY StartableExists DEF Startable
<1>2. Settle(filled) /\ stale' = Refreshed(st, filled, {DestinationOf(q, id) : id \in dead})
  BY DEF Fill
<1> HIDE DEF S
<1>3. go \in SUBSET q.queued /\ dead \in SUBSET DOMAIN q.jobs
  BY <1>1, Indexed
<1> HIDE DEF go, dead
<1>4. MovedTo(q, go, "InProgress", r)
  BY <1>3, StartJobsMoves
<1> HIDE DEF r
<1>5. QueueOK(r) /\ DOMAIN r.jobs = DOMAIN q.jobs
  BY <1>4 DEF MovedTo, SameJobs
<1>6. MovedTo(r, dead, "Failed", filled)
  BY <1>3, <1>5, SetStatusMoves DEF JobStatus
<1> HIDE DEF filled
<1>7. \A id \in OnTheirWay(q) : id \in OnTheirWay(r) /\ PlaceOf(r, id) = PlaceOf(q, id)
  BY <1>4, <1>5, OnTheirWayAre DEF MovedTo, SameJobs, PlaceOf, IsPending
<1>8. Fresh(r, st)
  BY <1>7, FreshKept
<1>9. Fresh(filled, Listed(st, filled, dead))
  <2>1. FreshBut(r, dead, st)
    BY <1>8 DEF Fresh, FreshBut
  <2>2. dead \in SUBSET DOMAIN r.jobs /\ QueueOK(r)
    BY <1>3, <1>5
  <2> QED
    BY ONLY <1>6, <2>1, <2>2, FreshEnded
<1>10. {DestinationOf(filled, id) : id \in dead} = {DestinationOf(q, id) : id \in dead}
  <2>1. \A id \in dead : DestinationOf(filled, id) = DestinationOf(q, id)
    BY <1>3, <1>4, <1>6 DEF MovedTo, SameJobs, DestinationOf
  <2> QED
    BY <2>1
<1>11. QueueOK(filled) /\ Fresh(filled, stale')
  BY <1>2, <1>6, <1>9, <1>10 DEF MovedTo, Listed
<1> QED
  BY <1>2, <1>11, SettleFresh

(* apply_plan_ready *)
LEMMA ApplyFresh ==
    ASSUME QueueOK(transfers), Fresh(transfers, stale), NEW batch \in Nat, NEW session \in Sessions,
           NEW direction \in Direction, NEW files \in Files,
           ApplyPlan(transfers, batch, session, direction, files)
    PROVE  Fresh(transfers', stale')
<1> DEFINE e == Enqueue(transfers, session, direction, files, batch)
           r == ForgetEmpty(e, {batch})
           st == IF files = <<>> THEN stale \ {Place(session, direction)} ELSE stale
<1>1. Fill(r, st)
  BY DEF ApplyPlan
<1>2. batch # NoBatch
  BY DEF NoBatch
<1>3. QueueOK(e)
  BY <1>2, EnqueueOK
<1>4. \A id \in OnTheirWay(transfers) : id \in OnTheirWay(e) /\ PlaceOf(e, id) = PlaceOf(transfers, id)
  <2>1. CASE files = <<>>
    BY <2>1 DEF Enqueue
  <2>2. CASE files # <<>>
    <3>1. Added(transfers, e, NewIds(transfers, files), session, batch)
      BY <2>2, EnqueueAdds
    <3> HIDE DEF e
    <3> QED
      BY <3>1, OnTheirWayAre DEF Added, OnTheirWay, PlaceOf
  <2> QED
    BY <2>1, <2>2
<1> HIDE DEF e
<1>5. SameIndexes(e, r) /\ QueueOK(r)
  BY <1>3, BatchForgotten
<1> HIDE DEF r
<1>6. st \in SUBSET stale
  OBVIOUS
<1> HIDE DEF st
<1>7. Fresh(e, st)
  BY <1>4, <1>6, FreshKept
<1>8. Fresh(r, st)
  BY <1>5, <1>7, FreshAlike
<1> QED
  BY <1>1, <1>5, <1>8, FillFresh

(* the handlers that only open, forget or drop batches *)
LEMMA ForgetFresh ==
    ASSUME QueueOK(transfers), Fresh(transfers, stale), stale' \in SUBSET stale,
           NEW q, QueueOK(q), SameIndexes(transfers, q), Settle(q)
    PROVE  Fresh(transfers', stale')
  BY FreshAlike, SettleFresh

LEMMA ForgotFresh ==
    ASSUME QueueOK(transfers), Fresh(transfers, stale), stale' \in SUBSET stale,
           NEW gone, Settle(ForgetEmpty(transfers, gone))
    PROVE  Fresh(transfers', stale')
<1>1. SameIndexes(transfers, ForgetEmpty(transfers, gone)) /\ QueueOK(ForgetEmpty(transfers, gone))
  BY BatchForgotten
<1> QED
  BY <1>1, ForgetFresh

LEMMA SameFresh ==
    ASSUME QueueOK(transfers), Fresh(transfers, stale), stale' \in SUBSET stale, Settle(transfers)
    PROVE  Fresh(transfers', stale')
<1>1. Fresh(transfers, stale')
  BY DEF Fresh
<1> QED
  BY <1>1, SettleFresh

LEMMA ScanStartFresh ==
    ASSUME QueueOK(transfers), Fresh(transfers, stale), stale' = stale,
           NEW name, NEW session, NEW direction, StartScan(name, session, direction)
    PROVE  Fresh(transfers', stale')
<1>1. SameIndexes(transfers, StartBatch(transfers)) /\ QueueOK(StartBatch(transfers))
  BY MarksOK, SameIndexesOK
<1>2. Settle(StartBatch(transfers))
  BY DEF StartScan
<1> QED
  BY <1>1, <1>2, ForgetFresh

LEMMA RunSyncFresh ==
    ASSUME QueueOK(transfers), QueueOK(transfers'), Fresh(transfers, stale), NEW id, RunSync(id)
    PROVE  Fresh(transfers', stale')
<1>1. PICK n, ids :
        Settle([transfers EXCEPT !.nextBatch = transfers.nextBatch + n, !.batchLabels = transfers.batchLabels \cup ids])
  BY DEF RunSync
<1> DEFINE q == [transfers EXCEPT !.nextBatch = transfers.nextBatch + n, !.batchLabels = transfers.batchLabels \cup ids]
<1>2. SameIndexes(transfers, q)
  <2>1. transfers' = [q EXCEPT !.changes = {}] /\ transfers'.nextBatch \in Nat
    BY <1>1 DEF Settle, QueueOK, QueueTyped
  <2>2. DOMAIN q = QueueFields
    BY DEF QueueOK, QueueTyped
  <2>3. q.nextBatch \in Nat
    BY <2>1, <2>2 DEF QueueFields
  <2> QED
    BY <2>2, <2>3 DEF QueueFields, SameIndexes
<1>3. Settle(q) /\ stale' = stale
  BY <1>1 DEF RunSync
<1> HIDE DEF q
<1> QED
  BY <1>2, <1>3, SameIndexesOK, ForgetFresh

(* jobs of the user's or a session's end *)
LEMMA EndFresh ==
    ASSUME QueueOK(transfers), Fresh(transfers, stale), NEW S \in SUBSET DOMAIN transfers.jobs,
           NEW ended \in {"Completed", "Failed", "Cancelled"}, NEW q, MovedTo(transfers, S, ended, q),
           Settle(q), stale' = Listed(stale, q, S)
    PROVE  Fresh(transfers', stale')
<1>1. FreshBut(transfers, S, stale)
  BY DEF Fresh, FreshBut
<1>2. Fresh(q, stale')
  BY <1>1, FreshEnded
<1>3. QueueOK(q)
  BY DEF MovedTo
<1> QED
  BY <1>2, <1>3, SettleFresh

LEMMA CancelRowFresh ==
    ASSUME QueueOK(transfers), Fresh(transfers, stale), NEW kind, CancelRow(kind)
    PROVE  Fresh(transfers', stale')
<1> DEFINE S == JobsOf(transfers, kind) \cap transfers.queued
           q == SetStatus(transfers, S, "Cancelled")
<1>1. Settle(q) /\ stale' = Listed(stale, q, S)
  BY DEF CancelRow, Listed
<1>2. S \in SUBSET transfers.queued
  OBVIOUS
<1> HIDE DEF S
<1>3. MovedTo(transfers, S, "Cancelled", q) /\ S \in SUBSET DOMAIN transfers.jobs
  BY <1>2, Withdraws
<1> HIDE DEF q
<1> QED
  BY <1>1, <1>3, EndFresh

LEMMA CancelAllFresh ==
    ASSUME QueueOK(transfers), Fresh(transfers, stale), CancelAll
    PROVE  Fresh(transfers', stale')
<1> DEFINE r == ForgetEmpty(transfers, DOMAIN reviews)
           q == CancelAllQueued(r)
<1>1. Settle(q) /\ stale' = Listed(stale, q, transfers.queued)
  BY DEF CancelAll, Listed
<1>2. SameIndexes(transfers, r) /\ QueueOK(r)
  BY BatchForgotten
<1>3. q = SetStatus(r, r.queued, "Cancelled") /\ r.queued = transfers.queued
  BY <1>2 DEF CancelAllQueued, SameIndexes
<1> HIDE DEF r, q
<1>4. MovedTo(r, transfers.queued, "Cancelled", q) /\ transfers.queued \in SUBSET DOMAIN r.jobs
  BY <1>2, <1>3, Withdraws
<1>5. FreshBut(r, transfers.queued, stale)
  <2>1. Fresh(r, stale)
    BY <1>2, FreshAlike
  <2> QED
    BY <2>1 DEF Fresh, FreshBut
<1>6. Fresh(q, stale')
  BY <1>1, <1>2, <1>4, <1>5, FreshEnded
<1>7. QueueOK(q)
  BY <1>4 DEF MovedTo
<1> QED
  BY <1>1, <1>6, <1>7, SettleFresh

LEMMA RetryRowFresh ==
    ASSUME QueueOK(transfers), Fresh(transfers, stale), NEW kind, JobsOf(transfers, kind) \subseteq DOMAIN transfers.jobs,
           RetryRow(kind)
    PROVE  Fresh(transfers', stale')
<1> DEFINE S == {id \in JobsOf(transfers, kind) : IsRetryable(transfers.jobs[id])}
           q == RetryJobs(transfers, S)
<1>1. Fill(q, stale)
  BY DEF RetryRow
<1>2. S \in SUBSET DOMAIN transfers.jobs /\ \A id \in S : IsRetryable(transfers.jobs[id])
  OBVIOUS
<1> HIDE DEF S
<1>3. MovedTo(transfers, S, "Queued", q)
  BY <1>2, RetryJobsMoves
<1> HIDE DEF q
<1>4. \A id \in OnTheirWay(transfers) : id \in OnTheirWay(q) /\ PlaceOf(q, id) = PlaceOf(transfers, id)
  BY <1>3, OnTheirWayAre DEF MovedTo, SameJobs, PlaceOf, IsPending
<1>5. QueueOK(q) /\ Fresh(q, stale)
  BY <1>3, <1>4, FreshKept DEF MovedTo
<1> QED
  BY <1>1, <1>5, FillFresh

LEMMA ClearFinishedFresh ==
    ASSUME QueueOK(transfers), Fresh(transfers, stale), ClearFinished
    PROVE  Fresh(transfers', stale')
<1> DEFINE ids == UNION {q.order : q \in {transfers.rows[key] : key \in
                    {k \in DOMAIN transfers.rows : RowFinished(transfers.rows[k])}}}
           q == RemoveJobs(transfers, ids)
<1>1. Settle(q) /\ stale' \in SUBSET stale
  BY DEF ClearFinished
<1>2. \A id \in ids : id \in DOMAIN transfers.jobs /\ ~IsPending(transfers.jobs[id])
  BY FinishedRowEnded DEF IsPending
<1> HIDE DEF ids
<1>3. /\ \A id \in DOMAIN transfers.jobs \ ids : q.jobs[id] = transfers.jobs[id]
      /\ q.running = transfers.running \ ids /\ q.queued = transfers.queued \ ids
  BY RemoveTakes
<1>4. QueueOK(q)
  BY RemoveJobsOK
<1> HIDE DEF q
<1>5. \A id \in OnTheirWay(transfers) : id \in OnTheirWay(q) /\ PlaceOf(q, id) = PlaceOf(transfers, id)
  <2>1. \A id \in OnTheirWay(transfers) : id \in DOMAIN transfers.jobs \ ids
    BY <1>2, OnTheirWayAre
  <2> QED
    BY <1>3, <2>1 DEF OnTheirWay, PlaceOf
<1> QED
  BY <1>1, <1>4, <1>5, FreshKept, SettleFresh

(* the jobs a lost session leaves behind upload to it, or download *)
LEMMA DisconnectFresh ==
    ASSUME QueueOK(transfers), Fresh(transfers, stale), NEW session \in Sessions, Disconnect(session)
    PROVE  Fresh(transfers', stale')
<1> DEFINE S == transfers.queuedBySession[session]
           r == FailQueuedForSession(transfers, session)
           q == ForgetEmpty(r, OfSession(reviews, session))
<1>1. Settle(q) /\ stale' = stale \ {session} /\ "Disconnect" \in Commands
  BY DEF Disconnect, Sent
<1>2. S \in SUBSET transfers.queued /\ \A id \in S : transfers.jobs[id].session = session
  BY DEF QueueOK, IndexesMatch
<1>3. r = SetStatus(transfers, S, "Failed")
  BY DEF FailQueuedForSession
<1> HIDE DEF S, r
<1>4. MovedTo(transfers, S, "Failed", r)
  BY <1>2, <1>3, Withdraws
<1>5. QueueOK(r) /\ SameIndexes(r, q) /\ QueueOK(q)
  BY <1>4, BatchForgotten DEF MovedTo
<1> HIDE DEF q
<1>6. ASSUME NEW place \in stale', place # Local \/ "Disconnect" \notin Commands
      PROVE  \E id \in OnTheirWay(r) : PlaceOf(r, id) = place
  <2>1. PICK id \in OnTheirWay(transfers) : PlaceOf(transfers, id) = place
    BY <1>1, <1>6 DEF Fresh
  <2>2. id \notin S
    BY <1>1, <1>2, <1>6, <2>1 DEF PlaceOf, Place
  <2>3. id \in DOMAIN transfers.jobs /\ IsPending(transfers.jobs[id])
    BY <2>1, OnTheirWayAre
  <2>4. id \in DOMAIN r.jobs /\ IsPending(r.jobs[id]) /\ PlaceOf(r, id) = place
    BY <1>4, <2>1, <2>2, <2>3 DEF MovedTo, SameJobs, PlaceOf, IsPending
  <2> QED
    BY <1>5, <2>4, OnTheirWayAre
<1>7. Fresh(r, stale')
  BY <1>6 DEF Fresh
<1> QED
  BY <1>1, <1>5, <1>7, FreshAlike, SettleFresh

(* refresh_transfer_destination, of a job that has just ended *)
LEMMA FinishedFresh ==
    ASSUME QueueOK(transfers), Fresh(transfers, stale), NEW id, NEW status \in {"Completed", "Cancelled"},
           Finished(id, status)
    PROVE  Fresh(transfers', stale')
<1> DEFINE S == {id} \cap DOMAIN transfers.jobs
           q == SetStatus(transfers, S, status)
<1>1. Fill(q, IF id \in DOMAIN q.jobs THEN Refreshed(Landed(q, id), q, {DestinationOf(q, id)}) ELSE stale)
  BY DEF Finished
<1>2. MovedTo(transfers, S, status, q)
  BY SetStatusMoves DEF JobStatus
<1> HIDE DEF q
<1>3. QueueOK(q) /\ DOMAIN q.jobs = DOMAIN transfers.jobs
  BY <1>2 DEF MovedTo, SameJobs
<1>4. CASE id \in DOMAIN q.jobs
  <2>1. S = {id} /\ Listed(Landed(q, id), q, S) = Refreshed(Landed(q, id), q, {DestinationOf(q, id)})
    BY <1>3, <1>4 DEF Listed
  <2>2. PlaceOf(q, id) = PlaceOf(transfers, id)
    BY <1>2, <1>3, <1>4 DEF MovedTo, SameJobs, PlaceOf
  <2>3. Landed(q, id) \subseteq stale \cup {PlaceOf(q, id)}
    BY DEF Landed, PlaceOf
  <2>4. FreshBut(transfers, S, Landed(q, id))
    BY <2>1, <2>2, <2>3 DEF Fresh, FreshBut
  <2>5. S \in SUBSET DOMAIN transfers.jobs
    OBVIOUS
  <2> HIDE DEF S
  <2>6. Fresh(q, Listed(Landed(q, id), q, S))
    BY <1>2, <2>4, <2>5, FreshEnded
  <2> QED
    BY <1>1, <1>3, <1>4, <2>1, <2>6, FillFresh
<1>5. CASE id \notin DOMAIN q.jobs
  <2>1. S = {}
    BY <1>3, <1>5
  <2>2. \A i \in OnTheirWay(transfers) : i \in OnTheirWay(q) /\ PlaceOf(q, i) = PlaceOf(transfers, i)
    BY <1>2, <1>3, <2>1, OnTheirWayAre DEF MovedTo, SameJobs, PlaceOf, IsPending
  <2>3. Fresh(q, stale)
    BY <2>2, FreshKept
  <2> QED
    BY <1>1, <1>3, <1>5, <2>3, FillFresh
<1> QED
  BY <1>4, <1>5

LEMMA FailedFresh ==
    ASSUME QueueOK(transfers), Fresh(transfers, stale), NEW id, Failed(id)
    PROVE  Fresh(transfers', stale')
<1> DEFINE S == {id} \cap DOMAIN transfers.jobs
           asked == Transfer(id) \in cancelled
           ended == IF asked THEN "Cancelled" ELSE "Failed"
           q == SetStatus(transfers, S, ended)
           r == RetryOrGiveUp(q, id)
           retried == ~asked /\ CanRetry(q, id)
<1>1. IF retried THEN Fill(r, stale)
      ELSE Fill(q, IF id \in DOMAIN q.jobs THEN Refreshed(stale, q, {DestinationOf(q, id)}) ELSE stale)
  BY DEF Failed
<1>2. MovedTo(transfers, S, ended, q) /\ ended \in {"Failed", "Cancelled"}
  BY SetStatusMoves DEF JobStatus
<1> HIDE DEF q, ended, asked
<1>3. QueueOK(q) /\ DOMAIN q.jobs = DOMAIN transfers.jobs
  BY <1>2 DEF MovedTo, SameJobs
<1>4. CASE retried
  <2>1. MovedTo(q, {id}, "Queued", r) /\ id \in DOMAIN q.jobs
    BY <1>3, <1>4, RetryOrGiveUpMoves DEF CanRetry
  <2> HIDE DEF r, retried
  <2>2. QueueOK(r)
    BY <2>1 DEF MovedTo
  <2>3. \A i \in OnTheirWay(transfers) : i \in OnTheirWay(r) /\ PlaceOf(r, i) = PlaceOf(transfers, i)
    BY <1>2, <1>3, <2>1, <2>2, OnTheirWayAre DEF MovedTo, SameJobs, PlaceOf, IsPending
  <2>4. Fresh(r, stale)
    BY <2>3, FreshKept
  <2> QED
    BY <1>1, <1>4, <2>2, <2>4, FillFresh
<1> HIDE DEF r
<1>5. CASE ~retried /\ id \in DOMAIN q.jobs
  <2>1. S = {id} /\ Listed(stale, q, S) = Refreshed(stale, q, {DestinationOf(q, id)})
    BY <1>3, <1>5 DEF Listed
  <2>2. FreshBut(transfers, S, stale) /\ S \in SUBSET DOMAIN transfers.jobs
    BY DEF Fresh, FreshBut
  <2> HIDE DEF S, retried
  <2>3. Fresh(q, Listed(stale, q, S))
    BY <1>2, <2>2, FreshEnded
  <2> QED
    BY <1>1, <1>3, <1>5, <2>1, <2>3, FillFresh
<1>6. CASE ~retried /\ id \notin DOMAIN q.jobs
  <2>1. S = {}
    BY <1>3, <1>6
  <2> HIDE DEF retried
  <2>2. \A i \in OnTheirWay(transfers) : i \in OnTheirWay(q) /\ PlaceOf(q, i) = PlaceOf(transfers, i)
    BY <1>2, <1>3, <2>1, OnTheirWayAre DEF MovedTo, SameJobs, PlaceOf, IsPending
  <2>3. Fresh(q, stale)
    BY <2>2, FreshKept
  <2> QED
    BY <1>1, <1>3, <1>6, <2>3, FillFresh
<1> QED
  BY <1>4, <1>5, <1>6

LEMMA HandledFresh ==
    ASSUME Runs, Fresh(transfers, stale), HandleInternal
    PROVE  Fresh(transfers', stale')
<1> DEFINE result == Head(internal)
           on == result.scope[2]
<1>1. Received /\ Handle(result) /\ QueueOK(transfers) /\ sessions \subseteq Sessions
  BY RunsParts DEF HandleInternal
<1>2. ResultHeld(result, sync.scanning, cancelled)
  BY <1>1, HeadHeld
<1>3. result.what \in {"PlanReady", "SyncFoldersReady"} =>
        on \in Nat /\ result.direction \in Direction /\ result.plan.files \in Files
  BY PlanFields
<1>4. \A b : DropScan(b) /\ stale' \in SUBSET stale => Fresh(transfers', stale')
  BY <1>1, ForgotFresh DEF DropScan
<1>5. UNCHANGED <<transfers, stale>> => Fresh(transfers', stale')
  OBVIOUS
<1> HIDE DEF result
<1>6. CASE result.what \in {"Completed", "Cancelled"}
  BY <1>1, <1>6, FinishedFresh DEF Handle
<1>7. CASE result.what = "Failed"
  BY <1>1, <1>7, FailedFresh DEF Handle
<1>8. CASE result.what = "PlanReady"
  <2>1. PlanReady(on, result)
    BY <1>1, <1>8 DEF Handle
  <2> QED
    BY <1>1, <1>3, <1>4, <1>8, <2>1, SameFresh, ApplyFresh DEF PlanReady, front
<1>9. CASE result.what \in {"PlanCancelled", "PlanFailed", "SyncCancelled", "SyncFailed"}
  BY <1>1, <1>4, <1>9 DEF Handle, PlanCancelled, PlanFailed, SyncEnded, front
<1>10. CASE result.what = "SyncPlanReady"
  BY <1>1, <1>4, <1>10 DEF Handle, SyncPlanReady, SyncEnded, front
<1>11. CASE result.what = "SyncFoldersReady"
  <2>1. SyncFoldersReady(on, result)
    BY <1>1, <1>11 DEF Handle
  <2> QED
    BY <1>1, <1>3, <1>4, <1>11, <2>1, SameFresh, ApplyFresh DEF SyncFoldersReady, SyncEnded, front
<1>12. CASE result.what = "PartialsRemoved"
  BY <1>1, <1>12 DEF Handle, PartialsRemoved, Fresh
<1>13. CASE result.what = "Panicked"
  <2>1. Panicked(result.scope)
    BY <1>1, <1>13 DEF Handle
  <2> QED
    BY <1>1, <1>4, <1>5, <2>1, FailedFresh DEF Panicked, SyncEnded, PlanFailed, front
<1> QED
  BY <1>2, <1>6, <1>7, <1>8, <1>9, <1>10, <1>11, <1>12, <1>13 DEF ResultHeld

LEMMA ResolveFresh ==
    ASSUME Runs, Fresh(transfers, stale), NEW batch, ResolveConflicts(batch)
    PROVE  Fresh(transfers', stale')
  BY RunsParts, ReviewApplied, ApplyFresh

LEMMA CommandFresh ==
    ASSUME Runs, QueueOK(transfers'), Fresh(transfers, stale), Command
    PROVE  Fresh(transfers', stale')
<1>1. QueueOK(transfers)
  BY RunsParts
<1>2. ASSUME NEW s \in Sessions, NEW d \in Direction, Copy(s, d) PROVE Fresh(transfers', stale')
  BY <1>1, <1>2, ScanStartFresh DEF Copy, front
<1>3. ASSUME NEW b \in Batches, DeclineConflicts(b) \/ CancelScan(b) PROVE Fresh(transfers', stale')
  BY <1>1, <1>3, ForgotFresh DEF DeclineConflicts, CancelScan
<1>4. ASSUME NEW s \in Sessions, StartSync(s) PROVE Fresh(transfers', stale')
  BY <1>1, <1>4, ScanStartFresh DEF StartSync, front
<1>5. ASSUME NEW b \in Batches, CancelSyncScan(b) \/ CancelSyncPlan(b) PROVE Fresh(transfers', stale')
  BY <1>5 DEF CancelSyncScan, CancelSyncPlan, front
<1>6. ASSUME NEW b \in Batches, RetryRow(<<"Batch", b>>) PROVE Fresh(transfers', stale')
  BY <1>1, <1>6, RowsShare, RetryRowFresh
<1> QED
  BY <1>1, <1>2, <1>3, <1>4, <1>5, <1>6, ResolveFresh, CancelRowFresh, CancelAllFresh,
     ClearFinishedFresh, DisconnectFresh, RunSyncFresh DEF Command

LEMMA FreshNext ==
    ASSUME IInv, IInv', phase = "running" => Fresh(transfers, stale), [Next]_vars
    PROVE  (phase = "running" => Fresh(transfers, stale))'
<1> SUFFICES ASSUME phase' = "running" PROVE Fresh(transfers', stale')
  OBVIOUS
<1>1. ~Stop
  BY DEF Stop, Shutdown, DropLate, StopTasks, DropEngine
<1>2. phase = "running"
  BY <1>1 DEF Next, vars, FinishConnect, Background, TaskEnds, RemovePart, RemovalPanics, HandleInternal,
     Received, Command, Sent, Copy, ResolveConflicts, DeclineConflicts, CancelScan, CancelRow, RetryRow,
     CancelAll, ClearFinished, StartSync, Disconnect, RunSync, CancelSyncScan, CancelSyncPlan
<1>3. Runs /\ QueueOK(transfers')
  BY <1>2 DEF IInv, Runs, WorkNow, Held
<1>4. CASE FinishConnect \/ Background \/ UNCHANGED vars
  BY <1>2, <1>4 DEF FinishConnect, Background, TaskEnds, RemovePart, RemovalPanics, vars, front
<1> QED
  BY <1>1, <1>2, <1>3, <1>4, CommandFresh, HandledFresh DEF Next

(* A place of a session: whatever happens, disconnects too, its listing    *)
(* misses a completed upload only as long as another one is on its way.    *)
RemoteListingsFresh ==
    phase = "running" =>
      \A place \in stale \ {Local} :
        \E id \in transfers.queued \cup transfers.running :
          Place(transfers.jobs[id].session, transfers.jobs[id].direction) = place

(* what the listings rest on *)
LEMMA ListingsInvariant == Spec => [](phase = "running" => Fresh(transfers, stale))
<1>1. Init => (phase = "running" => Fresh(transfers, stale))
  BY DEF Init, Fresh
<1>2. IInv /\ (phase = "running" => Fresh(transfers, stale)) /\ [Next]_vars
        => (phase = "running" => Fresh(transfers, stale))'
  BY NextRuns, FreshNext
<1> QED
  BY <1>1, <1>2, EngineInvariant, PTL DEF Spec

(* refresh_transfer_destination and its kin: an upload that has arrived is *)
(* listed at the latest with the last one to its session.                  *)
THEOREM RemoteListingsFreshHold == Spec => []RemoteListingsFresh
<1>1. (phase = "running" => Fresh(transfers, stale)) => RemoteListingsFresh
  BY DEF Fresh, RemoteListingsFresh, OnTheirWay, PlaceOf
<1> QED
  BY <1>1, ListingsInvariant, PTL

(* ... and so is a download, where no disconnect ends the waiting ones.    *)
THEOREM ListingsFreshHolds ==
    ASSUME "Disconnect" \notin Commands
    PROVE  Spec => []ListingsFresh
<1>1. (phase = "running" => Fresh(transfers, stale)) => ListingsFresh
  BY DEF Fresh, ListingsFresh, OnTheirWay, PlaceOf
<1> QED
  BY <1>1, ListingsInvariant, PTL
=================================================================================
