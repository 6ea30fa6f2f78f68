------------------------------ MODULE RemoteEdits ------------------------------
(***************************************************************************)
(* Editing a remote file with a local editor: engine/handlers/edit/mod.rs, *)
(* with the parts of tasks/mod.rs and engine/mod.rs it goes through, and   *)
(* the front end's app/edit/mod.rs as the one who opens editors and        *)
(* answers.                                                                *)
(*                                                                         *)
(* An edit downloads the file into a private folder, waits for the editor, *)
(* looks whether the text changed, maybe asks, and uploads the text in     *)
(* place.  Each of these but the waiting is a task whose result waits in   *)
(* `internal`; meanwhile others change the remote file, the user cancels,  *)
(* the session ends, the program shuts down, a task fails or panics.       *)
(*                                                                         *)
(* A text is a number nobody else writes; what stat tells (size, time) is  *)
(* another for every text, so that a change the check cannot see (same     *)
(* size, same second) is left out.  An upload truncates the file, then     *)
(* fills it: between the two it holds what no other upload leaves there.   *)
(***************************************************************************)
EXTENDS Integers, Sequences, FiniteSets, SequencesExt, Maps

CONSTANTS
    Edits,          \* edit ids
    AutoUpload,     \* what EditSettings::auto_upload may be: a subset of BOOLEAN
    Breaks,         \* how tasks may break here: a subset of {"Failed", "Panicked"}
    MaxForeign      \* bound: texts written by others

ASSUME EditsAssumption == Edits \subseteq Nat
ASSUME AutoAssumption == AutoUpload \subseteq BOOLEAN
ASSUME BoundAssumption == MaxForeign \in Nat

VARIABLES
    auto,           \* EditState::settings.auto_upload
    edits,          \* EditState::sessions: id -> EditSession
    nextEdit,       \* EditState::next_id
    busy,           \* EditState::busy, which is also what the front end was told
    task,           \* Tasks::live of scope Edit: id -> the task and what it has done so far
    cancelled,      \* Tasks::cancelled of scope Edit
    internal,       \* the results that wait
    live,           \* whether the session is connected
    temps,          \* the private folders: id -> the text in it
    kept,           \* the edits whose folder the user was told of
    remote,         \* the texts of the remote file and of its copies
    foreign,        \* the texts others wrote
    saved,          \* the texts an upload has written whole
    unseen,         \* observer: texts found by the check of an unforced upload that went on, not the one read
    phase           \* running, stopping (shutdown_work), stopped

work == <<auto, edits, nextEdit, busy>>
world == <<temps, kept, remote, foreign, saved, unseen>>
editsVars == <<auto, edits, nextEdit, busy, task, cancelled, internal, live, temps, kept,
          remote, foreign, saved, unseen, phase>>

(* texts: others write 1, 2, ...; the text of an edit's editor is its own, *)
(* and so is what is left of the file when its upload has truncated it     *)
Original == 0
Torn == -1
Mine(id) == -10 - 2 * id
Truncated(id) == -11 - 2 * id

File == <<"file", 0>>
CopyOf(id) == <<"copy", id>>

EditsInit ==
    /\ auto \in AutoUpload
    /\ edits = Nothing /\ nextEdit = 0 /\ busy = FALSE
    /\ task = Nothing /\ cancelled = {} /\ internal = <<>>
    /\ live = TRUE /\ phase = "running"
    /\ temps = Nothing /\ kept = {}
    /\ remote = [f \in {File} |-> Original] /\ foreign = 0 /\ saved = {} /\ unseen = {}

(* a new EditSession; `base` is its Baseline: the look of the remote file  *)
(* and the text whose hash it keeps                                        *)
Opened(local) == [local |-> local, temp |-> FALSE, base |-> [look |-> 0, text |-> 0], pending |-> "None",
                  awaiting |-> local, saving |-> FALSE]

Job(name, at) == [name |-> name, at |-> at, look |-> 0, mode |-> "Checked", aborted |-> FALSE, cancel |-> FALSE]

(***************************************************************************)
(* The end of a handler: publish_edit_busy                                 *)
(***************************************************************************)
Publish(sessions) ==
    /\ edits' = sessions
    /\ busy' = \E id \in DOMAIN sessions : sessions[id].saving

Forget(id) == cancelled' = cancelled \ {id}

(* drop_edit, and keep_edit, which tells where the text is                 *)
DropEdit(id) ==
    /\ Forget(id)
    /\ Publish(Without(edits, {id}))
    /\ temps' = IF id \in DOMAIN edits /\ edits[id].temp THEN Without(temps, {id}) ELSE temps
    /\ UNCHANGED kept

KeepEdit(id) ==
    /\ Forget(id)
    /\ Publish(Without(edits, {id}))
    /\ kept' = IF id \in DOMAIN edits /\ edits[id].temp THEN kept \cup {id} ELSE kept
    /\ UNCHANGED temps

(***************************************************************************)
(* Commands                                                                *)
(***************************************************************************)
(* edit_file: edit_local_file, whose editor opens at once, or              *)
(* edit_remote_file, which needs its session                               *)
EditFile(local) ==
    /\ phase = "running" /\ (local \/ live)
    /\ nextEdit \in Edits
    /\ nextEdit' = nextEdit + 1
    /\ Publish(With(edits, nextEdit, Opened(local)))
    /\ task' = IF local THEN task ELSE With(task, nextEdit, Job("edit-download", "stat"))
    /\ UNCHANGED <<auto, cancelled, internal, live, world, phase>>

(* cancel_edit_downloads, a part of CancelAllTransfers: every edit is      *)
(* marked, downloading or not                                              *)
CancelDownloads ==
    /\ phase = "running"
    /\ DOMAIN edits # {}
    /\ task' = [id \in DOMAIN task |-> [task[id] EXCEPT !.cancel = TRUE]]
    /\ cancelled' = cancelled \cup DOMAIN edits
    /\ UNCHANGED <<work, internal, live, world, phase>>

(* inspect_edit *)
InspectEdit(id, aborted) ==
    /\ Publish([edits EXCEPT ![id].awaiting = FALSE, ![id].saving = TRUE])
    /\ task' = With(task, id, [Job("edit-inspect", "hash") EXCEPT !.aborted = aborted])
    /\ UNCHANGED <<cancelled, kept>>

(* finish_edit: the editor ended well or not, having changed the text or   *)
(* not, or did not start; a local file needs no more                       *)
FinishEdit(id) ==
    /\ phase = "running"
    /\ id \in DOMAIN edits
    /\ edits[id].awaiting
    /\ \/ DropEdit(id) /\ UNCHANGED task
       \/ \E aborted \in BOOLEAN, typed \in BOOLEAN :
            /\ ~edits[id].local
            /\ InspectEdit(id, aborted)
            /\ temps' = IF typed THEN [temps EXCEPT ![id] = Mine(id)] ELSE temps
    /\ UNCHANGED <<auto, nextEdit, internal, live, remote, foreign, saved, unseen, phase>>

(* start_upload *)
StartUpload(id, mode) ==
    IF live
    THEN /\ Publish([edits EXCEPT ![id].pending = "None", ![id].saving = TRUE])
         /\ task' = With(task, id, [Job("edit-upload", "stat") EXCEPT !.mode = mode])
         /\ UNCHANGED <<cancelled, temps, kept>>
    ELSE KeepEdit(id) /\ UNCHANGED task

(* resolve_edit *)
ResolveEdit(id) ==
    /\ phase = "running"
    /\ id \in DOMAIN edits
    /\ edits[id].pending # "None"
    /\ \/ edits[id].pending = "Upload" /\ StartUpload(id, "Checked")
       \/ edits[id].pending = "Conflict" /\ \E mode \in {"Forced", "Copy"} : StartUpload(id, mode)
       \/ KeepEdit(id) /\ UNCHANGED task
    /\ UNCHANGED <<auto, nextEdit, internal, live, remote, foreign, saved, unseen, phase>>

(* disconnect: edits keep the file system they have *)
Disconnect ==
    /\ phase = "running" /\ live
    /\ live' = FALSE
    /\ UNCHANGED <<work, task, cancelled, internal, world, phase>>

(***************************************************************************)
(* The tasks.  Each ends by sending its result.                            *)
(***************************************************************************)
Result(id, what, of) == [id |-> id, what |-> what, of |-> of]

Ends(id, what, of) ==
    /\ task' = Without(task, {id})
    /\ internal' = Append(internal, Result(id, what, of))

Goes(id, place) == task' = [task EXCEPT ![id].at = place]

In(id, name, place) == id \in DOMAIN task /\ task[id].name = name /\ task[id].at = place

Look(f) == IF f \in DOMAIN remote THEN remote[f] ELSE -2     \* NotFound

(* mutant: the baseline is taken after the download *)
PrepareStatsLate(id) ==
    /\ UNCHANGED <<work, cancelled, live, kept, remote, foreign, saved, unseen, phase>>
    /\ \/ /\ In(id, "edit-download", "stat")
          /\ temps' = With(temps, id, Look(File))
          /\ Goes(id, "download") /\ UNCHANGED internal
       \/ /\ In(id, "edit-download", "download")
          /\ Ends(id, "Ready", [look |-> Look(File), text |-> temps[id]])
          /\ UNCHANGED temps

(* prepare: stat, then the folder and the download into it, then the hash. *)
(* Whatever goes wrong after the folder was made removes it.               *)
Prepare(id) ==
    /\ UNCHANGED <<work, cancelled, live, kept, remote, foreign, saved, unseen, phase>>
    /\ \/ /\ In(id, "edit-download", "stat")
          /\ task' = [task EXCEPT ![id].at = "download", ![id].look = Look(File)]
          /\ temps' = With(temps, id, Torn)
          /\ UNCHANGED internal
       \/ /\ In(id, "edit-download", "stat")
          /\ "Failed" \in Breaks
          /\ Ends(id, "PrepareFailed", 0) /\ UNCHANGED temps
       \/ /\ In(id, "edit-download", "download")
          /\ temps' = [temps EXCEPT ![id] = Look(File)]
          /\ Goes(id, "hash") /\ UNCHANGED internal
       \/ /\ In(id, "edit-download", "download")
          /\ \/ task[id].cancel /\ Ends(id, "PrepareCancelled", 0)
             \/ "Failed" \in Breaks /\ Ends(id, "PrepareFailed", 0)
          /\ temps' = Without(temps, {id})
       \/ /\ In(id, "edit-download", "hash")
          /\ \/ Ends(id, "Ready", [look |-> task[id].look, text |-> temps[id]]) /\ UNCHANGED temps
             \/ "Failed" \in Breaks /\ Ends(id, "PrepareFailed", 0) /\ temps' = Without(temps, {id})

(* the task of inspect_edit *)
Inspect(id) ==
    /\ In(id, "edit-inspect", "hash")
    /\ \E what \in {"Same", "Changed", "Unreadable"} :
         /\ what = "Same" => temps[id] = edits[id].base.text
         /\ what = "Changed" => temps[id] # edits[id].base.text
         /\ what = "Unreadable" => "Failed" \in Breaks
         /\ Ends(id, what, task[id].aborted)
    /\ UNCHANGED <<work, cancelled, live, world, phase>>

(* upload and write_in_place: the check, the truncation, the text.  A copy *)
(* has the second in its name, and is not made if its name is taken (it    *)
(* fails then, as it may at any step).  No lock spans the check and the    *)
(* truncation: others may write between them.                              *)
Target(id) == IF task[id].mode = "Copy" THEN CopyOf(id) ELSE File

Checked(id) == Look(File) = edits[id].base.look

Upload(id) ==
    \/ /\ In(id, "edit-upload", "stat")
       /\ IF task[id].mode = "Checked" /\ ~Checked(id)
          THEN Ends(id, "Conflict", 0)
          ELSE task' = [task EXCEPT ![id].at = "open", ![id].look = Look(File)] /\ UNCHANGED internal
       /\ UNCHANGED <<remote, saved, unseen>>
    \/ /\ In(id, "edit-upload", "open")
       /\ remote' = With(remote, Target(id), Truncated(id))
       /\ unseen' = IF task[id].mode = "Checked" /\ task[id].look # edits[id].base.text
                    THEN unseen \cup {task[id].look} ELSE unseen
       /\ Goes(id, "write") /\ UNCHANGED <<internal, saved>>
    \/ /\ In(id, "edit-upload", "write")
       /\ remote' = With(remote, Target(id), temps[id])
       /\ saved' = saved \cup {temps[id]}
       /\ Ends(id, "Uploaded", 0) /\ UNCHANGED unseen
    \/ /\ \E place \in {"stat", "open", "write"} : In(id, "edit-upload", place)
       /\ "Failed" \in Breaks
       /\ Ends(id, "UploadFailed", 0) /\ UNCHANGED <<remote, saved, unseen>>

UploadStep(id) ==
    /\ Upload(id)
    /\ UNCHANGED <<work, cancelled, live, temps, kept, foreign, phase>>

TaskPanics(id) ==
    /\ id \in DOMAIN task
    /\ "Panicked" \in Breaks
    /\ Ends(id, "Panicked", task[id].name)
    /\ UNCHANGED <<work, cancelled, live, world, phase>>

(* somebody else writes the remote file *)
OthersWrite ==
    /\ foreign < MaxForeign
    /\ foreign' = foreign + 1
    /\ remote' = With(remote, File, foreign + 1)
    /\ UNCHANGED <<work, task, cancelled, internal, live, temps, kept, saved, unseen, phase>>

(***************************************************************************)
(* The handlers of the results                                             *)
(***************************************************************************)
(* finish_prepare *)
Ready(id, base) ==
    IF id \in cancelled
    THEN /\ Forget(id)
         /\ Publish(Without(edits, {id}))
         /\ temps' = Without(temps, {id})
         /\ UNCHANGED <<task, kept>>
    ELSE /\ Publish([edits EXCEPT ![id].base = base, ![id].temp = TRUE, ![id].awaiting = TRUE])
         /\ UNCHANGED <<task, cancelled, temps, kept>>

NotPrepared(id) ==
    /\ Forget(id)
    /\ Publish(Without(edits, {id}))
    /\ UNCHANGED <<task, temps, kept>>

(* ask_edit *)
AskEdit(id, kind) ==
    /\ Publish([edits EXCEPT ![id].pending = kind, ![id].saving = FALSE])
    /\ UNCHANGED <<task, cancelled, temps, kept>>

(* mutant: an upload that fails ends like one that does not *)
FinishUploadDrops(id, what) == DropEdit(id) /\ UNCHANGED task

(* finish_upload *)
FinishUpload(id, what) ==
    /\ IF what = "Uploaded" THEN DropEdit(id) ELSE KeepEdit(id)
    /\ UNCHANGED task

(* finish_inspect *)
FinishInspect(id, what, aborted) ==
    IF what = "Same" THEN DropEdit(id) /\ UNCHANGED task
    ELSE IF what = "Unreadable" \/ aborted THEN KeepEdit(id) /\ UNCHANGED task
    ELSE IF auto THEN StartUpload(id, "Checked")
    ELSE AskEdit(id, "Upload")

(* mutant: the panic is only announced *)
FailEditAnnounced(id) == UNCHANGED <<edits, busy, task, cancelled, temps, kept>>

(* recover_from_panic, fail_edit *)
FailEdit(id) == KeepEdit(id) /\ UNCHANGED task

Handle(done) ==
    CASE done.what = "Ready" -> Ready(done.id, done.of)
      [] done.what \in {"PrepareFailed", "PrepareCancelled"} -> NotPrepared(done.id)
      [] done.what \in {"Same", "Changed", "Unreadable"} -> FinishInspect(done.id, done.what, done.of)
      [] done.what = "Conflict" -> AskEdit(done.id, "Conflict")
      [] done.what \in {"Uploaded", "UploadFailed"} -> FinishUpload(done.id, done.what)
      [] done.what = "Panicked" -> FailEdit(done.id)

HandleInternal ==
    /\ phase = "running"
    /\ internal # <<>>
    /\ internal' = Tail(internal)
    /\ Handle(Head(internal))
    /\ UNCHANGED <<auto, nextEdit, live, remote, foreign, saved, unseen, phase>>

(***************************************************************************)
(* Shutdown: tasks are told to stop, uploads are waited for within a       *)
(* grace, only their results are still handled (apply_late_result).        *)
(***************************************************************************)
Shutdown ==
    /\ phase = "running"
    /\ phase' = "stopping"
    /\ task' = [id \in DOMAIN task |-> [task[id] EXCEPT !.cancel = TRUE]]
    /\ UNCHANGED <<work, cancelled, internal, live, world>>

ApplyLate ==
    /\ phase = "stopping"
    /\ internal # <<>>
    /\ internal' = Tail(internal)
    /\ IF Head(internal).what \in {"Uploaded", "UploadFailed"}
       THEN FinishUpload(Head(internal).id, Head(internal).what)
       ELSE UNCHANGED <<edits, busy, task, cancelled, temps, kept>>
    /\ UNCHANGED <<auto, nextEdit, live, remote, foreign, saved, unseen, phase>>

(* Tasks::shutdown: the last task has ended, or the grace has *)
StopTasks ==
    /\ phase = "stopping"
    /\ phase' = "stopped"
    /\ task' = Nothing
    /\ internal' = <<>>
    /\ UNCHANGED <<work, cancelled, live, world>>

Command ==
    \/ \E local \in BOOLEAN : EditFile(local)
    \/ CancelDownloads \/ Disconnect \/ Shutdown
    \/ \E id \in Edits : FinishEdit(id) \/ ResolveEdit(id)

TaskStep(id) == Prepare(id) \/ Inspect(id) \/ UploadStep(id)

EditsNext ==
    \/ Command \/ HandleInternal \/ ApplyLate \/ StopTasks \/ OthersWrite
    \/ \E id \in Edits : TaskStep(id) \/ TaskPanics(id)

EditsSpec == EditsInit /\ [][EditsNext]_editsVars

(***************************************************************************)
(* Properties                                                              *)
(***************************************************************************)
Pending(id) ==
    (IF id \in DOMAIN task THEN 1 ELSE 0) + Cardinality({i \in DOMAIN internal : internal[i].id = id})

Saving(done) ==
    \/ done.what \in {"Same", "Changed", "Unreadable", "Conflict", "Uploaded", "UploadFailed"}
    \/ done.what = "Panicked" /\ done.of # "edit-download"

(* keep_edit and drop_edit: whatever fails, panics, is cancelled or stops  *)
(* in between, a text the user typed stays in its private folder until an  *)
(* upload has written it whole.                                            *)
TypedKept ==
    [][\A id \in DOMAIN temps : temps[id] = Mine(id) =>
         Mine(id) \in saved \/ (id \in DOMAIN temps' /\ temps'[id] = Mine(id))]_editsVars

(* publish_edit_busy: the front end, which asks before it quits while an   *)
(* edit is being saved, knows of exactly the saves that go on.             *)
BusyExact ==
    phase = "running" =>
      (busy <=> \/ \E id \in DOMAIN task : task[id].name # "edit-download"
                \/ \E i \in DOMAIN internal : Saving(internal[i]))

(* An edit goes on through exactly one of: a task or its result, an open   *)
(* editor, a question; none is stuck, driven twice or answered after its   *)
(* end.  One that ended with its text unsaved has told where the text is,  *)
(* and the front end knows what is being saved, BusyExact.                 *)
OneOwner ==
    phase = "running" =>
      /\ \A id \in DOMAIN edits :
           Pending(id) = IF edits[id].awaiting \/ edits[id].pending # "None" THEN 0 ELSE 1
      /\ \A id \in DOMAIN edits : ~(edits[id].awaiting /\ edits[id].pending # "None")
      /\ \A id \in Edits \ DOMAIN edits :
           Pending(id) = 0 /\ (id \in DOMAIN temps /\ temps[id] = Mine(id) => id \in kept)
      /\ BusyExact

(* prepare and upload: when an upload that nobody forced begins to replace *)
(* the remote file, its check has found the very text that was downloaded; *)
(* what others wrote at any time between the download and the check is     *)
(* asked about.  What they write after the check, before the upload opens  *)
(* the file, is replaced and nobody is asked.                              *)
ReplacesWhatWasRead == unseen = {}
=================================================================================
