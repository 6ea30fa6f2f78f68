-------------------------------- MODULE FrontEnd --------------------------------
(***************************************************************************)
(* The dialogs of the terminal front end: porthmos-tui/src/app, with its   *)
(* dialogs, conflicts, edit, sync, connections, search and bookmarks, and  *)
(* sessions/mod.rs.                                                        *)
(*                                                                         *)
(* There is one dialog, and one action that waits for its end.  The core   *)
(* sends its events at any time: questions about a connection take the     *)
(* dialog at once, questions about edits and conflicts wait in queues      *)
(* until it is free, and the plan of a sync waits in its screen.  A        *)
(* listing is a number: what it shows below the cursor.                    *)
(***************************************************************************)
EXTENDS Naturals, Sequences, FiniteSets, SequencesExt, Maps

CONSTANTS
    MaxEvents,      \* bound: events of the core
    MaxPending,     \* bound: connections being saved, and syncs being planned
    MaxSessions     \* bound: sessions

VARIABLES
    ui,             \* App: [screen, dialog, pending, id, prompts, questions, open, hosts, plan]
    panels,         \* [active, sessions, at, shown]
    unanswered,     \* observer: what the core was not answered, of what it asked
    lost,           \* observer: of those, what two known ways made the front end forget
    late,           \* observer: a save or a withdrawal has just closed the dialog
    asked, done,    \* observers: what the dialog said would be deleted or renamed, and what was
    saving,         \* connections sent to the core to be saved, and not answered
    syncs,          \* syncs started whose plan has not come
    events          \* events so far

appVars == <<ui, panels, unanswered, lost, late, asked, done, saving, syncs, events>>

Local == 0
None == [location |-> 99, shown |-> 0]

AppInit ==
    /\ ui = [screen |-> "files", dialog |-> "none", pending |-> "none", id |-> 0,
             prompts |-> <<>>, questions |-> <<>>, open |-> 0, hosts |-> FALSE, plan |-> 0]
    /\ panels = [active |-> "local", sessions |-> <<>>, at |-> 0, shown |-> [l \in {Local} |-> 0]]
    /\ unanswered = {} /\ lost = {} /\ late = FALSE
    /\ asked = None /\ done = None
    /\ saving = 0 /\ syncs = 0 /\ events = 0

(***************************************************************************)
(* What opens a dialog when there is none                                  *)
(***************************************************************************)
Shows(u, dialog, pending, id) == [u EXCEPT !.dialog = dialog, !.pending = pending, !.id = id]
Closed(u) == Shows(u, "none", "none", 0)

OpenNextConflictPrompt(u) ==
    IF u.dialog # "none" \/ u.screen = "search" \/ u.prompts = <<>> THEN u
    ELSE Shows(u, "conflict", "ResolveConflict", Head(u.prompts).batch)

(* the dialog of a message leaves the pending action as it is *)
AnnounceMissingHosts(u) ==
    IF u.dialog # "none" \/ ~u.hosts THEN u ELSE [u EXCEPT !.dialog = "message", !.hosts = FALSE]

OpenNextEditQuestion(u) ==
    IF u.dialog # "none" \/ u.questions = <<>> THEN u
    ELSE [Shows(u, "confirm", "Edit", Head(u.questions)) EXCEPT
             !.questions = Tail(@), !.open = Head(u.questions)]

(* mutant: the question that is open is not put back *)
RequeueNothing(u) == [u EXCEPT !.open = 0]

(* requeue_open_edit_question *)
Requeue(u) ==
    IF u.open # 0 /\ u.dialog # "none" /\ u.pending = "Edit"
    THEN [u EXCEPT !.questions = <<u.open>> \o @, !.open = 0]
    ELSE [u EXCEPT !.open = 0]

(* the end of apply_dialog_key, and after_dialog_key *)
AfterDialogKey(u) ==
    LET v == AnnounceMissingHosts(OpenNextConflictPrompt(u))
    IN  OpenNextEditQuestion(IF v.pending = "Edit" THEN v ELSE [v EXCEPT !.open = 0])

(***************************************************************************)
(* Panels and sessions                                                     *)
(***************************************************************************)
(* active_location *)
ActiveLocation ==
    IF panels.active = "local" THEN {Local}
    ELSE IF panels.at = 0 THEN {} ELSE {panels.sessions[panels.at]}

Targets == {[location |-> l, shown |-> panels.shown[l]] : l \in ActiveLocation}

Position(id) == CHOOSE i \in DOMAIN panels.sessions : panels.sessions[i] = id

(* Sessions::remove *)
Removed(id) ==
    LET index == Position(id)
        rest == RemoveAt(panels.sessions, index)
    IN  [panels EXCEPT
            !.sessions = rest,
            !.shown = Without(@, {id}),
            !.at = IF @ = index THEN (IF @ <= Len(rest) THEN @ ELSE Len(rest))
                   ELSE IF @ > index THEN @ - 1 ELSE @]

(***************************************************************************)
(* Events of the core                                                      *)
(***************************************************************************)
Event == events < MaxEvents /\ events' = events + 1
Quiet == UNCHANGED <<panels, asked, done, saving, syncs>>

(* a dialog is open again, or was closed by an event *)
Watch(u, closes) == late' = (u.dialog = "none" /\ (late \/ closes))

Takes(u) == ui' = u /\ Watch(u, FALSE)

(* ask: whatever dialog is open is replaced *)
Ask ==
    /\ Event
    /\ LET replaced == IF ui.dialog # "none" /\ ui.pending = "Question" THEN {<<"Question", ui.id>>} ELSE {}
       IN  lost' = lost \cup replaced
    /\ unanswered' = unanswered \cup {<<"Question", events'>>}
    /\ Takes(Shows(Requeue(ui), "confirm", "Question", events'))
    /\ Quiet

(* ask_edit_question *)
AskEditQuestion ==
    /\ Event
    /\ unanswered' = unanswered \cup {<<"Edit", events'>>}
    /\ Takes(OpenNextEditQuestion([ui EXCEPT !.questions = Append(@, events')]))
    /\ UNCHANGED lost /\ Quiet

(* queue_conflict_prompt *)
QueueConflictPrompt ==
    /\ Event
    /\ unanswered' = unanswered \cup {<<"ResolveConflict", events'>>}
    /\ \E files \in 1..2 :
          Takes(OpenNextConflictPrompt([ui EXCEPT !.prompts = Append(@, [batch |-> events', files |-> files])]))
    /\ UNCHANGED lost /\ Quiet

(* drop_conflict_prompts; a batch has one prompt *)
DropConflictPrompts ==
    /\ Event
    /\ \E i \in DOMAIN ui.prompts :
          LET batch == ui.prompts[i].batch
              showing == ui.pending = "ResolveConflict" /\ Head(ui.prompts).batch = batch
              kept == [ui EXCEPT !.prompts = RemoveAt(@, i)]
          IN  /\ ui' = OpenNextConflictPrompt(IF showing THEN Closed(kept) ELSE kept)
              /\ Watch(ui', showing)
              /\ unanswered' = unanswered \ {<<"ResolveConflict", batch>>}
    /\ UNCHANGED lost /\ Quiet

(* Event::ProfileSaved: whatever dialog is open is closed *)
ProfileSaved ==
    /\ saving > 0 /\ saving' = saving - 1 /\ Event
    /\ lost' = lost \cup (IF ui.pending \in {"Question", "Edit"} THEN {<<ui.pending, ui.id>>} ELSE {})
    /\ ui' = Closed(ui) /\ Watch(ui', TRUE)
    /\ UNCHANGED <<unanswered, panels, asked, done, syncs>>

(* set_form_error: the dialog is as it was *)
ProfileRejected ==
    /\ saving > 0 /\ saving' = saving - 1 /\ Event
    /\ UNCHANGED <<ui, panels, unanswered, lost, late, asked, done, syncs>>

(* Event::Profiles *)
ProfilesTold ==
    /\ Event /\ ~ui.hosts
    /\ Takes(AnnounceMissingHosts([ui EXCEPT !.hosts = TRUE]))
    /\ UNCHANGED <<unanswered, lost>> /\ Quiet

(* apply_sync_plan: a second plan is given back; the screen opens if the   *)
(* user is not at something else                                           *)
ApplySyncPlan ==
    /\ syncs > 0 /\ syncs' = syncs - 1 /\ Event
    /\ IF ui.plan # 0 THEN UNCHANGED <<ui, unanswered>>
       ELSE /\ ui' = [ui EXCEPT !.plan = events',
                                !.screen = IF @ = "files" /\ ui.dialog = "none" THEN "sync" ELSE @]
            /\ unanswered' = unanswered \cup {<<"Sync", events'>>}
    /\ UNCHANGED <<panels, lost, late, asked, done, saving>>

NoPlan(u) == [u EXCEPT !.plan = 0, !.screen = IF @ = "sync" THEN "files" ELSE @]

(* withdraw_sync *)
WithdrawSync ==
    /\ ui.plan # 0 /\ Event
    /\ ui' = NoPlan(ui)
    /\ unanswered' = unanswered \ {<<"Sync", ui.plan>>}
    /\ UNCHANGED <<lost, late>> /\ Quiet

PanelsChange(p) ==
    Event /\ panels' = p /\ UNCHANGED <<ui, unanswered, lost, late, asked, done, saving, syncs>>

(* apply_connected, Sessions::insert and activate *)
Connected ==
    LET id == Cardinality(DOMAIN panels.shown) + events
    IN  Len(panels.sessions) < MaxSessions /\ id \notin DOMAIN panels.shown
        /\ PanelsChange([panels EXCEPT !.sessions = Append(@, id), !.at = Len(panels.sessions) + 1,
                                       !.shown = With(@, id, 0)])

Disconnected == \E id \in {panels.sessions[i] : i \in DOMAIN panels.sessions} : PanelsChange(Removed(id))

(* apply_listing, replace_listing: the cursor stays where it is *)
Listed == \E l \in DOMAIN panels.shown : PanelsChange([panels EXCEPT !.shown[l] = 1 - @])

(***************************************************************************)
(* Keys while no dialog is open                                            *)
(***************************************************************************)
Free == ui.dialog = "none"
Still == UNCHANGED <<panels, unanswered, lost, done, saving, syncs, events>>

Opens(screen, dialog, pending) ==
    Free /\ ui.screen = screen /\ Takes(Shows(ui, dialog, pending, 0))

(* open_delete_dialog, open_rename_dialog: they name the target *)
NamesTarget(pending, dialog) ==
    /\ Opens("files", dialog, pending)
    /\ done' = None /\ \E target \in Targets : asked' = target
    /\ UNCHANGED <<panels, unanswered, lost, saving, syncs, events>>

OpenDeleteDialog == NamesTarget("Delete", "confirm")
OpenRenameDialog == NamesTarget("Rename", "text")

OpenMkdirDialog == ActiveLocation # {} /\ Opens("files", "text", "Mkdir") /\ UNCHANGED asked /\ Still
OpenBookmarkAddDialog == Opens("files", "text", "AddBookmark") /\ UNCHANGED asked /\ Still

(* the pending action is left as it is *)
OpenBookmarksDialog ==
    Free /\ ui.screen = "files" /\ Takes([ui EXCEPT !.dialog = "list"]) /\ UNCHANGED asked /\ Still

OpenConnectionForm == Opens("connections", "form", "SaveConnection") /\ UNCHANGED asked /\ Still
OpenDeleteConnectionDialog == Opens("connections", "confirm", "DeleteConnection") /\ UNCHANGED asked /\ Still
OpenMissingHostDialog == Opens("connections", "list", "FixMissingHost") /\ UNCHANGED asked /\ Still

(* request_quit, while an edit is saved; to confirm ends the program *)
RequestQuit == Opens(ui.screen, "confirm", "QuitWhileSaving") /\ ui.screen # "search" /\ UNCHANGED asked /\ Still

(* open_sync: the plan, or the form that asks for one *)
OpenSync ==
    \/ Free /\ ui.screen = "files" /\ ui.plan # 0 /\ Takes([ui EXCEPT !.screen = "sync"]) /\ UNCHANGED asked /\ Still
    \/ ui.plan = 0 /\ panels.sessions # <<>> /\ Opens("files", "form", "StartSync") /\ UNCHANGED asked /\ Still

(* run_sync_plan, leave_sync_screen *)
LeaveSync ==
    /\ Free /\ ui.screen = "sync"
    /\ Takes([NoPlan(ui) EXCEPT !.screen = "files"])
    /\ unanswered' = unanswered \ {<<"Sync", ui.plan>>}
    /\ UNCHANGED <<panels, lost, asked, done, saving, syncs, events>>

(* open_connections_screen, handle_back *)
SwitchScreen ==
    /\ Free
    /\ \/ ui.screen # "search" /\ Takes([ui EXCEPT !.screen = "connections"])
       \/ ui.screen = "connections" /\ Takes([ui EXCEPT !.screen = "files"])
    /\ UNCHANGED asked /\ Still

OpenSearchScreen ==
    Free /\ ui.screen = "files" /\ ActiveLocation # {}
      /\ Takes([ui EXCEPT !.screen = "search"]) /\ UNCHANGED asked /\ Still

(* a search is left, and the prompt that waited for it opens *)
LeaveSearch ==
    /\ Free /\ ui.screen = "search"
    /\ Takes(OpenNextConflictPrompt([ui EXCEPT !.screen = "files"]))
    /\ UNCHANGED asked /\ Still

(* toggle, cycle, and connect_to_selected of a connection there is *)
SwitchPanel ==
    /\ Free
    /\ \/ ui.screen # "search" /\ panels' = [panels EXCEPT !.active = IF @ = "local" THEN "remote" ELSE "local"]
       \/ ui.screen = "connections" /\ \E i \in DOMAIN panels.sessions : panels' = [panels EXCEPT !.at = i]
       \/ ui.screen = "files" /\ Len(panels.sessions) >= 2 /\ panels' = [panels EXCEPT !.at = (@ % Len(panels.sessions)) + 1]
    /\ UNCHANGED <<ui, unanswered, lost, late, asked, done, saving, syncs, events>>

(***************************************************************************)
(* Keys while a dialog is open: apply_dialog_key                           *)
(***************************************************************************)
Answers(what) == unanswered' = unanswered \ what

(* every dialog but a conflict's; of the core's questions it is an answer *)
Cancelled ==
    /\ ui.dialog \notin {"none", "conflict"}
    /\ Answers({<<ui.pending, ui.id>>})
    /\ Takes(AfterDialogKey(Closed(ui)))
    /\ asked' = None
    /\ UNCHANGED <<panels, lost, done, saving, syncs, events>>

(* delete_targets, rename_current: the target is the one there is now *)
Confirmed ==
    /\ ui.dialog \in {"confirm", "text"} /\ ui.pending # "QuitWhileSaving"
    /\ done' = IF ui.pending \in {"Delete", "Rename"} /\ Targets # {} THEN CHOOSE t \in Targets : TRUE ELSE None
    /\ Answers({<<ui.pending, ui.id>>})
    /\ Takes(AfterDialogKey(Closed(ui)))
    /\ UNCHANGED <<panels, lost, asked, saving, syncs, events>>

(* submit_connection_form: the form stays until the core has saved *)
FormSubmitted ==
    /\ ui.dialog = "form" /\ ui.pending = "SaveConnection" /\ saving < MaxPending
    /\ saving' = saving + 1
    /\ Takes(AfterDialogKey(ui))
    /\ UNCHANGED <<panels, unanswered, lost, asked, done, syncs, events>>

(* submit_sync_options: refused options leave the form open; otherwise it *)
(* closes, whether or not the connection is still there                   *)
SyncSubmitted ==
    /\ ui.dialog = "form" /\ ui.pending = "StartSync"
    /\ \/ Takes(AfterDialogKey(ui)) /\ UNCHANGED syncs
       \/ Takes(AfterDialogKey(Closed(ui))) /\ syncs' \in {syncs} \cup {n \in {syncs + 1} : n <= MaxPending}
    /\ UNCHANGED <<panels, unanswered, lost, asked, done, saving, events>>

(* apply_missing_host_choice, which may ask where to move the labels, and  *)
(* move_labels_to                                                          *)
HostChosen ==
    /\ ui.dialog = "list" /\ ui.pending \in {"FixMissingHost", "MoveLabels"}
    /\ \/ ui.pending = "FixMissingHost" /\ Takes(AfterDialogKey(Shows(ui, "list", "MoveLabels", 0)))
       \/ Takes(AfterDialogKey(Closed(ui)))
    /\ UNCHANGED asked /\ Still

(* navigate_to_bookmark: the pending action stays as it is *)
BookmarkChosen ==
    /\ ui.dialog = "list" /\ ui.pending \notin {"FixMissingHost", "MoveLabels", "Edit"}
    /\ \/ panels' = [panels EXCEPT !.active = "local"]
       \/ \E i \in DOMAIN panels.sessions : panels' = [panels EXCEPT !.active = "remote", !.at = i]
    /\ Takes(AfterDialogKey([ui EXCEPT !.dialog = "none"]))
    /\ UNCHANGED <<unanswered, lost, asked, done, saving, syncs, events>>

(* answer_conflict: the prompt at the front is answered, for one file or   *)
(* all, or given up                                                        *)
Resolved ==
    /\ ui.dialog = "conflict"
    /\ LET front == Head(ui.prompts)
           closed == [Closed(ui) EXCEPT !.prompts = Tail(@)]
       IN  \/ /\ Answers({<<"ResolveConflict", front.batch>>})
              /\ Takes(AfterDialogKey(OpenNextConflictPrompt(closed)))
           \/ /\ front.files > 1 /\ UNCHANGED unanswered
              /\ Takes(AfterDialogKey(OpenNextConflictPrompt(
                    [closed EXCEPT !.prompts = <<[front EXCEPT !.files = @ - 1]>> \o @])))
    /\ UNCHANGED <<panels, lost, asked, done, saving, syncs, events>>

CoreEvent ==
    \/ Ask \/ AskEditQuestion \/ QueueConflictPrompt \/ DropConflictPrompts
    \/ ProfileSaved \/ ProfileRejected \/ ProfilesTold
    \/ ApplySyncPlan \/ WithdrawSync \/ Connected \/ Disconnected \/ Listed

Action ==
    \/ OpenDeleteDialog \/ OpenRenameDialog \/ OpenMkdirDialog
    \/ OpenBookmarkAddDialog \/ OpenBookmarksDialog
    \/ OpenConnectionForm \/ OpenDeleteConnectionDialog \/ OpenMissingHostDialog
    \/ RequestQuit \/ OpenSync \/ LeaveSync \/ SwitchScreen \/ SwitchPanel

DialogKey ==
    Cancelled \/ Confirmed \/ FormSubmitted \/ SyncSubmitted \/ HostChosen \/ BookmarkChosen \/ Resolved

Key == DialogKey \/ OpenSearchScreen \/ LeaveSearch \/ Action

AppNext == CoreEvent \/ Key

AppSpec == AppInit /\ [][AppNext]_appVars

(***************************************************************************)
(* Properties                                                              *)
(***************************************************************************)
(* What the core waits for that the user can still answer: it is shown, or *)
(* its turn will come *)
Waiting ==
    {<<"Edit", ui.questions[i]>> : i \in DOMAIN ui.questions}
      \cup {<<"ResolveConflict", ui.prompts[i].batch>> : i \in DOMAIN ui.prompts}
      \cup (IF ui.dialog # "none" THEN {<<ui.pending, ui.id>>} ELSE {})
      \cup (IF ui.plan # 0 THEN {<<"Sync", ui.plan>>} ELSE {})

(* ask, requeue_open_edit_question, the queues, apply_sync_plan and         *)
(* apply_dialog_key: every question of the core waits for the user until    *)
(* it is answered or withdrawn, and a sync's plan in its screen, but for    *)
(* the two ways to lose a question: a second one about a connection, and    *)
(* ProfileSaved; a conflict is answered for the batch that is shown; and    *)
(* nothing waits unseen, but after ProfileSaved or a withdrawal has closed  *)
(* the dialog.                                                              *)
QuestionsKept ==
    /\ unanswered \subseteq Waiting \cup lost
    /\ ui.dialog = "conflict" =>
          /\ ui.pending = "ResolveConflict" /\ ui.prompts # <<>> /\ Head(ui.prompts).batch = ui.id
    /\ ui.dialog = "none" /\ ui.screen # "search" /\ ~late => ui.prompts = <<>> /\ ui.questions = <<>>

(* dialogs/tests.rs:63, delete_dialog_confirmed_with_y_deletes_the_target: *)
(* what is deleted or renamed is what the dialog named.                    *)
DeletesWhatItNamed == done # None => done = asked
=================================================================================
