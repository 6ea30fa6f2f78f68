------------------------------- MODULE Panels -------------------------------
(***************************************************************************)
(* A file panel and the file operations behind it: widgets/panel_view,     *)
(* core/listing, app/filter, app/actions, handlers/fs.                     *)
(*                                                                         *)
(* There are two folders, "top" and "sub", which is the entry Dir of       *)
(* "top".  A row is an entry's name, or Parent.  A command waits in the    *)
(* core's queue and then runs in parallel with the others: its task stands *)
(* for both.  Nobody else writes in these folders.                         *)
(***************************************************************************)
EXTENDS Naturals, Sequences, FiniteSets, SequencesExt

CONSTANTS
    Names, Dir,     \* the entries there may be, and the one that is a folder
    Dotted,         \* those that are hidden
    Orders,         \* the entries in each of the sort orders
    TextFits,       \* [filter text -> entries it matches]
    MaxPresses      \* bound: keys pressed

VARIABLES
    disk,           \* [folder -> names]
    panel,          \* PanelView: [path, entries, order, hidden, filter, cursor, selected, anchor, placed]
    resets,         \* the panel is the local one, not a session's: another folder puts the cursor at the top
    fsTasks, events, \* of the core
    held,           \* observer: the row the cursor was on before the filter was changed
    unsure,         \* observer: listings overtook each other, or an operation broke off
    presses

panelVars == <<disk, panel, resets, fsTasks, events, held, unsure, presses>>

None == "none"
Free == "free"      \* held: the cursor was moved while the filter held it
Parent == "parent"
NoText == <<>>

(***************************************************************************)
(* Listing                                                                 *)
(***************************************************************************)
(* recompute_rows *)
Visible(p, name) ==
    /\ name \in p.entries
    /\ p.hidden \/ name \notin Dotted
    /\ p.filter # NoText => name \in TextFits[p.filter]

Sifted(order, names, above) ==
    LET upTo[n \in 0..Len(order)] ==
          IF n = 0 THEN above
          ELSE IF order[n] \in names THEN Append(upTo[n - 1], order[n]) ELSE upTo[n - 1]
    IN  upTo[Len(order)]

Rows(p) ==
    Sifted(Orders[p.order], {name \in p.entries : Visible(p, name)},
            IF p.path = "sub" THEN <<Parent>> ELSE <<>>)

RowAt(p) == IF p.cursor \in DOMAIN Rows(p) THEN Rows(p)[p.cursor] ELSE None

(* clamp_cursor; rows are counted from 1 *)
Clamped(p) ==
    [p EXCEPT !.cursor = IF Rows(p) = <<>> THEN 1 ELSE IF @ > Len(Rows(p)) THEN Len(Rows(p)) ELSE @]

(* apply_listing, replace_listing *)
Replaced(p, path, entries) ==
    Clamped([p EXCEPT !.path = path, !.entries = entries, !.selected = {}, !.anchor = None, !.placed = 0,
                      !.filter = IF path = p.path THEN @ ELSE NoText,
                      !.cursor = IF path # p.path /\ resets THEN 1 ELSE @])

(***************************************************************************)
(* The filter                                                              *)
(***************************************************************************)
(* mutant: the row the cursor has to go back to is forgotten *)
AnchorAtCursor(p) == RowAt(p)

(* the row the cursor was put on, though the filter may have hidden it *)
Anchor(p) == IF p.anchor # None /\ p.placed = p.cursor THEN p.anchor ELSE RowAt(p)

First(rows) == IF rows = {} THEN 1 ELSE CHOOSE n \in rows : \A m \in rows : n <= m

(* apply_filter *)
Filtered(p, text) ==
    LET anchor == Anchor(p)
        q == [p EXCEPT !.filter = text]
        kept == {n \in DOMAIN Rows(q) : Rows(q)[n] = anchor /\ (text = NoText \/ anchor # Parent)}
        matches == {n \in DOMAIN Rows(q) : Rows(q)[n] # Parent}
        cursor == First(IF kept # {} THEN kept ELSE matches)
    IN  [q EXCEPT !.cursor = cursor, !.anchor = anchor, !.placed = IF anchor = None THEN 0 ELSE cursor]

(* type_filter, erase_filter, clear_filter *)
FilterKeys ==
    {Filtered(panel, text) : text \in {t \in DOMAIN TextFits : Len(t) = Len(panel.filter) + 1 /\ Front(t) = panel.filter}}
      \cup {Filtered(panel, IF panel.filter = NoText THEN NoText ELSE Front(panel.filter))}
      \cup {[Filtered(panel, NoText) EXCEPT !.anchor = None, !.placed = 0]}

(***************************************************************************)
(* Keys                                                                    *)
(***************************************************************************)
Press == presses < MaxPresses /\ presses' = presses + 1

ChangeFilter ==
    /\ Press
    /\ panel' \in FilterKeys
    /\ held' = IF held = None THEN RowAt(panel) ELSE held
    /\ UNCHANGED <<disk, resets, fsTasks, events, unsure>>

(* move_cursor, toggle_selection, toggle_hidden, cycle_sort *)
Moved == {[panel EXCEPT !.cursor = n] : n \in DOMAIN Rows(panel) \cap {panel.cursor - 1, panel.cursor + 1}}

Selected ==
    IF RowAt(panel) \in {None, Parent} THEN panel
    ELSE [panel EXCEPT !.selected = (@ \ {RowAt(panel)}) \cup ({RowAt(panel)} \ @)]

HiddenToggled == Clamped([panel EXCEPT !.hidden = ~@])
SortCycled == Clamped([panel EXCEPT !.order = (@ % Len(Orders)) + 1])

PanelKey ==
    /\ Press
    /\ \/ panel' = Selected /\ UNCHANGED held
       \/ /\ panel' \in Moved \cup {HiddenToggled, SortCycled}
          /\ held' = IF panel.anchor = None THEN None ELSE Free
    /\ UNCHANGED <<disk, resets, fsTasks, events, unsure>>

(* visible_selected, targets *)
Targets ==
    LET chosen == panel.selected \cap ToSet(Rows(panel))
    IN  IF chosen # {} THEN chosen ELSE {RowAt(panel)} \ {None, Parent}

Lists(path) == [kind |-> "list", path |-> path, read |-> FALSE, entries |-> {}]
ListingTasks == {i \in DOMAIN fsTasks : fsTasks[i].kind \in {"start", "list"}}

(* a listing is asked for: alone, it will be what is there *)
Relists(path) ==
    /\ fsTasks' = Append(fsTasks, Lists(path))
    /\ unsure' = (ListingTasks # {})

(* Open, Refresh *)
TargetForOpen ==
    CASE RowAt(panel) = Parent -> {"top"}
      [] RowAt(panel) = Dir -> {"sub"}
      [] RowAt(panel) \notin {Parent, Dir} -> {}

OpenRow ==
    /\ Press
    /\ \E path \in TargetForOpen \cup {panel.path} : Relists(path)
    /\ UNCHANGED <<disk, panel, resets, events, held>>

Spawns(task) ==
    /\ Press
    /\ fsTasks' = Append(fsTasks, task)
    /\ UNCHANGED <<disk, panel, resets, events, held, unsure>>

(* delete_targets: the paths go in the order of the set, any *)
DeleteTargets ==
    Targets # {} /\ Spawns([kind |-> "delete", path |-> panel.path, names |-> Targets, some |-> FALSE])

(* rename_current of a file, to the name of none or of another *)
RenameCurrent ==
    \E to \in Names \ {Dir} :
      /\ RowAt(panel) \notin {None, Parent, Dir, to}
      /\ Spawns([kind |-> "rename", path |-> panel.path, from |-> RowAt(panel), to |-> to])

CreateDirectory == panel.path = "top" /\ Spawns([kind |-> "create", path |-> "top"])

(***************************************************************************)
(* Tasks of the core: handlers/fs                                          *)
(***************************************************************************)
There(path) == path = "top" \/ Dir \in disk["top"]
Gone(i) == RemoveAt(fsTasks, i)
Tells(event) == events' = Append(events, event)

(* list_into: what the file system says, and then the event *)
ListInto(i) ==
    LET t == fsTasks[i]
    IN  /\ t.kind = "list"
        /\ \/ /\ ~t.read /\ There(t.path)
              /\ fsTasks' = [fsTasks EXCEPT ![i].read = TRUE, ![i].entries = disk[t.path]]
              /\ UNCHANGED <<events, unsure>>
           \/ /\ t.read
              /\ Tells([kind |-> "Listed", path |-> t.path, entries |-> t.entries])
              /\ fsTasks' = Gone(i) /\ UNCHANGED unsure
           \/ /\ ~t.read /\ fsTasks' = Gone(i) /\ unsure' = TRUE
              /\ UNCHANGED events
    /\ UNCHANGED disk

(* list_start_into: where a connection starts, or at home *)
ListStart(i) ==
    /\ fsTasks[i].kind = "start"
    /\ \/ /\ There("sub")
          /\ fsTasks' = [fsTasks EXCEPT ![i] = [Lists("sub") EXCEPT !.read = TRUE, !.entries = disk["sub"]]]
          /\ UNCHANGED unsure
       \/ fsTasks' = [fsTasks EXCEPT ![i] = Lists("top")] /\ UNCHANGED unsure
       \/ fsTasks' = Gone(i) /\ unsure' = TRUE
    /\ UNCHANGED <<disk, events>>

Changes(i) == Tells([kind |-> "LocationChanged"]) /\ fsTasks' = Gone(i) /\ UNCHANGED unsure
Fails(i, broken) == fsTasks' = Gone(i) /\ unsure' = (unsure \/ broken) /\ UNCHANGED events

Emptied(folders, names) ==
    [folders EXCEPT !["sub"] = IF Dir \in names THEN {} ELSE @]

Delete(i) ==
    LET t == fsTasks[i]
    IN  /\ t.kind = "delete"
        /\ \/ t.names = {} /\ Changes(i) /\ UNCHANGED disk
           \/ \E name \in t.names \cap disk[t.path] :
                /\ disk' = Emptied([disk EXCEPT ![t.path] = @ \ {name}], {name})
                /\ fsTasks' = [fsTasks EXCEPT ![i].names = @ \ {name}, ![i].some = TRUE]
                /\ UNCHANGED <<events, unsure>>
           \/ t.names # {} /\ Fails(i, t.some) /\ UNCHANGED disk

(* a file of the new name is replaced *)
Rename(i) ==
    LET t == fsTasks[i]
    IN  /\ t.kind = "rename"
        /\ \/ /\ t.from \in disk[t.path]
              /\ disk' = [disk EXCEPT ![t.path] = (@ \ {t.from}) \cup {t.to}]
              /\ Changes(i)
           \/ Fails(i, FALSE) /\ UNCHANGED disk

CreateDir(i) ==
    LET t == fsTasks[i]
    IN  /\ t.kind = "create"
        /\ \/ /\ Dir \notin disk["top"]
              /\ disk' = [disk EXCEPT !["top"] = @ \cup {Dir}]
              /\ Changes(i)
           \/ Fails(i, FALSE) /\ UNCHANGED disk

FsTaskRuns ==
    /\ \E i \in DOMAIN fsTasks : ListStart(i) \/ ListInto(i) \/ Delete(i) \/ Rename(i) \/ CreateDir(i)
    /\ UNCHANGED <<panel, resets, held, presses>>

(***************************************************************************)
(* Events of the core                                                      *)
(***************************************************************************)
ApplyListing ==
    /\ events # <<>> /\ Head(events).kind = "Listed"
    /\ panel' = Replaced(panel, Head(events).path, Head(events).entries)
    /\ events' = Tail(events)
    /\ held' = None
    /\ UNCHANGED <<disk, resets, fsTasks, unsure, presses>>

Relist ==
    /\ events # <<>> /\ Head(events).kind = "LocationChanged"
    /\ Relists(panel.path)
    /\ events' = Tail(events)
    /\ UNCHANGED <<disk, panel, resets, held, presses>>

(* a local panel that was listed, or that of a session that was just opened *)
PanelInit ==
    /\ disk = [top |-> Names, sub |-> Names \ {Dir}]
    /\ resets \in BOOLEAN
    /\ \E chosen \in {{}, Names \ ({Dir} \cup Dotted)} :
         /\ panel = [path |-> "top", entries |-> IF resets THEN Names ELSE {}, order |-> 1, hidden |-> FALSE,
                     filter |-> NoText, cursor |-> 1, selected |-> chosen, anchor |-> None, placed |-> 0]
         /\ resets \/ chosen = {}
    /\ fsTasks = IF resets THEN <<>> ELSE <<[kind |-> "start"]>>
    /\ events = <<>> /\ held = None /\ unsure = FALSE /\ presses = 0

PanelNext ==
    \/ ChangeFilter \/ PanelKey \/ OpenRow \/ DeleteTargets \/ RenameCurrent \/ CreateDirectory
    \/ FsTaskRuns \/ ApplyListing \/ Relist

(* recompute_rows, apply_filter, targets and the events of handlers/fs:    *)
(* the cursor is on a row whatever was filtered, hidden, sorted or listed  *)
(* meanwhile; an operation takes no row that is not shown; while only the  *)
(* filter is changed, the cursor comes back to its row whenever that is    *)
(* shown; and at rest the panel shows its folder as it is, unless two      *)
(* listings ran at once, or a listing or a deletion broke off.             *)
PanelTrue ==
    LET rows == Rows(panel)
    IN  /\ panel.cursor \in DOMAIN rows \/ (rows = <<>> /\ panel.cursor = 1)
        /\ Targets \subseteq {name \in panel.entries : Visible(panel, name)}
        /\ held \in ToSet(rows) /\ (held # Parent \/ panel.filter = NoText) => RowAt(panel) = held
        /\ fsTasks = <<>> /\ events = <<>> /\ ~unsure => panel.entries = disk[panel.path]

=============================================================================
