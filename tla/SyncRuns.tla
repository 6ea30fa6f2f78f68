------------------------------- MODULE SyncRuns -------------------------------
(***************************************************************************)
(* A directory sync from the scan to the last copy: sync/mod.rs,           *)
(* sync/scan/mod.rs, handlers/sync/mod.rs and the sync screen's rows.      *)
(*                                                                         *)
(* A folder is a function from paths to entries.  Paths are sequences of   *)
(* names.  The server keeps the times it is told ("keeps"), only tells     *)
(* those of its own clock ("tells"), or tells none ("silent").  Nobody     *)
(* else writes during a sync.  Row ids are abstracted to the rows' paths.  *)
(***************************************************************************)
EXTENDS Naturals, Sequences, FiniteSets, SequencesExt

CONSTANTS
    Folders,        \* the <<local, remote>> folders a sync may meet
    Stray,          \* a path an odd listing holds besides what is there
    Partial,        \* [path -> path of its partial file]
    Resolution,     \* [side -> to what its times are rounded]
    Clock           \* the time of what is written now, later than any file's

VARIABLES
    tree,           \* [side -> folder]
    server, options,
    items,          \* SyncPlan::items, [path -> item]
    view,           \* SyncView: [ticked, actions, visible]
    jobs,           \* the copies that are left, <<path, action>>
    ended,          \* [copied, unkept, failed, refused]: paths
    progress        \* "start", "plan", "folders", "copies", "over" or "failed"

syncVars == <<tree, server, options, items, view, jobs, ended, progress>>

Side == {"local", "remote"}
Paths == DOMAIN tree["local"]
Unknown == 0
NoEntry == [kind |-> "None", size |-> 0, time |-> Unknown]
Dir == [NoEntry EXCEPT !.kind = "Dir"]
Have(entry) == entry.kind # "None"
Ancestors(path) == {SubSeq(path, 1, n) : n \in 1..(Len(path) - 1)}
LaterOf(a, b) == IF a >= b THEN a ELSE b

(* what the file systems can do: can_set_modified, time_resolution *)
KeepsTimes(side) == side = "local" \/ server = "keeps"
CompareTolerance == LaterOf(Resolution["local"], Resolution["remote"])

(* SyncOptions::validate, and start_sync on Both *)
Valid(o) == ~(o.direction = "Both" /\ o.by = "Size")
Startable == Valid(options) /\ (options.direction = "Both" => \A side \in Side : KeepsTimes(side))

(***************************************************************************)
(* Scanning: discover, build_tree                                          *)
(***************************************************************************)
(* what the walk finds below the root: one level of it, or all *)
Discovered(side) ==
    {path \in Paths : Have(tree[side][path]) /\ (options.subfolders \/ Len(path) = 1)}

CheckParentIsAFolder(side, path) ==
    Len(path) > 1 => Front(path) \in Discovered(side) /\ tree[side][Front(path)].kind = "Dir"

CheckDepth(path) == options.subfolders \/ Len(path) = 1

(* a listing with one more path, a file, passes when that path is new, *)
(* lies in a folder that was found, and no deeper than was asked for   *)
Passes(side, path) ==
    path \notin Discovered(side) /\ CheckDepth(path) /\ CheckParentIsAFolder(side, path)

Scanned(side) ==
    [path \in Paths |-> IF path \in Discovered(side) THEN tree[side][path] ELSE NoEntry]

(***************************************************************************)
(* Comparing                                                               *)
(***************************************************************************)
Copying(action, reason) == {[action |-> action, reason |-> reason, ticked |-> TRUE]}
Asking(reason) == {[action |-> "Skip", reason |-> reason, ticked |-> FALSE]}

Sends(side) ==
    IF side = "local" THEN options.direction # "RemoteToLocal" ELSE options.direction # "LocalToRemote"

From(side) == IF side = "local" THEN "Upload" ELSE "Download"
Target(action) == IF action = "Upload" THEN "remote" ELSE "local"
Source(action) == IF action = "Upload" THEN "local" ELSE "remote"

OnlyOneSide(side) ==
    IF Sends(side) THEN Copying(From(side), "OnlyOneSide") ELSE {}

NewerSide(side) ==
    IF Sends(side) THEN Copying(From(side), "Newer") ELSE Asking("TargetNewer")

(* the one way of a sync, or a question in both *)
OneWay(reason) ==
    IF options.direction = "Both" THEN Asking(reason)
    ELSE Copying(IF options.direction = "LocalToRemote" THEN "Upload" ELSE "Download", reason)

BySize(local, remote) == IF local.size = remote.size THEN {} ELSE OneWay("SizeDiffers")

TargetKeepsTimes ==
    CASE options.direction = "LocalToRemote" -> KeepsTimes("remote")
      [] options.direction = "RemoteToLocal" -> KeepsTimes("local")
      [] options.direction = "Both" -> TRUE

(* a target that stamps its own time is newer after every copy *)
Believed(verdict, sameSize) ==
    {v \in verdict : ~(v.reason = "TargetNewer" /\ sameSize /\ ~TargetKeepsTimes)}

ByTimeOf(local, remote, tolerance) ==
    LET sameSize == local.size = remote.size
    IN  IF Unknown \in {local.time, remote.time}
        THEN IF sameSize THEN {} ELSE OneWay("SizeDiffersTimeUnknown")
        ELSE IF local.time > remote.time + tolerance THEN Believed(NewerSide("local"), sameSize)
        ELSE IF remote.time > local.time + tolerance THEN Believed(NewerSide("remote"), sameSize)
        ELSE IF sameSize THEN {} ELSE Asking("SameTimeDifferentSize")

(* mutant: times are compared as if every server kept them to the second *)
ByTimeExactly(local, remote) == ByTimeOf(local, remote, 0)

ByTime(local, remote) == ByTimeOf(local, remote, CompareTolerance)

Verdict(local, remote) ==
    IF Have(local) /\ Have(remote)
    THEN IF local.kind # remote.kind THEN Asking("KindMismatch")
         ELSE IF local.kind # "File" THEN {}
         ELSE IF options.by = "Size" THEN BySize(local, remote) ELSE ByTime(local, remote)
    ELSE IF local.kind = "File" THEN OnlyOneSide("local")
    ELSE IF remote.kind = "File" THEN OnlyOneSide("remote")
    ELSE {}

Mismatched(found, path) ==
    /\ \A side \in Side : Have(found[side][path])
    /\ found["local"][path].kind # found["remote"][path].kind

(* compare: nothing is said of what lies below a mismatch *)
Listed(found) ==
    {path \in Paths :
       /\ \A above \in Ancestors(path) : ~Mismatched(found, above)
       /\ Verdict(found["local"][path], found["remote"][path]) # {}}

Flippable(v) ==
    v.action = "Skip" /\ v.reason \in {"TargetNewer", "SameTimeDifferentSize", "SizeDiffersTimeUnknown"}

Item(found, path) ==
    LET v == CHOOSE v \in Verdict(found["local"][path], found["remote"][path]) : TRUE
    IN  [action |-> v.action, reason |-> v.reason, ticked |-> v.ticked, flippable |-> Flippable(v),
         on |-> {side \in Side : Have(found[side][path])}]

Compare(found) == [path \in Listed(found) |-> Item(found, path)]

NoView == [ticked |-> {}, actions |-> <<>>, visible |-> {}]

(* SyncView::load *)
Load(plan) ==
    [ticked |-> {path \in DOMAIN plan : plan[path].ticked},
     actions |-> [path \in DOMAIN plan |-> plan[path].action],
     visible |-> DOMAIN plan]

PlanReady(found) ==
    /\ items' = Compare(found)
    /\ view' = Load(items')
    /\ progress' = IF items' = <<>> THEN "over" ELSE "plan"
    /\ UNCHANGED <<tree, server, options, jobs, ended>>

Scan ==
    /\ progress = "start" /\ Startable
    /\ PlanReady([side \in Side |-> Scanned(side)])

(* an odd listing, one that holds what cannot be there, ends the sync *)
ScanOddly ==
    /\ progress = "start" /\ Startable /\ ~Passes("remote", Stray)
    /\ progress' = "failed"
    /\ UNCHANGED <<tree, server, options, items, view, jobs, ended>>

(***************************************************************************)
(* The rows of the sync screen                                             *)
(***************************************************************************)
(* SyncItem::allowed_actions, in their order *)
AllowedActions(item) ==
    LET may(action) == item.reason # "KindMismatch" /\ Source(action) \in item.on /\ Sends(Source(action))
        offered(action) == IF may(action) THEN <<action>> ELSE <<>>
    IN  <<"Skip">> \o offered("Upload") \o offered("Download")

ActionAfter(item, current) ==
    LET allowed == AllowedActions(item)
    IN  IF current \in ToSet(allowed)
        THEN allowed[((CHOOSE n \in DOMAIN allowed : allowed[n] = current) % Len(allowed)) + 1]
        ELSE "Skip"

Flipped(path) ==
    LET next == ActionAfter(items[path], view.actions[path])
    IN  IF ~items[path].flippable THEN view
        ELSE [view EXCEPT !.actions[path] = next,
                          !.ticked = IF next = "Skip" THEN @ \ {path} ELSE @ \cup {path}]

Toggled(path) ==
    IF path \in view.ticked THEN [view EXCEPT !.ticked = @ \ {path}]
    ELSE IF view.actions[path] # "Skip" THEN [view EXCEPT !.ticked = @ \cup {path}]
    ELSE Flipped(path)

TickedAll ==
    LET back == {path \in view.visible : items[path].action # "Skip"}
    IN  [view EXCEPT !.actions = [path \in DOMAIN items |-> IF path \in back THEN items[path].action ELSE view.actions[path]],
                     !.ticked = @ \cup back]

UntickedAll == [view EXCEPT !.ticked = @ \ view.visible]

(* set_filter: any text may match any rows *)
Filtered == {[view EXCEPT !.visible = rows] : rows \in SUBSET DOMAIN items}

KeyPress ==
    /\ progress = "plan"
    /\ \/ \E path \in view.visible : view' \in {Toggled(path), Flipped(path)}
       \/ view' \in {TickedAll, UntickedAll} \cup Filtered
    /\ UNCHANGED <<tree, server, options, items, jobs, ended, progress>>

VisibleChoices ==
    {<<path, view.actions[path]>> : path \in {p \in view.visible \cap view.ticked : view.actions[p] # "Skip"}}

(***************************************************************************)
(* run_sync: the choices that apply become a batch for each direction      *)
(***************************************************************************)
Applies(choice) ==
    LET item == items[choice[1]]
    IN  /\ choice[2] \in ToSet(AllowedActions(item))
        /\ choice[2] = item.action \/ item.flippable

RunSync ==
    /\ progress = "plan" /\ VisibleChoices # {}
    /\ jobs' = {choice \in VisibleChoices : Applies(choice)}
    /\ ended' = [ended EXCEPT !.refused = {c[1] : c \in VisibleChoices \ jobs'}]
    /\ view' = NoView
    /\ progress' = IF jobs' = {} THEN "over" ELSE "folders"
    /\ UNCHANGED <<tree, server, options, items>>

CancelSync ==
    /\ progress = "plan"
    /\ view' = NoView /\ progress' = "failed"
    /\ UNCHANGED <<tree, server, options, items, jobs, ended>>

(* missing_folders, in order; ensure_directory leaves what is a folder *)
MissingFolders(action) == UNION {Ancestors(job[1]) : job \in {j \in jobs : j[2] = action}}

CreateFolders ==
    /\ progress = "folders"
    /\ \A above \in MissingFolders("Upload") : tree["remote"][above].kind \in {"None", "Dir"}
    /\ \A above \in MissingFolders("Download") : tree["local"][above].kind \in {"None", "Dir"}
    /\ tree' = [side \in Side |->
                  [path \in Paths |->
                     IF path \in MissingFolders(From(IF side = "local" THEN "remote" ELSE "local"))
                     THEN Dir ELSE tree[side][path]]]
    /\ progress' = "copies"
    /\ UNCHANGED <<server, options, items, view, jobs, ended>>

(* the folders of a direction could not be made: none of its files is copied *)
FoldersFail ==
    /\ progress = "folders"
    /\ \E action \in {job[2] : job \in jobs} :
         /\ jobs' = {job \in jobs : job[2] # action}
         /\ ended' = [ended EXCEPT !.failed = @ \cup {job[1] : job \in jobs \ jobs'}]
    /\ progress' = IF jobs' = {} THEN "over" ELSE "folders"
    /\ UNCHANGED <<tree, server, options, items, view>>

NewTime(side) == IF side = "remote" /\ server = "silent" THEN Unknown ELSE Clock
Rounded(side, time) == time - (time % Resolution[side])

(* planned_file, execute_preserving: the time of the source is set at the  *)
(* target, where that is known, possible and does not fail                 *)
SetsTime(job) == tree[Source(job[2])][job[1]].time # Unknown /\ KeepsTimes(Target(job[2]))

Written(job, kept) ==
    LET from == tree[Source(job[2])][job[1]]
        side == Target(job[2])
    IN  [from EXCEPT !.time = IF kept THEN Rounded(side, @) ELSE NewTime(side)]

UntilCopied(waiting) == IF waiting = {} THEN "over" ELSE "copies"

(* every conflict was answered Overwrite *)
CopyJob ==
    /\ progress = "copies"
    /\ \E job \in jobs, kept \in BOOLEAN :
         /\ kept => SetsTime(job)
         /\ tree' = [tree EXCEPT ![Target(job[2])][job[1]] = Written(job, kept)]
         /\ jobs' = jobs \ {job}
         /\ ended' = [ended EXCEPT !.copied = @ \cup {job[1]},
                                   !.unkept = IF SetsTime(job) /\ ~kept THEN @ \cup {job[1]} ELSE @]
         /\ progress' = UntilCopied(jobs')
    /\ UNCHANGED <<server, options, items, view>>

Leftovers(side) == {NoEntry, [kind |-> "File", size |-> 1, time |-> NewTime(side)]}

(* a copy that failed or was cancelled may leave its partial file behind *)
CopyFails ==
    /\ progress = "copies"
    /\ \E job \in jobs : \E left \in Leftovers(Target(job[2])) :
         /\ tree' = [tree EXCEPT ![Target(job[2])][Partial[job[1]]] = left]
         /\ jobs' = jobs \ {job}
         /\ ended' = [ended EXCEPT !.failed = @ \cup {job[1]}]
         /\ progress' = UntilCopied(jobs')
    /\ UNCHANGED <<server, options, items, view>>

SyncInit ==
    /\ tree \in Folders
    /\ server \in {"keeps", "tells", "silent"}
    /\ options \in [direction: {"LocalToRemote", "RemoteToLocal", "Both"}, by: {"Time", "Size"}, subfolders: BOOLEAN]
    /\ Startable
    /\ server = "silent" => \A path \in Paths : tree["remote"][path].time = Unknown
    /\ items = <<>> /\ view = NoView /\ jobs = {}
    /\ ended = [copied |-> {}, unkept |-> {}, failed |-> {}, refused |-> {}]
    /\ progress = "start"

SyncNext == Scan \/ ScanOddly \/ KeyPress \/ RunSync \/ CancelSync \/ CreateFolders \/ FoldersFail \/ CopyJob \/ CopyFails

(* A sync settles.  No row the screen offered is refused by run_sync, and  *)
(* when it is over, comparing again finds nothing to say of what was       *)
(* copied, however the server keeps times, but for the files of which      *)
(* TimesNotKept warned; and of what was not copied it says the same as     *)
(* before: no partial file or new folder changes a verdict.                *)
SyncSettles ==
    LET again == Compare([side \in Side |-> Scanned(side)])
    IN  progress = "over" =>
          /\ ended.refused = {}
          /\ DOMAIN again \cap (ended.copied \ ended.unkept) = {}
          /\ \A path \in ended.failed :
               path \in DOMAIN again /\ again[path] = items[path]

=================================================================================
