------------------------------ MODULE MCMachines ------------------------------
(* The smaller machines for TLC.  They share no state: a behaviour is one   *)
(* of any of them, `part`.  Remote edits and the dialogs of the front end   *)
(* keep their own variables; of the others, the variables are the first of  *)
(* v1, v2, ...                                                              *)
EXTENDS RemoteEdits, FrontEnd

CONSTANTS
    Commands, MaxTrouble,                               \* FtpPool
    Lengths, MaxVersions, MaxAttempts, Tolerance,       \* ResumedCopies
    LastPart, MaxUploads, MaxFaults,                    \* S3Uploads
    MaxDepth, MaxResults, MaxKeys,                      \* Searches
    Hosts, Keys, Words, MaxConnects, MaxChanges,        \* Connections
    MaxPresses                                          \* Panels

VARIABLES
    part,
    v1, v2, v3, v4, v5, v6, v7, v8, v9, v10, v11, v12, v13, v14, v15

others == <<v1, v2, v3, v4, v5, v6, v7, v8, v9, v10, v11, v12, v13, v14, v15>>

Ftp == INSTANCE FtpPool WITH
    owed <- v1, main <- v2, outOfStep <- v3, idle <- v4, turn <- v5,
    command <- v6, stage <- v7, trouble <- v8, took <- v9, unmarked <- v10

Copies == INSTANCE ResumedCopies WITH
    reader <- v1, writer <- v2, source <- v3, part <- v4, partTime <- v5,
    final <- v6, stage <- v7, resumed <- v8, size <- v9, offset <- v10,
    read <- v11, pipe <- v12, now <- v13, attempts <- v14, untold <- v15

S3 == INSTANCE S3Uploads WITH
    lists <- v1, seesParts <- v2, uploads <- v3, object <- v4, started <- v5,
    writing <- v6, created <- v7, faults <- v8

Files == INSTANCE RemoteFiles WITH
    server <- v1, overwrites <- v2, mlst <- v3, call <- v4, before <- v5,
    files <- v6, at <- v7, replayed <- v8, misled <- v9

(***************************************************************************)
(* SyncRuns: a file, a folder with a file, and their partial files         *)
(***************************************************************************)
A == <<"a">>
D == <<"d">>
X == <<"d", "x">>
APart == <<"a.part">>
DPart == <<"d.part">>
XPart == <<"d", "x.part">>
Partial == [p \in {A, D, X} |-> CASE p = A -> APart [] p = D -> DPart [] p = X -> XPart]
Stray == X
Resolution == [local |-> 1, remote |-> 2]
Clock == 8

Absent == [kind |-> "None", size |-> 0, time |-> 0]
AFile(size, time) == [kind |-> "File", size |-> size, time |-> time]
ADir == [Absent EXCEPT !.kind = "Dir"]
ALink == [Absent EXCEPT !.kind = "Symlink"]
Folder(a, d, x) ==
    [p \in {A, D, X, APart, DPart, XPart} |->
       CASE p = A -> a [] p = D -> d [] p = X -> x [] OTHER -> Absent]

FoldersWith(a, xs) ==
    {Folder(a, ADir, x) : x \in xs \cup {Absent}}
        \cup {Folder(a, d, Absent) : d \in {Absent, ALink, AFile(1, 1)}}
LocalFolders == FoldersWith(AFile(1, 1), {AFile(1, 3), AFile(1, 4), AFile(2, 3)})
RemoteFolders ==
    {Folder(AFile(2, 4), ADir, AFile(1, 2))}
        \cup FoldersWith(Absent, {AFile(1, 0), AFile(2, 0), AFile(1, 2), AFile(2, 4), AFile(1, 6)})
Folders == {[local |-> l, remote |-> r] : l \in LocalFolders, r \in RemoteFolders}

Syncing == INSTANCE SyncRuns WITH
    tree <- v1, server <- v2, options <- v3, items <- v4, view <- v5,
    jobs <- v6, ended <- v7, progress <- v8

(***************************************************************************)
(* CopyPlan: "top" twice with its first free name, and a file in a tree    *)
(***************************************************************************)
Name == <<>>
FirstFree == <<1>>
TreeFolder == "sub"
Selected == << <<"top", Name>>, <<"top", FirstFree>>, <<TreeFolder, Name>> >>

Held(old, partial) == [there |-> TRUE, old |-> old, part |-> partial]
All(names, content) == [n \in names |-> content]
Olds ==
    {All(names, "old") : names \in {{}, {Name}, {FirstFree}, {Name, FirstFree}, {Name, <<2>>}}}
        \cup {All({Name}, "dir")}
PartsOf ==
    {All({}, "short"), All({Name}, "short"),
     [n \in {Name, FirstFree} |-> IF n = Name THEN "full" ELSE "short"]}
Tops == {Held(old, partial) : old \in Olds, partial \in PartsOf}
Trees ==
    {Held(All(olds, "old"), All(partials, "short")) : olds \in {{}, {Name}}, partials \in {{}, {Name}}}
        \cup {[there |-> FALSE, old |-> <<>>, part |-> <<>>]}

Planning == INSTANCE CopyPlan WITH
    there <- v1, parts <- v2, looks <- v3, policy <- v4, files <- v5, taken <- v6,
    answers <- v7, rest <- v8, agreed <- v9, left <- v10, phase <- v11

(***************************************************************************)
(* Searches: folder 1 holds a file and folder 2, which holds folder 3      *)
(***************************************************************************)
Tree == << <<<<<<"a">>, 0>>, <<<<"b", "a">>, 2>>>>,
           <<<<<<"a", "b">>, 0>>, <<<<"b">>, 3>>>>,
           <<<<<<"b", "a", "b">>, 0>>>> >>
Patterns == {<<"a">>, <<"a", "b">>, <<"b", "*", "b">>}

Search == INSTANCE Searches WITH
    unreadable <- v1, live <- v2, screen <- v3, commands <- v4, events <- v5,
    generation <- v6, tasks <- v7, keys <- v8

(***************************************************************************)
(* Connections: pairs of profiles, of one server or of two                 *)
(***************************************************************************)
Saved(protocol, host) ==
    [protocol |-> protocol, host |-> host, secure |-> TRUE, agent |-> FALSE, open |-> FALSE]
Setups ==
    {[a |-> Saved("ssh", "h"), b |-> [Saved("ssh", "h") EXCEPT !.agent = TRUE]],
     [a |-> Saved("ftp", "h"), b |-> Saved("webdav", "g")],
     [a |-> [Saved("ftp", "h") EXCEPT !.secure = FALSE], b |-> Saved("webdav", "h")],
     [a |-> Saved("s3", "h"), b |-> [Saved("webdav", "h") EXCEPT !.open = TRUE]]}

Connecting == INSTANCE Connections WITH
    setup <- v1, servers <- v2, known <- v3, cache <- v4, connecting <- v5, tasks <- v6,
    internal <- v7, sessions <- v8, nextId <- v9, wedged <- v10, agreed <- v11,
    accepted <- v12, changes <- v13

(***************************************************************************)
(* Panels: a folder, two files and a hidden one, by name and by size       *)
(***************************************************************************)
Dir == "d"
Dotted == {".a"}
Names == {Dir, "a", "ab"} \cup Dotted
Orders == << <<Dir, ".a", "a", "ab">>, <<Dir, "ab", "a", ".a">> >>
TextFits == <<"a">> :> {"a", "ab", ".a"} @@ <<"a", "b">> :> {"ab"} @@ <<"x">> :> {}

Panel == INSTANCE Panels WITH
    disk <- v1, panel <- v2, resets <- v3, fsTasks <- v4, events <- v5, held <- v6,
    unsure <- v7, presses <- v8

(* the variables a machine does not have: all from the n-th *)
Unused(n) ==
    /\ n <= 1 => v1 = 0 /\ v2 = 0 /\ v3 = 0 /\ v4 = 0 /\ v5 = 0 /\ v6 = 0 /\ v7 = 0 /\ v8 = 0
    /\ n <= 9 => v9 = 0
    /\ n <= 10 => v10 = 0
    /\ n <= 11 => v11 = 0
    /\ n <= 12 => v12 = 0 /\ v13 = 0
    /\ n <= 14 => v14 = 0 /\ v15 = 0

From12 == <<v12, v13, v14, v15>>
From11 == <<v11, From12>>
From10 == <<v10, From11>>
From9 == <<v9, From10>>

Init ==
    /\ EditsInit /\ AppInit
    /\ \/ part = "edits" /\ Unused(1)
       \/ /\ auto = (CHOOSE b \in AutoUpload : TRUE)
          /\ \/ part = "dialogs" /\ Unused(1)
             \/ part = "ftp" /\ Ftp!FtpInit /\ Unused(11)
             \/ part = "copies" /\ Copies!CopyInit
             \/ part = "s3" /\ S3!S3Init /\ Unused(9)
             \/ part = "files" /\ Files!FilesInit /\ Unused(10)
             \/ part = "syncs" /\ Syncing!SyncInit /\ Unused(9)
             \/ part = "plans" /\ Planning!PlanInit /\ Unused(12)
             \/ part = "searches" /\ Search!SearchInit /\ Unused(9)
             \/ part = "connects" /\ Connecting!ConnectInit /\ Unused(14)
             \/ part = "panels" /\ Panel!PanelInit /\ Unused(9)

Next ==
    /\ UNCHANGED part
    /\ \/ part = "edits" /\ EditsNext /\ UNCHANGED <<appVars, others>>
       \/ /\ UNCHANGED editsVars
          /\ \/ part = "dialogs" /\ AppNext /\ UNCHANGED others
             \/ /\ UNCHANGED appVars
                /\ \/ part = "ftp" /\ Ftp!FtpNext /\ UNCHANGED From11
                   \/ part = "copies" /\ Copies!CopyNext
                   \/ part = "s3" /\ S3!S3Next /\ UNCHANGED From9
                   \/ part = "files" /\ Files!FilesNext /\ UNCHANGED From10
                   \/ part = "syncs" /\ Syncing!SyncNext /\ UNCHANGED From9
                   \/ part = "plans" /\ Planning!PlanNext /\ UNCHANGED From12
                   \/ part = "searches" /\ Search!SearchNext /\ UNCHANGED From9
                   \/ part = "connects" /\ Connecting!ConnectNext /\ UNCHANGED <<v14, v15>>
                   \/ part = "panels" /\ Panel!PanelNext /\ UNCHANGED From9

Spec == Init /\ [][Next]_<<part, editsVars, appVars, others>>

InStep == part = "ftp" => Ftp!InStep
CopiedWhole == part = "copies" => Copies!CopiedWhole
CompletesOwn == part = "s3" => S3!CompletesOwn
CallsSafe == part = "files" => Files!CallsSafe
SyncSettles == part = "syncs" => Syncing!SyncSettles
NothingReplacedUnasked == part = "plans" => Planning!NothingReplacedUnasked
SearchFindsAll == part = "searches" => Search!SearchFindsAll
OneSessionEach == part = "connects" => Connecting!OneSessionEach
OnlyAccepted == part = "connects" => Connecting!OnlyAccepted
PanelTrue == part = "panels" => Panel!PanelTrue
=================================================================================
