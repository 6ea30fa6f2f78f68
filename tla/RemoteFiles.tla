------------------------------ MODULE RemoteFiles ------------------------------
(***************************************************************************)
(* Renaming over a file, removing and creating, on every kind of server:   *)
(* rename, remove_file and create_dir of porthmos-lfs and of protocols/    *)
(* {ftp,sftp,scp,webdav,s3}/src/fs/mod.rs.                                 *)
(*                                                                         *)
(* A server does what it is told or refuses it, for whatever reason, and   *)
(* its answer may be lost: then the program does not know.  FTP sends a    *)
(* command again on a new connection and, when that fails, looks whether   *)
(* it was done before.  FTP and SFTP, whose servers may refuse to rename   *)
(* over a file, put it aside as `to.bak`; S3 copies and deletes.           *)
(***************************************************************************)
EXTENDS Maps

(* `from` holds "new", `to` "old", and `to.bak` a file of the user's,      *)
(* "other"; an incomplete copy is "torn"                                   *)
Held == [from |-> "new", to |-> "old", bak |-> "other"]
Calls == {"rename", "remove", "mkdir"}
Servers == {"local", "ftp", "sftp", "scp", "webdav", "s3"}

VARIABLES
    server,     \* of which kind it is
    overwrites, \* does it rename over a file?
    mlst,       \* FTP: does it tell what a path is (MLST)?
    call,       \* one of Calls
    before,     \* the files before the call
    files,      \* and now: what the names hold, where there is a file
    at,         \* where the call is; at last "ok" or "failed"
    replayed,   \* FTP: "no", "yes", or "unsure": it failed the second time
    misled      \* observer: a file that is there was taken for missing

fileVars == <<server, overwrites, mlst, call, before, files, at, replayed, misled>>
place == <<server, overwrites, mlst, call, before>>

There(name) == name \in DOMAIN files

(***************************************************************************)
(* What a step tells the server to do                                      *)
(***************************************************************************)
FirstStep ==
    CASE call # "rename" -> call
      [] server \in {"local", "ftp", "sftp"} -> "move"
      [] server = "scp"    -> "stat"
      [] server \in {"webdav", "s3"} -> "find"

FilesInit ==
    /\ server \in Servers /\ overwrites \in BOOLEAN /\ mlst \in BOOLEAN /\ call \in Calls
    /\ \E names \in SUBSET DOMAIN Held : before = [n \in names |-> Held[n]]
    /\ files = before
    /\ at = FirstStep
    /\ replayed = "no" /\ misled = FALSE

Moved(x, y) == With(Without(files, {x}), y, files[x])

(* local files, `mv -f` and MOVE with Overwrite: T replace what is there *)
Replaces == overwrites \/ server \in {"local", "scp"} \/ at = "move over"

MovedIf(x, y) == IF There(x) /\ (Replaces \/ ~There(y)) THEN {Moved(x, y)} ELSE {}
RemovedIf(x) == IF There(x) THEN {Without(files, {x})} ELSE {}

(* the files when the step is done, if it can be *)
Effects ==
    CASE at \in {"move", "over", "move unless there", "move over"} -> MovedIf("from", "to")
      [] at = "aside"  -> MovedIf("to", "bak")
      [] at = "back"   -> MovedIf("bak", "to")
      [] at = "tidy"   -> RemovedIf("bak")
      [] at = "remove" -> RemovedIf("to")
      [] at = "mkdir"  -> IF There("to") THEN {} ELSE {With(files, "to", "new")}
      [] at = "copy"   -> IF There("from") THEN {With(files, "to", "new"), With(files, "to", "torn")} ELSE {}
      [] at = "drop"   -> RemovedIf("from")
      [] at = "discard" -> RemovedIf("to")

Answered(answer) ==
    \/ answer = "ok" /\ files' \in Effects
    \/ answer = "refused" /\ UNCHANGED files
    \/ answer = "lost" /\ files' \in Effects \cup {files}

Simple == {"tidy", "remove", "mkdir"}
Steps == {"move", "aside", "over", "back", "tidy", "remove", "mkdir",
          "move unless there", "move over", "copy", "drop", "discard"}

(***************************************************************************)
(* What the program does after it                                          *)
(***************************************************************************)
AfterOk ==
    CASE at = "aside" -> "over" [] at = "over" -> "tidy" [] at = "back" -> "failed"
      [] at = "copy" -> "head" [] at = "discard" -> "failed"
      [] OTHER -> "ok"

(* rename, rename_overwriting: the next way, or the error *)
AfterError ==
    CASE at = "move" /\ server = "ftp"  -> "look"
      [] at = "move" /\ server = "sftp" -> "aside"
      [] at = "over" -> "back"
      [] at = "tidy" -> "ok"
      [] OTHER -> "failed"

(* 412, then stat_resource: `to` is there and no collection *)
IsThere(answer) == at = "move unless there" /\ answer = "refused" /\ There("to")

(* `?`: but a rollback and a tidying up may fail *)
AfterNone == IF at = "tidy" THEN "ok" ELSE "failed"

Ends(next) == at' = next /\ replayed' = "no"

(* one command of any server but FTP *)
SendOnce ==
    /\ server # "ftp" /\ at \in Steps
    /\ \E answer \in {"ok", "refused", "lost"} :
          /\ Answered(answer)
          /\ \/ Ends(IF answer = "ok" THEN AfterOk ELSE AfterError)
             \/ IsThere(answer) /\ Ends("move over")
    /\ UNCHANGED <<place, misled>>

(***************************************************************************)
(* FTP: attempt, rename_raw, simple_raw, exists                            *)
(***************************************************************************)
(* mutant: of a command sent twice the second answer is believed *)
SendTwiceBelieving ==
    /\ server = "ftp" /\ at \in Steps /\ replayed # "unsure"
    /\ \E answer \in {"ok", "refused", "lost"} :
          /\ Answered(answer)
          /\ \/ answer = "ok" /\ Ends(AfterOk)
             \/ answer = "refused" /\ Ends(AfterError)
             \/ answer = "lost" /\ Ends(AfterNone)
             \/ answer = "lost" /\ replayed = "no" /\ replayed' = "yes" /\ UNCHANGED at
    /\ UNCHANGED <<place, misled>>

(* lost: sent once more, on a new connection if there is one; what fails   *)
(* then may have been done the first time                                  *)
SendTwice ==
    /\ server = "ftp" /\ at \in Steps /\ replayed # "unsure"
    /\ \E answer \in {"ok", "refused", "lost"} :
          /\ Answered(answer)
          /\ \/ answer = "ok" /\ Ends(AfterOk)
             \/ answer = "refused" /\ replayed = "no" /\ Ends(AfterError)
             \/ answer = "lost" /\ replayed = "no" /\ replayed' = "yes" /\ UNCHANGED at
             \/ answer = "lost" /\ replayed = "no" /\ Ends(AfterNone)
             \/ answer = "lost" /\ replayed = "yes" /\ at \in Simple /\ Ends(AfterError)
             \/ answer = "lost" /\ replayed = "yes" /\ at \notin Simple /\ replayed' = "unsure" /\ UNCHANGED at
             \/ answer = "refused" /\ replayed = "yes" /\ replayed' = "unsure" /\ UNCHANGED at
    /\ UNCHANGED <<place, misled>>

(* stat_remote, is_directory: without MLST, a connection lost during SIZE  *)
(* and again during CWD reads as "not there"                               *)
MayMiss(name) == There(name) /\ ~mlst

(* what exists says of a name, told by `missed` to be wrong *)
Exists(name, missed) == There(name) /\ name \notin missed
Asks(names, missed) == misled' = (misled \/ \E n \in names : n \in missed)
Missable == {n \in DOMAIN Held : MayMiss(n)}

(* what a step takes away, and where it puts it *)
From == CASE at \in {"move", "over"} -> {"from"} [] at \in {"aside", "remove"} -> {"to"}
          [] at \in {"back", "tidy"} -> {"bak"} [] at = "mkdir" -> {}
To == CASE at \in {"move", "over", "back", "mkdir"} -> {"to"} [] at = "aside" -> {"bak"}
        [] at \in {"remove", "tidy"} -> {}

(* was it done the first time?  rename_raw, already_done *)
CheckDone ==
    /\ replayed = "unsure"
    /\ \/ \E missed \in SUBSET Missable :
            LET gone == \A n \in From : ~Exists(n, missed)
            IN  /\ Asks(From \cup (IF gone THEN To ELSE {}), missed)
                /\ Ends(IF gone /\ (\A n \in To : Exists(n, missed)) THEN AfterOk ELSE AfterError)
       \/ Ends(AfterNone) /\ UNCHANGED misled
    /\ UNCHANGED <<place, files>>

(* rename: put `to` aside only when both are there and `to.bak` is not *)
Look ==
    /\ at = "look"
    /\ \/ \E missed \in SUBSET Missable :
            /\ Asks({"from", "to", "bak"}, missed)
            /\ Ends(IF Exists("from", missed) /\ Exists("to", missed) /\ ~Exists("bak", missed)
                    THEN "aside" ELSE "failed")
       \/ Ends("failed") /\ UNCHANGED misled
    /\ UNCHANGED <<place, files>>

(***************************************************************************)
(* SCP, WebDAV, S3: what they ask before and between                       *)
(***************************************************************************)
Goes(next) == Ends(next) /\ UNCHANGED <<place, files, misled>>

(* stat: `to` is no directory *)
StatTo == at = "stat" /\ (Goes("move") \/ Goes("failed"))

(* stat_resource, find, head *)
Find == at = "find" /\ Goes(IF ~There("from") THEN "failed" ELSE IF server = "s3" THEN "copy" ELSE "move unless there")

(* mutant: what was copied is not looked at *)
HeadTrusting == at = "head" /\ (Goes("drop") \/ Goes("failed"))

(* is the copy as long as the source was? *)
Head ==
    /\ at = "head"
    /\ \/ Goes(IF There("to") /\ files["to"] = "new" THEN "drop" ELSE "discard")
       \/ Goes("failed")

FilesNext ==
    \/ SendOnce \/ SendTwice \/ CheckDone \/ Look
    \/ StatTo \/ Find \/ Head

FilesSpec == FilesInit /\ [][FilesNext]_fileVars

(***************************************************************************)
(* Properties                                                              *)
(***************************************************************************)
(* rename, remove_file and create_dir of every kind of server, with        *)
(* refusals and lost answers at every step: a success is true; what is     *)
(* renamed is never lost, what it replaces is kept until it is replaced    *)
(* (S3's copy may spoil it), and a user's `to.bak` is left alone.  Over    *)
(* SFTP only the first holds when the server renames over files: nothing   *)
(* looks there before `to.bak` is used, nor whether a rename without an    *)
(* answer was done.                                                        *)
CallsSafe ==
    LET held(content) == \E n \in DOMAIN files : files[n] = content
        inPlace == There("to") /\ files["to"] = "new"
        careless == server = "sftp" /\ overwrites
    IN  \/ misled
        \/ call # "rename" /\ (at = "ok" => (There("to") <=> call = "mkdir"))
        \/ /\ call = "rename"
           /\ at = "ok" /\ "from" \in DOMAIN before => inPlace /\ ~There("from")
           /\ "from" \in DOMAIN before => held("new") \/ careless
           /\ "to" \in DOMAIN before => held("old") \/ inPlace \/ server = "s3" \/ careless
           /\ "bak" \in DOMAIN before => (There("bak") /\ files["bak"] = "other") \/ careless
=================================================================================
