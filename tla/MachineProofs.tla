----------------------------- MODULE MachineProofs -----------------------------
(***************************************************************************)
(* Theorems about the smaller machines that MCMachines joins: for any      *)
(* edits, events and uploads, an edit has one owner, replaces no text that *)
(* the user has not seen, and keeps what was typed until it is saved; the  *)
(* dialogs of the front end lose no question of the core; and what         *)
(* SessionProofs and CopyProofs show of their modules holds of the         *)
(* machines that are joined.                                               *)
(***************************************************************************)
EXTENDS MCMachines, FiniteSetTheorems, TLAPS

(***************************************************************************)
(* Remote edits                                                            *)
(***************************************************************************)
EditTasks == {"edit-download", "edit-inspect", "edit-upload"}
Bases == [look : Int, text : Int]
EditRecords ==
    [local : BOOLEAN, temp : BOOLEAN, base : Bases, pending : {"None", "Upload", "Conflict"},
     awaiting : BOOLEAN, saving : BOOLEAN]
TaskRecords ==
    [name : EditTasks,
     at : {"stat", "download", "hash", "open", "write"}, look : Int,
     mode : {"Checked", "Forced", "Copy"}, aborted : BOOLEAN, cancel : BOOLEAN]

(* the results of an edit that wait *)
AnswersOf(id) == {internal[i] : i \in {j \in DOMAIN internal : internal[j].id = id}}

UploadOver(r) ==
    r.what \in {"Uploaded", "UploadFailed"} \/ (r.what = "Panicked" /\ r.of = "edit-upload")

(* An edit that will not write any more, and one that will not truncate:   *)
(* an upload is the last that an edit does.                                *)
Written(id) ==
    /\ id \in 0..(nextEdit - 1)
    /\ id \notin DOMAIN task
    /\ phase # "running" \/ id \notin DOMAIN edits \/ (\E r \in AnswersOf(id) : UploadOver(r))
Emptied(id) ==
    Written(id) \/ (id \in DOMAIN task /\ task[id].name = "edit-upload" /\ task[id].at = "write")

(* What the remote file held at some time.  It will not hold it again,     *)
(* unless it does now.                                                     *)
Seen(text) ==
    \/ text = Original
    \/ text \in 1..foreign
    \/ \E id \in Nat : text = Truncated(id) /\ Emptied(id)
    \/ \E id \in Nat : text = Mine(id) /\ Written(id)

(* The file looked the same before and after the download, or it looks     *)
(* different from now on.                                                  *)
Sound(look, text) == Seen(look) /\ Seen(text) /\ (look = text \/ look # remote[File])

EditHeld(id) ==
    LET e == edits[id]
        atRest == e.awaiting = TRUE \/ e.pending # "None"
    IN  /\ e \in EditRecords
        /\ e.awaiting = TRUE => e.pending = "None"
        /\ atRest => id \notin DOMAIN task /\ AnswersOf(id) = {}
        /\ phase = "running" =>
             /\ ~atRest => id \in DOMAIN task \/ AnswersOf(id) # {}
             /\ e.saving = TRUE <=> \/ id \in DOMAIN task /\ task[id].name # "edit-download"
                                    \/ \E r \in AnswersOf(id) : Saving(r)
        /\ e.local = TRUE => e.awaiting = TRUE /\ e.temp = FALSE
        /\ e.local = FALSE /\ e.awaiting = TRUE => e.temp = TRUE
        /\ e.pending # "None" => e.temp = TRUE /\ temps[id] = Mine(id)
        /\ e.temp = TRUE =>
             /\ id \in DOMAIN temps /\ temps[id] \in {e.base.text, Mine(id)}
             /\ e.awaiting = TRUE => temps[id] = e.base.text
             /\ Sound(e.base.look, e.base.text)
        /\ e.temp = FALSE /\ id \in DOMAIN temps => temps[id] # Mine(id)

TaskHeldOf(id) ==
    LET t == task[id]
        e == edits[id]
    IN  /\ t \in TaskRecords
        /\ t.name = "edit-download" =>
             /\ e.temp = FALSE
             /\ t.at \in {"stat", "download", "hash"}
             /\ t.at # "stat" => id \in DOMAIN temps
             /\ t.at = "download" => Seen(t.look)
             /\ t.at = "hash" => Sound(t.look, temps[id])
        /\ t.name = "edit-inspect" => e.temp = TRUE /\ t.at = "hash"
        /\ t.name = "edit-upload" =>
             /\ e.temp = TRUE /\ temps[id] = Mine(id)
             /\ t.at \in {"stat", "open", "write"}
             /\ t.at = "open" /\ t.mode = "Checked" => t.look = e.base.text

AnswerHeld(id, r) ==
    LET e == edits[id]
    IN  /\ r.what \in {"Ready", "PrepareFailed", "PrepareCancelled", "Same", "Changed", "Unreadable",
                       "Conflict", "Uploaded", "UploadFailed", "Panicked"}
        /\ r.what = "Ready" =>
             /\ e.temp = FALSE /\ r.of \in Bases /\ id \in DOMAIN temps /\ temps[id] = r.of.text
             /\ Sound(r.of.look, r.of.text)
        /\ r.what \in {"PrepareFailed", "PrepareCancelled"} => e.temp = FALSE
        /\ r.what \in {"Same", "Changed", "Unreadable", "Conflict", "Uploaded", "UploadFailed"} => e.temp = TRUE
        /\ r.what \in {"Same", "Changed", "Unreadable"} => r.of \in BOOLEAN
        /\ r.what = "Same" => temps[id] = e.base.text
        /\ r.what = "Changed" => temps[id] = Mine(id)
        /\ r.what = "Conflict" => temps[id] = Mine(id)
        /\ r.what = "Uploaded" => temps[id] \in saved
        /\ r.what = "Panicked" => r.of \in EditTasks /\ (r.of = "edit-download" <=> e.temp = FALSE)

(* All that one edit has: it, its task or result, its folder. *)
EditOK(id) ==
    /\ id \in DOMAIN temps => temps[id] \in Int
    /\ id \notin DOMAIN edits =>
         /\ id \notin DOMAIN task /\ AnswersOf(id) = {}
         /\ id \in DOMAIN temps /\ temps[id] = Mine(id) => id \in kept
    /\ id \in DOMAIN edits => EditHeld(id)
    /\ id \in DOMAIN task => AnswersOf(id) = {} /\ TaskHeldOf(id)
    /\ \A r \in AnswersOf(id) : AnswerHeld(id, r)

OneEach == \A i, j \in DOMAIN internal : internal[i].id = internal[j].id => i = j

EditsIInv ==
    /\ auto \in BOOLEAN
    /\ nextEdit \in Nat /\ foreign \in Nat
    /\ DOMAIN edits \subseteq 0..(nextEdit - 1)
    /\ DOMAIN temps \subseteq 0..(nextEdit - 1)
    /\ \E S : internal \in Seq(S)
    /\ OneEach
    /\ \A id : EditOK(id)
    /\ busy = (\E id \in DOMAIN edits : edits[id].saving)
    /\ File \in DOMAIN remote /\ Seen(remote[File])
    /\ unseen = {}

---------------------------------------------------------------------------
(* the results that wait *)
LEMMA AnswersSent ==
    ASSUME EditsIInv, NEW r, internal' = Append(internal, r)
    PROVE  /\ \E S : internal' \in Seq(S)
           /\ \A id : id # r.id => AnswersOf(id)' = AnswersOf(id)
           /\ AnswersOf(r.id) = {} => OneEach' /\ \A id : id = r.id => AnswersOf(id)' = {r}
<1>1. PICK S : internal \in Seq(S)
  BY DEF EditsIInv
<1> DEFINE S2 == S \cup {r}
           n == Len(internal)
<1>2. internal \in Seq(S2) /\ r \in S2
  BY <1>1
<1>3. internal' \in Seq(S2)
  BY <1>2
<1>4. /\ DOMAIN internal = 1..n /\ n \in Nat /\ DOMAIN internal' = 1..(n + 1)
      /\ internal'[n + 1] = r /\ \A i \in 1..n : internal'[i] = internal[i]
  BY <1>2
<1>5. ASSUME NEW id, id # r.id PROVE AnswersOf(id)' = AnswersOf(id)
  BY <1>4, <1>5 DEF AnswersOf
<1>6. ASSUME AnswersOf(r.id) = {} PROVE OneEach' /\ \A id : id = r.id => AnswersOf(id)' = {r}
  <2>1. \A i \in 1..n : internal[i].id # r.id
    BY <1>4, <1>6 DEF AnswersOf
  <2>2. OneEach'
    BY <1>4, <2>1 DEF OneEach, EditsIInv
  <2>3. ASSUME NEW id, id = r.id PROVE AnswersOf(id)' = {r}
    BY <1>4, <2>1, <2>3 DEF AnswersOf
  <2> QED
    BY <2>2, <2>3
<1> QED
  BY <1>3, <1>5, <1>6

LEMMA AnswerTaken ==
    ASSUME EditsIInv, internal # <<>>, internal' = Tail(internal), NEW r, r = Head(internal)
    PROVE  /\ \E S : internal' \in Seq(S)
           /\ OneEach'
           /\ \A id : id # r.id => AnswersOf(id)' = AnswersOf(id)
           /\ \A id : id = r.id => AnswersOf(id) = {r} /\ AnswersOf(id)' = {}
<1>1. PICK S : internal \in Seq(S)
  BY DEF EditsIInv
<1> DEFINE n == Len(internal)
<1>2. internal' \in Seq(S)
  BY <1>1
<1>3. /\ DOMAIN internal = 1..n /\ n \in Nat /\ n >= 1 /\ DOMAIN internal' = 1..(n - 1)
      /\ internal[1] = r /\ \A i \in 1..(n - 1) : internal'[i] = internal[i + 1]
  BY <1>1
<1> HIDE DEF n
<1>4. OneEach'
  BY <1>3 DEF OneEach, EditsIInv
<1>5. \A i \in 1..n : internal[i].id = r.id => i = 1
  BY <1>3 DEF OneEach, EditsIInv
<1>6. ASSUME NEW id, id # r.id PROVE AnswersOf(id)' = AnswersOf(id)
  <2>1. \A i \in DOMAIN internal' : i + 1 \in DOMAIN internal /\ internal'[i] = internal[i + 1]
    BY <1>3
  <2>2. \A i \in DOMAIN internal : internal[i].id = id => i - 1 \in DOMAIN internal' /\ internal'[i - 1] = internal[i]
    <3> SUFFICES ASSUME NEW i \in DOMAIN internal, internal[i].id = id
                 PROVE  i - 1 \in DOMAIN internal' /\ internal'[i - 1] = internal[i]
      OBVIOUS
    <3>1. i # 1 /\ i \in 1..n
      BY <1>3, <1>6
    <3>2. i - 1 \in 1..(n - 1) /\ (i - 1) + 1 = i
      BY <1>3, <3>1
    <3> QED
      BY <1>3, <3>2
  <2> QED
    BY <2>1, <2>2 DEF AnswersOf
<1>7. ASSUME NEW id, id = r.id PROVE AnswersOf(id) = {r} /\ AnswersOf(id)' = {}
  BY <1>3, <1>5, <1>7 DEF AnswersOf
<1> QED
  BY <1>2, <1>4, <1>6, <1>7

---------------------------------------------------------------------------
(* what an edit has stays *)
Untouched(id) ==
    /\ id \in DOMAIN edits' <=> id \in DOMAIN edits
    /\ id \in DOMAIN edits => edits'[id] = edits[id]
    /\ id \in DOMAIN task' <=> id \in DOMAIN task
    /\ id \in DOMAIN task => task'[id] = task[id]
    /\ id \in DOMAIN temps' <=> id \in DOMAIN temps
    /\ id \in DOMAIN temps => temps'[id] = temps[id]
    /\ AnswersOf(id)' = AnswersOf(id)

(* a step of one edit, k *)
Of(k) ==
    /\ UNCHANGED <<phase, auto, foreign>>
    /\ nextEdit' \in Nat /\ nextEdit <= nextEdit'
    /\ \A id : id # k => Untouched(id)
    /\ saved \subseteq saved' /\ kept \subseteq kept'
    /\ Written(k) => Written(k)'
    /\ Emptied(k) => Emptied(k)'

LEMMA Wider ==
    ASSUME NEW a \in Nat, NEW b \in Nat, a <= b, NEW i \in 0..(a - 1)
    PROVE  i \in 0..(b - 1)
  OBVIOUS

LEMMA SeenStays ==
    ASSUME EditsIInv, NEW k, Of(k), NEW text, Seen(text)
    PROVE  Seen(text)'
<1>1. ASSUME NEW id \in Nat, Written(id) PROVE Written(id)'
  <2>1. CASE id = k
    BY <1>1, <2>1 DEF Of
  <2>2. CASE id # k
    <3>0. nextEdit \in Nat /\ nextEdit' \in Nat /\ nextEdit <= nextEdit'
      BY DEF Of, EditsIInv
    <3>1. Untouched(id) /\ UNCHANGED phase
      BY <2>2 DEF Of
    <3>2. id \in 0..(nextEdit' - 1)
      <4>1. id \in 0..(nextEdit - 1)
        BY <1>1 DEF Written
      <4> QED
        BY ONLY <3>0, <4>1, Wider
    <3>3. id \notin DOMAIN task'
      BY <1>1, <3>1 DEF Untouched, Written
    <3>4. phase' # "running" \/ id \notin DOMAIN edits' \/ (\E r \in AnswersOf(id)' : UploadOver(r))
      BY <1>1, <3>1 DEF Untouched, Written
    <3> QED
      BY <3>2, <3>3, <3>4 DEF Written
  <2> QED
    BY <2>1, <2>2
<1>2. \A id \in Nat : Emptied(id) => Emptied(id)'
  BY <1>1 DEF Of, Untouched, Emptied
<1> QED
  BY <1>1, <1>2 DEF Seen, Of

LEMMA StillOK ==
    ASSUME EditsIInv, NEW id, Untouched(id), phase' = phase, saved \subseteq saved', kept \subseteq kept',
           \A text : Seen(text) => Seen(text)',
           NEW now, now = remote'[File], now = remote[File] \/ ~Seen(now)
    PROVE  EditOK(id)'
<1>1. EditOK(id)
  BY DEF EditsIInv
<1>2. \A look, text : Sound(look, text) => Sound(look, text)'
  BY DEF Sound
<1> QED
  BY <1>1, <1>2 DEF EditOK, Untouched, EditHeld, TaskHeldOf, AnswerHeld

LEMMA EditMoves ==
    ASSUME EditsIInv, NEW k, Of(k), EditOK(k)',
           \A id : id \in DOMAIN edits' \cup DOMAIN temps' => id \in 0..(nextEdit' - 1),
           \E S : internal' \in Seq(S), OneEach',
           busy' = (\E id \in DOMAIN edits' : edits'[id].saving),
           NEW now, now = remote'[File], File \in DOMAIN remote', now = remote[File] \/ (~Seen(now) /\ Seen(now)'),
           unseen' = {}
    PROVE  EditsIInv'
<1>1. \A text : Seen(text) => Seen(text)'
  BY SeenStays
<1>2. ASSUME NEW id PROVE EditOK(id)'
  <2>1. CASE id = k
    BY <2>1
  <2>2. CASE id # k
    BY <1>1, <2>2, StillOK DEF Of
  <2> QED
    BY <2>1, <2>2
<1>3. Seen(now)'
  BY <1>1 DEF EditsIInv
<1>4. Seen(remote[File])'
  BY <1>3
<1> QED
  BY <1>2, <1>4 DEF EditsIInv, Of

(* ... without a write to the remote file *)
LEMMA EditStays ==
    ASSUME EditsIInv, NEW k, Of(k), EditOK(k)', UNCHANGED <<remote, unseen, nextEdit>>,
           DOMAIN edits' \cup DOMAIN temps' \subseteq DOMAIN edits \cup DOMAIN temps,
           \E S : internal' \in Seq(S), OneEach',
           busy' = (\E id \in DOMAIN edits' : edits'[id].saving)
    PROVE  EditsIInv'
<1>1. PICK now : now = remote[File]
  OBVIOUS
<1>4. File \in DOMAIN remote' /\ now = remote'[File] /\ unseen' = {}
  BY <1>1 DEF EditsIInv
<1>2. \A id : id \in DOMAIN edits' \cup DOMAIN temps' => id \in 0..(nextEdit' - 1)
  BY DEF EditsIInv
<1>3. nextEdit' \in Nat
  BY DEF EditsIInv
<1> QED
  BY <1>1, <1>2, <1>3, <1>4, EditMoves

LEMMA Published ==
    ASSUME NEW sessions, Publish(sessions)
    PROVE  edits' = sessions /\ busy' = (\E id \in DOMAIN edits' : edits'[id].saving)
  BY DEF Publish

LEMMA SoundStays ==
    ASSUME EditsIInv, NEW k, Of(k), UNCHANGED remote, NEW look, NEW text, Sound(look, text)
    PROVE  Sound(look, text)'
  BY SeenStays DEF Sound

---------------------------------------------------------------------------
(* the tasks *)
OthersTemps(k) ==
    \A id : id # k => /\ id \in DOMAIN temps' <=> id \in DOMAIN temps
                      /\ id \in DOMAIN temps => temps'[id] = temps[id]

LEMMA EndsOf ==
    ASSUME EditsIInv, NEW k \in DOMAIN task, NEW what, NEW of, Ends(k, what, of),
           NEW r, r = Result(k, what, of),
           UNCHANGED <<auto, edits, nextEdit, phase, foreign, kept>>, saved \subseteq saved', OthersTemps(k),
           task[k].name = "edit-upload" /\ task[k].at = "write" => UploadOver(r)
    PROVE  /\ Of(k) /\ OneEach' /\ AnswersOf(k)' = {r} /\ AnswersOf(k) = {}
           /\ \E S : internal' \in Seq(S)
           /\ k \in DOMAIN edits /\ k \notin DOMAIN task'
<1>1. EditOK(k)
  BY DEF EditsIInv
<1>2. /\ task' = Without(task, {k}) /\ internal' = Append(internal, r) /\ r.id = k
  BY DEF Ends, Result
<1>3. AnswersOf(k) = {} /\ k \in DOMAIN edits
  BY <1>1 DEF EditOK
<1>4. /\ OneEach' /\ AnswersOf(k)' = {r} /\ \E S : internal' \in Seq(S)
      /\ \A id : id # k => AnswersOf(id)' = AnswersOf(id)
  BY <1>2, <1>3, AnswersSent
<1>5. \A id : id # k => Untouched(id)
  BY <1>2, <1>4 DEF Untouched, OthersTemps, Without
<1>6. ~Written(k)
  BY DEF Written
<1>7. k \notin DOMAIN task'
  BY <1>2 DEF Without
<1>8. Emptied(k) => Emptied(k)'
  <2> SUFFICES ASSUME Emptied(k) PROVE Written(k)'
    BY DEF Emptied
  <2>1. UploadOver(r) /\ r \in AnswersOf(k)'
    BY <1>4, <1>6 DEF Emptied
  <2>2. k \in 0..(nextEdit' - 1)
    BY <1>3 DEF EditsIInv
  <2> QED
    BY <1>7, <2>1, <2>2 DEF Written
<1>9. nextEdit' \in Nat /\ nextEdit <= nextEdit'
  BY DEF EditsIInv
<1> QED
  BY <1>3, <1>4, <1>5, <1>6, <1>7, <1>8, <1>9 DEF Of

LEMMA EndsKeep ==
    ASSUME EditsIInv, NEW k \in DOMAIN task, NEW what, NEW of, Ends(k, what, of),
           NEW r, r = Result(k, what, of),
           UNCHANGED <<auto, edits, nextEdit, busy, phase, foreign, kept, remote, unseen>>,
           saved \subseteq saved', OthersTemps(k), Of(k) => AnswerHeld(k, r)',
           task[k].name = "edit-upload" /\ task[k].at = "write" => UploadOver(r),
           Saving(r) <=> task[k].name # "edit-download",
           IF edits[k].temp = TRUE THEN k \in DOMAIN temps' /\ temps'[k] = temps[k]
           ELSE k \in DOMAIN temps' => temps'[k] \in Int /\ temps'[k] # Mine(k)
    PROVE  EditsIInv'
<1>1. /\ Of(k) /\ OneEach' /\ AnswersOf(k)' = {r} /\ AnswersOf(k) = {}
      /\ \E S : internal' \in Seq(S)
      /\ k \in DOMAIN edits /\ k \notin DOMAIN task'
  BY EndsOf
<1>2. EditOK(k) /\ EditHeld(k)
  BY <1>1 DEF EditsIInv, EditOK
<1>3. \A look, text : Sound(look, text) => Sound(look, text)'
  BY <1>1, SoundStays
<1>4. EditHeld(k)'
  BY <1>1, <1>2, <1>3 DEF EditHeld
<1>5. k \in DOMAIN temps' => temps'[k] \in Int
  BY <1>1, <1>2 DEF EditHeld, EditOK
<1>6. EditOK(k)'
  BY <1>1, <1>4, <1>5 DEF EditOK
<1>7. DOMAIN edits' \cup DOMAIN temps' \subseteq DOMAIN edits \cup DOMAIN temps
  BY <1>1 DEF OthersTemps
<1>8. busy' = (\E id \in DOMAIN edits' : edits'[id].saving)
  BY DEF EditsIInv
<1> QED
  BY <1>1, <1>6, <1>7, <1>8, EditStays

(* a task goes on *)
LEMMA GoesKeep ==
    ASSUME EditsIInv, NEW k \in DOMAIN task, NEW t, t.name = task[k].name, task' = [task EXCEPT ![k] = t],
           UNCHANGED <<auto, edits, nextEdit, busy, phase, foreign, kept, internal, saved, remote, unseen>>,
           OthersTemps(k), Of(k) => TaskHeldOf(k)',
           task[k].at # "write",
           IF edits[k].temp = TRUE THEN k \in DOMAIN temps' /\ temps'[k] = temps[k]
           ELSE k \in DOMAIN temps' => temps'[k] \in Int /\ temps'[k] # Mine(k)
    PROVE  EditsIInv'
<1>1. EditOK(k) /\ k \in DOMAIN edits /\ EditHeld(k)
  BY DEF EditsIInv, EditOK
<1>2. AnswersOf(k) = {} /\ \A id : AnswersOf(id)' = AnswersOf(id)
  BY <1>1 DEF EditOK, AnswersOf
<1>3. Of(k)
  <2>1. \A id : id # k => Untouched(id)
    BY <1>2 DEF Untouched, OthersTemps
  <2>2. ~Written(k) /\ ~Emptied(k)
    BY DEF Written, Emptied
  <2> QED
    BY <2>1, <2>2 DEF Of, EditsIInv
<1>4. \A look, text : Sound(look, text) => Sound(look, text)'
  BY <1>3, SoundStays
<1>5. EditHeld(k)'
  BY <1>1, <1>2, <1>4 DEF EditHeld
<1>6. k \in DOMAIN temps' => temps'[k] \in Int
  BY <1>1 DEF EditHeld, EditOK
<1>7. EditOK(k)'
  BY <1>1, <1>2, <1>3, <1>5, <1>6 DEF EditOK
<1>8. DOMAIN edits' \cup DOMAIN temps' \subseteq DOMAIN edits \cup DOMAIN temps
  BY <1>1 DEF OthersTemps
<1>9. busy' = (\E id \in DOMAIN edits' : edits'[id].saving)
  BY DEF EditsIInv
<1>10. OneEach' /\ \E S : internal' \in Seq(S)
  BY DEF EditsIInv, OneEach
<1> QED
  BY <1>3, <1>7, <1>8, <1>9, <1>10, EditStays

(* nothing was seen before it was written *)
LEMMA Unseen ==
    ASSUME EditsIInv
    PROVE  /\ \A k \in Nat : ~Written(k) => ~Seen(Mine(k))
           /\ \A k \in Nat : ~Emptied(k) => ~Seen(Truncated(k))
           /\ ~Seen(foreign + 1)
           /\ \A text : Seen(text) => text \in Int
           /\ \A k \in Nat : Mine(k) \in Int /\ Truncated(k) \in Int /\ Torn # Mine(k)
  BY DEF Seen, Mine, Truncated, Original, Torn, EditsIInv

LEMMA OfEdits ==
    ASSUME EditsIInv, NEW k \in DOMAIN edits
    PROVE  k \in Nat /\ k \in 0..(nextEdit - 1)
  BY DEF EditsIInv

(* a task that goes on, or ends, with what it knows *)
LEMMA TaskKnown ==
    ASSUME EditsIInv, NEW k \in DOMAIN task
    PROVE  /\ k \in DOMAIN edits /\ k \in Nat /\ EditHeld(k) /\ TaskHeldOf(k) /\ AnswersOf(k) = {}
           /\ ~Written(k) /\ ~Seen(Mine(k)) /\ Mine(k) \in Int /\ Torn # Mine(k) /\ Torn \in Int
           /\ task[k] \in TaskRecords /\ edits[k] \in EditRecords
           /\ k \in DOMAIN temps => temps[k] \in Int
           /\ Look(File) = remote[File] /\ Seen(remote[File]) /\ remote[File] \in Int
<1>1. EditOK(k) /\ k \in DOMAIN edits /\ EditHeld(k) /\ TaskHeldOf(k) /\ AnswersOf(k) = {}
  BY DEF EditsIInv, EditOK
<1>2. k \in Nat
  BY <1>1, OfEdits
<1>3. ~Written(k)
  BY DEF Written
<1>4. Look(File) = remote[File] /\ Seen(remote[File])
  BY DEF EditsIInv, Look
<1>5. Torn \in Int
  BY DEF Torn
<1> QED
  BY <1>1, <1>2, <1>3, <1>4, <1>5, Unseen DEF EditHeld, TaskHeldOf, EditOK

LEMMA PrepareKeeps ==
    ASSUME EditsIInv, NEW k, Prepare(k)
    PROVE  EditsIInv'
<1>1. /\ UNCHANGED <<auto, edits, nextEdit, busy, phase, foreign, kept, remote, unseen, saved>>
      /\ k \in DOMAIN task /\ task[k].name = "edit-download"
  BY DEF Prepare, In, work
<1>2. /\ k \in DOMAIN edits /\ TaskHeldOf(k) /\ task[k] \in TaskRecords /\ ~Seen(Mine(k)) /\ Torn # Mine(k)
      /\ Torn \in Int /\ Seen(remote[File]) /\ remote[File] \in Int /\ Look(File) = remote[File]
      /\ k \in DOMAIN temps => temps[k] \in Int /\ temps[k] # Mine(k)
      /\ edits[k].temp = FALSE /\ task[k].at # "write"
  BY <1>1, TaskKnown DEF TaskHeldOf, EditHeld
<1>3. Of(k) => \A text : Seen(text) => Seen(text)'
  BY SeenStays
<1>4. Of(k) => \A look, text : Sound(look, text) => Sound(look, text)'
  BY <1>1, SoundStays
<1>5. CASE /\ In(k, "edit-download", "stat")
           /\ task' = [task EXCEPT ![k].at = "download", ![k].look = Look(File)]
           /\ temps' = With(temps, k, Torn) /\ UNCHANGED internal
  <2> DEFINE t == [task[k] EXCEPT !.at = "download", !.look = Look(File)]
  <2>1. task' = [task EXCEPT ![k] = t] /\ t.name = task[k].name
        /\ t \in TaskRecords /\ t.look = remote[File] /\ t.at = "download"
    BY <1>1, <1>2, <1>5 DEF TaskRecords
  <2>2. OthersTemps(k) /\ k \in DOMAIN temps' /\ temps'[k] = Torn
    BY <1>5 DEF OthersTemps, With
  <2> HIDE DEF t
  <2>3. task'[k] = t
    BY <1>1, <2>1
  <2>4. Of(k) => TaskHeldOf(k)'
    BY <1>1, <1>2, <1>3, <2>1, <2>2, <2>3 DEF TaskHeldOf
  <2> QED
    BY <1>1, <1>2, <1>5, <2>1, <2>2, <2>4, GoesKeep
<1>6. CASE /\ In(k, "edit-download", "download")
           /\ temps' = [temps EXCEPT ![k] = Look(File)]
           /\ Goes(k, "hash") /\ UNCHANGED internal
  <2> DEFINE t == [task[k] EXCEPT !.at = "hash"]
  <2>1. task' = [task EXCEPT ![k] = t] /\ t.name = task[k].name
        /\ t \in TaskRecords /\ t.look = task[k].look /\ t.at = "hash"
    BY <1>1, <1>2, <1>6 DEF TaskRecords, Goes
  <2>2. k \in DOMAIN temps /\ Seen(task[k].look)
    BY <1>1, <1>2, <1>6 DEF TaskHeldOf, In
  <2>3. OthersTemps(k) /\ k \in DOMAIN temps' /\ temps'[k] = remote[File]
    BY <1>2, <1>6, <2>2 DEF OthersTemps
  <2>4. Sound(task[k].look, remote[File])
    BY <1>2, <2>2 DEF Sound
  <2> HIDE DEF t
  <2>5. task'[k] = t
    BY <1>1, <2>1
  <2>6. Of(k) => TaskHeldOf(k)'
    BY <1>1, <1>2, <1>4, <2>1, <2>3, <2>4, <2>5 DEF TaskHeldOf
  <2>7. remote[File] # Mine(k)
    BY <1>2
  <2> QED
    BY <1>1, <1>2, <1>6, <2>1, <2>3, <2>6, <2>7, GoesKeep
<1>7. ASSUME NEW what \in {"PrepareFailed", "PrepareCancelled"}, Ends(k, what, 0),
             UNCHANGED temps \/ temps' = Without(temps, {k})
      PROVE  EditsIInv'
  <2> DEFINE r == Result(k, what, 0)
  <2>1. r.what = what /\ ~Saving(r) /\ r.of = 0
    BY <1>7 DEF Result, Saving
  <2> HIDE DEF r
  <2>2. AnswerHeld(k, r)'
    BY <1>1, <1>2, <1>7, <2>1 DEF AnswerHeld
  <2>3. OthersTemps(k) /\ (k \in DOMAIN temps' => k \in DOMAIN temps /\ temps'[k] = temps[k])
    BY <1>7 DEF OthersTemps, Without
  <2> QED
    BY <1>1, <1>2, <1>7, <2>1, <2>2, <2>3, EndsKeep DEF r
<1>8. CASE /\ In(k, "edit-download", "hash")
           /\ Ends(k, "Ready", [look |-> task[k].look, text |-> temps[k]]) /\ UNCHANGED temps
  <2> PICK of : of = [look |-> task[k].look, text |-> temps[k]]
    OBVIOUS
  <2> PICK r : r = Result(k, "Ready", of)
    OBVIOUS
  <2>1. k \in DOMAIN temps /\ Sound(task[k].look, temps[k])
    BY <1>1, <1>2, <1>8 DEF TaskHeldOf, In
  <2>2. of \in Bases /\ of.look = task[k].look /\ of.text = temps[k]
    BY <1>2, <2>1 DEF Bases, TaskRecords
  <2>3. r.what = "Ready" /\ r.of = of /\ ~Saving(r)
    BY DEF Result, Saving
  <2>4. OthersTemps(k)
    BY <1>8 DEF OthersTemps
  <2>5. ASSUME Of(k) PROVE AnswerHeld(k, r)'
    <3>1. Sound(of.look, of.text)'
      BY <1>4, <2>1, <2>2, <2>5
    <3> QED
      BY <1>1, <1>2, <1>8, <2>1, <2>2, <2>3, <3>1 DEF AnswerHeld
  <2>6. Ends(k, "Ready", of)
    BY <1>8
  <2> QED
    BY <1>1, <1>2, <1>8, <2>3, <2>4, <2>5, <2>6, EndsKeep
<1> QED
  BY <1>5, <1>6, <1>7, <1>8 DEF Prepare

LEMMA InspectKeeps ==
    ASSUME EditsIInv, NEW k, Inspect(k)
    PROVE  EditsIInv'
<1>1. /\ UNCHANGED <<auto, edits, nextEdit, busy, phase, foreign, kept, remote, unseen, saved, temps>>
      /\ k \in DOMAIN task /\ task[k].name = "edit-inspect"
  BY DEF Inspect, In, work, world
<1>2. /\ k \in DOMAIN edits /\ task[k] \in TaskRecords /\ edits[k].temp = TRUE
      /\ k \in DOMAIN temps /\ temps[k] \in {edits[k].base.text, Mine(k)}
  BY <1>1, TaskKnown DEF TaskHeldOf, EditHeld
<1>3. PICK what \in {"Same", "Changed", "Unreadable"} :
         /\ what = "Same" => temps[k] = edits[k].base.text
         /\ what = "Changed" => temps[k] # edits[k].base.text
         /\ Ends(k, what, task[k].aborted)
  BY DEF Inspect
<1> PICK of : of = task[k].aborted
  OBVIOUS
<1> PICK r : r = Result(k, what, of)
  OBVIOUS
<1>4. r.what = what /\ r.of = of /\ of \in BOOLEAN /\ Saving(r)
  BY <1>2 DEF Result, Saving, TaskRecords
<1>5. AnswerHeld(k, r)'
  BY <1>1, <1>2, <1>3, <1>4 DEF AnswerHeld
<1>6. OthersTemps(k) /\ saved \subseteq saved'
  BY <1>1 DEF OthersTemps
<1>7. Ends(k, what, of)
  BY <1>3
<1> QED
  BY <1>1, <1>2, <1>4, <1>5, <1>6, <1>7, EndsKeep

LEMMA PanicKeeps ==
    ASSUME EditsIInv, NEW k, TaskPanics(k)
    PROVE  EditsIInv'
<1>1. /\ UNCHANGED <<auto, edits, nextEdit, busy, phase, foreign, kept, remote, unseen, saved, temps>>
      /\ k \in DOMAIN task
  BY DEF TaskPanics, work, world
<1>2. /\ k \in DOMAIN edits /\ task[k] \in TaskRecords /\ edits[k] \in EditRecords
      /\ edits[k].temp = FALSE <=> task[k].name = "edit-download"
      /\ edits[k].temp = TRUE => k \in DOMAIN temps
      /\ edits[k].temp = FALSE /\ k \in DOMAIN temps => temps[k] \in Int /\ temps[k] # Mine(k)
  BY <1>1, TaskKnown DEF TaskHeldOf, EditHeld, TaskRecords, EditTasks, EditRecords
<1> PICK of : of = task[k].name
  OBVIOUS
<1> PICK r : r = Result(k, "Panicked", of)
  OBVIOUS
<1>3. /\ r.what = "Panicked" /\ r.of = of /\ of \in EditTasks
      /\ Saving(r) <=> of # "edit-download"
      /\ of = "edit-upload" => UploadOver(r)
  BY <1>2 DEF Result, Saving, TaskRecords, UploadOver
<1>4. AnswerHeld(k, r)'
  BY <1>1, <1>2, <1>3 DEF AnswerHeld
<1>5. OthersTemps(k) /\ saved \subseteq saved' /\ Ends(k, "Panicked", of)
  BY <1>1 DEF OthersTemps, TaskPanics
<1>6. edits[k].temp \in BOOLEAN
  BY <1>2 DEF EditRecords
<1> QED
  BY <1>1, <1>2, <1>3, <1>4, <1>5, <1>6, EndsKeep

LEMMA SoundMoves ==
    ASSUME EditsIInv, NEW k, Of(k), NEW now, now = remote'[File], now = remote[File] \/ ~Seen(now),
           NEW look, NEW text, Sound(look, text)
    PROVE  Sound(look, text)'
  BY SeenStays DEF Sound

LEMMA UploadKeeps ==
    ASSUME EditsIInv, NEW k, UploadStep(k)
    PROVE  EditsIInv'
<1>1. /\ UNCHANGED <<auto, edits, nextEdit, busy, phase, foreign, kept, temps, live, cancelled>> /\ Upload(k)
      /\ k \in DOMAIN task /\ task[k].name = "edit-upload"
  BY DEF UploadStep, Upload, In, work
<1>2. /\ k \in DOMAIN edits /\ k \in Nat /\ task[k] \in TaskRecords /\ edits[k].temp = TRUE
      /\ k \in DOMAIN temps /\ temps[k] = Mine(k) /\ EditHeld(k) /\ AnswersOf(k) = {}
      /\ Sound(edits[k].base.look, edits[k].base.text) /\ ~Written(k) /\ Look(File) = remote[File]
      /\ task[k].at = "open" /\ task[k].mode = "Checked" => task[k].look = edits[k].base.text
  BY <1>1, TaskKnown DEF TaskHeldOf, EditHeld
<1>3. OthersTemps(k)
  BY <1>1 DEF OthersTemps
<1>4. CASE In(k, "edit-upload", "stat") /\ Ends(k, "Conflict", 0) /\ UNCHANGED <<remote, saved, unseen>>
  <2> PICK r : r = Result(k, "Conflict", 0)
    OBVIOUS
  <2>1. r.what = "Conflict" /\ Saving(r) /\ task[k].at = "stat"
    BY <1>4 DEF Result, Saving, In
  <2>2. AnswerHeld(k, r)'
    BY <1>1, <1>2, <2>1 DEF AnswerHeld
  <2> QED
    BY <1>1, <1>2, <1>3, <1>4, <2>1, <2>2, EndsKeep
<1>5. CASE /\ In(k, "edit-upload", "stat") /\ ~(task[k].mode = "Checked" /\ ~Checked(k))
           /\ task' = [task EXCEPT ![k].at = "open", ![k].look = Look(File)]
           /\ UNCHANGED <<internal, remote, saved, unseen>>
  <2> DEFINE t == [task[k] EXCEPT !.at = "open", !.look = Look(File)]
  <2>1. task' = [task EXCEPT ![k] = t] /\ t.name = task[k].name /\ t.mode = task[k].mode
        /\ t \in TaskRecords /\ t.look = remote[File] /\ t.at = "open" /\ task[k].at = "stat"
    BY <1>1, <1>2, <1>5, TaskKnown DEF TaskRecords, In
  <2> HIDE DEF t
  <2>2. task'[k] = t
    BY <1>1, <2>1
  <2>3. t.mode = "Checked" => t.look = edits[k].base.text
    BY <1>2, <1>5, <2>1 DEF Checked, Sound
  <2>4. TaskHeldOf(k)'
    BY <1>1, <1>2, <2>1, <2>2, <2>3 DEF TaskHeldOf
  <2> QED
    BY <1>1, <1>2, <1>3, <1>5, <2>1, <2>4, GoesKeep
<1>6. CASE /\ In(k, "edit-upload", "open")
           /\ remote' = With(remote, Target(k), Truncated(k))
           /\ unseen' = IF task[k].mode = "Checked" /\ task[k].look # edits[k].base.text
                        THEN unseen \cup {task[k].look} ELSE unseen
           /\ Goes(k, "write") /\ UNCHANGED <<internal, saved>>
  <2> DEFINE t == [task[k] EXCEPT !.at = "write"]
  <2>1. /\ task' = [task EXCEPT ![k] = t] /\ t.name = "edit-upload" /\ t \in TaskRecords /\ t.at = "write"
        /\ task[k].at = "open"
    BY <1>1, <1>2, <1>6 DEF TaskRecords, In, Goes
  <2> HIDE DEF t
  <2>2. k \in DOMAIN task' /\ task'[k] = t /\ \A id : AnswersOf(id)' = AnswersOf(id)
    BY <1>1, <1>6, <2>1 DEF AnswersOf
  <2>3. ~Emptied(k) /\ Emptied(k)'
    BY <1>2, <2>1, <2>2 DEF Emptied
  <2>4. Of(k)
    <3>1. \A id : id # k => Untouched(id)
      BY <1>1, <2>1, <2>2 DEF Untouched
    <3> QED
      BY <1>1, <1>2, <1>6, <2>3, <3>1 DEF Of, EditsIInv
  <2>5. Seen(Truncated(k))' /\ ~Seen(Truncated(k))
    BY <1>2, <2>3, Unseen DEF Seen
  <2> PICK now : now = remote'[File]
    OBVIOUS
  <2>6. File \in DOMAIN remote' /\ (now = remote[File] \/ now = Truncated(k))
    BY <1>6 DEF With, EditsIInv
  <2>7. now = remote[File] \/ (~Seen(now) /\ Seen(now)')
    BY <2>5, <2>6
  <2>8. \A look, text : Sound(look, text) => Sound(look, text)'
    BY <2>4, <2>7, SoundMoves
  <2>9. EditHeld(k)'
    BY <1>1, <1>2, <1>6, <2>1, <2>2, <2>8 DEF EditHeld
  <2>10. TaskHeldOf(k)'
    BY <1>1, <1>2, <2>1, <2>2 DEF TaskHeldOf
  <2>11. EditOK(k)'
    BY <1>1, <1>2, <1>6, <2>2, <2>9, <2>10, Unseen DEF EditOK
  <2>12. unseen' = {}
    <3>1. task[k].mode = "Checked" => task[k].look = edits[k].base.text
      BY <1>2, <2>1
    <3> QED
      BY <1>6, <3>1 DEF EditsIInv
  <2>13. /\ \A id : id \in DOMAIN edits' \cup DOMAIN temps' => id \in 0..(nextEdit' - 1)
         /\ \E S : internal' \in Seq(S)
         /\ OneEach'
         /\ busy' = (\E id \in DOMAIN edits' : edits'[id].saving)
    BY <1>1, <1>6 DEF EditsIInv, OneEach
  <2> QED
    BY <2>4, <2>6, <2>7, <2>11, <2>12, <2>13, EditMoves
<1>7. CASE /\ In(k, "edit-upload", "write")
           /\ remote' = With(remote, Target(k), temps[k])
           /\ saved' = saved \cup {temps[k]}
           /\ Ends(k, "Uploaded", 0) /\ UNCHANGED unseen
  <2> PICK r : r = Result(k, "Uploaded", 0)
    OBVIOUS
  <2>1. r.what = "Uploaded" /\ Saving(r) /\ UploadOver(r)
    BY DEF Result, Saving, UploadOver
  <2>2. /\ Of(k) /\ OneEach' /\ AnswersOf(k)' = {r} /\ \E S : internal' \in Seq(S)
        /\ k \notin DOMAIN task'
    BY <1>1, <1>3, <1>7, <2>1, EndsOf
  <2>3. Written(k)'
    <3>1. k \in 0..(nextEdit' - 1)
      BY <1>1, <1>2 DEF EditsIInv
    <3> QED
      BY <2>1, <2>2, <3>1 DEF Written
  <2>4. Seen(Mine(k))' /\ ~Seen(Mine(k))
    BY <1>2, <2>3, Unseen DEF Seen
  <2> PICK now : now = remote'[File]
    OBVIOUS
  <2>5. File \in DOMAIN remote' /\ (now = remote[File] \/ now = Mine(k))
    BY <1>2, <1>7 DEF With, EditsIInv
  <2>6. now = remote[File] \/ (~Seen(now) /\ Seen(now)')
    BY <2>4, <2>5
  <2>7. \A look, text : Sound(look, text) => Sound(look, text)'
    BY <2>2, <2>6, SoundMoves
  <2>8. EditHeld(k)'
    BY <1>1, <1>2, <2>1, <2>2, <2>7 DEF EditHeld
  <2>9. AnswerHeld(k, r)'
    BY <1>1, <1>2, <1>7, <2>1 DEF AnswerHeld
  <2>10. EditOK(k)'
    BY <1>1, <1>2, <2>2, <2>8, <2>9, Unseen DEF EditOK
  <2>11. /\ \A id : id \in DOMAIN edits' \cup DOMAIN temps' => id \in 0..(nextEdit' - 1)
         /\ unseen' = {}
         /\ busy' = (\E id \in DOMAIN edits' : edits'[id].saving)
    BY <1>1, <1>7 DEF EditsIInv
  <2> QED
    BY <2>2, <2>5, <2>6, <2>10, <2>11, EditMoves
<1>8. CASE Ends(k, "UploadFailed", 0) /\ UNCHANGED <<remote, saved, unseen>>
  <2> PICK r : r = Result(k, "UploadFailed", 0)
    OBVIOUS
  <2>1. r.what = "UploadFailed" /\ Saving(r) /\ UploadOver(r)
    BY DEF Result, Saving, UploadOver
  <2>2. AnswerHeld(k, r)'
    BY <1>1, <1>2, <2>1 DEF AnswerHeld
  <2> QED
    BY <1>1, <1>2, <1>3, <1>8, <2>1, <2>2, EndsKeep
<1> QED
  BY <1>1, <1>4, <1>5, <1>6, <1>7, <1>8 DEF Upload

---------------------------------------------------------------------------
(* the handlers: what waited for edit k is taken, and what follows starts  *)
Attends(k) ==
    /\ UNCHANGED <<auto, nextEdit, phase, foreign, remote, saved, unseen>>
    /\ k \in DOMAIN edits /\ k \notin DOMAIN task
    /\ AnswersOf(k)' = {}
    /\ \A id : id # k => AnswersOf(id)' = AnswersOf(id)
    /\ OneEach' /\ \E S : internal' \in Seq(S)

LEMMA AttendsAtRest ==
    ASSUME EditsIInv, NEW k, k \in DOMAIN edits, edits[k].awaiting = TRUE \/ edits[k].pending # "None",
           UNCHANGED <<auto, nextEdit, phase, foreign, remote, saved, unseen, internal>>
    PROVE  Attends(k) /\ EditHeld(k) /\ k \in Nat /\ edits[k] \in EditRecords
           /\ AnswersOf(k) = {} /\ (phase = "running" => ~Written(k) /\ ~Seen(Mine(k)))
<1>1. EditHeld(k) /\ k \notin DOMAIN task /\ AnswersOf(k) = {} /\ k \in Nat /\ edits[k] \in EditRecords
  BY OfEdits DEF EditsIInv, EditOK, EditHeld
<1>2. phase = "running" => ~Written(k)
  BY <1>1 DEF Written
<1>3. \A id : AnswersOf(id)' = AnswersOf(id)
  BY DEF AnswersOf
<1> QED
  BY <1>1, <1>2, <1>3, Unseen DEF Attends, EditsIInv, OneEach

LEMMA AttendsAnswer ==
    ASSUME EditsIInv, internal # <<>>, internal' = Tail(internal), NEW r, r = Head(internal), NEW k, k = r.id,
           UNCHANGED <<auto, nextEdit, phase, foreign, remote, saved, unseen>>
    PROVE  Attends(k) /\ EditHeld(k) /\ AnswerHeld(k, r) /\ k \in Nat /\ edits[k] \in EditRecords
           /\ AnswersOf(k) = {r} /\ edits[k].awaiting = FALSE /\ edits[k].pending = "None"
           /\ edits[k].local = FALSE
           /\ (phase = "running" /\ ~UploadOver(r) => ~Written(k) /\ ~Seen(Mine(k)))
<1>1. /\ \E S : internal' \in Seq(S)
      /\ OneEach'
      /\ \A id : id # k => AnswersOf(id)' = AnswersOf(id)
      /\ AnswersOf(k) = {r} /\ AnswersOf(k)' = {}
  BY AnswerTaken
<1>2. k \in DOMAIN edits /\ k \notin DOMAIN task /\ EditHeld(k) /\ AnswerHeld(k, r)
  BY <1>1 DEF EditsIInv, EditOK
<1>3. k \in Nat
  BY <1>2, OfEdits
<1>4. phase = "running" /\ ~UploadOver(r) => ~Written(k)
  BY <1>1, <1>2 DEF Written
<1>5. /\ edits[k].awaiting = FALSE /\ edits[k].pending = "None" /\ edits[k].local = FALSE
      /\ edits[k] \in EditRecords
  BY <1>1, <1>2 DEF EditHeld, EditRecords
<1> QED
  BY <1>1, <1>2, <1>3, <1>4, <1>5, Unseen DEF Attends

(* an edit ends *)
LEMMA Ended ==
    ASSUME EditsIInv, NEW k, Attends(k), edits' = Without(edits, {k}), task' = task,
           busy' = (\E id \in DOMAIN edits' : edits'[id].saving),
           temps' = temps \/ temps' = Without(temps, {k}),
           kept \subseteq kept', k \in DOMAIN temps' /\ temps'[k] = Mine(k) => k \in kept'
    PROVE  EditsIInv'
<1>1. k \notin DOMAIN edits' /\ k \notin DOMAIN task' /\ AnswersOf(k)' = {}
  BY DEF Attends, Without
<1>2. \A id : id # k => Untouched(id)
  BY DEF Attends, Untouched, Without
<1>3. Written(k)'
  <2>1. k \in 0..(nextEdit' - 1)
    BY DEF Attends, EditsIInv
  <2> QED
    BY <1>1, <2>1 DEF Written
<1>4. Of(k)
  BY <1>2, <1>3 DEF Of, Attends, EditsIInv, Emptied
<1>5. DOMAIN temps' \subseteq DOMAIN temps /\ \A id \in DOMAIN temps' : temps'[id] = temps[id]
  BY DEF Without
<1>6. EditOK(k)
  BY DEF EditsIInv
<1>7. EditOK(k)'
  BY <1>1, <1>5, <1>6 DEF EditOK
<1>8. DOMAIN edits' \cup DOMAIN temps' \subseteq DOMAIN edits \cup DOMAIN temps
  BY <1>5 DEF Without
<1>9. UNCHANGED <<remote, unseen, nextEdit>> /\ OneEach' /\ \E S : internal' \in Seq(S)
  BY DEF Attends
<1> QED
  BY <1>4, <1>7, <1>8, <1>9, EditStays

LEMMA DropKeeps ==
    ASSUME EditsIInv, NEW k, Attends(k), EditHeld(k), DropEdit(k), UNCHANGED task,
           edits[k].temp = FALSE => k \notin DOMAIN temps \/ temps[k] # Mine(k)
    PROVE  EditsIInv'
<1>1. edits' = Without(edits, {k}) /\ busy' = (\E id \in DOMAIN edits' : edits'[id].saving)
  BY Published DEF DropEdit
<1>2. k \in DOMAIN edits /\ edits[k] \in EditRecords
  BY DEF EditHeld, Attends
<1>3. temps' = IF edits[k].temp THEN Without(temps, {k}) ELSE temps
  BY <1>2 DEF DropEdit
<1>4. temps' = temps \/ temps' = Without(temps, {k})
  BY <1>3
<1>5. k \in DOMAIN temps' => temps'[k] # Mine(k)
  BY <1>2, <1>3 DEF EditRecords, Without
<1>6. kept' = kept
  BY DEF DropEdit
<1> QED
  BY <1>1, <1>4, <1>5, <1>6, Ended

LEMMA KeepKeeps ==
    ASSUME EditsIInv, NEW k, Attends(k), EditHeld(k), KeepEdit(k), UNCHANGED task
    PROVE  EditsIInv'
<1>1. edits' = Without(edits, {k}) /\ busy' = (\E id \in DOMAIN edits' : edits'[id].saving)
  BY Published DEF KeepEdit
<1>2. k \in DOMAIN edits /\ edits[k] \in EditRecords /\ (edits[k].temp = FALSE /\ k \in DOMAIN temps => temps[k] # Mine(k))
  BY DEF EditHeld, Attends
<1>3. kept' = (IF edits[k].temp THEN kept \cup {k} ELSE kept) /\ temps' = temps
  BY <1>2 DEF KeepEdit
<1>4. k \in DOMAIN temps' /\ temps'[k] = Mine(k) => k \in kept'
  BY <1>2, <1>3 DEF EditRecords
<1>5. kept \subseteq kept'
  BY <1>3
<1> QED
  BY <1>1, <1>3, <1>4, <1>5, Ended

(* an edit goes on *)
LEMMA Continues ==
    ASSUME EditsIInv, NEW k, Attends(k), ~Written(k), NEW e, edits' = [edits EXCEPT ![k] = e],
           busy' = (\E id \in DOMAIN edits' : edits'[id].saving),
           \A id : id # k => /\ id \in DOMAIN task' <=> id \in DOMAIN task
                             /\ id \in DOMAIN task => task'[id] = task[id],
           UNCHANGED kept, OthersTemps(k), k \in DOMAIN temps' => k \in DOMAIN temps,
           Of(k) => EditOK(k)'
    PROVE  EditsIInv'
<1>1. \A id : id # k => Untouched(id)
  BY DEF Attends, Untouched, OthersTemps
<1>2. ~Emptied(k)
  BY DEF Emptied, Attends
<1>3. Of(k)
  BY <1>1, <1>2 DEF Of, Attends, EditsIInv
<1>4. DOMAIN edits' \cup DOMAIN temps' \subseteq DOMAIN edits \cup DOMAIN temps
  BY DEF OthersTemps
<1>5. UNCHANGED <<remote, unseen, nextEdit>> /\ OneEach' /\ \E S : internal' \in Seq(S)
  BY DEF Attends
<1> QED
  BY <1>3, <1>4, <1>5, EditStays

LEMMA StartUploadKeeps ==
    ASSUME EditsIInv, NEW k, Attends(k), EditHeld(k), phase = "running", ~Written(k),
           edits[k].awaiting = FALSE, edits[k].local = FALSE, edits[k].temp = TRUE, temps[k] = Mine(k),
           NEW mode \in {"Checked", "Forced", "Copy"}, StartUpload(k, mode)
    PROVE  EditsIInv'
<1>1. CASE ~live
  BY <1>1, KeepKeeps DEF StartUpload
<1>2. CASE live
  <2> DEFINE e == [[edits[k] EXCEPT !.pending = "None"] EXCEPT !.saving = TRUE]
             t == [Job("edit-upload", "stat") EXCEPT !.mode = mode]
  <2>1. k \in DOMAIN edits /\ edits[k] \in EditRecords /\ AnswersOf(k)' = {} /\ UNCHANGED phase /\ k \in DOMAIN temps
    BY DEF EditHeld, Attends
  <2>2. /\ edits' = [edits EXCEPT ![k] = e] /\ busy' = (\E id \in DOMAIN edits' : edits'[id].saving)
    BY <1>2, <2>1, Published DEF StartUpload
  <2>3. task' = With(task, k, t) /\ UNCHANGED <<temps, kept>>
    BY <1>2 DEF StartUpload
  <2>4. /\ e \in EditRecords /\ e.pending = "None" /\ e.saving = TRUE /\ e.awaiting = FALSE /\ e.temp = TRUE
        /\ e.local = FALSE /\ e.base = edits[k].base
    BY <2>1 DEF EditRecords
  <2>5. t \in TaskRecords /\ t.name = "edit-upload" /\ t.at = "stat"
    <3> DEFINE j == Job("edit-upload", "stat")
    <3>1. j \in TaskRecords /\ j.name = "edit-upload" /\ j.at = "stat"
      BY DEF Job, TaskRecords, EditTasks
    <3> QED
      BY <3>1 DEF TaskRecords
  <2> HIDE DEF e, t
  <2>6. edits'[k] = e /\ k \in DOMAIN edits' /\ task'[k] = t /\ k \in DOMAIN task'
    BY <2>1, <2>2, <2>3 DEF With
  <2>7. Of(k) => \A look, text : Sound(look, text) => Sound(look, text)'
    BY SoundStays DEF Attends
  <2>8. Of(k) => EditOK(k)'
    <3> SUFFICES ASSUME Of(k) PROVE EditOK(k)'
      OBVIOUS
    <3>1. EditHeld(k)'
      BY <2>1, <2>3, <2>4, <2>5, <2>6, <2>7 DEF EditHeld
    <3>2. TaskHeldOf(k)'
      BY <2>1, <2>3, <2>4, <2>5, <2>6 DEF TaskHeldOf
    <3>3. temps[k] \in Int
      BY <2>1 DEF EditsIInv, EditOK
    <3> QED
      BY <2>1, <2>3, <2>6, <3>1, <3>2, <3>3 DEF EditOK
  <2>9. \A id : id # k => /\ id \in DOMAIN task' <=> id \in DOMAIN task
                          /\ id \in DOMAIN task => task'[id] = task[id]
    BY <2>3 DEF With
  <2>10. OthersTemps(k)
    BY <2>3 DEF OthersTemps
  <2> QED
    BY <2>2, <2>3, <2>8, <2>9, <2>10, Continues
<1> QED
  BY <1>1, <1>2

LEMMA AskKeeps ==
    ASSUME EditsIInv, NEW k, Attends(k), EditHeld(k), phase = "running", ~Written(k),
           edits[k].awaiting = FALSE, edits[k].local = FALSE, edits[k].temp = TRUE, temps[k] = Mine(k),
           NEW kind \in {"Upload", "Conflict"}, AskEdit(k, kind)
    PROVE  EditsIInv'
<1> DEFINE e == [[edits[k] EXCEPT !.pending = kind] EXCEPT !.saving = FALSE]
<1>1. k \in DOMAIN edits /\ edits[k] \in EditRecords /\ AnswersOf(k)' = {} /\ UNCHANGED phase /\ k \in DOMAIN temps
      /\ k \notin DOMAIN task
  BY DEF EditHeld, Attends
<1>2. /\ edits' = [edits EXCEPT ![k] = e] /\ busy' = (\E id \in DOMAIN edits' : edits'[id].saving)
      /\ UNCHANGED <<task, temps, kept>>
  BY <1>1, Published DEF AskEdit
<1>3. /\ e \in EditRecords /\ e.pending = kind /\ e.saving = FALSE /\ e.awaiting = FALSE /\ e.temp = TRUE
      /\ e.local = FALSE /\ e.base = edits[k].base
  BY <1>1 DEF EditRecords
<1> HIDE DEF e
<1>4. edits'[k] = e /\ k \in DOMAIN edits'
  BY <1>1, <1>2
<1>5. ASSUME Of(k) PROVE EditOK(k)'
  <2>1. \A look, text : Sound(look, text) => Sound(look, text)'
    BY <1>5, SoundStays DEF Attends
  <2>2. EditHeld(k)'
    BY <1>1, <1>2, <1>3, <1>4, <2>1 DEF EditHeld
  <2>3. temps[k] \in Int
    BY <1>1 DEF EditsIInv, EditOK
  <2> QED
    BY <1>1, <1>2, <1>4, <2>2, <2>3 DEF EditOK
<1>6. OthersTemps(k)
  BY <1>2 DEF OthersTemps
<1> QED
  BY <1>2, <1>5, <1>6, Continues

LEMMA ReadyKeeps ==
    ASSUME EditsIInv, NEW k, Attends(k), EditHeld(k), phase = "running", ~Written(k), ~Seen(Mine(k)),
           edits[k].awaiting = FALSE, edits[k].pending = "None", edits[k].local = FALSE,
           edits[k].temp = FALSE, edits[k].saving = FALSE, NEW base \in Bases,
           k \in DOMAIN temps, temps[k] = base.text, Sound(base.look, base.text), Ready(k, base)
    PROVE  EditsIInv'
<1>1. CASE k \in cancelled
  <2>1. /\ edits' = Without(edits, {k}) /\ busy' = (\E id \in DOMAIN edits' : edits'[id].saving)
        /\ temps' = Without(temps, {k}) /\ UNCHANGED <<task, kept>>
    BY <1>1, Published DEF Ready
  <2>2. k \notin DOMAIN temps' /\ kept \subseteq kept'
    BY <2>1 DEF Without
  <2> QED
    BY <2>1, <2>2, Ended
<1>2. CASE k \notin cancelled
  <2> DEFINE e == [[[edits[k] EXCEPT !.base = base] EXCEPT !.temp = TRUE] EXCEPT !.awaiting = TRUE]
  <2>1. k \in DOMAIN edits /\ edits[k] \in EditRecords /\ AnswersOf(k)' = {} /\ UNCHANGED phase /\ k \notin DOMAIN task
    BY DEF EditHeld, Attends
  <2>2. /\ edits' = [edits EXCEPT ![k] = e] /\ busy' = (\E id \in DOMAIN edits' : edits'[id].saving)
        /\ UNCHANGED <<task, temps, kept>>
    BY <1>2, <2>1, Published DEF Ready
  <2>3. /\ e \in EditRecords /\ e.pending = "None" /\ e.saving = edits[k].saving /\ e.awaiting = TRUE
        /\ e.temp = TRUE /\ e.local = FALSE /\ e.base = base /\ e.saving = FALSE
    BY <2>1 DEF EditRecords
  <2> HIDE DEF e
  <2>4. edits'[k] = e /\ k \in DOMAIN edits'
    BY <2>1, <2>2
  <2>5. ASSUME Of(k) PROVE EditOK(k)'
    <3>1. Sound(base.look, base.text)'
      BY <2>5, SoundStays DEF Attends
    <3>2. EditHeld(k)'
      BY <2>1, <2>2, <2>3, <2>4, <3>1 DEF EditHeld
    <3>3. temps[k] \in Int
      BY <2>1 DEF EditsIInv, EditOK
    <3> QED
      BY <2>1, <2>2, <2>4, <3>2, <3>3 DEF EditOK
  <2>6. OthersTemps(k)
    BY <2>2 DEF OthersTemps
  <2> QED
    BY <2>2, <2>5, <2>6, Continues
<1> QED
  BY <1>1, <1>2

(* the result at the head of the channel *)
LEMMA ResultKeeps ==
    ASSUME EditsIInv, HandleInternal
    PROVE  EditsIInv'
<1> PICK r : r = Head(internal)
  OBVIOUS
<1> PICK k : k = r.id
  OBVIOUS
<1>1. /\ phase = "running" /\ internal # <<>> /\ internal' = Tail(internal) /\ Handle(r)
      /\ UNCHANGED <<auto, nextEdit, phase, foreign, remote, saved, unseen>>
  BY DEF HandleInternal
<1>2. Attends(k) /\ EditHeld(k) /\ AnswerHeld(k, r) /\ k \in Nat /\ edits[k] \in EditRecords
      /\ AnswersOf(k) = {r} /\ edits[k].awaiting = FALSE /\ edits[k].pending = "None"
      /\ edits[k].local = FALSE
      /\ (~UploadOver(r) => ~Written(k) /\ ~Seen(Mine(k)))
  BY <1>1, AttendsAnswer
<1>3. CASE r.what = "Ready"
  <2>1. Ready(k, r.of)
    BY <1>1, <1>3 DEF Handle
  <2>2. ~UploadOver(r) /\ edits[k].temp = FALSE /\ r.of \in Bases /\ k \in DOMAIN temps /\ temps[k] = r.of.text
        /\ Sound(r.of.look, r.of.text)
    BY <1>2, <1>3 DEF UploadOver, AnswerHeld
  <2>3. edits[k].saving = FALSE
    <3>1. k \notin DOMAIN task /\ ~Saving(r)
      BY <1>2, <1>3 DEF Attends, Saving
    <3> QED
      BY <1>1, <1>2, <3>1 DEF EditHeld, EditRecords
  <2> QED
    BY <1>1, <1>2, <2>1, <2>2, <2>3, ReadyKeeps
<1>4. CASE r.what \in {"PrepareFailed", "PrepareCancelled"}
  <2>1. NotPrepared(k)
    BY <1>1, <1>4 DEF Handle
  <2>2. /\ edits' = Without(edits, {k}) /\ busy' = (\E id \in DOMAIN edits' : edits'[id].saving)
        /\ UNCHANGED <<task, temps, kept>>
    BY <2>1, Published DEF NotPrepared
  <2>3. ~(k \in DOMAIN temps /\ temps[k] = Mine(k))
    BY <1>2, <1>4 DEF AnswerHeld, EditHeld
  <2> QED
    BY <1>2, <2>2, <2>3, Ended
<1>5. CASE r.what \in {"Same", "Changed", "Unreadable"}
  <2>1. FinishInspect(k, r.what, r.of)
    BY <1>1, <1>5 DEF Handle
  <2>2. /\ ~UploadOver(r) /\ edits[k].temp = TRUE
        /\ r.what = "Changed" => temps[k] = Mine(k)
    BY <1>2, <1>5 DEF UploadOver, AnswerHeld
  <2>3. CASE DropEdit(k) /\ UNCHANGED task
    BY <1>2, <2>2, <2>3, DropKeeps
  <2>4. CASE KeepEdit(k) /\ UNCHANGED task
    BY <1>2, <2>4, KeepKeeps
  <2>5. CASE r.what = "Changed" /\ StartUpload(k, "Checked")
    BY <1>1, <1>2, <2>2, <2>5, StartUploadKeeps
  <2>6. CASE r.what = "Changed" /\ AskEdit(k, "Upload")
    BY <1>1, <1>2, <2>2, <2>6, AskKeeps
  <2> QED
    BY <1>5, <2>1, <2>3, <2>4, <2>5, <2>6 DEF FinishInspect
<1>6. CASE r.what = "Conflict"
  <2>1. AskEdit(k, "Conflict")
    BY <1>1, <1>6 DEF Handle
  <2>2. ~UploadOver(r) /\ edits[k].temp = TRUE /\ temps[k] = Mine(k)
    BY <1>2, <1>6 DEF UploadOver, AnswerHeld
  <2> QED
    BY <1>1, <1>2, <2>1, <2>2, AskKeeps
<1>7. CASE r.what \in {"Uploaded", "UploadFailed"}
  <2>1. FinishUpload(k, r.what) /\ edits[k].temp = TRUE
    BY <1>1, <1>2, <1>7 DEF Handle, AnswerHeld
  <2> QED
    BY <1>2, <2>1, DropKeeps, KeepKeeps DEF FinishUpload
<1>8. CASE r.what = "Panicked"
  <2>1. FailEdit(k)
    BY <1>1, <1>8 DEF Handle
  <2> QED
    BY <1>2, <2>1, KeepKeeps DEF FailEdit
<1> QED
  BY <1>2, <1>3, <1>4, <1>5, <1>6, <1>7, <1>8 DEF AnswerHeld

(* ... and while the program shuts down *)
LEMMA LateKeeps ==
    ASSUME EditsIInv, ApplyLate
    PROVE  EditsIInv'
<1> PICK r : r = Head(internal)
  OBVIOUS
<1> PICK k : k = r.id
  OBVIOUS
<1>1. /\ phase = "stopping" /\ internal # <<>> /\ internal' = Tail(internal)
      /\ UNCHANGED <<auto, nextEdit, phase, foreign, remote, saved, unseen>>
  BY DEF ApplyLate
<1>2. Attends(k) /\ EditHeld(k) /\ AnswerHeld(k, r) /\ AnswersOf(k) = {r}
  BY <1>1, AttendsAnswer
<1>3. CASE r.what \in {"Uploaded", "UploadFailed"}
  <2>1. FinishUpload(k, r.what) /\ edits[k].temp = TRUE
    BY <1>2, <1>3 DEF ApplyLate, AnswerHeld
  <2> QED
    BY <1>2, <2>1, DropKeeps, KeepKeeps DEF FinishUpload
<1>4. CASE UNCHANGED <<edits, busy, task, cancelled, temps, kept>>
  <2>1. \A id : id # k => Untouched(id)
    BY <1>2, <1>4 DEF Attends, Untouched
  <2>2. Written(k)'
    <3>1. k \in 0..(nextEdit' - 1)
      BY <1>2 DEF Attends, EditsIInv
    <3> QED
      BY <1>1, <1>2, <1>4, <3>1 DEF Written, Attends
  <2>3. Of(k)
    BY <1>2, <1>4, <2>1, <2>2 DEF Of, Attends, EditsIInv, Emptied
  <2>4. \A look, text : Sound(look, text) => Sound(look, text)'
    BY <1>1, <2>3, SoundStays
  <2>5. EditHeld(k)'
    BY <1>1, <1>2, <1>4, <2>4 DEF EditHeld, Attends
  <2>6. EditOK(k)'
    BY <1>2, <1>4, <2>5 DEF EditOK, Attends, EditsIInv
  <2>7. busy' = (\E id \in DOMAIN edits' : edits'[id].saving)
    BY <1>4 DEF EditsIInv
  <2> QED
    BY <1>1, <1>2, <1>4, <2>3, <2>6, <2>7, EditStays DEF Attends
<1> QED
  BY <1>3, <1>4 DEF ApplyLate

---------------------------------------------------------------------------
(* steps that are not of one edit: tasks are told to stop, or stopped, and *)
(* somebody else writes                                                    *)
LEMMA NewEditKeeps ==
    ASSUME EditsIInv, NEW local \in BOOLEAN, EditFile(local)
    PROVE  EditsIInv'
<1> PICK k : k = nextEdit
  OBVIOUS
<1> DEFINE e == Opened(local)
           t == Job("edit-download", "stat")
<1>1. /\ phase = "running" /\ nextEdit' = k + 1
      /\ edits' = With(edits, k, e) /\ busy' = (\E id \in DOMAIN edits' : edits'[id].saving)
      /\ task' = IF local THEN task ELSE With(task, k, t)
      /\ UNCHANGED <<auto, internal, temps, kept, remote, foreign, saved, unseen, phase>>
  BY Published DEF EditFile, world
<1>2. k \in Nat /\ k \notin DOMAIN edits /\ k \notin DOMAIN temps /\ k \notin 0..(nextEdit - 1)
  <2>1. k \in Nat /\ k \notin 0..(k - 1)
    BY DEF EditsIInv
  <2> QED
    BY <2>1 DEF EditsIInv
<1>3. k \notin DOMAIN task /\ AnswersOf(k) = {} /\ \A id : AnswersOf(id)' = AnswersOf(id)
  BY <1>1, <1>2 DEF EditsIInv, EditOK, AnswersOf
<1>4. /\ e \in EditRecords /\ e.local = local /\ e.awaiting = local /\ e.temp = FALSE /\ e.pending = "None"
      /\ e.saving = FALSE
      /\ t \in TaskRecords /\ t.name = "edit-download" /\ t.at = "stat"
  BY DEF Opened, EditRecords, Bases, Job, TaskRecords, EditTasks
<1> HIDE DEF e, t
<1>5. /\ k \in DOMAIN edits' /\ edits'[k] = e
      /\ local = TRUE => k \notin DOMAIN task'
      /\ local = FALSE => k \in DOMAIN task' /\ task'[k] = t
  BY <1>1, <1>3 DEF With
<1>6. Of(k)
  <2>1. \A id : id # k => Untouched(id)
    BY <1>1, <1>3 DEF Untouched, With
  <2>2. ~Written(k) /\ ~Emptied(k)
    BY <1>2, <1>3 DEF Written, Emptied
  <2>3. nextEdit' \in Nat /\ nextEdit <= nextEdit'
    BY <1>1, <1>2
  <2> QED
    BY <1>1, <2>1, <2>2, <2>3 DEF Of
<1>7. EditHeld(k)'
  <2>1. CASE local = TRUE
    BY <1>1, <1>2, <1>3, <1>4, <1>5, <2>1 DEF EditHeld
  <2>2. CASE local = FALSE
    BY <1>1, <1>2, <1>3, <1>4, <1>5, <2>2 DEF EditHeld
  <2> QED
    BY <2>1, <2>2
<1>8. local = FALSE => TaskHeldOf(k)'
  BY <1>4, <1>5 DEF TaskHeldOf
<1>9. EditOK(k)'
  BY <1>1, <1>2, <1>3, <1>5, <1>7, <1>8 DEF EditOK
<1>10. \A id : id \in DOMAIN edits' \cup DOMAIN temps' => id \in 0..(nextEdit' - 1)
  <2>1. k \in Nat /\ k + 1 \in Nat /\ k <= k + 1 /\ k \in 0..((k + 1) - 1)
    BY <1>2
  <2>2. \A id : id \in 0..(k - 1) => id \in 0..((k + 1) - 1)
    BY ONLY <2>1, Wider
  <2>3. \A id : id \in DOMAIN edits' \cup DOMAIN temps' => id = k \/ id \in 0..(k - 1)
    BY <1>1 DEF With, EditsIInv
  <2> QED
    BY <1>1, <2>1, <2>2, <2>3
<1>11. (\E S : internal' \in Seq(S)) /\ OneEach'
  BY <1>1 DEF OneEach, EditsIInv
<1> PICK now : now = remote[File]
  OBVIOUS
<1>12. File \in DOMAIN remote' /\ now = remote'[File] /\ unseen' = {}
  BY <1>1 DEF EditsIInv
<1> QED
  BY <1>1, <1>6, <1>9, <1>10, <1>11, <1>12, EditMoves

LEMMA ToldKeep ==
    ASSUME EditsIInv, task' = [id \in DOMAIN task |-> [task[id] EXCEPT !.cancel = TRUE]],
           phase' = phase \/ phase' = "stopping",
           UNCHANGED <<auto, nextEdit, edits, busy, internal, temps, kept, saved, remote, foreign, unseen>>
    PROVE  EditsIInv'
<1>1. \A id : AnswersOf(id)' = AnswersOf(id)
  BY DEF AnswersOf
<1>2. ASSUME NEW id \in DOMAIN task
      PROVE  /\ id \in DOMAIN task' /\ task'[id] \in TaskRecords
             /\ task'[id].name = task[id].name /\ task'[id].at = task[id].at /\ task'[id].look = task[id].look
             /\ task'[id].mode = task[id].mode
  BY <1>2, TaskKnown DEF TaskRecords
<1>3. DOMAIN task' = DOMAIN task
  OBVIOUS
<1>4. \A id : Written(id) => Written(id)'
  BY <1>1, <1>3 DEF Written
<1>5. \A id : Emptied(id) => Emptied(id)'
  BY <1>2, <1>4 DEF Emptied
<1>6. \A text : Seen(text) => Seen(text)'
  BY <1>4, <1>5 DEF Seen
<1>7. \A look, text : Sound(look, text) => Sound(look, text)'
  BY <1>6 DEF Sound
<1>8. ASSUME NEW id PROVE EditOK(id)'
  <2>1. EditOK(id)
    BY DEF EditsIInv
  <2>2. id \in DOMAIN edits => EditHeld(id)'
    BY <1>1, <1>2, <1>3, <1>7, <2>1 DEF EditOK, EditHeld
  <2>3. id \in DOMAIN task => TaskHeldOf(id)'
    BY <1>2, <1>6, <1>7, <2>1 DEF EditOK, TaskHeldOf
  <2>4. \A r \in AnswersOf(id) : AnswerHeld(id, r)'
    BY <1>7, <2>1 DEF EditOK, AnswerHeld
  <2> QED
    BY <1>1, <1>3, <2>1, <2>2, <2>3, <2>4 DEF EditOK
<1>9. Seen(remote[File])'
  BY <1>6 DEF EditsIInv
<1>10. OneEach'
  BY DEF OneEach, EditsIInv
<1> QED
  BY <1>8, <1>9, <1>10 DEF EditsIInv

LEMMA StopKeeps ==
    ASSUME EditsIInv, StopTasks
    PROVE  EditsIInv'
<1>1. /\ phase' = "stopped" /\ task' = Nothing /\ internal' = <<>>
      /\ UNCHANGED <<auto, nextEdit, edits, busy, temps, kept, saved, remote, foreign, unseen>>
  BY DEF StopTasks, work, world
<1>2. DOMAIN task' = {} /\ \A id : AnswersOf(id)' = {}
  BY <1>1 DEF Nothing, AnswersOf
<1>3. \A id : Written(id) => Written(id)'
  BY <1>1, <1>2 DEF Written
<1>4. ASSUME NEW id, Emptied(id) PROVE Emptied(id)'
  <2>1. CASE Written(id)
    BY <1>3, <2>1 DEF Emptied
  <2>2. CASE id \in DOMAIN task
    <3>1. id \in 0..(nextEdit' - 1)
      BY <1>1, <2>2 DEF EditsIInv, EditOK
    <3> QED
      BY <1>1, <1>2, <3>1 DEF Emptied, Written
  <2> QED
    BY <1>4, <2>1, <2>2 DEF Emptied
<1>5. \A text : Seen(text) => Seen(text)'
  BY <1>1, <1>3, <1>4 DEF Seen
<1>6. \A look, text : Sound(look, text) => Sound(look, text)'
  BY <1>1, <1>5 DEF Sound
<1>7. ASSUME NEW id PROVE EditOK(id)'
  BY <1>1, <1>2, <1>6 DEF EditsIInv, EditOK, EditHeld
<1>8. Seen(remote[File])'
  BY <1>1, <1>5 DEF EditsIInv
<1>9. OneEach' /\ \E S : internal' \in Seq(S)
  BY <1>1 DEF OneEach
<1> QED
  BY <1>1, <1>7, <1>8, <1>9 DEF EditsIInv

LEMMA OthersKeep ==
    ASSUME EditsIInv, OthersWrite
    PROVE  EditsIInv'
<1>1. /\ foreign' = foreign + 1 /\ File \in DOMAIN remote' /\ remote'[File] = foreign + 1
      /\ UNCHANGED <<auto, nextEdit, edits, busy, task, internal, temps, kept, saved, unseen, phase>>
  BY DEF OthersWrite, work, With
<1>2. \A id : AnswersOf(id)' = AnswersOf(id)
  BY <1>1 DEF AnswersOf
<1>3. \A id : (Written(id) => Written(id)') /\ (Emptied(id) => Emptied(id)')
  BY <1>1, <1>2 DEF Written, Emptied
<1>4. \A text : text \in 1..foreign => text \in 1..foreign'
  BY <1>1 DEF EditsIInv
<1>5. \A text : Seen(text) => Seen(text)'
  BY <1>3, <1>4 DEF Seen
<1>6. ~Seen(foreign + 1)
  BY Unseen
<1>7. \A look, text : Sound(look, text) => Sound(look, text)'
  BY <1>1, <1>5, <1>6 DEF Sound
<1>8. ASSUME NEW id PROVE EditOK(id)'
  BY <1>1, <1>2, <1>5, <1>7 DEF EditsIInv, EditOK, EditHeld, TaskHeldOf, AnswerHeld
<1>9. Seen(remote[File])'
  <2>1. foreign + 1 \in 1..(foreign + 1) /\ foreign + 1 \in Nat
    BY DEF EditsIInv
  <2> QED
    BY <1>1, <2>1 DEF Seen
<1>10. OneEach' /\ \E S : internal' \in Seq(S)
  BY <1>1 DEF OneEach, EditsIInv
<1> QED
  BY <1>1, <1>8, <1>9, <1>10 DEF EditsIInv

LEMMA EditsUnchanged ==
    ASSUME EditsIInv,
           UNCHANGED <<auto, nextEdit, edits, busy, task, internal, temps, kept, saved, remote, foreign, unseen, phase>>
    PROVE  EditsIInv'
<1>1. \A id : AnswersOf(id)' = AnswersOf(id)
  BY DEF AnswersOf
<1>2. \A id : Written(id)' = Written(id) /\ Emptied(id)' = Emptied(id)
  BY <1>1 DEF Written, Emptied
<1>3. \A text : Seen(text)' = Seen(text)
  BY <1>2 DEF Seen
<1>4. \A look, text : Sound(look, text)' = Sound(look, text)
  BY <1>3 DEF Sound
<1>5. ASSUME NEW id PROVE EditOK(id)'
  BY <1>1, <1>3, <1>4 DEF EditsIInv, EditOK, EditHeld, TaskHeldOf, AnswerHeld
<1>6. OneEach'
  BY DEF OneEach, EditsIInv
<1> QED
  BY <1>3, <1>5, <1>6 DEF EditsIInv

---------------------------------------------------------------------------
LEMMA FinishKeeps ==
    ASSUME EditsIInv, NEW k, FinishEdit(k)
    PROVE  EditsIInv'
<1>1. /\ phase = "running" /\ k \in DOMAIN edits /\ edits[k].awaiting
      /\ UNCHANGED <<auto, nextEdit, internal, phase, foreign, remote, saved, unseen>>
  BY DEF FinishEdit
<1>2. edits[k] \in EditRecords /\ edits[k].awaiting = TRUE
  BY <1>1 DEF EditsIInv, EditOK, EditHeld, EditRecords
<1>3. Attends(k) /\ EditHeld(k) /\ k \in Nat /\ AnswersOf(k) = {} /\ ~Written(k)
  BY <1>1, <1>2, AttendsAtRest
<1>4. CASE DropEdit(k) /\ UNCHANGED task
  <2>1. edits[k].temp = FALSE => k \notin DOMAIN temps \/ temps[k] # Mine(k)
    BY <1>3 DEF EditHeld
  <2> QED
    BY <1>3, <1>4, <2>1, DropKeeps
<1>5. ASSUME NEW aborted \in BOOLEAN, ~edits[k].local, InspectEdit(k, aborted),
             temps' = [temps EXCEPT ![k] = Mine(k)] \/ temps' = temps
      PROVE  EditsIInv'
  <2> DEFINE e == [[edits[k] EXCEPT !.awaiting = FALSE] EXCEPT !.saving = TRUE]
             t == [Job("edit-inspect", "hash") EXCEPT !.aborted = aborted]
  <2>1. /\ edits' = [edits EXCEPT ![k] = e] /\ busy' = (\E id \in DOMAIN edits' : edits'[id].saving)
        /\ task' = With(task, k, t) /\ UNCHANGED kept
    BY <1>1, <1>5, Published DEF InspectEdit
  <2>2. /\ e \in EditRecords /\ e.pending = edits[k].pending /\ e.awaiting = FALSE /\ e.saving = TRUE
        /\ e.local = edits[k].local /\ e.temp = edits[k].temp /\ e.base = edits[k].base
    BY <1>2 DEF EditRecords
  <2>3. t \in TaskRecords /\ t.name = "edit-inspect" /\ t.at = "hash"
    <3> DEFINE j == Job("edit-inspect", "hash")
    <3>1. j \in TaskRecords /\ j.name = "edit-inspect" /\ j.at = "hash"
      BY DEF Job, TaskRecords, EditTasks
    <3> QED
      BY <3>1 DEF TaskRecords
  <2> HIDE DEF e, t
  <2>4. edits'[k] = e /\ k \in DOMAIN edits' /\ k \in DOMAIN task' /\ task'[k] = t
    BY <1>1, <2>1 DEF With
  <2>5. /\ edits[k].pending = "None" /\ edits[k].temp = TRUE /\ edits[k].local = FALSE
        /\ k \in DOMAIN temps /\ temps[k] = edits[k].base.text /\ temps[k] \in Int /\ Mine(k) \in Int
        /\ Sound(edits[k].base.look, edits[k].base.text)
    BY <1>2, <1>3, <1>5, Unseen DEF EditHeld, EditRecords, EditsIInv, EditOK
  <2>6. /\ k \in DOMAIN temps' /\ temps'[k] \in {edits[k].base.text, Mine(k)} /\ temps'[k] \in Int
        /\ OthersTemps(k)
    BY <1>5, <2>5 DEF OthersTemps
  <2>7. AnswersOf(k)' = {}
    BY <1>3 DEF Attends
  <2>8. ASSUME Of(k) PROVE EditOK(k)'
    <3>1. Sound(edits[k].base.look, edits[k].base.text)'
      <4>1. \A look, text : Sound(look, text) => Sound(look, text)'
        BY <1>1, <2>8, SoundStays
      <4>2. edits'[k].base = edits[k].base
        BY <2>2, <2>4
      <4>3. Sound(edits'[k].base.look, edits'[k].base.text)
        BY <2>5, <4>2
      <4> PICK look, text : look = edits'[k].base.look /\ text = edits'[k].base.text
        OBVIOUS
      <4> QED
        BY <4>1, <4>3
    <3>2. EditHeld(k)'
      BY <1>1, <2>2, <2>3, <2>4, <2>5, <2>6, <2>7, <3>1 DEF EditHeld
    <3>3. TaskHeldOf(k)'
      BY <2>2, <2>3, <2>4, <2>5 DEF TaskHeldOf
    <3> QED
      BY <2>4, <2>6, <2>7, <3>2, <3>3 DEF EditOK
  <2>9. \A id : id # k => /\ id \in DOMAIN task' <=> id \in DOMAIN task
                          /\ id \in DOMAIN task => task'[id] = task[id]
    BY <2>1 DEF With
  <2> QED
    BY <1>3, <2>1, <2>5, <2>6, <2>8, <2>9, Continues
<1> QED
  BY <1>4, <1>5 DEF FinishEdit

LEMMA ResolveKeeps ==
    ASSUME EditsIInv, NEW k, ResolveEdit(k)
    PROVE  EditsIInv'
<1>1. /\ phase = "running" /\ k \in DOMAIN edits /\ edits[k].pending # "None"
      /\ UNCHANGED <<auto, nextEdit, internal, phase, foreign, remote, saved, unseen>>
  BY DEF ResolveEdit
<1>2. Attends(k) /\ EditHeld(k) /\ edits[k] \in EditRecords /\ ~Written(k)
  BY <1>1, AttendsAtRest
<1>3. edits[k].awaiting = FALSE /\ edits[k].local = FALSE /\ edits[k].temp = TRUE /\ temps[k] = Mine(k)
  BY <1>1, <1>2 DEF EditHeld, EditRecords
<1>4. CASE KeepEdit(k) /\ UNCHANGED task
  BY <1>2, <1>4, KeepKeeps
<1>5. CASE \E mode \in {"Checked", "Forced", "Copy"} : StartUpload(k, mode)
  BY <1>1, <1>2, <1>3, <1>5, StartUploadKeeps
<1> QED
  BY <1>4, <1>5 DEF ResolveEdit

LEMMA EditsBegin ==
    ASSUME EditsInit
    PROVE  EditsIInv
<1>1. /\ auto \in BOOLEAN /\ edits = Nothing /\ nextEdit = 0 /\ busy = FALSE /\ task = Nothing /\ internal = <<>>
      /\ temps = Nothing /\ remote = [f \in {File} |-> Original] /\ foreign = 0 /\ unseen = {}
  BY AutoAssumption DEF EditsInit
<1>2. DOMAIN edits = {} /\ DOMAIN task = {} /\ DOMAIN temps = {} /\ \A id : AnswersOf(id) = {}
  BY <1>1 DEF Nothing, AnswersOf
<1>3. \A id : EditOK(id)
  BY <1>2 DEF EditOK
<1>4. File \in DOMAIN remote /\ Seen(remote[File])
  BY <1>1 DEF Seen
<1>5. OneEach /\ \E S : internal \in Seq(S)
  BY <1>1 DEF OneEach
<1> QED
  BY <1>1, <1>2, <1>3, <1>4, <1>5 DEF EditsIInv

LEMMA EditsStep ==
    ASSUME EditsIInv, [EditsNext]_editsVars
    PROVE  EditsIInv'
<1>1. CASE \E local \in BOOLEAN : EditFile(local)
  BY <1>1, NewEditKeeps
<1>2. CASE CancelDownloads
  <2>1. /\ task' = [id \in DOMAIN task |-> [task[id] EXCEPT !.cancel = TRUE]] /\ phase' = phase
        /\ UNCHANGED <<auto, nextEdit, edits, busy, internal, temps, kept, saved, remote, foreign, unseen>>
    BY <1>2 DEF CancelDownloads, work, world
  <2> QED
    BY <2>1, ToldKeep
<1>3. CASE Disconnect
  BY <1>3, EditsUnchanged DEF Disconnect, work, world
<1>4. CASE Shutdown
  <2>1. /\ task' = [id \in DOMAIN task |-> [task[id] EXCEPT !.cancel = TRUE]] /\ phase' = "stopping"
        /\ UNCHANGED <<auto, nextEdit, edits, busy, internal, temps, kept, saved, remote, foreign, unseen>>
    BY <1>4 DEF Shutdown, work, world
  <2> QED
    BY <2>1, ToldKeep
<1>5. CASE \E id \in Edits : FinishEdit(id) \/ ResolveEdit(id)
  BY <1>5, FinishKeeps, ResolveKeeps
<1>6. CASE HandleInternal
  BY <1>6, ResultKeeps
<1>7. CASE ApplyLate
  BY <1>7, LateKeeps
<1>8. CASE StopTasks
  BY <1>8, StopKeeps
<1>9. CASE OthersWrite
  BY <1>9, OthersKeep
<1>10. CASE \E id \in Edits : TaskStep(id) \/ TaskPanics(id)
  BY <1>10, PrepareKeeps, InspectKeeps, UploadKeeps, PanicKeeps DEF TaskStep
<1>11. CASE UNCHANGED editsVars
  BY <1>11, EditsUnchanged DEF editsVars
<1> QED
  BY <1>1, <1>2, <1>3, <1>4, <1>5, <1>6, <1>7, <1>8, <1>9, <1>10, <1>11 DEF EditsNext, Command

LEMMA EditsInductive == EditsSpec => []EditsIInv
<1>1. EditsInit => EditsIInv
  BY EditsBegin
<1>2. EditsIInv /\ [EditsNext]_editsVars => EditsIInv'
  BY EditsStep
<1> QED
  BY <1>1, <1>2, PTL DEF EditsSpec

(* ReplacesWhatWasRead: whatever the number of edits and however the       *)
(* writes of others, the downloads and the uploads fall, an upload that is *)
(* not forced goes on to replace the file only if its check found the text *)
(* that was downloaded.  It says nothing of what is written after that     *)
(* check.                                                                  *)
THEOREM ReplacesWhatWasReadHolds == EditsSpec => []ReplacesWhatWasRead
<1>1. EditsIInv => ReplacesWhatWasRead
  BY DEF EditsIInv, ReplacesWhatWasRead
<1> QED
  BY <1>1, EditsInductive, PTL

LEMMA PendingCounted ==
    ASSUME EditsIInv, NEW id
    PROVE  /\ id \in DOMAIN task => Pending(id) = 1
           /\ id \notin DOMAIN task /\ AnswersOf(id) # {} => Pending(id) = 1
           /\ id \notin DOMAIN task /\ AnswersOf(id) = {} => Pending(id) = 0
<1> DEFINE places == {i \in DOMAIN internal : internal[i].id = id}
<1>1. AnswersOf(id) = {} => Cardinality(places) = 0
  <2>1. AnswersOf(id) = {} => places = {}
    BY DEF AnswersOf
  <2> QED
    BY <2>1, FS_EmptySet
<1>2. AnswersOf(id) # {} => Cardinality(places) = 1
  <2> SUFFICES ASSUME AnswersOf(id) # {} PROVE Cardinality(places) = 1
    OBVIOUS
  <2>1. PICK i \in DOMAIN internal : internal[i].id = id
    BY DEF AnswersOf
  <2>2. places = {i}
    BY <2>1 DEF EditsIInv, OneEach
  <2> QED
    BY <2>2, FS_Singleton
<1>3. id \in DOMAIN task => AnswersOf(id) = {}
  BY DEF EditsIInv, EditOK
<1> HIDE DEF places
<1>4. Pending(id) = (IF id \in DOMAIN task THEN 1 ELSE 0) + Cardinality(places)
  BY DEF Pending, places
<1> QED
  BY <1>1, <1>2, <1>3, <1>4

(* OneOwner: every edit goes on through exactly one of its task, its       *)
(* result, its editor and its question, and publish_edit_busy tells the    *)
(* front end of exactly the saves that go on.                              *)
THEOREM OneOwnerHolds == EditsSpec => []OneOwner
<1>1. EditsIInv => OneOwner
  <2> SUFFICES ASSUME EditsIInv, phase = "running" PROVE OneOwner
    BY DEF OneOwner
  <2>1. ASSUME NEW id \in DOMAIN edits
        PROVE  /\ Pending(id) = IF edits[id].awaiting \/ edits[id].pending # "None" THEN 0 ELSE 1
               /\ ~(edits[id].awaiting /\ edits[id].pending # "None")
    <3>1. EditHeld(id) /\ edits[id] \in EditRecords
      BY DEF EditsIInv, EditOK, EditHeld
    <3>2. CASE edits[id].awaiting = TRUE \/ edits[id].pending # "None"
      BY <3>1, <3>2, PendingCounted DEF EditHeld, EditRecords
    <3>3. CASE edits[id].awaiting = FALSE /\ edits[id].pending = "None"
      BY <3>1, <3>3, PendingCounted DEF EditHeld
    <3> QED
      BY <3>1, <3>2, <3>3 DEF EditRecords
  <2>2. ASSUME NEW id \in Edits \ DOMAIN edits
        PROVE  Pending(id) = 0 /\ (id \in DOMAIN temps /\ temps[id] = Mine(id) => id \in kept)
    BY PendingCounted DEF EditsIInv, EditOK
  <2>3. BusyExact
    <3>1. \A id \in DOMAIN task : id \in DOMAIN edits
      BY DEF EditsIInv, EditOK
    <3>2. \A i \in DOMAIN internal : internal[i].id \in DOMAIN edits /\ internal[i] \in AnswersOf(internal[i].id)
      BY DEF EditsIInv, EditOK, AnswersOf
    <3>3. ASSUME NEW id \in DOMAIN edits
          PROVE  edits[id].saving <=> \/ id \in DOMAIN task /\ task[id].name # "edit-download"
                                      \/ \E r \in AnswersOf(id) : Saving(r)
      <4>1. EditHeld(id) /\ edits[id].saving \in BOOLEAN
        BY DEF EditsIInv, EditOK, EditHeld, EditRecords
      <4> QED
        BY <4>1 DEF EditHeld
    <3>4. \A id : \A r \in AnswersOf(id) : \E i \in DOMAIN internal : internal[i] = r
      BY DEF AnswersOf
    <3>5. busy <=> \E id \in DOMAIN edits : edits[id].saving
      BY DEF EditsIInv
    <3>6. ASSUME busy
          PROVE  \/ \E id \in DOMAIN task : task[id].name # "edit-download"
                 \/ \E i \in DOMAIN internal : Saving(internal[i])
      BY <3>3, <3>4, <3>5, <3>6
    <3>7. ASSUME NEW id \in DOMAIN task, task[id].name # "edit-download" PROVE busy
      BY <3>1, <3>3, <3>5, <3>7
    <3>8. ASSUME NEW i \in DOMAIN internal, Saving(internal[i]) PROVE busy
      BY <3>2, <3>3, <3>5, <3>8
    <3> QED
      BY <3>6, <3>7, <3>8 DEF BusyExact
  <2> QED
    BY <2>1, <2>2, <2>3 DEF OneOwner
<1> QED
  BY <1>1, EditsInductive, PTL

---------------------------------------------------------------------------
(* no step loses what was typed *)
KeepsTyped ==
    \A id \in DOMAIN temps : temps[id] = Mine(id) =>
      Mine(id) \in saved \/ (id \in DOMAIN temps' /\ temps'[id] = Mine(id))

LEMMA UntouchedTyped ==
    ASSUME NEW k, temps' = temps \/ temps' = Without(temps, {k}),
           k \in DOMAIN temps /\ temps[k] = Mine(k) => Mine(k) \in saved
    PROVE  KeepsTyped
  BY DEF KeepsTyped, Without

(* what an edit drops is not its editor's text, or has been saved *)
LEMMA DroppedSaved ==
    ASSUME NEW k \in DOMAIN edits, DropEdit(k), edits[k].temp = TRUE,
           k \in DOMAIN temps /\ temps[k] = Mine(k) => Mine(k) \in saved
    PROVE  KeepsTyped
  BY UntouchedTyped DEF DropEdit

LEMMA KeptTyped ==
    ASSUME NEW k, KeepEdit(k)
    PROVE  KeepsTyped
  BY DEF KeepEdit, KeepsTyped

LEMMA UploadsTyped ==
    ASSUME NEW k, NEW mode, StartUpload(k, mode)
    PROVE  KeepsTyped
  BY KeptTyped DEF StartUpload, KeepsTyped

LEMMA PrepareTyped ==
    ASSUME EditsIInv, NEW k, Prepare(k)
    PROVE  KeepsTyped
<1>1. k \in DOMAIN task /\ task[k].name = "edit-download"
  BY DEF Prepare, In
<1>2. k \in DOMAIN temps => temps[k] # Mine(k)
  BY <1>1, TaskKnown DEF TaskHeldOf, EditHeld
<1>3. \A id : id # k => (id \in DOMAIN temps => id \in DOMAIN temps' /\ temps'[id] = temps[id])
  BY DEF Prepare, With, Without
<1> QED
  BY <1>2, <1>3 DEF KeepsTyped

LEMMA FinishTyped ==
    ASSUME EditsIInv, NEW k, FinishEdit(k)
    PROVE  KeepsTyped
<1>1. /\ phase = "running" /\ k \in DOMAIN edits /\ edits[k].awaiting
      /\ UNCHANGED <<auto, nextEdit, internal, phase, foreign, remote, saved, unseen>>
  BY DEF FinishEdit
<1>2. edits[k] \in EditRecords /\ edits[k].awaiting = TRUE
  BY <1>1 DEF EditsIInv, EditOK, EditHeld, EditRecords
<1>3. EditHeld(k) /\ ~Seen(Mine(k))
  BY <1>1, <1>2, AttendsAtRest
<1>4. k \in DOMAIN temps => temps[k] # Mine(k)
  BY <1>2, <1>3 DEF EditHeld, Sound, EditRecords
<1>5. CASE DropEdit(k)
  BY <1>4, <1>5, UntouchedTyped DEF DropEdit
<1>6. CASE temps' = [temps EXCEPT ![k] = Mine(k)] \/ temps' = temps
  BY <1>6 DEF KeepsTyped
<1> QED
  BY <1>5, <1>6 DEF FinishEdit

LEMMA ResultTyped ==
    ASSUME EditsIInv, internal # <<>>, internal' = Tail(internal), NEW r, r = Head(internal),
           UNCHANGED <<auto, nextEdit, phase, foreign, remote, saved, unseen>>,
           \/ phase = "running" /\ Handle(r)
           \/ r.what \in {"Uploaded", "UploadFailed"} /\ FinishUpload(r.id, r.what)
    PROVE  KeepsTyped
<1> PICK k : k = r.id
  OBVIOUS
<1>1. Attends(k) /\ EditHeld(k) /\ AnswerHeld(k, r)
      /\ (phase = "running" /\ ~UploadOver(r) => ~Seen(Mine(k)))
  BY AttendsAnswer
<1>2. k \in DOMAIN edits
  BY <1>1 DEF Attends
<1>3. CASE r.what = "Ready" /\ Ready(k, r.of)
  <2>1. k \in DOMAIN temps => temps[k] # Mine(k)
    BY <1>1, <1>3 DEF AnswerHeld, EditHeld
  <2> QED
    BY <1>3, <2>1, UntouchedTyped DEF Ready
<1>4. CASE NotPrepared(k)
  BY <1>4 DEF NotPrepared, KeepsTyped
<1>5. CASE phase = "running" /\ r.what = "Same" /\ DropEdit(k)
  <2>1. edits[k].temp = TRUE /\ temps[k] = edits[k].base.text /\ ~UploadOver(r)
    BY <1>1, <1>5 DEF AnswerHeld, UploadOver
  <2>2. temps[k] # Mine(k)
    BY <1>1, <1>5, <2>1 DEF EditHeld, Sound
  <2> QED
    BY <1>2, <1>5, <2>1, <2>2, DroppedSaved
<1>6. CASE KeepEdit(k)
  BY <1>6, KeptTyped
<1>7. CASE \E mode : StartUpload(k, mode)
  BY <1>7, UploadsTyped
<1>8. CASE \E kind : AskEdit(k, kind)
  BY <1>8 DEF AskEdit, KeepsTyped
<1>9. CASE r.what = "Uploaded" /\ DropEdit(k)
  <2>1. edits[k].temp = TRUE /\ temps[k] \in saved
    BY <1>1, <1>9 DEF AnswerHeld
  <2> QED
    BY <1>2, <1>9, <2>1, DroppedSaved
<1>10. CASE r.what \in {"Uploaded", "UploadFailed"} /\ FinishUpload(k, r.what)
  BY <1>6, <1>9, <1>10 DEF FinishUpload
<1>11. CASE phase = "running" /\ Handle(r)
  <2>1. CASE r.what = "Ready"
    BY <1>3, <1>11, <2>1 DEF Handle
  <2>2. CASE r.what \in {"PrepareFailed", "PrepareCancelled"}
    BY <1>4, <1>11, <2>2 DEF Handle
  <2>3. CASE r.what \in {"Same", "Changed", "Unreadable"}
    <3>1. FinishInspect(k, r.what, r.of)
      BY <1>11, <2>3 DEF Handle
    <3> QED
      BY <1>5, <1>6, <1>7, <1>8, <1>11, <3>1 DEF FinishInspect
  <2>4. CASE r.what = "Conflict"
    BY <1>8, <1>11, <2>4 DEF Handle
  <2>5. CASE r.what \in {"Uploaded", "UploadFailed"}
    BY <1>10, <1>11, <2>5 DEF Handle
  <2>6. CASE r.what = "Panicked"
    BY <1>6, <1>11, <2>6 DEF Handle, FailEdit
  <2> QED
    BY <1>1, <2>1, <2>2, <2>3, <2>4, <2>5, <2>6 DEF AnswerHeld
<1> QED
  BY <1>10, <1>11

LEMMA StepTyped ==
    ASSUME EditsIInv, [EditsNext]_editsVars
    PROVE  KeepsTyped
<1>1. CASE temps' = temps
  BY <1>1 DEF KeepsTyped
<1>2. CASE \E id \in Edits : FinishEdit(id)
  BY <1>2, FinishTyped
<1>3. CASE \E id \in Edits : ResolveEdit(id)
  BY <1>3, KeptTyped, UploadsTyped DEF ResolveEdit
<1>4. CASE HandleInternal
  BY <1>4, ResultTyped DEF HandleInternal
<1>5. CASE ApplyLate
  BY <1>1, <1>5, ResultTyped DEF ApplyLate
<1>6. CASE \E id \in Edits : Prepare(id)
  BY <1>6, PrepareTyped
<1>7. CASE (\E local \in BOOLEAN : EditFile(local)) \/ CancelDownloads \/ Disconnect \/ Shutdown
  BY <1>1, <1>7 DEF EditFile, CancelDownloads, Disconnect, Shutdown, world
<1>8. CASE StopTasks \/ OthersWrite \/ UNCHANGED editsVars
  BY <1>1, <1>8 DEF StopTasks, OthersWrite, world, editsVars
<1>9. CASE \E id \in Edits : Inspect(id) \/ UploadStep(id) \/ TaskPanics(id)
  BY <1>1, <1>9 DEF Inspect, UploadStep, TaskPanics, world
<1> QED
  BY <1>2, <1>3, <1>4, <1>5, <1>6, <1>7, <1>8, <1>9 DEF EditsNext, Command, TaskStep

(* TypedKept: no step removes or replaces a text the user typed unless an  *)
(* upload has written it whole, whatever fails, panics or stops.           *)
THEOREM TypedKeptHolds == EditsSpec => TypedKept
<1>1. EditsIInv /\ [EditsNext]_editsVars => [KeepsTyped]_editsVars
  BY StepTyped
<1>2. [][KeepsTyped]_editsVars => TypedKept
  BY PTL DEF TypedKept, KeepsTyped
<1> QED
  BY <1>1, <1>2, EditsInductive, PTL DEF EditsSpec
(***************************************************************************)
(* The dialogs of the front end                                            *)
(***************************************************************************)
Screens == {"files", "sync", "connections", "search"}
Dialogs == {"none", "confirm", "text", "form", "list", "message", "conflict"}
Lists == {"none", "FixMissingHost", "MoveLabels"}
Pendings == Lists \cup
    {"Question", "Edit", "ResolveConflict", "Delete", "Rename", "Mkdir", "AddBookmark",
     "SaveConnection", "DeleteConnection", "QuitWhileSaving", "StartSync"}
Kinds == {"Question", "Edit", "ResolveConflict", "Sync"}
Prompts == [batch : Nat, files : Nat]
Uis == [screen : Screens, dialog : Dialogs, pending : Pendings, id : Nat,
        prompts : Seq(Prompts), questions : Seq(Nat \ {0}), open : Nat,
        hosts : BOOLEAN, plan : Nat]

(* what the dialog shows and what is done when it ends fit each other *)
UiOK(u) ==
    /\ u \in Uis
    /\ u.dialog \in {"none", "message"} => u.pending = "none"
    /\ u.dialog = "list" => u.pending \in Lists
    /\ u.dialog = "conflict" => u.pending = "ResolveConflict"
    /\ u.pending = "ResolveConflict" =>
         u.dialog = "conflict" /\ u.prompts # <<>> /\ u.prompts[1].batch = u.id
    /\ u.pending = "Edit" => u.dialog = "confirm" /\ u.open = u.id /\ u.id # 0

(* the n-th event's question is shown, or its turn will come *)
Waits(u, kind, n) ==
    \/ kind = "Edit" /\ \E i \in 1..Len(u.questions) : u.questions[i] = n
    \/ kind = "ResolveConflict" /\ \E i \in 1..Len(u.prompts) : u.prompts[i].batch = n
    \/ kind = u.pending /\ n = u.id /\ u.dialog # "none"
    \/ kind = "Sync" /\ n = u.plan /\ u.plan # 0

(* nothing waits unseen *)
Shown(u) ==
    u.dialog = "none" => u.questions = <<>> /\ (u.screen = "search" \/ u.prompts = <<>>)

DialogInv ==
    /\ UiOK(ui) /\ events \in Nat /\ late \in BOOLEAN
    /\ \A q \in unanswered : q \in Kinds \X Nat
    /\ \A q \in unanswered : q \in lost \/ Waits(ui, q[1], q[2])
    /\ late = FALSE => Shown(ui)

Keeps(u, v) == \A kind \in Kinds, n \in Nat : Waits(u, kind, n) => Waits(v, kind, n)
KeepsBut(u, v, k, m) ==
    \A kind \in Kinds, n \in Nat : Waits(u, kind, n) => Waits(v, kind, n) \/ (kind = k /\ n = m)

---------------------------------------------------------------------------
LEMMA ConflictOpens ==
    ASSUME NEW u, UiOK(u), NEW v, v = OpenNextConflictPrompt(u)
    PROVE  /\ UiOK(v) /\ Keeps(u, v)
           /\ v.screen = u.screen /\ v.prompts = u.prompts /\ v.questions = u.questions
           /\ v.dialog = "none" => v = u /\ (v.screen = "search" \/ v.prompts = <<>>)
<1>1. CASE v = u
  BY <1>1 DEF OpenNextConflictPrompt, Shows, Keeps, UiOK, Uis, Dialogs
<1>2. CASE v # u
  <2>1. u.dialog = "none" /\ u.prompts # <<>> /\ v = Shows(u, "conflict", "ResolveConflict", Head(u.prompts).batch)
    BY <1>2 DEF OpenNextConflictPrompt
  <2>2. PICK b : b = Head(u.prompts).batch
    OBVIOUS
  <2>3. b \in Nat /\ b = u.prompts[1].batch /\ v = Shows(u, "conflict", "ResolveConflict", b)
    <3>1. PICK s : s = u.prompts
      OBVIOUS
    <3>2. s \in Seq(Prompts) /\ s # <<>>
      BY <2>1, <3>1 DEF UiOK, Uis
    <3>3. s[1] \in Prompts /\ Head(s) = s[1]
      BY <3>2
    <3>4. s[1].batch \in Nat
      BY <3>3 DEF Prompts
    <3> QED
      BY <2>1, <2>2, <3>1, <3>3, <3>4
  <2>4. /\ v \in Uis /\ v.screen = u.screen /\ v.prompts = u.prompts /\ v.questions = u.questions
        /\ v.dialog = "conflict" /\ v.pending = "ResolveConflict" /\ v.id = b
        /\ v.plan = u.plan
    BY <2>3 DEF UiOK, Uis, Shows, Dialogs, Pendings
  <2> QED
    BY <2>1, <2>3, <2>4 DEF UiOK, Keeps, Waits
<1> QED
  BY <1>1, <1>2

LEMMA MessageOpens ==
    ASSUME NEW u, UiOK(u), NEW v, v = AnnounceMissingHosts(u)
    PROVE  /\ UiOK(v) /\ Keeps(u, v)
           /\ v.screen = u.screen /\ v.prompts = u.prompts /\ v.questions = u.questions
           /\ v.dialog = "none" => v = u
<1>1. CASE v = u
  BY <1>1 DEF Keeps
<1>2. CASE v # u
  <2>1. u.dialog = "none" /\ v = [u EXCEPT !.dialog = "message", !.hosts = FALSE]
    BY <1>2 DEF AnnounceMissingHosts
  <2>2. /\ v \in Uis /\ v.screen = u.screen /\ v.prompts = u.prompts /\ v.questions = u.questions
        /\ v.dialog = "message" /\ v.pending = u.pending /\ v.id = u.id /\ v.plan = u.plan
    BY <2>1 DEF UiOK, Uis, Dialogs
  <2> QED
    BY <2>1, <2>2 DEF UiOK, Keeps, Waits
<1> QED
  BY <1>1, <1>2

LEMMA QuestionOpens ==
    ASSUME NEW u, UiOK(u), NEW v, v = OpenNextEditQuestion(u)
    PROVE  /\ UiOK(v) /\ Keeps(u, v)
           /\ v.screen = u.screen /\ v.prompts = u.prompts
           /\ v.dialog = "none" => v = u /\ v.questions = <<>>
<1>1. CASE v = u
  <2>1. v.dialog = "none" => v.questions = <<>>
    <3> SUFFICES ASSUME u.dialog = "none", u.questions # <<>> PROVE FALSE
      BY <1>1
    <3>1. [Shows(u, "confirm", "Edit", Head(u.questions)) EXCEPT
             !.questions = Tail(@), !.open = Head(u.questions)].dialog = "confirm"
      BY DEF UiOK, Uis, Shows
    <3> QED
      BY <1>1, <3>1 DEF OpenNextEditQuestion
  <2> QED
    BY <1>1, <2>1 DEF Keeps
<1>2. CASE v # u
  <2>1. /\ u.dialog = "none" /\ u.questions # <<>>
        /\ v = [Shows(u, "confirm", "Edit", Head(u.questions)) EXCEPT
                  !.questions = Tail(@), !.open = Head(u.questions)]
    BY <1>2 DEF OpenNextEditQuestion
  <2> DEFINE s == u.questions
  <2>2. /\ s \in Seq(Nat \ {0}) /\ Head(s) = s[1] /\ s[1] \in Nat \ {0} /\ Tail(s) \in Seq(Nat \ {0})
        /\ Len(Tail(s)) = Len(s) - 1 /\ Len(s) \in Nat
        /\ \A i \in 1..(Len(s) - 1) : Tail(s)[i] = s[i + 1]
    BY <2>1 DEF UiOK, Uis
  <2>3. /\ v \in Uis /\ v.screen = u.screen /\ v.prompts = u.prompts /\ v.questions = Tail(s)
        /\ v.dialog = "confirm" /\ v.pending = "Edit" /\ v.id = s[1] /\ v.open = s[1] /\ v.plan = u.plan
    BY <2>1, <2>2 DEF UiOK, Uis, Shows, Dialogs, Pendings
  <2>4. \A i \in 1..Len(s) : s[i] = v.id \/ \E j \in 1..Len(v.questions) : v.questions[j] = s[i]
    <3> SUFFICES ASSUME NEW i \in 1..Len(s), i # 1
                 PROVE  \E j \in 1..Len(v.questions) : v.questions[j] = s[i]
      BY <2>3
    <3> QED
      <4>1. i - 1 \in 1..(Len(s) - 1) /\ i - 1 + 1 = i
        BY <2>2
      <4>2. PICK j : j = i - 1
        OBVIOUS
      <4> QED
        BY <2>2, <2>3, <4>1, <4>2
  <2>5. UiOK(v)
    BY <2>3, <2>2 DEF UiOK
  <2>6. ASSUME NEW kind \in Kinds, NEW n \in Nat, Waits(u, kind, n) PROVE Waits(v, kind, n)
    <3>1. CASE kind = "Edit" /\ \E i \in 1..Len(s) : s[i] = n
      BY <2>3, <2>4, <3>1 DEF Waits
    <3>2. CASE ~(kind = "Edit" /\ \E i \in 1..Len(s) : s[i] = n)
      BY <2>1, <2>3, <2>6, <3>2 DEF Waits
    <3> QED
      BY <3>1, <3>2
  <2> QED
    BY <2>3, <2>5, <2>6 DEF Keeps
<1> QED
  BY <1>1, <1>2

(* the end of a dialog: what waits is opened, or nothing waits *)
LEMMA AfterKey ==
    ASSUME NEW u, UiOK(u), NEW v, v = AfterDialogKey(u)
    PROVE  UiOK(v) /\ Keeps(u, v) /\ Shown(v)
<1>1. PICK w : w = OpenNextConflictPrompt(u)
  OBVIOUS
<1>2. PICK x : x = AnnounceMissingHosts(w)
  OBVIOUS
<1>3. PICK y : y = (IF x.pending = "Edit" THEN x ELSE [x EXCEPT !.open = 0])
  OBVIOUS
<1>4. v = OpenNextEditQuestion(y)
  BY <1>1, <1>2, <1>3 DEF AfterDialogKey
<1>5. /\ UiOK(w) /\ Keeps(u, w)
      /\ w.dialog = "none" => (w.screen = "search" \/ w.prompts = <<>>)
  BY <1>1, ConflictOpens
<1>6. UiOK(x) /\ Keeps(w, x) /\ (x.dialog = "none" => x = w)
  BY <1>2, <1>5, MessageOpens
<1>7. /\ y \in Uis /\ y.screen = x.screen /\ y.prompts = x.prompts /\ y.questions = x.questions
      /\ y.dialog = x.dialog /\ y.pending = x.pending /\ y.id = x.id /\ y.plan = x.plan
      /\ y.pending = "Edit" => y.open = x.open
  BY <1>3, <1>6 DEF UiOK, Uis
<1>8. UiOK(y) /\ Keeps(x, y)
  BY <1>6, <1>7 DEF UiOK, Keeps, Waits
<1>9. /\ UiOK(v) /\ Keeps(y, v) /\ v.screen = y.screen /\ v.prompts = y.prompts
      /\ v.dialog = "none" => v = y /\ v.questions = <<>>
  BY <1>4, <1>8, QuestionOpens
<1>10. Keeps(u, v)
  BY <1>5, <1>6, <1>8, <1>9 DEF Keeps
<1> QED
  BY <1>5, <1>6, <1>7, <1>9, <1>10 DEF Shown

(* a dialog that ends *)
LEMMA Closes ==
    ASSUME NEW u, UiOK(u), NEW v, v = Closed(u)
    PROVE  /\ UiOK(v) /\ KeepsBut(u, v, u.pending, u.id)
           /\ v.screen = u.screen /\ v.prompts = u.prompts /\ v.questions = u.questions
           /\ v.dialog = "none" /\ v.pending = "none" /\ v.plan = u.plan
<1>1. /\ v \in Uis /\ v.screen = u.screen /\ v.prompts = u.prompts /\ v.questions = u.questions
      /\ v.dialog = "none" /\ v.pending = "none" /\ v.plan = u.plan
  BY DEF UiOK, Uis, Closed, Shows, Dialogs, Pendings, Lists
<1> QED
  BY <1>1 DEF UiOK, KeepsBut, Waits

---------------------------------------------------------------------------
(* the invariant after a step that answers no question but one *)
LEMMA Answered ==
    ASSUME DialogInv, NEW v, ui' = v, UiOK(v), events' \in Nat, lost \subseteq lost', late' \in BOOLEAN,
           NEW k, NEW m, unanswered' = unanswered \ {<<k, m>>}, KeepsBut(ui, v, k, m),
           late' = FALSE => Shown(v)
    PROVE  DialogInv'
<1>1. ASSUME NEW q \in unanswered' PROVE q \in Kinds \X Nat /\ (q \in lost' \/ Waits(v, q[1], q[2]))
  <2>1. q \in unanswered /\ q \in Kinds \X Nat /\ (q \in lost \/ Waits(ui, q[1], q[2]))
    BY <1>1 DEF DialogInv
  <2>2. q[1] \in Kinds /\ q[2] \in Nat /\ ~(q[1] = k /\ q[2] = m)
    BY <1>1, <2>1
  <2> QED
    BY <2>1, <2>2 DEF KeepsBut
<1> QED
  BY <1>1 DEF DialogInv

(* one that answers none, and may ask one *)
LEMMA Asked ==
    ASSUME DialogInv, NEW v, ui' = v, UiOK(v), events' \in Nat, lost \subseteq lost', late' \in BOOLEAN,
           NEW q \in Kinds \X Nat, unanswered' \subseteq unanswered \cup {q}, q \in unanswered' => Waits(v, q[1], q[2]),
           Keeps(ui, v), late' = FALSE => Shown(v)
    PROVE  DialogInv'
<1>1. ASSUME NEW r \in unanswered' PROVE r \in Kinds \X Nat /\ (r \in lost' \/ Waits(v, r[1], r[2]))
  <2>1. r \in unanswered => r \in Kinds \X Nat /\ (r \in lost \/ Waits(ui, r[1], r[2]))
    BY DEF DialogInv
  <2>2. r \in Kinds \X Nat => r[1] \in Kinds /\ r[2] \in Nat
    OBVIOUS
  <2> QED
    BY <1>1, <2>1, <2>2 DEF Keeps
<1> QED
  BY <1>1 DEF DialogInv

LEMMA Unanswered ==
    ASSUME DialogInv, NEW v, ui' = v, UiOK(v), events' \in Nat, lost \subseteq lost', late' \in BOOLEAN,
           unanswered' = unanswered, Keeps(ui, v), late' = FALSE => Shown(v)
    PROVE  DialogInv'
<1>1. ASSUME NEW r \in unanswered' PROVE r \in Kinds \X Nat /\ (r \in lost' \/ Waits(v, r[1], r[2]))
  <2>1. r \in Kinds \X Nat /\ (r \in lost \/ Waits(ui, r[1], r[2]))
    BY <1>1 DEF DialogInv
  <2>2. r[1] \in Kinds /\ r[2] \in Nat
    BY <2>1
  <2> QED
    BY <2>1, <2>2 DEF Keeps
<1> QED
  BY <1>1 DEF DialogInv

---------------------------------------------------------------------------
(* Keys while no dialog is open *)
LEMMA OpensKeeps ==
    ASSUME DialogInv, NEW screen, NEW dialog \in Dialogs \ {"none", "message", "conflict"},
           NEW pending \in Pendings \ {"ResolveConflict", "Edit"}, dialog = "list" => pending \in Lists,
           Opens(screen, dialog, pending), UNCHANGED <<unanswered, lost, events>>
    PROVE  DialogInv'
<1>1. PICK v : v = Shows(ui, dialog, pending, 0)
  OBVIOUS
<1>2. /\ v \in Uis /\ v.questions = ui.questions /\ v.prompts = ui.prompts /\ v.plan = ui.plan
      /\ v.dialog = dialog /\ v.pending = pending
  BY <1>1 DEF DialogInv, UiOK, Uis, Shows
<1>3. UiOK(v) /\ Keeps(ui, v) /\ Shown(v)
  BY <1>2 DEF UiOK, Keeps, Waits, Shown, Opens, Free
<1>4. ui' = v /\ late' \in BOOLEAN
  BY <1>1 DEF Opens, Takes, Watch
<1> QED
  BY <1>3, <1>4, Unanswered DEF DialogInv

(* a screen is left or entered *)
ScreenOnly(u, v) ==
    /\ v.questions = u.questions /\ v.prompts = u.prompts /\ v.dialog = u.dialog
    /\ v.pending = u.pending /\ v.id = u.id /\ v.open = u.open /\ v \in Uis

LEMMA ScreenKeeps ==
    ASSUME NEW u, UiOK(u), NEW v, ScreenOnly(u, v)
    PROVE  /\ UiOK(v) /\ (v.plan = u.plan => Keeps(u, v)) /\ KeepsBut(u, v, "Sync", u.plan)
           /\ Shown(u) /\ (v.screen # "search" => u.screen # "search") => Shown(v)
  BY DEF ScreenOnly, UiOK, Keeps, KeepsBut, Waits, Shown

LEMMA ScreensKeep ==
    ASSUME DialogInv, OpenSync \/ LeaveSync \/ SwitchScreen \/ OpenSearchScreen \/ LeaveSearch
    PROVE  DialogInv'
<1>1. UiOK(ui) /\ ui \in Uis /\ late \in BOOLEAN /\ events \in Nat /\ (late = FALSE => Shown(ui))
  BY DEF DialogInv, UiOK
<1>2. ASSUME NEW screen \in Screens, Takes([ui EXCEPT !.screen = screen]),
             screen # "search" => ui.screen # "search", UNCHANGED <<unanswered, lost, events>>
      PROVE  DialogInv'
  <2>1. PICK v : v = [ui EXCEPT !.screen = screen]
    OBVIOUS
  <2>2. ui' = v /\ late' \in BOOLEAN /\ (late' = FALSE /\ v.dialog = "none" => late = FALSE)
    BY <1>1, <1>2, <2>1 DEF Takes, Watch
  <2>3. ScreenOnly(ui, v) /\ v.screen = screen /\ v.plan = ui.plan
    BY <1>1, <2>1 DEF ScreenOnly, Uis
  <2>4. UiOK(v) /\ Keeps(ui, v) /\ (Shown(ui) => Shown(v))
    BY <1>1, <1>2, <2>3, ScreenKeeps
  <2>5. late' = FALSE => Shown(v)
    BY <1>1, <2>2, <2>4 DEF Shown
  <2> QED
    BY <1>1, <1>2, <2>2, <2>4, <2>5, Unanswered
<1>3. CASE OpenSync
  <2>1. CASE Free /\ ui.screen = "files" /\ ui.plan # 0 /\ Takes([ui EXCEPT !.screen = "sync"]) /\ UNCHANGED asked /\ Still
    BY <1>2, <2>1 DEF Still, Screens
  <2>2. CASE Opens("files", "form", "StartSync") /\ UNCHANGED asked /\ Still
    BY <2>2, OpensKeeps DEF Still, Dialogs, Pendings
  <2> QED
    BY <1>3, <2>1, <2>2 DEF OpenSync
<1>4. CASE LeaveSync
  <2>1. PICK v : v = [NoPlan(ui) EXCEPT !.screen = "files"]
    OBVIOUS
  <2>2. /\ ui' = v /\ late' \in BOOLEAN /\ (late' = FALSE /\ v.dialog = "none" => late = FALSE)
        /\ unanswered' = unanswered \ {<<"Sync", ui.plan>>} /\ lost' = lost /\ events' = events
        /\ ui.screen = "sync"
    BY <1>1, <1>4, <2>1 DEF LeaveSync, Takes, Watch
  <2>3. ScreenOnly(ui, v) /\ v.screen = "files"
    BY <1>1, <2>1, <2>2 DEF ScreenOnly, Uis, NoPlan, Screens
  <2>4. UiOK(v) /\ KeepsBut(ui, v, "Sync", ui.plan) /\ (Shown(ui) => Shown(v))
    BY <1>1, <2>2, <2>3, ScreenKeeps
  <2>5. late' = FALSE => Shown(v)
    BY <1>1, <2>2, <2>4 DEF Shown
  <2> QED
    BY <1>1, <2>2, <2>4, <2>5, Answered
<1>5. CASE SwitchScreen
  <2>1. CASE ui.screen # "search" /\ Takes([ui EXCEPT !.screen = "connections"])
    BY <1>2, <1>5, <2>1 DEF SwitchScreen, Still, Screens
  <2>2. CASE ui.screen = "connections" /\ Takes([ui EXCEPT !.screen = "files"])
    BY <1>2, <1>5, <2>2 DEF SwitchScreen, Still, Screens
  <2> QED
    BY <1>5, <2>1, <2>2 DEF SwitchScreen
<1>6. CASE OpenSearchScreen
  BY <1>2, <1>6 DEF OpenSearchScreen, Still, Screens
<1>7. CASE LeaveSearch
  <2>1. PICK w : w = [ui EXCEPT !.screen = "files"]
    OBVIOUS
  <2>2. PICK v : v = OpenNextConflictPrompt(w)
    OBVIOUS
  <2>3. /\ ui' = v /\ late' \in BOOLEAN /\ (late' = FALSE /\ v.dialog = "none" => late = FALSE)
        /\ UNCHANGED <<unanswered, lost, events>>
    BY <1>1, <1>7, <2>1, <2>2 DEF LeaveSearch, Takes, Watch, Still
  <2>4. ScreenOnly(ui, w) /\ w.screen = "files" /\ w.plan = ui.plan
    BY <1>1, <2>1 DEF ScreenOnly, Uis, Screens
  <2>5. UiOK(w) /\ Keeps(ui, w)
    BY <1>1, <2>4, ScreenKeeps
  <2>6. /\ UiOK(v) /\ Keeps(w, v) /\ v.questions = w.questions
        /\ v.dialog = "none" => v = w /\ (v.screen = "search" \/ v.prompts = <<>>)
    BY <2>2, <2>5, ConflictOpens
  <2>7. late' = FALSE => Shown(v)
    BY <1>1, <2>3, <2>4, <2>6 DEF Shown, ScreenOnly
  <2>8. Keeps(ui, v)
    BY <2>5, <2>6 DEF Keeps
  <2> QED
    BY <1>1, <2>3, <2>6, <2>7, <2>8, Unanswered
<1> QED
  BY <1>3, <1>4, <1>5, <1>6, <1>7

LEMMA ActionKeeps ==
    ASSUME DialogInv, Action
    PROVE  DialogInv'
<1> USE DEF Dialogs, Pendings, Lists, Screens
<1>1. CASE OpenDeleteDialog \/ OpenRenameDialog
  BY <1>1, OpensKeeps DEF OpenDeleteDialog, OpenRenameDialog, NamesTarget
<1>2. CASE OpenMkdirDialog \/ OpenBookmarkAddDialog
  BY <1>2, OpensKeeps DEF OpenMkdirDialog, OpenBookmarkAddDialog, Still
<1>3. CASE OpenConnectionForm \/ OpenDeleteConnectionDialog
  BY <1>3, OpensKeeps DEF OpenConnectionForm, OpenDeleteConnectionDialog, Still
<1>4. CASE OpenMissingHostDialog
  BY <1>4, OpensKeeps DEF OpenMissingHostDialog, Still
<1>5. CASE RequestQuit
  BY <1>5, OpensKeeps DEF RequestQuit, Still
<1>6. CASE SwitchPanel
  BY <1>6 DEF SwitchPanel, DialogInv
<1>7. CASE OpenBookmarksDialog
  <2>1. PICK v : v = [ui EXCEPT !.dialog = "list"]
    OBVIOUS
  <2>2. /\ UiOK(ui) /\ ui.dialog = "none" /\ ui' = v /\ late' \in BOOLEAN /\ events' \in Nat
        /\ unanswered' = unanswered /\ lost' = lost
    BY <1>7, <2>1 DEF DialogInv, OpenBookmarksDialog, Free, Takes, Watch, Still
  <2>3. /\ v \in Uis /\ v.questions = ui.questions /\ v.prompts = ui.prompts /\ v.plan = ui.plan
        /\ v.dialog = "list" /\ v.pending = "none"
    BY <2>1, <2>2 DEF UiOK, Uis
  <2>4. UiOK(v) /\ Keeps(ui, v) /\ Shown(v)
    BY <2>2, <2>3 DEF UiOK, Keeps, Waits, Shown
  <2> QED
    BY <2>2, <2>4, Unanswered
<1> QED
  BY <1>1, <1>2, <1>3, <1>4, <1>5, <1>6, <1>7, ScreensKeep DEF Action

---------------------------------------------------------------------------
(* Keys while a dialog is open *)
Freed(u) == u.dialog = "none" /\ u.pending = "none"

LEMMA DialogEnds ==
    ASSUME DialogInv, NEW u, UiOK(u), NEW v, v = AfterDialogKey(u), ui' = v, late' \in BOOLEAN,
           events' = events, lost' = lost, NEW k, NEW m, KeepsBut(ui, u, k, m),
           unanswered' = unanswered \ {<<k, m>>} \/ (unanswered' = unanswered /\ Keeps(ui, u))
    PROVE  DialogInv'
<1>1. UiOK(v) /\ Keeps(u, v) /\ Shown(v)
  BY AfterKey
<1>2. KeepsBut(ui, v, k, m) /\ (Keeps(ui, u) => Keeps(ui, v))
  BY <1>1 DEF Keeps, KeepsBut
<1>3. events' \in Nat /\ lost \subseteq lost'
  BY DEF DialogInv
<1>4. CASE unanswered' = unanswered \ {<<k, m>>}
  BY <1>1, <1>2, <1>3, <1>4, Answered
<1>5. CASE unanswered' = unanswered /\ Keeps(ui, u)
  BY <1>1, <1>2, <1>3, <1>5, Unanswered
<1> QED
  BY <1>4, <1>5

(* an answer to what is no question of the core *)
LEMMA OthersAnswered ==
    ASSUME NEW u, NEW v, NEW k, NEW m, k \notin Kinds, KeepsBut(u, v, k, m)
    PROVE  Keeps(u, v)
  BY DEF Keeps, KeepsBut

LEMMA ClosedKeeps ==
    ASSUME DialogInv, late' \in BOOLEAN, events' = events, lost' = lost,
           ui' = AfterDialogKey(Closed(ui)),
           \/ unanswered' = unanswered \ {<<ui.pending, ui.id>>}
           \/ unanswered' = unanswered /\ ui.pending \notin Kinds
    PROVE  DialogInv'
<1>1. PICK u : u = Closed(ui)
  OBVIOUS
<1>2. PICK v : v = AfterDialogKey(u)
  OBVIOUS
<1>3. ui' = v
  BY <1>1, <1>2
<1>4. UiOK(u) /\ KeepsBut(ui, u, ui.pending, ui.id)
  BY <1>1, Closes DEF DialogInv
<1>5. ui.pending \notin Kinds => Keeps(ui, u)
  BY <1>4, OthersAnswered
<1> QED
  BY <1>2, <1>3, <1>4, <1>5, DialogEnds

LEMMA CancelledKeeps ==
    ASSUME DialogInv, Cancelled \/ Confirmed
    PROVE  DialogInv'
<1>1. /\ late' \in BOOLEAN /\ events' = events /\ lost' = lost /\ ui' = AfterDialogKey(Closed(ui))
      /\ unanswered' = unanswered \ {<<ui.pending, ui.id>>}
  BY DEF DialogInv, Cancelled, Confirmed, Takes, Watch, Answers
<1> QED
  BY <1>1, ClosedKeeps

LEMMA SubmittedKeeps ==
    ASSUME DialogInv, FormSubmitted \/ SyncSubmitted
    PROVE  DialogInv'
<1>1. CASE FormSubmitted
  <2>1. PICK u : u = ui
    OBVIOUS
  <2>2. PICK v : v = AfterDialogKey(u)
    OBVIOUS
  <2>3. /\ late' \in BOOLEAN /\ events' = events /\ lost' = lost /\ unanswered' = unanswered /\ ui' = v
    BY <1>1, <2>1, <2>2 DEF DialogInv, FormSubmitted, Takes, Watch
  <2>4. UiOK(u) /\ Keeps(ui, u) /\ KeepsBut(ui, u, "none", 0)
    BY <2>1 DEF DialogInv, Keeps, KeepsBut
  <2> QED
    BY <2>2, <2>3, <2>4, DialogEnds
<1>2. ASSUME SyncSubmitted, ui' = AfterDialogKey(Closed(ui))
      PROVE  DialogInv'
  <2>1. /\ late' \in BOOLEAN /\ events' = events /\ lost' = lost /\ unanswered' = unanswered
        /\ ui.pending \notin Kinds
    BY <1>2 DEF DialogInv, SyncSubmitted, Takes, Watch, Kinds
  <2> QED
    BY <1>2, <2>1, ClosedKeeps
<1>3. ASSUME SyncSubmitted, ui' = AfterDialogKey(ui)
      PROVE  DialogInv'
  <2>1. PICK u : u = ui
    OBVIOUS
  <2>2. PICK v : v = AfterDialogKey(u)
    OBVIOUS
  <2>3. /\ late' \in BOOLEAN /\ events' = events /\ lost' = lost /\ unanswered' = unanswered /\ ui' = v
    BY <1>3, <2>1, <2>2 DEF DialogInv, SyncSubmitted, Takes, Watch
  <2>4. UiOK(u) /\ Keeps(ui, u) /\ KeepsBut(ui, u, "none", 0)
    BY <2>1 DEF DialogInv, Keeps, KeepsBut
  <2> QED
    BY <2>2, <2>3, <2>4, DialogEnds
<1>4. SyncSubmitted => ui' \in {AfterDialogKey(ui), AfterDialogKey(Closed(ui))}
  BY DEF SyncSubmitted, Takes
<1> QED
  BY <1>1, <1>2, <1>3, <1>4

LEMMA ChosenKeeps ==
    ASSUME DialogInv, HostChosen \/ BookmarkChosen
    PROVE  DialogInv'
<1>1. /\ UiOK(ui) /\ late' \in BOOLEAN /\ events' = events /\ lost' = lost /\ unanswered' = unanswered
      /\ ui.dialog = "list" /\ ui.pending \in Lists /\ ui.pending \notin Kinds
  BY DEF DialogInv, UiOK, HostChosen, BookmarkChosen, Takes, Watch, Still, Lists, Kinds
<1>2. CASE ui' = AfterDialogKey(Closed(ui))
  BY <1>1, <1>2, ClosedKeeps
<1>3. CASE HostChosen /\ ui' = AfterDialogKey(Shows(ui, "list", "MoveLabels", 0))
  <2>1. PICK u : u = Shows(ui, "list", "MoveLabels", 0)
    OBVIOUS
  <2>2. PICK v : v = AfterDialogKey(u)
    OBVIOUS
  <2>3. /\ u \in Uis /\ u.questions = ui.questions /\ u.prompts = ui.prompts /\ u.plan = ui.plan
        /\ u.dialog = "list" /\ u.pending = "MoveLabels"
    BY <1>1, <2>1 DEF UiOK, Uis, Shows, Pendings, Lists
  <2>4. UiOK(u) /\ Keeps(ui, u) /\ KeepsBut(ui, u, "none", 0)
    BY <1>1, <2>3 DEF UiOK, Keeps, KeepsBut, Waits, Lists
  <2>5. ui' = v
    BY <1>3, <2>1, <2>2
  <2> QED
    BY <1>1, <2>2, <2>4, <2>5, DialogEnds
<1>4. CASE BookmarkChosen /\ ui' = AfterDialogKey([ui EXCEPT !.dialog = "none"])
  <2>1. PICK u : u = [ui EXCEPT !.dialog = "none"]
    OBVIOUS
  <2>2. PICK v : v = AfterDialogKey(u)
    OBVIOUS
  <2>3. /\ u \in Uis /\ u.questions = ui.questions /\ u.prompts = ui.prompts /\ u.plan = ui.plan
        /\ u.dialog = "none" /\ u.pending = "none"
    BY <1>1, <1>4, <2>1 DEF UiOK, Uis, Dialogs, BookmarkChosen, Lists
  <2>4. UiOK(u) /\ Keeps(ui, u) /\ KeepsBut(ui, u, "none", 0)
    BY <1>1, <2>3 DEF UiOK, Keeps, KeepsBut, Waits, Lists
  <2>5. ui' = v
    BY <1>4, <2>1, <2>2
  <2> QED
    BY <1>1, <2>2, <2>4, <2>5, DialogEnds
<1> QED
  BY <1>2, <1>3, <1>4 DEF HostChosen, BookmarkChosen, Takes

(* the prompt at the front is answered, or goes on with its next file *)
LEMMA ResolvedKeeps ==
    ASSUME DialogInv, Resolved
    PROVE  DialogInv'
<1>1. PICK s : s = ui.prompts
  OBVIOUS
<1>2. /\ UiOK(ui) /\ ui \in Uis /\ late' \in BOOLEAN /\ events' = events /\ lost' = lost
      /\ s \in Seq(Prompts) /\ s # <<>> /\ Head(s) = s[1] /\ s[1].batch = ui.id /\ ui.pending = "ResolveConflict"
      /\ ui.dialog = "conflict"
  <2>1. late' \in BOOLEAN /\ events' = events /\ lost' = lost /\ ui.dialog = "conflict"
    BY Zenon DEF Resolved, Takes, Watch
  <2>2. UiOK(ui) /\ ui \in Uis /\ ui.pending = "ResolveConflict" /\ s # <<>> /\ s[1].batch = ui.id
    BY <1>1, <2>1 DEF DialogInv, UiOK
  <2>3. s \in Seq(Prompts)
    BY <1>1, <2>2 DEF Uis
  <2> QED
    BY <2>1, <2>2, <2>3
<1>3. /\ s[1] \in Prompts /\ Tail(s) \in Seq(Prompts) /\ Len(s) \in Nat /\ Len(Tail(s)) = Len(s) - 1
      /\ \A i \in 1..(Len(s) - 1) : Tail(s)[i] = s[i + 1]
  BY <1>2
<1>4. PICK c : c = Closed(ui)
  OBVIOUS
<1>5. PICK closed : closed = [c EXCEPT !.prompts = Tail(s)]
  OBVIOUS
<1>6. /\ UiOK(c) /\ c \in Uis /\ c.questions = ui.questions /\ c.prompts = s /\ c.plan = ui.plan
      /\ c.dialog = "none" /\ c.pending = "none"
  BY <1>1, <1>2, <1>4, Closes DEF UiOK
<1>7. /\ closed \in Uis /\ closed.questions = ui.questions /\ closed.prompts = Tail(s) /\ closed.plan = ui.plan
      /\ closed.dialog = "none" /\ closed.pending = "none"
  BY <1>3, <1>5, <1>6 DEF Uis
<1>8. \A i \in 1..Len(s) : i = 1 \/ \E j \in 1..Len(Tail(s)) : Tail(s)[j] = s[i]
  <2> SUFFICES ASSUME NEW i \in 1..Len(s), i # 1 PROVE \E j \in 1..Len(Tail(s)) : Tail(s)[j] = s[i]
    OBVIOUS
  <2>1. PICK j : j = i - 1
    OBVIOUS
  <2>2. j \in 1..(Len(s) - 1) /\ j + 1 = i
    BY <1>3, <2>1
  <2> QED
    BY <1>3, <2>2
(* whatever the front end goes on with, what waits is opened *)
<1>9. ASSUME NEW u, UiOK(u), NEW k, NEW m, KeepsBut(ui, u, k, m), Takes(AfterDialogKey(OpenNextConflictPrompt(u))),
             unanswered' = unanswered \ {<<k, m>>} \/ (unanswered' = unanswered /\ Keeps(ui, u))
      PROVE  DialogInv'
  <2>1. PICK w : w = OpenNextConflictPrompt(u)
    OBVIOUS
  <2>2. PICK v : v = AfterDialogKey(w)
    OBVIOUS
  <2>3. ui' = v
    BY <1>9, <2>1, <2>2 DEF Takes
  <2>4. UiOK(w) /\ Keeps(u, w)
    BY <1>9, <2>1, ConflictOpens
  <2>5. KeepsBut(ui, w, k, m) /\ (Keeps(ui, u) => Keeps(ui, w))
    BY <1>9, <2>4 DEF Keeps, KeepsBut
  <2>6. unanswered' = unanswered \ {<<k, m>>} \/ (unanswered' = unanswered /\ Keeps(ui, w))
    BY <1>9, <2>5
  <2> QED
    BY <1>2, <2>2, <2>3, <2>4, <2>5, <2>6, DialogEnds
<1>10. CASE /\ Answers({<<"ResolveConflict", s[1].batch>>})
            /\ Takes(AfterDialogKey(OpenNextConflictPrompt(closed)))
  <2>1. UiOK(closed)
    BY <1>7 DEF UiOK, Lists
  <2>2. KeepsBut(ui, closed, "ResolveConflict", s[1].batch)
    <3>1. \A i \in 1..Len(ui.prompts) :
            i = 1 \/ \E j \in 1..Len(closed.prompts) : closed.prompts[j].batch = ui.prompts[i].batch
      BY <1>1, <1>7, <1>8
    <3> QED
      BY <1>1, <1>2, <1>7, <3>1 DEF KeepsBut, Waits
  <2>3. unanswered' = unanswered \ {<<"ResolveConflict", s[1].batch>>}
    BY <1>10 DEF Answers
  <2> QED
    BY <1>9, <1>10, <2>1, <2>2, <2>3
<1>11. CASE /\ s[1].files > 1 /\ UNCHANGED unanswered
            /\ Takes(AfterDialogKey(OpenNextConflictPrompt(
                    [closed EXCEPT !.prompts = <<[s[1] EXCEPT !.files = @ - 1]>> \o @])))
  <2>1. PICK p : p = [s[1] EXCEPT !.files = @ - 1]
    OBVIOUS
  <2>2. p \in Prompts /\ p.batch = s[1].batch
    BY <1>3, <1>11, <2>1 DEF Prompts
  <2>3. PICK t : t = <<p>> \o Tail(s)
    OBVIOUS
  <2>4. t \in Seq(Prompts) /\ Len(t) = Len(s) /\ t[1] = p /\ t # <<>>
    BY <1>2, <1>3, <2>2, <2>3
  <2>5. \A i \in 1..Len(s) : t[i].batch = s[i].batch
    <3> SUFFICES ASSUME NEW i \in 1..Len(s), i # 1 PROVE t[i] = s[i]
      BY <2>2, <2>4
    <3>1. PICK j : j = i - 1
      OBVIOUS
    <3>2. j \in 1..(Len(s) - 1) /\ j + 1 = i /\ t[i] = Tail(s)[j]
      BY <1>3, <2>3, <3>1
    <3> QED
      BY <1>3, <3>2
  <2>6. PICK u : u = [closed EXCEPT !.prompts = t]
    OBVIOUS
  <2>7. /\ u \in Uis /\ u.questions = ui.questions /\ u.prompts = t /\ u.plan = ui.plan
        /\ u.dialog = "none" /\ u.pending = "none"
    BY <1>7, <2>4, <2>6 DEF Uis
  <2>8. UiOK(u)
    BY <2>7 DEF UiOK, Lists
  <2>9. \A i \in 1..Len(ui.prompts) : i \in 1..Len(u.prompts) /\ u.prompts[i].batch = ui.prompts[i].batch
    BY <1>1, <2>4, <2>5, <2>7
  <2>10. 1 \in 1..Len(ui.prompts) /\ ui.prompts[1].batch = ui.id
    BY <1>1, <1>2, <1>3
  <2>11. Keeps(ui, u) /\ KeepsBut(ui, u, "none", 0)
    BY <1>2, <2>7, <2>9, <2>10 DEF Keeps, KeepsBut, Waits
  <2>12. Takes(AfterDialogKey(OpenNextConflictPrompt(u)))
    BY <1>7, <1>11, <2>1, <2>3, <2>6
  <2> QED
    BY <1>9, <1>11, <2>8, <2>11, <2>12
<1> QED
  <2>1. closed = [Closed(ui) EXCEPT !.prompts = Tail(@)]
    BY <1>4, <1>5, <1>6
  <2> QED
    BY <1>1, <1>2, <1>10, <1>11, <2>1 DEF Resolved

LEMMA DialogKeyKeeps ==
    ASSUME DialogInv, DialogKey
    PROVE  DialogInv'
  BY CancelledKeeps, SubmittedKeeps, ChosenKeeps, ResolvedKeeps DEF DialogKey

---------------------------------------------------------------------------
(* Events of the core *)
LEMMA Happens ==
    ASSUME DialogInv, Event
    PROVE  events' \in Nat /\ events' # 0
  BY DEF DialogInv, Event

LEMMA AppendedTo ==
    ASSUME NEW S, NEW s \in Seq(S), NEW e \in S, NEW t, t = Append(s, e)
    PROVE  /\ t \in Seq(S) /\ Len(t) = Len(s) + 1 /\ t[Len(t)] = e /\ Len(s) \in Nat /\ t # <<>>
           /\ \A i \in 1..Len(s) : i \in 1..Len(t) /\ t[i] = s[i]
  OBVIOUS

LEMMA RemovedFrom ==
    ASSUME NEW S, NEW s \in Seq(S), NEW i \in 1..Len(s), NEW t, t = RemoveAt(s, i)
    PROVE  /\ t \in Seq(S) /\ Len(t) = Len(s) - 1
           /\ i # 1 => t # <<>> /\ t[1] = s[1]
           /\ \A j \in 1..Len(s) : j # i => \E l \in 1..Len(t) : t[l] = s[j]
<1>1. PICK a, b : a = SubSeq(s, 1, i - 1) /\ b = SubSeq(s, i + 1, Len(s))
  OBVIOUS
<1>2. t = a \o b
  BY <1>1 DEF RemoveAt
<1>3. /\ a \in Seq(S) /\ Len(a) = i - 1 /\ \A l \in 1..(i - 1) : a[l] = s[l]
  BY <1>1
<1>4. /\ b \in Seq(S) /\ Len(b) = Len(s) - i /\ \A l \in 1..(Len(s) - i) : b[l] = s[i + l]
  BY <1>1
<1>5. t \in Seq(S) /\ Len(t) = Len(s) - 1
  BY <1>2, <1>3, <1>4
<1>6. \A l \in 1..(i - 1) : l \in 1..Len(t) /\ t[l] = s[l]
  BY <1>2, <1>3, <1>4, <1>5
<1>7. \A j \in 1..Len(s) : j > i => \E l \in 1..Len(t) : t[l] = s[j]
  <2> SUFFICES ASSUME NEW j \in 1..Len(s), j > i PROVE \E l \in 1..Len(t) : t[l] = s[j]
    OBVIOUS
  <2>1. PICK k : k = j - i
    OBVIOUS
  <2>2. PICK l : l = j - 1
    OBVIOUS
  <2>3. k \in 1..(Len(s) - i) /\ i + k = j /\ l \in 1..Len(t) /\ l = i - 1 + k
    BY <1>5, <2>1, <2>2
  <2>4. t[l] = b[k]
    BY <1>2, <1>3, <1>4, <2>3
  <2> QED
    BY <1>4, <2>3, <2>4
<1>8. i # 1 => t # <<>> /\ t[1] = s[1]
  BY <1>5, <1>6
<1> QED
  BY <1>5, <1>6, <1>7, <1>8

LEMMA AskEditKeeps ==
    ASSUME DialogInv, AskEditQuestion
    PROVE  DialogInv'
<1>1. PICK e : e = events'
  OBVIOUS
<1>2. PICK s, t : s = ui.questions /\ t = Append(s, e)
  OBVIOUS
<1>3. PICK w : w = [ui EXCEPT !.questions = t]
  OBVIOUS
<1>4. PICK v : v = OpenNextEditQuestion(w)
  OBVIOUS
<1>5. /\ UiOK(ui) /\ ui \in Uis /\ e \in Nat /\ e \in Nat \ {0} /\ s \in Seq(Nat \ {0})
  BY <1>1, <1>2, Happens DEF AskEditQuestion, DialogInv, UiOK, Uis
<1>6. /\ t \in Seq(Nat \ {0}) /\ Len(t) \in Nat /\ Len(t) \in 1..Len(t) /\ t[Len(t)] = e /\ t # <<>>
      /\ \A i \in 1..Len(s) : i \in 1..Len(t) /\ t[i] = s[i]
  BY <1>2, <1>5, AppendedTo
<1>7. /\ w \in Uis /\ w.questions = t /\ w.prompts = ui.prompts /\ w.plan = ui.plan /\ w.screen = ui.screen
      /\ w.dialog = ui.dialog /\ w.pending = ui.pending /\ w.id = ui.id /\ w.open = ui.open
  BY <1>3, <1>5, <1>6 DEF Uis
<1>8. UiOK(w) /\ Waits(w, "Edit", e)
  BY <1>5, <1>6, <1>7 DEF UiOK, Waits
<1>9. \A i \in 1..Len(ui.questions) : i \in 1..Len(w.questions) /\ w.questions[i] = ui.questions[i]
  BY <1>2, <1>6, <1>7
<1>10. Keeps(ui, w)
  BY <1>7, <1>9 DEF Keeps, Waits
<1>11. UiOK(v) /\ Keeps(w, v) /\ (v.dialog = "none" => v = w /\ v.questions = <<>>)
  BY <1>4, <1>8, QuestionOpens
<1>12. /\ ui' = v /\ late' \in BOOLEAN /\ lost' = lost /\ unanswered' = unanswered \cup {<<"Edit", e>>}
  BY <1>1, <1>2, <1>3, <1>4, Zenon DEF AskEditQuestion, Takes, Watch
<1>13. Shown(v)
  BY <1>6, <1>7, <1>11 DEF Shown
<1>14. Keeps(ui, v) /\ Waits(v, "Edit", e)
  BY <1>5, <1>8, <1>10, <1>11 DEF Keeps, Kinds
<1>15. <<"Edit", e>> \in Kinds \X Nat /\ <<"Edit", e>>[1] = "Edit" /\ <<"Edit", e>>[2] = e
  BY <1>5 DEF Kinds
<1>16. PICK q : q = <<"Edit", e>>
  OBVIOUS
<1>17. q \in Kinds \X Nat /\ Waits(v, q[1], q[2]) /\ unanswered' \subseteq unanswered \cup {q}
  BY <1>12, <1>14, <1>15, <1>16
<1> QED
  BY <1>1, <1>5, <1>11, <1>12, <1>13, <1>14, <1>17, Asked

LEMMA QueueConflictKeeps ==
    ASSUME DialogInv, QueueConflictPrompt
    PROVE  DialogInv'
<1>1. PICK e : e = events'
  OBVIOUS
<1>2. PICK files \in 1..2 : Takes(OpenNextConflictPrompt([ui EXCEPT !.prompts = Append(@, [batch |-> events', files |-> files])]))
  BY DEF QueueConflictPrompt
<1>3. PICK p, s, t : p = [batch |-> e, files |-> files] /\ s = ui.prompts /\ t = Append(s, p)
  OBVIOUS
<1>4. PICK w : w = [ui EXCEPT !.prompts = t]
  OBVIOUS
<1>5. PICK v : v = OpenNextConflictPrompt(w)
  OBVIOUS
<1>6. /\ UiOK(ui) /\ ui \in Uis /\ e \in Nat /\ s \in Seq(Prompts) /\ p \in Prompts /\ p.batch = e
      /\ late \in BOOLEAN /\ (late = FALSE => Shown(ui))
  <2>1. UiOK(ui) /\ late \in BOOLEAN /\ (late = FALSE => Shown(ui))
    BY DEF DialogInv
  <2>2. ui \in Uis /\ s \in Seq(Prompts)
    BY <1>3, <2>1 DEF UiOK, Uis
  <2>3. e \in Nat
    BY <1>1, Happens DEF QueueConflictPrompt
  <2>4. p \in Prompts /\ p.batch = e
    BY <1>3, <2>3 DEF Prompts
  <2> QED
    BY <2>1, <2>2, <2>3, <2>4
<1>7. /\ t \in Seq(Prompts) /\ Len(t) \in Nat /\ Len(t) \in 1..Len(t) /\ t[Len(t)] = p /\ t # <<>>
      /\ \A i \in 1..Len(s) : i \in 1..Len(t) /\ t[i] = s[i]
  BY <1>3, <1>6, AppendedTo
<1>8. /\ w \in Uis /\ w.questions = ui.questions /\ w.prompts = t /\ w.plan = ui.plan /\ w.screen = ui.screen
      /\ w.dialog = ui.dialog /\ w.pending = ui.pending /\ w.id = ui.id /\ w.open = ui.open
  BY <1>4, <1>6, <1>7 DEF Uis
<1>9. \A i \in 1..Len(ui.prompts) : i \in 1..Len(w.prompts) /\ w.prompts[i] = ui.prompts[i]
  BY <1>3, <1>7, <1>8
<1>10. ui.pending = "ResolveConflict" => 1 \in 1..Len(ui.prompts)
  BY <1>3, <1>6 DEF UiOK
<1>11. UiOK(w) /\ Waits(w, "ResolveConflict", e)
  BY <1>6, <1>7, <1>8, <1>9, <1>10 DEF UiOK, Waits
<1>12. Keeps(ui, w)
  BY <1>8, <1>9 DEF Keeps, Waits
<1>13. /\ UiOK(v) /\ Keeps(w, v) /\ v.questions = w.questions
       /\ v.dialog = "none" => v = w /\ (v.screen = "search" \/ v.prompts = <<>>)
  BY <1>5, <1>11, ConflictOpens
<1>14. /\ ui' = v /\ late' = (v.dialog = "none" /\ late)
  BY <1>1, <1>2, <1>3, <1>4, <1>5 DEF Takes, Watch
<1>15. lost' = lost /\ unanswered' = unanswered \cup {<<"ResolveConflict", e>>}
  BY <1>1 DEF QueueConflictPrompt
<1>16. late' \in BOOLEAN /\ (late' = FALSE => Shown(v))
  BY <1>6, <1>8, <1>13, <1>14 DEF Shown
<1>17. Keeps(ui, v) /\ Waits(v, "ResolveConflict", e)
  BY <1>6, <1>11, <1>12, <1>13 DEF Keeps, Kinds
<1>18. /\ <<"ResolveConflict", e>> \in Kinds \X Nat
       /\ <<"ResolveConflict", e>>[1] = "ResolveConflict" /\ <<"ResolveConflict", e>>[2] = e
  BY <1>6 DEF Kinds
<1>19. PICK q : q = <<"ResolveConflict", e>>
  OBVIOUS
<1>20. q \in Kinds \X Nat /\ Waits(v, q[1], q[2]) /\ unanswered' \subseteq unanswered \cup {q}
  BY <1>15, <1>17, <1>18, <1>19
<1> QED
  BY <1>1, <1>6, <1>13, <1>14, <1>15, <1>16, <1>17, <1>20, Asked

LEMMA WithdrawnKeeps ==
    ASSUME DialogInv, DropConflictPrompts
    PROVE  DialogInv'
<1>1. PICK s : s = ui.prompts
  OBVIOUS
<1>2. UiOK(ui) /\ ui \in Uis /\ s \in Seq(Prompts) /\ late \in BOOLEAN /\ (late = FALSE => Shown(ui))
  BY <1>1 DEF DialogInv, UiOK, Uis
<1>3. PICK i \in DOMAIN s :
        LET batch == s[i].batch
            showing == ui.pending = "ResolveConflict" /\ Head(s).batch = batch
            without == [ui EXCEPT !.prompts = RemoveAt(@, i)]
        IN  /\ ui' = OpenNextConflictPrompt(IF showing THEN Closed(without) ELSE without)
            /\ Watch(ui', showing)
            /\ unanswered' = unanswered \ {<<"ResolveConflict", batch>>}
  BY <1>1, Zenon DEF DropConflictPrompts
<1>4. events' \in Nat /\ lost' = lost
  BY Happens DEF DropConflictPrompts
<1>5. PICK t, batch : t = RemoveAt(s, i) /\ batch = s[i].batch
  OBVIOUS
<1>6. PICK showing \in BOOLEAN : showing = (ui.pending = "ResolveConflict" /\ Head(s).batch = batch)
  OBVIOUS
<1>7. PICK without : without = [ui EXCEPT !.prompts = t]
  OBVIOUS
<1>8. PICK w : w = (IF showing THEN Closed(without) ELSE without)
  OBVIOUS
<1>9. PICK v : v = OpenNextConflictPrompt(w)
  OBVIOUS
<1>10. without = [ui EXCEPT !.prompts = RemoveAt(@, i)]
  BY <1>1, <1>5, <1>7
<1>11. ui' = v /\ Watch(v, showing) /\ unanswered' = unanswered \ {<<"ResolveConflict", batch>>}
  BY <1>3, <1>5, <1>6, <1>8, <1>9, <1>10
<1>12. i \in 1..Len(s) /\ Len(s) \in Nat
  BY <1>2
<1>13. /\ t \in Seq(Prompts) /\ (i # 1 => t # <<>> /\ t[1] = s[1])
       /\ \A j \in 1..Len(s) : j # i => \E l \in 1..Len(t) : t[l] = s[j]
  BY <1>2, <1>5, <1>12, RemovedFrom
<1>14. /\ without \in Uis /\ without.questions = ui.questions /\ without.prompts = t /\ without.plan = ui.plan
       /\ without.screen = ui.screen /\ without.dialog = ui.dialog /\ without.pending = ui.pending
       /\ without.id = ui.id /\ without.open = ui.open
  BY <1>2, <1>7, <1>13 DEF Uis
<1>15. ui.pending = "ResolveConflict" => Head(s) = s[1] /\ s[1].batch = ui.id /\ ui.dialog = "conflict"
  BY <1>1, <1>2 DEF UiOK
<1>16. \A j \in 1..Len(ui.prompts) :
         ui.prompts[j].batch = batch \/ \E l \in 1..Len(t) : t[l].batch = ui.prompts[j].batch
  BY <1>1, <1>5, <1>13
<1>17. /\ UiOK(w) /\ KeepsBut(ui, w, "ResolveConflict", batch)
       /\ w.questions = ui.questions /\ w.screen = ui.screen
       /\ showing = FALSE => w.dialog = ui.dialog
  <2>1. CASE showing = TRUE
    <3>1. w = Shows(without, "none", "none", 0)
      BY <1>8, <2>1 DEF Closed
    <3>2. /\ w \in Uis /\ w.questions = ui.questions /\ w.prompts = t /\ w.plan = ui.plan
          /\ w.screen = ui.screen /\ w.dialog = "none" /\ w.pending = "none"
      BY <1>14, <3>1 DEF Uis, Shows, Dialogs, Pendings, Lists
    <3>3. ui.pending = "ResolveConflict" /\ ui.id = batch
      BY <1>6, <1>15, <2>1
    <3>4. UiOK(w)
      BY <3>2 DEF UiOK, Lists
    <3> QED
      BY <1>16, <2>1, <3>2, <3>3, <3>4 DEF KeepsBut, Waits
  <2>2. CASE showing = FALSE
    <3>1. w = without
      BY <1>8, <2>2
    <3>2. ui.pending = "ResolveConflict" => t # <<>> /\ t[1].batch = ui.id
      BY <1>5, <1>6, <1>13, <1>15, <2>2
    <3>3. UiOK(w)
      BY <1>2, <1>14, <3>1, <3>2 DEF UiOK
    <3> QED
      BY <1>14, <1>16, <2>2, <3>1, <3>3 DEF KeepsBut, Waits
  <2> QED
    BY <2>1, <2>2
<1>18. /\ UiOK(v) /\ Keeps(w, v) /\ v.questions = w.questions
       /\ v.dialog = "none" => v = w /\ (v.screen = "search" \/ v.prompts = <<>>)
  BY <1>9, <1>17, ConflictOpens
<1>19. KeepsBut(ui, v, "ResolveConflict", batch)
  BY <1>17, <1>18 DEF Keeps, KeepsBut
<1>20. late' = (v.dialog = "none" /\ (late \/ showing))
  BY <1>11 DEF Watch
<1>21. late' \in BOOLEAN /\ (late' = FALSE => Shown(v))
  BY <1>2, <1>6, <1>17, <1>18, <1>20 DEF Shown
<1> QED
  BY <1>4, <1>11, <1>18, <1>19, <1>21, Answered

LEMMA QuestionKeeps ==
    ASSUME DialogInv, Ask
    PROVE  DialogInv'
<1>1. PICK e, r : e = events' /\ r = Requeue(ui)
  OBVIOUS
<1>2. PICK v : v = Shows(r, "confirm", "Question", e)
  OBVIOUS
<1>3. UiOK(ui) /\ ui \in Uis /\ e \in Nat
  BY <1>1, Happens DEF Ask, DialogInv, UiOK
<1>4. /\ r \in Uis /\ r.prompts = ui.prompts /\ r.plan = ui.plan
      /\ \A i \in 1..Len(ui.questions) : \E j \in 1..Len(r.questions) : r.questions[j] = ui.questions[i]
      /\ ui.pending = "Edit" => \E j \in 1..Len(r.questions) : r.questions[j] = ui.id
  <2>1. CASE ui.open # 0 /\ ui.dialog # "none" /\ ui.pending = "Edit"
    <3>1. PICK s, t : s = ui.questions /\ t = <<ui.open>> \o s
      OBVIOUS
    <3>2. r = [ui EXCEPT !.questions = t, !.open = 0]
      BY <1>1, <2>1, <3>1 DEF Requeue
    <3>3. s \in Seq(Nat \ {0}) /\ ui.open \in Nat \ {0} /\ ui.open = ui.id
      BY <1>3, <2>1, <3>1 DEF UiOK, Uis
    <3>4. /\ t \in Seq(Nat \ {0}) /\ 1 \in 1..Len(t) /\ t[1] = ui.id
          /\ \A i \in 1..Len(s) : i + 1 \in 1..Len(t) /\ t[i + 1] = s[i]
      BY <3>1, <3>3
    <3>5. r \in Uis /\ r.prompts = ui.prompts /\ r.plan = ui.plan /\ r.questions = t
      BY <1>3, <3>2, <3>4 DEF Uis
    <3>6. \A i \in 1..Len(ui.questions) : \E j \in 1..Len(t) : t[j] = ui.questions[i]
      BY <3>1, <3>4
    <3> QED
      BY <3>4, <3>5, <3>6
  <2>2. CASE ~(ui.open # 0 /\ ui.dialog # "none" /\ ui.pending = "Edit")
    <3>1. r = [ui EXCEPT !.open = 0]
      BY <1>1, <2>2 DEF Requeue
    <3>2. ui.pending # "Edit"
      BY <1>3, <2>2 DEF UiOK
    <3> QED
      BY <1>3, <3>1, <3>2 DEF Uis
  <2> QED
    BY <2>1, <2>2
<1>5. /\ v \in Uis /\ v.prompts = ui.prompts /\ v.plan = ui.plan /\ v.questions = r.questions
      /\ v.dialog = "confirm" /\ v.pending = "Question" /\ v.id = e
  BY <1>2, <1>3, <1>4 DEF Uis, Shows, Dialogs, Pendings
<1>6. UiOK(v) /\ Shown(v) /\ Waits(v, "Question", e)
  BY <1>5 DEF UiOK, Shown, Waits
<1>7. ui.pending = "ResolveConflict" => \E i \in 1..Len(ui.prompts) : ui.prompts[i].batch = ui.id
  <2>1. ui.prompts \in Seq(Prompts)
    BY <1>3 DEF Uis
  <2>2. ui.pending = "ResolveConflict" => 1 \in 1..Len(ui.prompts) /\ ui.prompts[1].batch = ui.id
    BY <1>3, <2>1 DEF UiOK
  <2> QED
    BY <2>2
<1>8. \A k \in Kinds, n \in Nat :
        Waits(ui, k, n) =>
          Waits(v, k, n) \/ (k = "Question" /\ n = ui.id /\ ui.pending = "Question" /\ ui.dialog # "none")
  <2> SUFFICES ASSUME NEW k \in Kinds, NEW n \in Nat, Waits(ui, k, n),
                      ~(k = "Question" /\ n = ui.id /\ ui.pending = "Question" /\ ui.dialog # "none")
               PROVE  Waits(v, k, n)
    OBVIOUS
  <2>1. CASE k = "Edit"
    BY <1>4, <1>5, <2>1 DEF Waits
  <2>2. CASE k = "ResolveConflict"
    BY <1>5, <1>7, <2>2 DEF Waits
  <2>3. CASE k \in {"Question", "Sync"}
    BY <1>3, <1>5, <2>3 DEF Waits, Uis, Pendings, Lists
  <2> QED
    BY <2>1, <2>2, <2>3 DEF Kinds
<1>9. /\ ui' = v /\ late' = FALSE
      /\ unanswered' = unanswered \cup {<<"Question", e>>}
      /\ lost' = lost \cup (IF ui.dialog # "none" /\ ui.pending = "Question" THEN {<<"Question", ui.id>>} ELSE {})
  <2>1. ui' = v /\ late' = (v.dialog = "none" /\ (late \/ FALSE))
    BY <1>1, <1>2 DEF Ask, Takes, Watch
  <2> QED
    BY <1>1, <1>5, <2>1 DEF Ask
<1>10. ASSUME NEW q \in unanswered' PROVE q \in Kinds \X Nat /\ (q \in lost' \/ Waits(v, q[1], q[2]))
  <2>1. CASE q = <<"Question", e>>
    BY <1>3, <1>6, <2>1 DEF Kinds
  <2>2. CASE q \in unanswered
    <3>1. q \in Kinds \X Nat /\ (q \in lost \/ Waits(ui, q[1], q[2]))
      BY <2>2 DEF DialogInv
    <3>2. q[1] \in Kinds /\ q[2] \in Nat /\ q = <<q[1], q[2]>>
      BY <3>1
    <3> QED
      BY <1>8, <1>9, <3>1, <3>2
  <2> QED
    BY <1>9, <2>1, <2>2
<1> QED
  BY <1>1, <1>3, <1>6, <1>9, <1>10 DEF DialogInv

LEMMA SavedKeeps ==
    ASSUME DialogInv, ProfileSaved
    PROVE  DialogInv'
<1>1. PICK v : v = Closed(ui)
  OBVIOUS
<1>2. UiOK(ui) /\ ui \in Uis /\ events' \in Nat
  BY Happens DEF ProfileSaved, DialogInv, UiOK
<1>3. /\ UiOK(v) /\ KeepsBut(ui, v, ui.pending, ui.id) /\ v.prompts = ui.prompts /\ v.dialog = "none"
  BY <1>1, <1>2, Closes
<1>4. /\ ui' = v /\ late' = TRUE /\ unanswered' = unanswered
      /\ lost' = lost \cup (IF ui.pending \in {"Question", "Edit"} THEN {<<ui.pending, ui.id>>} ELSE {})
  BY <1>1, <1>3 DEF ProfileSaved, Watch
<1>5. ui.pending = "ResolveConflict" => Waits(v, "ResolveConflict", ui.id)
  <2>1. ui.prompts \in Seq(Prompts)
    BY <1>2 DEF Uis
  <2>2. ui.pending = "ResolveConflict" => 1 \in 1..Len(v.prompts) /\ v.prompts[1].batch = ui.id
    BY <1>2, <1>3, <2>1 DEF UiOK
  <2> QED
    BY <2>2 DEF Waits
<1>6. ASSUME NEW q \in unanswered' PROVE q \in Kinds \X Nat /\ (q \in lost' \/ Waits(v, q[1], q[2]))
  <2>1. q \in Kinds \X Nat /\ (q \in lost \/ Waits(ui, q[1], q[2]))
    BY <1>4, <1>6 DEF DialogInv
  <2>2. q[1] \in Kinds /\ q[2] \in Nat /\ q = <<q[1], q[2]>>
    BY <2>1
  <2>3. CASE Waits(v, q[1], q[2]) \/ q \in lost
    BY <1>4, <2>1, <2>3
  <2>4. CASE q[1] = ui.pending /\ q[2] = ui.id
    <3>1. ui.pending \in {"Question", "Edit", "ResolveConflict"}
      BY <1>2, <2>2, <2>4 DEF Uis, Kinds, Pendings, Lists
    <3> QED
      BY <1>4, <1>5, <2>1, <2>2, <2>4, <3>1
  <2> QED
    BY <1>3, <2>1, <2>2, <2>3, <2>4 DEF KeepsBut
<1> QED
  BY <1>2, <1>3, <1>4, <1>6 DEF DialogInv

LEMMA PlansKeep ==
    ASSUME DialogInv, ProfilesTold \/ ApplySyncPlan \/ WithdrawSync
    PROVE  DialogInv'
<1>1. UiOK(ui) /\ ui \in Uis /\ late \in BOOLEAN /\ (late = FALSE => Shown(ui))
  BY DEF DialogInv, UiOK
<1>2. CASE ProfilesTold
  <2>1. PICK w : w = [ui EXCEPT !.hosts = TRUE]
    OBVIOUS
  <2>2. PICK v : v = AnnounceMissingHosts(w)
    OBVIOUS
  <2>3. /\ w \in Uis /\ w.questions = ui.questions /\ w.prompts = ui.prompts /\ w.plan = ui.plan
        /\ w.screen = ui.screen /\ w.dialog = ui.dialog /\ w.pending = ui.pending /\ w.id = ui.id /\ w.open = ui.open
    BY <1>1, <2>1 DEF Uis
  <2>4. UiOK(w) /\ Keeps(ui, w)
    BY <1>1, <2>3 DEF UiOK, Keeps, Waits
  <2>5. UiOK(v) /\ Keeps(w, v) /\ (v.dialog = "none" => v = w)
    BY <2>2, <2>4, MessageOpens
  <2>6. Keeps(ui, v)
    BY <2>4, <2>5 DEF Keeps
  <2>7. ui' = v /\ late' = (v.dialog = "none" /\ late) /\ UNCHANGED <<unanswered, lost>> /\ events' \in Nat
    BY <1>2, <2>1, <2>2, Happens DEF ProfilesTold, Takes, Watch
  <2>8. late' \in BOOLEAN /\ (late' = FALSE => Shown(v))
    BY <1>1, <2>3, <2>5, <2>7 DEF Shown
  <2> QED
    BY <2>5, <2>6, <2>7, <2>8, Unanswered
<1>3. CASE ApplySyncPlan
  <2>1. events' \in Nat /\ events' # 0 /\ lost' = lost /\ late' = late
    BY <1>3, Happens DEF ApplySyncPlan
  <2>2. CASE ui' = ui /\ unanswered' = unanswered
    BY <2>1, <2>2 DEF DialogInv
  <2>3. CASE ui.plan = 0
    <3>1. PICK e : e = events'
      OBVIOUS
    <3>2. PICK v : v = [ui EXCEPT !.plan = e, !.screen = IF @ = "files" /\ ui.dialog = "none" THEN "sync" ELSE @]
      OBVIOUS
    <3>3. ui' = v /\ unanswered' = unanswered \cup {<<"Sync", e>>}
      BY <1>3, <2>3, <3>1, <3>2 DEF ApplySyncPlan
    <3>4. ScreenOnly(ui, v) /\ v.plan = e /\ (v.screen # "search" => ui.screen # "search")
      BY <1>1, <2>1, <3>1, <3>2 DEF ScreenOnly, Uis, Screens
    <3>5. UiOK(v) /\ Keeps(ui, v) /\ (Shown(ui) => Shown(v))
      BY <1>1, <2>3, <3>4, ScreenKeeps DEF Keeps, Waits, ScreenOnly
    <3>6. PICK q : q = <<"Sync", e>>
      OBVIOUS
    <3>7. q \in Kinds \X Nat /\ Waits(v, q[1], q[2]) /\ unanswered' \subseteq unanswered \cup {q}
      BY <2>1, <3>1, <3>3, <3>4, <3>6 DEF Kinds, Waits
    <3> QED
      BY <1>1, <2>1, <3>3, <3>5, <3>7, Asked
  <2> QED
    BY <1>3, <2>2, <2>3 DEF ApplySyncPlan
<1>4. CASE WithdrawSync
  <2>1. PICK v : v = NoPlan(ui)
    OBVIOUS
  <2>2. /\ ui' = v /\ late' = late /\ events' \in Nat /\ lost' = lost
        /\ unanswered' = unanswered \ {<<"Sync", ui.plan>>}
    BY <1>4, <2>1, Happens DEF WithdrawSync
  <2>3. ScreenOnly(ui, v) /\ (v.screen # "search" => ui.screen # "search")
    BY <1>1, <2>1 DEF ScreenOnly, Uis, NoPlan, Screens
  <2>4. UiOK(v) /\ KeepsBut(ui, v, "Sync", ui.plan) /\ (Shown(ui) => Shown(v))
    BY <1>1, <2>3, ScreenKeeps
  <2> QED
    BY <1>1, <2>2, <2>4, Answered
<1> QED
  BY <1>2, <1>3, <1>4

LEMMA CoreEventKeeps ==
    ASSUME DialogInv, CoreEvent
    PROVE  DialogInv'
<1>1. CASE ProfileRejected \/ Connected \/ Disconnected \/ Listed
  BY <1>1, Happens DEF ProfileRejected, Connected, Disconnected, Listed, PanelsChange, DialogInv
<1> QED
  BY <1>1, QuestionKeeps, AskEditKeeps, QueueConflictKeeps, WithdrawnKeeps, SavedKeeps, PlansKeep DEF CoreEvent

---------------------------------------------------------------------------
LEMMA AppStarts ==
    ASSUME AppInit
    PROVE  DialogInv
<1>1. PICK u : u = ui
  OBVIOUS
<1>2. u \in Uis /\ u.dialog = "none" /\ u.pending = "none" /\ u.questions = <<>> /\ u.prompts = <<>>
  <2>1. <<>> \in Seq(Prompts) /\ <<>> \in Seq(Nat \ {0})
    OBVIOUS
  <2> QED
    BY <1>1, <2>1 DEF AppInit, Uis, Screens, Dialogs, Pendings, Lists
<1>3. UiOK(u) /\ Shown(u)
  BY <1>2 DEF UiOK, Lists, Shown
<1> QED
  BY <1>1, <1>3 DEF DialogInv, AppInit

LEMMA AppKeeps ==
    ASSUME DialogInv, [AppNext]_appVars
    PROVE  DialogInv'
<1>1. CASE UNCHANGED appVars
  BY <1>1 DEF appVars, DialogInv
<1> QED
  BY <1>1, CoreEventKeeps, DialogKeyKeeps, ActionKeeps, ScreensKeep DEF AppNext, Key

LEMMA KeptAll ==
    ASSUME DialogInv
    PROVE  QuestionsKept
<1>1. UiOK(ui) /\ ui \in Uis /\ ui.prompts \in Seq(Prompts) /\ ui.questions \in Seq(Nat \ {0})
  BY DEF DialogInv, UiOK, Uis
<1>2. DOMAIN ui.prompts = 1..Len(ui.prompts) /\ DOMAIN ui.questions = 1..Len(ui.questions)
  BY <1>1
<1>3. ASSUME NEW q \in unanswered PROVE q \in Waiting \cup lost
  <2>1. q \in Kinds \X Nat /\ (q \in lost \/ Waits(ui, q[1], q[2]))
    BY DEF DialogInv
  <2>2. q = <<q[1], q[2]>>
    BY <2>1
  <2>3. CASE q[1] = "Edit" /\ \E i \in 1..Len(ui.questions) : ui.questions[i] = q[2]
    BY <1>2, <2>2, <2>3 DEF Waiting
  <2>4. CASE q[1] = "ResolveConflict" /\ \E i \in 1..Len(ui.prompts) : ui.prompts[i].batch = q[2]
    BY <1>2, <2>2, <2>4 DEF Waiting
  <2>5. CASE q[1] = ui.pending /\ q[2] = ui.id /\ ui.dialog # "none"
    BY <2>2, <2>5 DEF Waiting
  <2>6. CASE q[1] = "Sync" /\ q[2] = ui.plan /\ ui.plan # 0
    BY <2>2, <2>6 DEF Waiting
  <2> QED
    BY <2>1, <2>3, <2>4, <2>5, <2>6 DEF Waits
<1>4. ui.dialog = "conflict" =>
        ui.pending = "ResolveConflict" /\ ui.prompts # <<>> /\ Head(ui.prompts).batch = ui.id
  BY <1>1 DEF UiOK
<1>5. ui.dialog = "none" /\ ui.screen # "search" /\ ~late => ui.prompts = <<>> /\ ui.questions = <<>>
  BY DEF DialogInv, Shown
<1> QED
  BY <1>3, <1>4, <1>5 DEF QuestionsKept

(* ask, requeue_open_edit_question, the queues, apply_sync_plan and          *)
(* apply_dialog_key: whatever events, keys and answers come in whatever      *)
(* order, every question of the core waits for the user until it is          *)
(* answered or withdrawn, but for the two known ways to lose one; a conflict *)
(* is answered for the batch that is shown; and nothing waits unseen.        *)
THEOREM QuestionsKeptHolds == AppSpec => []QuestionsKept
<1>1. AppInit => DialogInv
  BY AppStarts
<1>2. DialogInv /\ [AppNext]_appVars => DialogInv'
  BY AppKeeps
<1>3. DialogInv => QuestionsKept
  BY KeptAll
<1> QED
  BY <1>1, <1>2, <1>3, PTL DEF AppSpec
---------------------------------------------------------------------------
(* The copies that MCMachines plans and makes, and its syncs, are those    *)
(* that CopyProofs is about.                                               *)
Planned == INSTANCE CopyProofs WITH
    there <- v1, parts <- v2, looks <- v3, policy <- v4, files <- v5, taken <- v6,
    answers <- v7, rest <- v8, agreed <- v9, left <- v10, phase <- v11,
    reader <- v1, writer <- v2, source <- v3, part <- v4, partTime <- v5,
    final <- v6, stage <- v7, resumed <- v8, size <- v9, offset <- v10,
    read <- v11, pipe <- v12, now <- v13, attempts <- v14, untold <- v15,
    tree <- v1, server <- v2, options <- v3, items <- v4, view <- v5,
    jobs <- v6, ended <- v7, progress <- v8,
    unreadable <- v1, live <- v2, screen <- v3, commands <- v4, events <- v5,
    generation <- v6, tasks <- v7, keys <- v8

LEMMA SamePlans ==
    /\ Planning!PlanInit => Planned!PlanInit
    /\ [Planning!PlanNext]_(Planning!planVars) => [Planned!PlanNext]_(Planned!planVars)
    /\ Planned!NothingReplacedUnasked => Planning!NothingReplacedUnasked
<1> USE DEF Planning!Top, Planned!Top, Planning!None, Planned!None, Planning!Numbers,
            Planned!Numbers, Planning!Missing, Planned!Missing, Planning!WithMissing,
            Planned!WithMissing, Planning!EnsureDirectories, Planned!EnsureDirectories,
            Planning!PlannedNames, Planned!PlannedNames, Planning!ListDestination,
            Planned!ListDestination, Planning!ListedParts, Planned!ListedParts,
            Planning!InListing, Planned!InListing, Planning!MarkConflicts,
            Planned!MarkConflicts, Planning!TakenNames, Planned!TakenNames,
            Planning!IsConflict, Planned!IsConflict, Planning!ResolutionFor,
            Planned!ResolutionFor, Planning!Blocked, Planned!Blocked,
            Planning!UniqueName, Planned!UniqueName, Planning!Answered,
            Planned!Answered, Planning!IsDropped, Planned!IsDropped,
            Planning!ResolvedUpTo, Planned!ResolvedUpTo, Planning!Apply, Planned!Apply,
            Planning!Conflicts, Planned!Conflicts, Planning!Open, Planned!Open,
            Planning!Current, Planned!Current, Planning!OffersResume,
            Planned!OffersResume, Planning!Offered, Planned!Offered,
            Planning!FitsTheRest, Planned!FitsTheRest, Planning!With, Planned!With,
            Planning!Without, Planned!Without, Planning!Cardinality, Planned!Cardinality,
            Planning!Made, Planned!Made, Planning!Looks, Planned!Looks,
            Planning!Overlooked, Planned!Overlooked
<1>1. Planning!Plan => Planned!Plan
  BY DEF Planning!Plan, Planned!Plan
<1>2. Planning!PlanFails => Planned!PlanFails
  BY DEF Planning!PlanFails, Planned!PlanFails
<1>3. Planning!AnswerConflict => Planned!AnswerConflict
  BY DEF Planning!AnswerConflict, Planned!AnswerConflict
<1>4. Planning!ToggleRest => Planned!ToggleRest
  BY DEF Planning!ToggleRest, Planned!ToggleRest
<1>5. Planning!CancelCopy => Planned!CancelCopy
  BY DEF Planning!CancelCopy, Planned!CancelCopy
<1>6. Planning!CopyFile => Planned!CopyFile
  BY DEF Planning!CopyFile, Planned!CopyFile
<1>7. Planning!FileFails => Planned!FileFails
  BY DEF Planning!FileFails, Planned!FileFails
<1>8. Planning!planVars = Planned!planVars /\ Planning!planVars' = Planned!planVars'
  BY DEF Planning!planVars, Planned!planVars
<1>9. Planning!PlanInit => Planned!PlanInit
  BY DEF Planning!PlanInit, Planned!PlanInit
<1>10. Planned!NothingReplacedUnasked => Planning!NothingReplacedUnasked
  BY DEF Planning!NothingReplacedUnasked, Planned!NothingReplacedUnasked
<1> QED
  BY ONLY <1>1, <1>2, <1>3, <1>4, <1>5, <1>6, <1>7, <1>8, <1>9, <1>10
     DEF Planning!PlanNext, Planned!PlanNext

(* the selection and the folders that MCMachines fixes are such            *)
LEMMA PlanAssumed == Planned!SelectionSound
<1>1. Name \in Seq(Nat) /\ FirstFree \in Seq(Nat) /\ <<2>> \in Seq(Nat) /\ Name # FirstFree
  BY DEF Name, FirstFree
<1>2. PICK a, b, c : a = Name /\ b = FirstFree /\ c = <<2>>
  OBVIOUS
<1>3. Selected = << <<"top", a>>, <<"top", b>>, <<"sub", a>> >>
  BY <1>2 DEF Selected, TreeFolder
<1>4. /\ Selected \in Seq(Planned!Places \X Planned!PathNames)
      /\ \A n, m \in Planned!Numbers : Selected[n] = Selected[m] => n = m
  BY <1>1, <1>2, <1>3 DEF Planned!Places, Planned!PathNames, Planned!Top, TreeFolder, Planned!Numbers
<1>5. ASSUME NEW names \in {{}, {a}, {b}, {a, b}, {a, c}} PROVE names \in SUBSET Seq(Nat) /\ IsFiniteSet(names)
  <2>1. IsFiniteSet({}) /\ IsFiniteSet({a}) /\ IsFiniteSet({b}) /\ IsFiniteSet({c})
    BY FS_EmptySet, FS_Singleton
  <2>2. IsFiniteSet({a} \cup {b}) /\ IsFiniteSet({a} \cup {c})
    BY <2>1, FS_Union
  <2>3. {a} \cup {b} = {a, b} /\ {a} \cup {c} = {a, c}
    OBVIOUS
  <2>4. IsFiniteSet({a, b}) /\ IsFiniteSet({a, c})
    BY <2>2, <2>3
  <2> QED BY <1>1, <1>2, <2>1, <2>4
<1>6. ASSUME NEW S, NEW names \in {{}, {a}, {b}, {a, b}, {a, c}}, NEW l \in [names -> S]
      PROVE  l \in Planned!Listings(S)
  BY <1>5 DEF Planned!Listings, Planned!PathNames, Planned!IsFiniteSet, IsFiniteSet
<1> DEFINE Old == Planned!Listings(Planned!Contents)
           Part == Planned!Listings(Planned!Parts)
<1>7. Olds \subseteq Old
  <2>1. ASSUME NEW names \in {{}, {a}, {b}, {a, b}, {a, c}}
        PROVE  All(names, "old") \in Old
    <3>1. All(names, "old") \in [names -> Planned!Contents]
      BY DEF All, Planned!Contents
    <3> QED BY <1>6, <3>1
  <2>2. All({a}, "dir") \in Old
    <3>1. All({a}, "dir") \in [{a} -> Planned!Contents]
      BY DEF All, Planned!Contents
    <3> QED BY <1>6, <3>1
  <2> HIDE DEF Old
  <2> QED BY <1>2, <2>1, <2>2 DEF Olds
<1>8. ASSUME NEW names \in {{}, {a}, {b}, {a, b}, {a, c}}
      PROVE  All(names, "old") \in Old /\ All(names, "short") \in Part
  <2>1. All(names, "old") \in [names -> Planned!Contents] /\ All(names, "short") \in [names -> Planned!Parts]
    BY DEF All, Planned!Contents, Planned!Parts
  <2> QED BY <1>6, <2>1
<1>9. PartsOf \subseteq Part
  <2>1. [n \in {a, b} |-> IF n = a THEN "full" ELSE "short"] \in Part
    <3>1. [n \in {a, b} |-> IF n = a THEN "full" ELSE "short"] \in [{a, b} -> Planned!Parts]
      BY DEF Planned!Parts
    <3> QED BY <1>6, <3>1
  <2>2. All({}, "short") \in Part /\ All({a}, "short") \in Part
    BY <1>8
  <2> HIDE DEF Part
  <2> QED BY <1>2, <2>1, <2>2 DEF PartsOf
<1>10. <<>> \in Old /\ <<>> \in Part
  <2>1. <<>> \in [{} -> Planned!Contents] /\ <<>> \in [{} -> Planned!Parts]
    OBVIOUS
  <2> QED BY <1>6, <2>1
<1> HIDE DEF Old, Part
<1>11. \A held \in Tops \cup Trees : held.old \in Old /\ held.part \in Part
  <2>1. ASSUME NEW held \in Tops PROVE held.old \in Old /\ held.part \in Part
    BY <1>7, <1>9 DEF Tops, Held
  <2>2. ASSUME NEW held \in Trees PROVE held.old \in Old /\ held.part \in Part
    BY <1>2, <1>8, <1>10 DEF Trees, Held
  <2> QED BY <2>1, <2>2
<1> QED BY <1>4, <1>11 DEF Planned!SelectionSound, Old, Part

(* mark_conflicts, resolve, the conflict dialog and execute, in the         *)
(* machines that are joined: a copy replaces only what somebody was asked   *)
(* about, and no two copies take one name, as in CopyProofs.                *)
THEOREM NothingReplacedUnaskedJoined == Spec => []NothingReplacedUnasked
<1> DEFINE Inv == part = "plans" => Planned!PlanIInv
<1>1. Init => Inv
  BY PlanAssumed, SamePlans, Planned!PlanStarts DEF Init
<1>2. Inv /\ [Next]_<<part, editsVars, appVars, others>> => Inv'
  <2> SUFFICES ASSUME Inv, [Next]_<<part, editsVars, appVars, others>>, part' = "plans"
               PROVE  Planned!PlanIInv'
    OBVIOUS
  <2>1. part = "plans"
    BY DEF Next
  <2>2. [Planning!PlanNext]_(Planning!planVars)
    BY <2>1 DEF Next, others, Planning!planVars
  <2> QED
    BY <2>1, <2>2, PlanAssumed, SamePlans, Planned!PlanNextKeeps
<1>3. Inv => NothingReplacedUnasked
  BY SamePlans, Planned!PlanReplaces DEF NothingReplacedUnasked
<1> QED
  BY <1>1, <1>2, <1>3, PTL DEF Spec

LEMMA SameCopies ==
    /\ Copies!CopyInit => Planned!CopyInit
    /\ [Copies!CopyNext]_(Copies!copyVars) => [Planned!CopyNext]_(Planned!copyVars)
    /\ Planned!CopiedWhole => Copies!CopiedWhole
<1> USE DEF Copies!Kinds, Planned!Kinds, Copies!PartUnits, Planned!PartUnits, Copies!PipeUnits, Planned!PipeUnits,
            Copies!ends, Planned!ends, Copies!Hole, Planned!Hole, Copies!Version, Planned!Version,
            Copies!Contiguous, Planned!Contiguous, Copies!PartLen, Planned!PartLen,
            Copies!ResumeBackoff, Planned!ResumeBackoff, Copies!ResumeOffset, Planned!ResumeOffset,
            Copies!Cut, Planned!Cut, Copies!Opened, Planned!Opened, Copies!LocalOpens, Planned!LocalOpens,
            Copies!SftpOpens, Planned!SftpOpens, Copies!FtpOpens, Planned!FtpOpens, Copies!ScpOpens, Planned!ScpOpens,
            Copies!DavOpens, Planned!DavOpens, Copies!S3Opens, Planned!S3Opens, Copies!Opens, Planned!Opens,
            Copies!TailFrom, Planned!TailFrom, Copies!ScpReadsFrom, Planned!ScpReadsFrom,
            Copies!HttpReadsFrom, Planned!HttpReadsFrom, Copies!ReadsFrom, Planned!ReadsFrom,
            Copies!DataEnd, Planned!DataEnd, Copies!Placed, Planned!Placed, Copies!PartPut, Planned!PartPut,
            Copies!Stored, Planned!Stored, Copies!Left, Planned!Left
<1>1. Copies!Change => Planned!Change
  BY DEF Copies!Change, Planned!Change
<1>2. Copies!Start => Planned!Start
  BY DEF Copies!Start, Planned!Start
<1>3. Copies!Copy => Planned!Copy
  BY DEF Copies!Copy, Planned!Copy
<1>4. Copies!Store => Planned!Store
  BY DEF Copies!Store, Planned!Store
<1>5. Copies!Fail => Planned!Fail
  BY DEF Copies!Fail, Planned!Fail
<1>6. Copies!Shutdown => Planned!Shutdown
  BY DEF Copies!Shutdown, Planned!Shutdown
<1>7. Copies!Rename => Planned!Rename
  BY DEF Copies!Rename, Planned!Rename, Copies!Content, Planned!Content, Copies!FlattenSeq, Planned!FlattenSeq
<1>8. Copies!copyVars = Planned!copyVars /\ Copies!copyVars' = Planned!copyVars'
  BY DEF Copies!copyVars, Planned!copyVars
<1>9. Copies!CopyInit => Planned!CopyInit
  BY DEF Copies!CopyInit, Planned!CopyInit
<1>10. Planned!CopiedWhole => Copies!CopiedWhole
  BY DEF Copies!CopiedWhole, Planned!CopiedWhole
<1> QED
  BY ONLY <1>1, <1>2, <1>3, <1>4, <1>5, <1>6, <1>7, <1>8, <1>9, <1>10
     DEF Copies!CopyNext, Planned!CopyNext

(* execute_preserving, resume_offset, open_write and the writers, in the    *)
(* machines that are joined: what a copy puts in place is one version of    *)
(* its source, with all the units that version had, for any lengths, any    *)
(* number of versions and of attempts.  As in CopyProofs, not covered are a *)
(* source that changed while it was copied, and one that changed between    *)
(* attempts to a file whose time is not later than that of what was kept.   *)
THEOREM CopiedWholeJoined ==
    ASSUME Lengths \subseteq Nat, MaxVersions \in Nat \ {0}, Tolerance \in Nat
    PROVE  Spec => []CopiedWhole
<1> DEFINE Inv == part = "copies" => Planned!CopyIInv
<1>1. Planned!CopySound
  BY DEF Planned!CopySound
<1>2. Init => Inv
  BY <1>1, SameCopies, Planned!CopyStarts DEF Init
<1>3. Inv /\ [Next]_<<part, editsVars, appVars, others>> => Inv'
  <2> SUFFICES ASSUME Inv, [Next]_<<part, editsVars, appVars, others>>, part' = "copies"
               PROVE  Planned!CopyIInv'
    OBVIOUS
  <2>1. part = "copies"
    BY DEF Next
  <2>2. [Copies!CopyNext]_(Copies!copyVars)
    BY <2>1 DEF Next, others, Copies!copyVars
  <2> QED
    BY <1>1, <2>1, <2>2, SameCopies, Planned!CopyNextKeeps
<1>4. Inv => CopiedWhole
  BY SameCopies, Planned!CopyWhole DEF CopiedWhole
<1> QED
  BY <1>2, <1>3, <1>4, PTL DEF Spec

LEMMA SameSyncs ==
    /\ Syncing!SyncInit => Planned!SyncInit
    /\ [Syncing!SyncNext]_(Syncing!syncVars) => [Planned!SyncNext]_(Planned!syncVars)
    /\ Planned!SyncSettles => Syncing!SyncSettles
<1> USE DEF Syncing!Side, Planned!Side, Syncing!Paths, Planned!Paths,
            Syncing!Unknown, Planned!Unknown, Syncing!NoEntry, Planned!NoEntry,
            Syncing!Dir, Planned!Dir, Syncing!Have, Planned!Have,
            Syncing!Ancestors, Planned!Ancestors, Syncing!LaterOf, Planned!LaterOf,
            Syncing!KeepsTimes, Planned!KeepsTimes,
            Syncing!CompareTolerance, Planned!CompareTolerance, Syncing!Valid, Planned!Valid,
            Syncing!Startable, Planned!Startable, Syncing!Discovered, Planned!Discovered,
            Syncing!CheckParentIsAFolder, Planned!CheckParentIsAFolder,
            Syncing!CheckDepth, Planned!CheckDepth, Syncing!Passes, Planned!Passes,
            Syncing!Scanned, Planned!Scanned, Syncing!Copying, Planned!Copying,
            Syncing!Asking, Planned!Asking, Syncing!Sends, Planned!Sends,
            Syncing!From, Planned!From, Syncing!Target, Planned!Target,
            Syncing!Source, Planned!Source, Syncing!OnlyOneSide, Planned!OnlyOneSide,
            Syncing!NewerSide, Planned!NewerSide, Syncing!OneWay, Planned!OneWay,
            Syncing!BySize, Planned!BySize, Syncing!TargetKeepsTimes, Planned!TargetKeepsTimes,
            Syncing!Believed, Planned!Believed, Syncing!ByTimeOf, Planned!ByTimeOf,
            Syncing!ByTime, Planned!ByTime, Syncing!Verdict, Planned!Verdict,
            Syncing!Mismatched, Planned!Mismatched, Syncing!Listed, Planned!Listed,
            Syncing!Flippable, Planned!Flippable, Syncing!Item, Planned!Item,
            Syncing!Compare, Planned!Compare, Syncing!NoView, Planned!NoView,
            Syncing!Load, Planned!Load, Syncing!PlanReady, Planned!PlanReady,
            Syncing!AllowedActions, Planned!AllowedActions,
            Syncing!ActionAfter, Planned!ActionAfter, Syncing!Flipped, Planned!Flipped,
            Syncing!Toggled, Planned!Toggled, Syncing!TickedAll, Planned!TickedAll,
            Syncing!UntickedAll, Planned!UntickedAll, Syncing!Filtered, Planned!Filtered,
            Syncing!VisibleChoices, Planned!VisibleChoices, Syncing!Applies, Planned!Applies,
            Syncing!MissingFolders, Planned!MissingFolders, Syncing!NewTime, Planned!NewTime,
            Syncing!Rounded, Planned!Rounded, Syncing!SetsTime, Planned!SetsTime,
            Syncing!Written, Planned!Written, Syncing!UntilCopied, Planned!UntilCopied,
            Syncing!Leftovers, Planned!Leftovers, Syncing!ToSet, Planned!ToSet,
            Syncing!Front, Planned!Front
<1>1. Syncing!Scan => Planned!Scan
  BY DEF Syncing!Scan, Planned!Scan
<1>2. Syncing!ScanOddly => Planned!ScanOddly
  BY DEF Syncing!ScanOddly, Planned!ScanOddly
<1>3. Syncing!KeyPress => Planned!KeyPress
  BY DEF Syncing!KeyPress, Planned!KeyPress
<1>4. Syncing!RunSync => Planned!RunSync
  BY DEF Syncing!RunSync, Planned!RunSync
<1>5. Syncing!CancelSync => Planned!CancelSync
  BY DEF Syncing!CancelSync, Planned!CancelSync
<1>6. Syncing!CreateFolders => Planned!CreateFolders
  BY DEF Syncing!CreateFolders, Planned!CreateFolders
<1>7. Syncing!FoldersFail => Planned!FoldersFail
  BY DEF Syncing!FoldersFail, Planned!FoldersFail
<1>8. Syncing!CopyJob => Planned!CopyJob
  BY DEF Syncing!CopyJob, Planned!CopyJob
<1>9. Syncing!CopyFails => Planned!CopyFails
  BY DEF Syncing!CopyFails, Planned!CopyFails
<1>10. Syncing!syncVars = Planned!syncVars /\ Syncing!syncVars' = Planned!syncVars'
  BY DEF Syncing!syncVars, Planned!syncVars
<1>11. Syncing!SyncInit => Planned!SyncInit
  BY DEF Syncing!SyncInit, Planned!SyncInit
<1>12. Planned!SyncSettles => Syncing!SyncSettles
  BY DEF Syncing!SyncSettles, Planned!SyncSettles
<1> QED
  BY ONLY <1>1, <1>2, <1>3, <1>4, <1>5, <1>6, <1>7, <1>8, <1>9, <1>10, <1>11, <1>12
     DEF Syncing!SyncNext, Planned!SyncNext

LEMMA FirstOfTwo ==
  ASSUME NEW f, NEW n
  PROVE  SubSeq(<<f, n>>, 1, 1) = <<f>>
<1>1. <<f, n>> \in Seq({f, n}) /\ <<f>> \in Seq({f, n})
  OBVIOUS
<1>2. SubSeq(<<f, n>>, 1, 1) \in Seq({f, n}) /\ Len(SubSeq(<<f, n>>, 1, 1)) = 1 /\ SubSeq(<<f, n>>, 1, 1)[1] = f
  BY <1>1
<1>3. PICK s \in Seq({f, n}) : s = SubSeq(<<f, n>>, 1, 1)
  BY <1>2
<1>4. PICK t \in Seq({f, n}) : t = <<f>>
  BY <1>1
<1>5. Len(s) = 1 /\ Len(t) = 1 /\ s[1] = f /\ t[1] = f
  BY <1>2, <1>3, <1>4
<1>6. s = t
  BY <1>5
<1> QED BY <1>3, <1>4, <1>6

LEMMA AncestorsOf ==
    /\ \A n : Planned!Ancestors(<<n>>) = {}
    /\ \A f, n : Planned!Ancestors(<<f, n>>) = {<<f>>}
<1>1. ASSUME NEW n PROVE Planned!Ancestors(<<n>>) = {}
  BY DEF Planned!Ancestors
<1>2. ASSUME NEW f, NEW n PROVE Planned!Ancestors(<<f, n>>) = {<<f>>}
  <2>1. Len(<<f, n>>) = 2 /\ 1..(2 - 1) = {1}
    OBVIOUS
  <2>2. Planned!Ancestors(<<f, n>>) = {SubSeq(<<f, n>>, 1, k) : k \in {1}}
    BY <2>1 DEF Planned!Ancestors
  <2>3. PICK s : s = SubSeq(<<f, n>>, 1, 1)
    OBVIOUS
  <2>4. {SubSeq(<<f, n>>, 1, k) : k \in {1}} = {s}
    BY <2>3
  <2> QED BY <2>2, <2>3, <2>4, FirstOfTwo
<1> QED BY <1>1, <1>2

(* the folders that MCMachines fixes are such                              *)
LEMMA SyncAssumed == Planned!SyncSound
<1> DEFINE Six == {A, D, X, APart, DPart, XPart}
<1>1. /\ A # D /\ A # X /\ A # APart /\ A # DPart /\ A # XPart
      /\ D # X /\ D # APart /\ D # DPart /\ D # XPart
      /\ X # APart /\ X # DPart /\ X # XPart
      /\ APart # DPart /\ APart # XPart /\ DPart # XPart
  BY DEF A, D, X, APart, DPart, XPart
<1>2. /\ Planned!Ancestors(A) = {} /\ Planned!Ancestors(D) = {} /\ Planned!Ancestors(X) = {D}
      /\ Planned!Ancestors(APart) = {} /\ Planned!Ancestors(DPart) = {} /\ Planned!Ancestors(XPart) = {D}
  BY AncestorsOf DEF A, D, X, APart, DPart, XPart
<1>3. DOMAIN Partial = {A, D, X} /\ Partial[A] = APart /\ Partial[D] = DPart /\ Partial[X] = XPart
  BY <1>1 DEF Partial
<1> HIDE DEF A, D, X, APart, DPart, XPart
<1>4. /\ Absent \in Planned!Entry /\ ADir \in Planned!Entry /\ ALink \in Planned!Entry
      /\ \A size \in 1..2, time \in 0..6 : AFile(size, time) \in Planned!Entry
  BY DEF Absent, ADir, ALink, AFile, Planned!Entry, Clock
<1>5. ~Planned!Have(Absent) /\ ADir.kind = "Dir"
  BY DEF Absent, ADir, Planned!Have
<1> DEFINE Fine(f) == /\ f \in [Six -> Planned!Entry]
                      /\ f[D] = ADir \/ f[X] = Absent
                      /\ f[APart] = Absent /\ f[DPart] = Absent /\ f[XPart] = Absent
<1>6. ASSUME NEW a \in Planned!Entry, NEW d \in Planned!Entry, NEW x \in Planned!Entry
      PROVE  LET f == Folder(a, d, x)
             IN  /\ f \in [Six -> Planned!Entry]
                 /\ f[D] = d /\ f[X] = x
                 /\ f[APart] = Absent /\ f[DPart] = Absent /\ f[XPart] = Absent
  BY <1>1, <1>4 DEF Folder
<1>7. ASSUME NEW a \in Planned!Entry, NEW d \in Planned!Entry, NEW x \in Planned!Entry, d = ADir \/ x = Absent
      PROVE  Fine(Folder(a, d, x))
  <2>1. Folder(a, d, x) \in [Six -> Planned!Entry]
    BY <1>6
  <2>2. Folder(a, d, x)[D] = ADir \/ Folder(a, d, x)[X] = Absent
    BY <1>6, <1>7
  <2>3. Folder(a, d, x)[APart] = Absent /\ Folder(a, d, x)[DPart] = Absent /\ Folder(a, d, x)[XPart] = Absent
    BY <1>6
  <2> QED BY <2>1, <2>2, <2>3
<1>8. ASSUME NEW a \in Planned!Entry, NEW xs \in SUBSET Planned!Entry, NEW f \in FoldersWith(a, xs)
      PROVE  Fine(f)
  <2>1. CASE \E x \in xs \cup {Absent} : f = Folder(a, ADir, x)
    <3>1. PICK x \in xs \cup {Absent} : f = Folder(a, ADir, x)
      BY <2>1
    <3> HIDE DEF Fine
    <3> QED BY <1>4, <1>7, <3>1
  <2>2. CASE \E d \in {Absent, ALink, AFile(1, 1)} : f = Folder(a, d, Absent)
    <3>1. PICK d \in {Absent, ALink, AFile(1, 1)} : f = Folder(a, d, Absent)
      BY <2>2
    <3>2. d \in Planned!Entry
      BY <1>4
    <3> HIDE DEF Fine
    <3> QED BY <1>4, <1>7, <3>1, <3>2
  <2> QED BY <2>1, <2>2 DEF FoldersWith
<1>9. ASSUME NEW f \in LocalFolders \cup RemoteFolders PROVE Fine(f)
  <2>1. CASE f \in LocalFolders
    <3>1. AFile(1, 1) \in Planned!Entry /\ {AFile(1, 3), AFile(1, 4), AFile(2, 3)} \in SUBSET Planned!Entry
      BY <1>4
    <3> HIDE DEF Fine
    <3> QED BY <1>8, <2>1, <3>1 DEF LocalFolders
  <2>2. CASE f \in RemoteFolders
    <3>1. {AFile(1, 0), AFile(2, 0), AFile(1, 2), AFile(2, 4), AFile(1, 6)} \in SUBSET Planned!Entry
      BY <1>4
    <3>2. CASE f \in FoldersWith(Absent, {AFile(1, 0), AFile(2, 0), AFile(1, 2), AFile(2, 4), AFile(1, 6)})
      <4> HIDE DEF Fine
      <4> QED BY <1>4, <1>8, <3>1, <3>2
    <3>3. CASE f = Folder(AFile(2, 4), ADir, AFile(1, 2))
      <4>1. AFile(2, 4) \in Planned!Entry /\ AFile(1, 2) \in Planned!Entry
        BY <1>4
      <4> HIDE DEF Fine
      <4> QED BY <1>4, <1>7, <3>3, <4>1
    <3> QED BY <2>2, <3>2, <3>3 DEF RemoteFolders
  <2> QED BY <2>1, <2>2
<1>10. ASSUME NEW found \in Folders PROVE Planned!FolderSound(found)
  <2>1. PICK l \in LocalFolders, r \in RemoteFolders : found = [local |-> l, remote |-> r]
    BY DEF Folders
  <2>2. Fine(l) /\ Fine(r)
    BY <1>9
  <2>3. found["local"] = l /\ found["remote"] = r /\ found \in [Planned!Side -> {l, r}]
    BY <2>1 DEF Planned!Side
  <2>4. DOMAIN found["local"] = Six
    BY <2>2, <2>3
  <2>5. found \in [Planned!Side -> [Six -> Planned!Entry]]
    BY <2>2, <2>3
  <2>6. \A path \in Six : Planned!Ancestors(path) \subseteq Six
    BY <1>2
  <2>7. ASSUME NEW side \in Planned!Side, NEW path \in Six, Planned!Have(found[side][path])
        PROVE  /\ \A above \in Planned!Ancestors(path) : found[side][above].kind = "Dir"
               /\ path \in DOMAIN Partial /\ Partial[path] \in Six
               /\ \A other \in Planned!Side : ~Planned!Have(found[other][Partial[path]])
    <3>1. path \in {A, D, X} /\ (path = X => found[side][D] = ADir)
      BY <1>5, <2>2, <2>3, <2>7 DEF Planned!Side
    <3>2. \A above \in Planned!Ancestors(path) : found[side][above].kind = "Dir"
      BY <1>2, <1>5, <3>1
    <3>3. path \in DOMAIN Partial /\ Partial[path] \in {APart, DPart, XPart}
      BY <1>3, <3>1
    <3>4. ASSUME NEW other \in Planned!Side PROVE ~Planned!Have(found[other][Partial[path]])
      BY <1>5, <2>2, <2>3, <3>3 DEF Planned!Side
    <3> QED BY <3>2, <3>3, <3>4
  <2> HIDE DEF Six, Fine
  <2> QED BY <2>4, <2>5, <2>6, <2>7 DEF Planned!FolderSound
<1> QED BY <1>10 DEF Planned!SyncSound, Planned!Side, Clock, Resolution

(* The scan, the rows, run_sync, the folders and the copies, in the         *)
(* machines that are joined: no row that was offered is refused, and        *)
(* comparing again finds nothing to say of what was copied with its time    *)
(* and the same as before of what failed, as in CopyProofs.                 *)
THEOREM SyncSettlesJoined == Spec => []SyncSettles
<1> DEFINE Inv == part = "syncs" => Planned!SyncIInv
<1>1. Init => Inv
  BY SyncAssumed, SameSyncs, Planned!SyncInitial DEF Init
<1>2. Inv /\ [Next]_<<part, editsVars, appVars, others>> => Inv'
  <2> SUFFICES ASSUME Inv, [Next]_<<part, editsVars, appVars, others>>, part' = "syncs"
               PROVE  Planned!SyncIInv'
    OBVIOUS
  <2>1. part = "syncs"
    BY DEF Next
  <2>2. [Syncing!SyncNext]_(Syncing!syncVars)
    BY <2>1 DEF Next, others, Syncing!syncVars
  <2> QED
    BY <2>1, <2>2, SyncAssumed, SameSyncs, Planned!SyncNextKeeps
<1>3. Inv => SyncSettles
  BY SameSyncs, Planned!SyncInvariantSettles DEF SyncSettles
<1> QED
  BY <1>1, <1>2, <1>3, PTL DEF Spec
---------------------------------------------------------------------------
(* The connections, the uploads, the FTP sessions and the panels that      *)
(* MCMachines joins are those that SessionProofs is about.                 *)
Proved == INSTANCE SessionProofs WITH
    setup <- v1, servers <- v2, known <- v3, cache <- v4, connecting <- v5, tasks <- v6,
    internal <- v7, sessions <- v8, nextId <- v9, wedged <- v10, agreed <- v11,
    accepted <- v12, changes <- v13,
    lists <- v1, seesParts <- v2, uploads <- v3, object <- v4, started <- v5,
    writing <- v6, created <- v7, faults <- v8,
    owed <- v1, main <- v2, outOfStep <- v3, idle <- v4, turn <- v5,
    command <- v6, stage <- v7, trouble <- v8, took <- v9, unmarked <- v10,
    disk <- v1, panel <- v2, resets <- v3, fsTasks <- v4, events <- v5, held <- v6,
    unsure <- v7, presses <- v8

LEMMA SameSearches ==
    /\ Search!SearchInit => Planned!SearchInit
    /\ [Search!SearchNext]_(Search!searchVars) => [Planned!SearchNext]_(Planned!searchVars)
    /\ Planned!SearchFindsAll => Search!SearchFindsAll
<1> USE DEF Search!MatchStep, Planned!MatchStep, Search!GlobMatch, Planned!GlobMatch,
            Search!Anywhere, Planned!Anywhere, Search!Names, Planned!Names,
            Search!Matching, Planned!Matching, Search!NoScreen, Planned!NoScreen,
            Search!Restarted, Planned!Restarted, Search!Press, Planned!Press,
            Search!Elsewhere, Planned!Elsewhere, Search!Cancelled, Planned!Cancelled,
            Search!NewTask, Planned!NewTask, Search!Started, Planned!Started,
            Search!Gone, Planned!Gone, Search!Tells, Planned!Tells,
            Search!Smaller, Planned!Smaller, Search!Picked, Planned!Picked,
            Search!Matches, Planned!Matches, Search!Inside, Planned!Inside,
            Search!FitsGlob, Planned!FitsGlob, Search!Within, Planned!Within,
            Search!Fitting, Planned!Fitting, Search!Fitted, Planned!Fitted,
            Search!AtRest, Planned!AtRest, Search!ToSet, Planned!ToSet,
            Search!Front, Planned!Front, Search!Last, Planned!Last,
            Search!Cardinality, Planned!Cardinality
<1>1. Search!OpenSearch => Planned!OpenSearch
  BY DEF Search!OpenSearch, Planned!OpenSearch
<1>2. Search!Type => Planned!Type
  <2>1. \A typed : Search!Restarted(typed) = Planned!Restarted(typed)
    OBVIOUS
  <2> HIDE DEF Search!Restarted, Planned!Restarted
  <2> QED BY <2>1 DEF Search!Type, Planned!Type
<1>3. Search!StopSearch => Planned!StopSearch
  BY DEF Search!StopSearch, Planned!StopSearch
<1>4. Search!TakeEvent => Planned!TakeEvent
  BY DEF Search!TakeEvent, Planned!TakeEvent
<1>5. Search!Search => Planned!Search
  BY DEF Search!Search, Planned!Search
<1>6. Search!CancelSearch => Planned!CancelSearch
  BY DEF Search!CancelSearch, Planned!CancelSearch
<1>7. Search!Disconnect => Planned!Disconnect
  BY DEF Search!Disconnect, Planned!Disconnect
<1>8. \A i : Search!Wake(i) => Planned!Wake(i)
  BY DEF Search!Wake, Planned!Wake
<1>9. \A i : Search!ReadNext(i) => Planned!ReadNext(i)
  BY DEF Search!ReadNext, Planned!ReadNext
<1>10. \A i : Search!Done(i) => Planned!Done(i)
  BY DEF Search!Done, Planned!Done
<1>11. \A i : Search!Refused(i) => Planned!Refused(i)
  BY DEF Search!Refused, Planned!Refused
<1>12. \A i : Search!FolderRead(i) => Planned!FolderRead(i)
  <2>1. \A p, n : Search!GlobMatch(p, n) = Planned!GlobMatch(p, n)
    OBVIOUS
  <2> HIDE DEF Search!GlobMatch, Planned!GlobMatch
  <2>2. Search!Matching = Planned!Matching
    BY <2>1
  <2>3. \A entries, wanted : Search!Picked(entries, wanted) = Planned!Picked(entries, wanted)
    OBVIOUS
  <2> HIDE DEF Search!Matching, Planned!Matching, Search!Picked, Planned!Picked
  <2>4. \A t : Search!Matches(t) = Planned!Matches(t) /\ Search!Inside(t) = Planned!Inside(t)
    BY <2>2, <2>3
  <2> HIDE DEF Search!Matches, Planned!Matches, Search!Inside, Planned!Inside
  <2>5. \A t : Search!FoundIn(t) = Planned!FoundIn(t) /\ Search!Below(t) = Planned!Below(t)
    BY <2>4 DEF Search!FoundIn, Planned!FoundIn, Search!Below, Planned!Below
  <2> QED BY <2>5 DEF Search!FolderRead, Planned!FolderRead
<1>13. Search!TaskRuns => Planned!TaskRuns
  BY ONLY <1>8, <1>9, <1>10, <1>11, <1>12 DEF Search!TaskRuns, Planned!TaskRuns
<1>14. Search!searchVars = Planned!searchVars /\ Search!searchVars' = Planned!searchVars'
  BY DEF Search!searchVars, Planned!searchVars
<1>15. Search!SearchInit => Planned!SearchInit
  BY DEF Search!SearchInit, Planned!SearchInit
<1>16. Planned!SearchFindsAll => Search!SearchFindsAll
  <2>1. \A p, n : Search!FitsGlob(p, n) = Planned!FitsGlob(p, n)
    OBVIOUS
  <2>2. \A d : Search!Within(d) = Planned!Within(d)
    OBVIOUS
  <2> HIDE DEF Search!FitsGlob, Planned!FitsGlob, Search!Within, Planned!Within
  <2>3. Search!Fitting = Planned!Fitting
    BY <2>1
  <2> HIDE DEF Search!Fitting, Planned!Fitting
  <2>4. \A typed : Search!Fitted(typed) = Planned!Fitted(typed)
    BY <2>2, <2>3
  <2> HIDE DEF Search!Fitted, Planned!Fitted
  <2> QED BY <2>4 DEF Search!SearchFindsAll, Planned!SearchFindsAll
<1> QED
  BY ONLY <1>1, <1>2, <1>3, <1>4, <1>5, <1>6, <1>7, <1>13, <1>14, <1>15, <1>16
     DEF Search!SearchNext, Planned!SearchNext

(* the folders that MCMachines fixes are such                              *)
LEMMA SearchAssumed ==
    ASSUME MaxDepth \in Nat, MaxResults \in Nat
    PROVE  Planned!SearchSound
<1>1. PICK n1, n2, n3, n4, n5 :
         n1 = <<"a">> /\ n2 = <<"b", "a">> /\ n3 = <<"a", "b">> /\ n4 = <<"b">> /\ n5 = <<"b", "a", "b">>
  OBVIOUS
<1>2. n1 # n2 /\ n3 # n4
  BY <1>1
<1>3. Tree = << <<<<n1, 0>>, <<n2, 2>>>>, <<<<n3, 0>>, <<n4, 3>>>>, <<<<n5, 0>>>> >>
  BY <1>1 DEF Tree
<1>4. DOMAIN Tree = {1, 2, 3}
  BY <1>3
<1>5. /\ Tree[1] = <<<<n1, 0>>, <<n2, 2>>>> /\ Tree[2] = <<<<n3, 0>>, <<n4, 3>>>>
      /\ Tree[3] = <<<<n5, 0>>>>
  BY <1>3
<1>6. DOMAIN Tree[1] = {1, 2} /\ DOMAIN Tree[2] = {1, 2} /\ DOMAIN Tree[3] = {1}
  BY <1>5
<1>7. Planned!TreeFolders = {1, 2, 3}
  BY <1>4 DEF Planned!TreeFolders
<1>8. Planned!Letters = {"a", "b"}
  <2>1. /\ Planned!ToSet(Tree[1]) = {<<n1, 0>>, <<n2, 2>>} /\ Planned!ToSet(Tree[2]) = {<<n3, 0>>, <<n4, 3>>}
        /\ Planned!ToSet(Tree[3]) = {<<n5, 0>>}
    BY <1>5, <1>6 DEF Planned!ToSet
  <2>2. UNION {Planned!ToSet(Tree[f]) : f \in {1, 2, 3}} = {<<n1, 0>>, <<n2, 2>>, <<n3, 0>>, <<n4, 3>>, <<n5, 0>>}
    BY <2>1
  <2>3. /\ Planned!ToSet(n1) = {"a"} /\ Planned!ToSet(n2) = {"a", "b"} /\ Planned!ToSet(n3) = {"a", "b"}
        /\ Planned!ToSet(n4) = {"b"} /\ Planned!ToSet(n5) = {"a", "b"}
    BY <1>1 DEF Planned!ToSet
  <2>4. PICK E : E = {<<n1, 0>>, <<n2, 2>>, <<n3, 0>>, <<n4, 3>>, <<n5, 0>>}
    OBVIOUS
  <2>5. \A e \in E : Planned!ToSet(e[1]) \subseteq {"a", "b"}
    BY <2>3, <2>4
  <2>6. \E e \in E : Planned!ToSet(e[1]) = {"a", "b"}
    <3>1. <<n2, 2>> \in E /\ <<n2, 2>>[1] = n2
      BY <2>4
    <3> QED BY <2>3, <3>1
  <2>7. UNION {Planned!ToSet(e[1]) : e \in E} = {"a", "b"}
    BY ONLY <2>5, <2>6
  <2> QED BY <1>4, <2>2, <2>4, <2>7 DEF Planned!Letters, Planned!TreeFolders
<1>9. /\ \A k, l \in DOMAIN Tree[1] : Tree[1][k][1] = Tree[1][l][1] => k = l
      /\ \A k, l \in DOMAIN Tree[2] : Tree[2][k][1] = Tree[2][l][1] => k = l
      /\ \A k, l \in DOMAIN Tree[3] : Tree[3][k][1] = Tree[3][l][1] => k = l
  BY <1>2, <1>5, <1>6
<1>10. /\ \A k \in DOMAIN Tree[1] : Tree[1][k][2] = IF k = 1 THEN 0 ELSE 2
       /\ \A k \in DOMAIN Tree[2] : Tree[2][k][2] = IF k = 1 THEN 0 ELSE 3
       /\ \A k \in DOMAIN Tree[3] : Tree[3][k][2] = 0
  BY <1>5, <1>6
<1>11. \A f \in {1, 2, 3} : \A k \in DOMAIN Tree[f] :
          /\ Tree[f][k][2] \in {0, 2, 3}
          /\ Tree[f][k][2] = 2 => f = 1 /\ k = 2
          /\ Tree[f][k][2] = 3 => f = 2 /\ k = 2
  BY <1>6, <1>10
<1>12. Tree \in [{1, 2, 3} -> Seq(Seq({"a", "b"}) \X {0, 1, 2, 3})]
  <2>1. n1 \in Seq({"a", "b"}) /\ n2 \in Seq({"a", "b"}) /\ n3 \in Seq({"a", "b"}) /\ n4 \in Seq({"a", "b"}) /\ n5 \in Seq({"a", "b"})
    BY <1>1
  <2>2. Tree[1] \in Seq(Seq({"a", "b"}) \X {0, 1, 2, 3})
    BY <1>5, <2>1
  <2>3. Tree[2] \in Seq(Seq({"a", "b"}) \X {0, 1, 2, 3})
    BY <1>5, <2>1
  <2>4. Tree[3] \in Seq(Seq({"a", "b"}) \X {0, 1, 2, 3})
    BY <1>5, <2>1
  <2>5. Tree = [f \in {1, 2, 3} |-> Tree[f]]
    BY <1>3, <1>4
  <2>6. \A f \in {1, 2, 3} : Tree[f] \in Seq(Seq({"a", "b"}) \X {0, 1, 2, 3})
    BY <2>2, <2>3, <2>4
  <2> QED BY ONLY <2>5, <2>6
<1>13. Patterns \subseteq Seq({"a", "b"} \cup {"*", "?"})
  BY DEF Patterns
<1>14. "*" \notin {"a", "b"}
  OBVIOUS
<1> HIDE DEF Tree, Patterns
<1>15. \A f \in {1, 2, 3} : \A k, l \in DOMAIN Tree[f] : Tree[f][k][1] = Tree[f][l][1] => k = l
  BY <1>9
<1>16. \A f, g \in {1, 2, 3} : \A k \in DOMAIN Tree[f], l \in DOMAIN Tree[g] :
          Tree[f][k][2] = Tree[g][l][2] /\ Tree[f][k][2] # 0 => f = g /\ k = l
  BY <1>11
<1>17. {1, 2, 3} \cup {0} = {0, 1, 2, 3} /\ 1 \in {1, 2, 3} /\ 0 \notin {1, 2, 3}
  OBVIOUS
<1>18. \A f \in {1, 2, 3} : \A k \in DOMAIN Tree[f] : Tree[f][k][2] # 1
  BY <1>11
<1> QED BY <1>7, <1>8, <1>12, <1>13, <1>14, <1>15, <1>16, <1>17, <1>18 DEF Planned!SearchSound

(* restart_search, the handlers of search and walk_search, in the machines  *)
(* that are joined: at rest, the screen shows all that the typed pattern    *)
(* fits, or as many results as the limit, as in CopyProofs, for any depth   *)
(* and any limit.                                                           *)
THEOREM SearchFindsAllJoined ==
    ASSUME MaxDepth \in Nat, MaxResults \in Nat
    PROVE  Spec => []SearchFindsAll
<1> DEFINE Inv == part = "searches" => Planned!SearchIInv
<1>1. Planned!SearchSound
  BY SearchAssumed
<1>2. Init => Inv
  BY <1>1, SameSearches, Planned!SearchStarts DEF Init
<1>3. Inv /\ [Next]_<<part, editsVars, appVars, others>> => Inv'
  <2> SUFFICES ASSUME Inv, [Next]_<<part, editsVars, appVars, others>>, part' = "searches"
               PROVE  Planned!SearchIInv'
    OBVIOUS
  <2>1. part = "searches"
    BY DEF Next
  <2>2. [Search!SearchNext]_(Search!searchVars)
    BY <2>1 DEF Next, others, Search!searchVars
  <2> QED
    BY <1>1, <2>1, <2>2, SameSearches, Planned!SearchNextKeeps
<1>4. Inv => SearchFindsAll
  BY <1>1, SameSearches, Planned!SearchShows DEF SearchFindsAll
<1> QED
  BY <1>2, <1>3, <1>4, PTL DEF Spec

LEMMA SameUploads ==
    /\ S3!S3Init => Proved!S3Init
    /\ [S3!S3Next]_(S3!s3Vars) => [Proved!S3Next]_(Proved!s3Vars)
    /\ Proved!CompletesOwn => S3!CompletesOwn
<1> USE DEF S3!Idle, Proved!Idle, S3!Fault, Proved!Fault, S3!NoFault, Proved!NoFault,
            S3!PutIn, Proved!PutIn, S3!InOrder, Proved!InOrder, S3!Progress,
            Proved!Progress, S3!Completed, Proved!Completed, S3!KnownParts,
            Proved!KnownParts, S3!Found, Proved!Found, S3!Dead, Proved!Dead, S3!Reachable,
            Proved!Reachable, S3!CreateUpload, Proved!CreateUpload, S3!Aborted,
            Proved!Aborted, S3!AbortAll, Proved!AbortAll, S3!Continue, Proved!Continue,
            S3!Finished, Proved!Finished, S3!PartOf, Proved!PartOf, S3!Nothing,
            Proved!Nothing, S3!With, Proved!With, S3!Without, Proved!Without, S3!Max,
            Proved!Max, S3!Cardinality, Proved!Cardinality
<1>1. S3!OpenWrite => Proved!OpenWrite
  BY DEF S3!OpenWrite, Proved!OpenWrite
<1>2. S3!OpenWriteFails => Proved!OpenWriteFails
  BY DEF S3!OpenWriteFails, Proved!OpenWriteFails
<1>3. S3!SendPart => Proved!SendPart
  BY DEF S3!SendPart, Proved!SendPart
<1>4. S3!PartRefused => Proved!PartRefused
  BY DEF S3!PartRefused, Proved!PartRefused
<1>5. S3!Stop => Proved!Stop
  BY DEF S3!Stop, Proved!Stop
<1>6. S3!Complete => Proved!Complete
  BY DEF S3!Complete, Proved!Complete
<1>7. S3!CompleteFails => Proved!CompleteFails
  BY DEF S3!CompleteFails, Proved!CompleteFails
<1>8. S3!RemovePartial => Proved!RemovePartial
  BY DEF S3!RemovePartial, Proved!RemovePartial
<1>9. S3!Restart => Proved!Restart
  BY DEF S3!Restart, Proved!Restart
<1>10. S3!s3Vars = Proved!s3Vars /\ S3!s3Vars' = Proved!s3Vars'
  BY DEF S3!s3Vars, Proved!s3Vars
<1>11. S3!S3Init => Proved!S3Init
  BY DEF S3!S3Init, Proved!S3Init
<1>12. Proved!CompletesOwn => S3!CompletesOwn
  BY DEF S3!CompletesOwn, Proved!CompletesOwn
<1> QED
  BY ONLY <1>1, <1>2, <1>3, <1>4, <1>5, <1>6, <1>7, <1>8, <1>9, <1>10, <1>11, <1>12
     DEF S3!S3Next, Proved!S3Next

(* open_write, rename and the parts: whatever uploads, faults and restarts  *)
(* there are, an upload is completed with the source's parts and no others, *)
(* as in SessionProofs, for any number of parts.                            *)
THEOREM CompletesOwnJoined ==
    ASSUME LastPart \in Nat \ {0}
    PROVE  Spec => []CompletesOwn
<1> DEFINE Inv == part = "s3" => Proved!S3IInv
<1>1. Proved!SourceSound
  BY DEF Proved!SourceSound
<1>2. Init => Inv
  BY SameUploads, Proved!S3Starts DEF Init
<1>3. Inv /\ [Next]_<<part, editsVars, appVars, others>> => Inv'
  <2> SUFFICES ASSUME Inv, [Next]_<<part, editsVars, appVars, others>>, part' = "s3"
               PROVE  Proved!S3IInv'
    OBVIOUS
  <2>1. part = "s3"
    BY DEF Next
  <2>2. [S3!S3Next]_(S3!s3Vars)
    BY <2>1 DEF Next, others, S3!s3Vars
  <2> QED
    BY <1>1, <2>1, <2>2, SameUploads, Proved!S3Keeps
<1>4. Inv => CompletesOwn
  BY <1>1, SameUploads, Proved!S3Completes DEF CompletesOwn
<1> QED
  BY <1>2, <1>3, <1>4, PTL DEF Spec

LEMMA SameFtp ==
    /\ Ftp!FtpInit => Proved!FtpInit
    /\ [Ftp!FtpNext]_(Ftp!ftpVars) => [Proved!FtpNext]_(Proved!ftpVars)
    /\ Proved!InStep => Ftp!InStep
<1> USE DEF Ftp!Goes, Proved!Goes, Ftp!At, Proved!At, Ftp!Trouble, Proved!Trouble, Ftp!Calm,
            Proved!Calm, Ftp!Answered, Proved!Answered, Ftp!Late, Proved!Late, Ftp!Closed,
            Proved!Closed, Ftp!Fresh, Proved!Fresh, Ftp!Open, Proved!Open, Ftp!CommandEnds,
            Proved!CommandEnds, Ftp!Leaves, Proved!Leaves, Ftp!Without, Proved!Without,
            Ftp!With, Proved!With, Ftp!Nothing, Proved!Nothing, Ftp!Min, Proved!Min,
            Ftp!Cardinality, Proved!Cardinality
<1>1. \A c \in Commands : Ftp!Attempt(c) => Proved!Attempt(c)
  BY DEF Ftp!Attempt, Proved!Attempt
<1>2. \A c \in Commands : Ftp!ReplaceMain(c) => Proved!ReplaceMain(c)
  BY DEF Ftp!ReplaceMain, Proved!ReplaceMain
<1>3. \A c \in Commands : Ftp!FirstTry(c) => Proved!FirstTry(c)
  BY DEF Ftp!FirstTry, Proved!FirstTry
<1>4. \A c \in Commands : Ftp!Noop(c) => Proved!Noop(c)
  BY DEF Ftp!Noop, Proved!Noop
<1>5. \A c \in Commands : Ftp!Reopen(c) => Proved!Reopen(c)
  BY DEF Ftp!Reopen, Proved!Reopen
<1>6. \A c \in Commands : Ftp!SecondTry(c) => Proved!SecondTry(c)
  BY DEF Ftp!SecondTry, Proved!SecondTry
<1>7. \A c \in Commands : Ftp!AskOnce(c) => Proved!AskOnce(c)
  BY DEF Ftp!AskOnce, Proved!AskOnce
<1>8. \A c \in Commands : Ftp!Borrow(c) => Proved!Borrow(c)
  BY DEF Ftp!Borrow, Proved!Borrow
<1>9. \A c \in Commands : Ftp!OpenStream(c) => Proved!OpenStream(c)
  BY DEF Ftp!OpenStream, Proved!OpenStream
<1>10. \A c \in Commands : Ftp!StreamEnds(c) => Proved!StreamEnds(c)
  BY DEF Ftp!StreamEnds, Proved!StreamEnds
<1>11. Ftp!ftpVars = Proved!ftpVars /\ Ftp!ftpVars' = Proved!ftpVars'
  BY DEF Ftp!ftpVars, Proved!ftpVars
<1>12. Ftp!FtpInit => Proved!FtpInit
  BY DEF Ftp!FtpInit, Proved!FtpInit
<1>13. Proved!InStep => Ftp!InStep
  BY DEF Ftp!InStep, Proved!InStep
<1> QED
  BY ONLY <1>1, <1>2, <1>3, <1>4, <1>5, <1>6, <1>7, <1>8,
          <1>9, <1>10, <1>11, <1>12, <1>13
     DEF Ftp!FtpNext, Proved!FtpNext

(* Pool::attempt, ask_once, borrow and the streams, in the machines that    *)
(* are joined: no command takes the answer of another, and no idle          *)
(* connection has one on its way, but for the two ways out of `attempt`     *)
(* that leave main out of step unmarked; for any number of commands.        *)
THEOREM InStepJoined ==
    ASSUME IsFiniteSet(Commands)
    PROVE  Spec => []InStep
<1> DEFINE Inv == part = "ftp" => Proved!FtpIInv
<1>1. Proved!CommandsFinite
  BY DEF Proved!CommandsFinite, Proved!IsFiniteSet, IsFiniteSet
<1>2. Init => Inv
  BY <1>1, SameFtp, Proved!FtpStarts DEF Init
<1>3. Inv /\ [Next]_<<part, editsVars, appVars, others>> => Inv'
  <2> SUFFICES ASSUME Inv, [Next]_<<part, editsVars, appVars, others>>, part' = "ftp"
               PROVE  Proved!FtpIInv'
    OBVIOUS
  <2>1. part = "ftp"
    BY DEF Next
  <2>2. [Ftp!FtpNext]_(Ftp!ftpVars)
    BY <2>1 DEF Next, others, Ftp!ftpVars
  <2> QED
    BY <1>1, <2>1, <2>2, SameFtp, Proved!FtpKeeps
<1>4. Inv => InStep
  BY SameFtp, Proved!FtpInStep DEF InStep
<1> QED
  BY <1>2, <1>3, <1>4, PTL DEF Spec

LEMMA SameConnects ==
    /\ Connecting!ConnectInit => Proved!ConnectInit
    /\ [Connecting!ConnectNext]_(Connecting!connectVars) => [Proved!ConnectNext]_(Proved!connectVars)
    /\ Proved!OnlyAccepted => Connecting!OnlyAccepted
    /\ Proved!OneSessionEach => Connecting!OneSessionEach
<1> USE DEF Connecting!Profiles, Proved!Profiles, Connecting!Store,
            Proved!Store, Connecting!Server, Proved!Server,
            Connecting!Pinned, Proved!Pinned, Connecting!Right, Proved!Right,
            Connecting!Meet, Proved!Meet, Connecting!Task, Proved!Task,
            Connecting!GoesOn, Proved!GoesOn, Connecting!Ends, Proved!Ends,
            Connecting!Asks, Proved!Asks, Connecting!Accepts, Proved!Accepts,
            Connecting!Begin, Proved!Begin, Connecting!OpensAnew,
            Proved!OpensAnew, Connecting!Met, Proved!Met, Connecting!Opened,
            Proved!Opened, Connecting!ProbesAgain, Proved!ProbesAgain,
            Connecting!AsksToTrust, Proved!AsksToTrust, Connecting!Refuses,
            Proved!Refuses, Connecting!Contact, Proved!Contact,
            Connecting!LoginSsh, Proved!LoginSsh, Connecting!LoginFtp,
            Proved!LoginFtp, Connecting!LoginWebDav, Proved!LoginWebDav,
            Connecting!LoginS3, Proved!LoginS3, Connecting!Login,
            Proved!Login, Connecting!TrustedHost, Proved!TrustedHost,
            Connecting!TrustedCertificate, Proved!TrustedCertificate,
            Connecting!Trusted, Proved!Trusted, Connecting!Remember,
            Proved!Remember, Connecting!Renames, Proved!Renames,
            Connecting!Typed, Proved!Typed, Connecting!Try,
            Proved!Try, Connecting!GivesUp, Proved!GivesUp, Connecting!Named,
            Proved!Named, Connecting!Connectable, Proved!Connectable,
            Connecting!Nothing, Proved!Nothing, Connecting!With, Proved!With,
            Connecting!Without, Proved!Without, Connecting!Cardinality,
            Proved!Cardinality
<1>1. \A p : Connecting!Connect(p) => Proved!Connect(p)
  BY DEF Connecting!Connect, Proved!Connect
<1>2. Connecting!TaskRuns => Proved!TaskRuns
  BY DEF Connecting!TaskRuns, Proved!TaskRuns
<1>3. \A id : Connecting!Panics(id) => Proved!Panics(id)
  BY DEF Connecting!Panics, Proved!Panics
<1>4. Connecting!FinishConnect => Proved!FinishConnect
  BY DEF Connecting!FinishConnect, Proved!FinishConnect
<1>5. Connecting!ConnectFailed => Proved!ConnectFailed
  BY DEF Connecting!ConnectFailed, Proved!ConnectFailed
<1>6. \A id : Connecting!Disconnect(id) => Proved!Disconnect(id)
  BY DEF Connecting!Disconnect, Proved!Disconnect
<1>7. Connecting!ServerChanges => Proved!ServerChanges
  BY DEF Connecting!ServerChanges, Proved!ServerChanges
<1>8. Connecting!connectVars = Proved!connectVars /\ Connecting!connectVars' = Proved!connectVars'
  BY DEF Connecting!connectVars, Proved!connectVars
<1>9. Connecting!ConnectInit => Proved!ConnectInit
  BY DEF Connecting!ConnectInit, Proved!ConnectInit, Connecting!Stores, Proved!Stores,
         Connecting!KnownWith, Proved!KnownWith
<1>10. /\ Proved!OnlyAccepted => Connecting!OnlyAccepted
       /\ Proved!OneSessionEach => Connecting!OneSessionEach
  BY DEF Connecting!OnlyAccepted, Proved!OnlyAccepted, Connecting!OneSessionEach, Proved!OneSessionEach,
         Connecting!Agreed, Proved!Agreed
<1>11. Connecting!Profiles = Proved!Profiles
  OBVIOUS
<1> QED
  BY ONLY <1>1, <1>2, <1>3, <1>4, <1>5, <1>6, <1>7, <1>8, <1>9, <1>10, <1>11
     DEF Connecting!ConnectNext, Proved!ConnectNext

(* the servers and passwords that the setups of MCMachines need *)
ServersKnown == {"h", "g"} \subseteq Hosts /\ Keys # {} /\ Words # {}

LEMMA SetupsKnown == ServersKnown => Proved!SetupsSound
  BY DEF ServersKnown, Setups, Saved, Proved!SetupsSound, Proved!Protocols

ConnectsInv == part = "connects" => Proved!IInv /\ Proved!OneEach

LEMMA ConnectsHold ==
    ASSUME ServersKnown
    PROVE  Spec => []ConnectsInv
<1>1. Proved!SetupsSound
  BY SetupsKnown
<1>2. Init => ConnectsInv
  BY <1>1, SameConnects, Proved!InitHolds, Proved!OneEachStarts DEF Init, ConnectsInv
<1>3. ConnectsInv /\ [Next]_<<part, editsVars, appVars, others>> => ConnectsInv'
  <2> SUFFICES ASSUME ConnectsInv, [Next]_<<part, editsVars, appVars, others>>, part' = "connects"
               PROVE  Proved!IInv' /\ Proved!OneEach'
    BY DEF ConnectsInv
  <2>1. part = "connects"
    BY DEF Next
  <2>2. [Connecting!ConnectNext]_(Connecting!connectVars)
    BY <2>1 DEF Next, others, Connecting!connectVars
  <2> QED
    BY <1>1, <2>1, <2>2, SameConnects, Proved!NextKeeps, Proved!NextOneEach DEF ConnectsInv
<1> QED
  BY <1>2, <1>3, PTL DEF Spec

(* open_trusted, verify, remember, finish_connect, in the machines that are *)
(* joined: a password goes only over a key or certificate that was agreed   *)
(* to, and only a password that the server took is kept.                    *)
THEOREM OnlyAcceptedJoined ==
    ASSUME ServersKnown
    PROVE  Spec => []OnlyAccepted
<1>1. ConnectsInv => OnlyAccepted
  BY SameConnects, Proved!OnlyAcceptedHolds DEF ConnectsInv, OnlyAccepted
<1> QED
  BY <1>1, ConnectsHold, PTL

(* connect, finish_connect and connect_failed, in the machines that are      *)
(* joined: a profile has one session or one attempt.                         *)
THEOREM OneSessionEachJoined ==
    ASSUME ServersKnown
    PROVE  Spec => []OneSessionEach
<1>1. ConnectsInv => OneSessionEach
  BY SameConnects, Proved!OneEachCounts DEF ConnectsInv, OneSessionEach
<1> QED
  BY <1>1, ConnectsHold, PTL
LEMMA SamePanels ==
    /\ Panel!PanelInit => Proved!PanelInit
    /\ [Panel!PanelNext]_(Panel!panelVars) => [Proved!PanelNext]_(Proved!panelVars)
    /\ Proved!PanelTrue => Panel!PanelTrue
<1> USE DEF Panel!None, Proved!None, Panel!Free, Proved!Free, Panel!Parent,
            Proved!Parent, Panel!NoText, Proved!NoText, Panel!Visible,
            Proved!Visible, Panel!Sifted, Proved!Sifted, Panel!Rows, Proved!Rows,
            Panel!RowAt, Proved!RowAt, Panel!Clamped, Proved!Clamped,
            Panel!Replaced, Proved!Replaced, Panel!Anchor, Proved!Anchor,
            Panel!First, Proved!First, Panel!Filtered, Proved!Filtered,
            Panel!FilterKeys, Proved!FilterKeys, Panel!Press, Proved!Press,
            Panel!Moved, Proved!Moved, Panel!Selected, Proved!Selected,
            Panel!HiddenToggled, Proved!HiddenToggled, Panel!SortCycled,
            Proved!SortCycled, Panel!Targets, Proved!Targets, Panel!Lists,
            Proved!Lists, Panel!ListingTasks, Proved!ListingTasks, Panel!Relists,
            Proved!Relists, Panel!TargetForOpen, Proved!TargetForOpen, Panel!Spawns,
            Proved!Spawns, Panel!There, Proved!There, Panel!Gone, Proved!Gone,
            Panel!Tells, Proved!Tells, Panel!Changes, Proved!Changes, Panel!Fails,
            Proved!Fails, Panel!Emptied, Proved!Emptied, Panel!ToSet, Proved!ToSet,
            Panel!Front, Proved!Front, Panel!RemoveAt, Proved!RemoveAt
<1>1. Panel!ChangeFilter => Proved!ChangeFilter
  BY DEF Panel!ChangeFilter, Proved!ChangeFilter
<1>2. Panel!PanelKey => Proved!PanelKey
  BY DEF Panel!PanelKey, Proved!PanelKey
<1>3. Panel!OpenRow => Proved!OpenRow
  BY DEF Panel!OpenRow, Proved!OpenRow
<1>4. Panel!DeleteTargets => Proved!DeleteTargets
  BY DEF Panel!DeleteTargets, Proved!DeleteTargets
<1>5. Panel!RenameCurrent => Proved!RenameCurrent
  BY DEF Panel!RenameCurrent, Proved!RenameCurrent
<1>6. Panel!CreateDirectory => Proved!CreateDirectory
  BY DEF Panel!CreateDirectory, Proved!CreateDirectory
<1>7. \A i : Panel!ListStart(i) => Proved!ListStart(i)
  BY DEF Panel!ListStart, Proved!ListStart
<1>8. \A i : Panel!ListInto(i) => Proved!ListInto(i)
  BY DEF Panel!ListInto, Proved!ListInto
<1>9. \A i : Panel!Delete(i) => Proved!Delete(i)
  BY DEF Panel!Delete, Proved!Delete
<1>10. \A i : Panel!Rename(i) => Proved!Rename(i)
  BY DEF Panel!Rename, Proved!Rename
<1>11. \A i : Panel!CreateDir(i) => Proved!CreateDir(i)
  BY DEF Panel!CreateDir, Proved!CreateDir
<1>12. Panel!ApplyListing => Proved!ApplyListing
  BY DEF Panel!ApplyListing, Proved!ApplyListing
<1>13. Panel!Relist => Proved!Relist
  BY DEF Panel!Relist, Proved!Relist
<1>14. Panel!FsTaskRuns => Proved!FsTaskRuns
  BY ONLY <1>7, <1>8, <1>9, <1>10, <1>11 DEF Panel!FsTaskRuns, Proved!FsTaskRuns
<1>15. Panel!panelVars = Proved!panelVars /\ Panel!panelVars' = Proved!panelVars'
  BY DEF Panel!panelVars, Proved!panelVars
<1>16. Panel!PanelInit => Proved!PanelInit
  BY DEF Panel!PanelInit, Proved!PanelInit
<1>17. Proved!PanelTrue => Panel!PanelTrue
  BY DEF Panel!PanelTrue, Proved!PanelTrue
<1> QED
  BY ONLY <1>1, <1>2, <1>3, <1>4, <1>5, <1>6, <1>12, <1>13,
          <1>14, <1>15, <1>16, <1>17
     DEF Panel!PanelNext, Proved!PanelNext

(* the folder, the files and the sort orders of MCMachines are such as     *)
(* SessionProofs assumes                                                   *)
LEMMA PanelAssumed == Proved!PanelSound
<1>1. Dir \in Names /\ Names = {Dir, "a", "ab", ".a"}
  BY DEF Dir, Names, Dotted
<1>2. /\ <<Dir, ".a", "a", "ab">> \in Seq(Names) /\ <<Dir, "ab", "a", ".a">> \in Seq(Names)
  BY <1>1
<1>3. Orders \in Seq(Seq(Names)) /\ Orders # <<>>
  BY <1>2 DEF Orders
<1>4. Names \cap {"none", "free", "parent"} = {}
  BY DEF Dir, Names, Dotted
<1> QED
  BY <1>1, <1>3, <1>4 DEF Proved!PanelSound, Proved!None, Proved!Free, Proved!Parent

(* recompute_rows, apply_filter, targets and the events of handlers/fs, in  *)
(* the machines that are joined: the cursor is on a row, an operation takes *)
(* no row that is not shown, the cursor comes back to its row when only the *)
(* filter changed, and at rest the panel shows its folder as it is, unless  *)
(* two listings ran at once, or a listing or a deletion broke off.          *)
THEOREM PanelTrueJoined == Spec => []PanelTrue
<1> DEFINE Inv == part = "panels" => Proved!PanelIInv
<1>1. Init => Inv
  BY PanelAssumed, SamePanels, Proved!PanelStarts DEF Init
<1>2. Inv /\ [Next]_<<part, editsVars, appVars, others>> => Inv'
  <2> SUFFICES ASSUME Inv, [Next]_<<part, editsVars, appVars, others>>, part' = "panels"
               PROVE  Proved!PanelIInv'
    OBVIOUS
  <2>1. part = "panels"
    BY DEF Next
  <2>2. [Panel!PanelNext]_(Panel!panelVars)
    BY <2>1 DEF Next, others, Panel!panelVars
  <2> QED
    BY <2>1, <2>2, PanelAssumed, SamePanels, Proved!PanelNextKeeps
<1>3. Inv => PanelTrue
  BY PanelAssumed, SamePanels, Proved!PanelInvariantTrue DEF PanelTrue
<1> QED
  BY <1>1, <1>2, <1>3, PTL DEF Spec
---------------------------------------------------------------------------
(* ask, requeue_open_edit_question, the queues, apply_sync_plan and          *)
(* apply_dialog_key, in the machines that are joined: every question of the  *)
(* core waits for the user until it is answered or withdrawn, but for the    *)
(* two known ways to lose one, and nothing waits unseen.                     *)
THEOREM QuestionsKeptJoined == Spec => []QuestionsKept
<1>1. Init => DialogInv
  BY AppStarts DEF Init
<1>2. DialogInv /\ [Next]_<<part, editsVars, appVars, others>> => DialogInv'
  <2>1. [Next]_<<part, editsVars, appVars, others>> => [AppNext]_appVars
    BY DEF Next
  <2> QED
    BY <2>1, AppKeeps
<1> QED
  BY <1>1, <1>2, KeptAll, PTL DEF Spec
================================================================================
