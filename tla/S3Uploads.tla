------------------------------- MODULE S3Uploads -------------------------------
(***************************************************************************)
(* Partial files on S3, which has none: protocols/s3/src/fs/mod.rs,        *)
(* staging/mod.rs and upload/mod.rs.  A partial file `k.part` is a         *)
(* multipart upload of the key `k`; writing it puts parts, its size is     *)
(* that of its first whole parts, renaming it to `k` completes the upload. *)
(*                                                                         *)
(* An account may be refused the listing of uploads, or of their parts;    *)
(* what this run of the program started is remembered for that case.  The  *)
(* source is of LastPart parts, of which all but the last are whole; a     *)
(* part is "full", "cut" (the flush of a copy that was stopped) or "last". *)
(***************************************************************************)
EXTENDS Naturals, FiniteSets, FiniteSetsExt, Maps

CONSTANTS
    LastPart,       \* how many parts the source has
    MaxUploads,     \* bound: uploads created
    MaxFaults       \* bound: calls that fail, stopped copies and restarts

VARIABLES
    lists, seesParts,   \* what the account may list
    uploads,            \* of the key, on the server: [id -> parts]
    object,             \* the parts of the object `k`, or Nothing
    started,            \* S3Fs::started: [id -> parts]
    writing,            \* MultipartWriter: [id, next], or none
    created,            \* uploads created; they are numbered in that order
    faults

s3Vars == <<lists, seesParts, uploads, object, started, writing, created, faults>>

Idle == [id |-> 0, next |-> 0]

S3Init ==
    /\ lists \in BOOLEAN /\ seesParts \in BOOLEAN
    /\ uploads = Nothing /\ object = Nothing /\ started = Nothing /\ writing = Idle
    /\ created = 0 /\ faults = 0

Fault == faults < MaxFaults /\ faults' = faults + 1
NoFault == UNCHANGED faults

(* of a table of uploads, its entry for one of them, if it has one *)
PutIn(table, id, n, part) ==
    [u \in DOMAIN table |-> IF u = id THEN With(table[u], n, part) ELSE table[u]]

(***************************************************************************)
(* Parts: in_order, contiguous, completed                                  *)
(***************************************************************************)
(* the numbers 1, 2, ... as far as they go *)
InOrder(parts) == {n \in DOMAIN parts : \A m \in 1..n : m \in DOMAIN parts}

(* mutant: a short part counts as well *)
ProgressShort(parts) == Cardinality(InOrder(parts))

(* whole parts in order; their last number stands for their size *)
Progress(parts) == Cardinality({n \in InOrder(parts) : \A m \in 1..n : parts[m] = "full"})

Completed(parts) == [n \in InOrder(parts) |-> parts[n]]

(* known_parts: listed, or of the memory *)
KnownParts(id) ==
    IF seesParts THEN uploads[id]
    ELSE IF id \in DOMAIN started THEN started[id] ELSE Nothing

(***************************************************************************)
(* pending: the newest upload listed, or the last one started              *)
(***************************************************************************)
(* uploads, newest, started_upload; 0 is none *)
Found ==
    IF lists /\ DOMAIN uploads # {} THEN Max(DOMAIN uploads)
    ELSE IF DOMAIN started # {} THEN Max(DOMAIN started) ELSE 0

(* remembered, and gone from the server: the answer that told so was lost *)
Dead == DOMAIN started \ DOMAIN uploads

(* the parts of a dead one cannot be listed: every call fails *)
Reachable == Found = 0 \/ Found \in DOMAIN uploads \/ ~seesParts

(***************************************************************************)
(* Writing                                                                 *)
(***************************************************************************)
(* create_upload, remember *)
CreateUpload(kept, remembered) ==
    /\ created < MaxUploads /\ created' = created + 1
    /\ uploads' = With(kept, created + 1, Nothing)
    /\ started' = With(remembered, created + 1, Nothing)
    /\ writing' = [id |-> created + 1, next |-> 1]

(* abort_all: what is listed, then what is remembered, until a dead one is *)
(* refused                                                                 *)
Aborted ==
    (IF lists THEN DOMAIN uploads ELSE {})
        \cup {id \in DOMAIN started : \A dead \in Dead : id < dead}

AbortAll == uploads' = Without(uploads, Aborted) /\ started' = Without(started, Aborted)

(* decide: only an upload whose progress is where the copy goes on, which  *)
(* it is when it may be resumed                                            *)
Continue(resume) == resume /\ Found # 0 /\ Progress(KnownParts(Found)) > 0

(* open_write of `k.part`; a call that fails may have been done *)
OpenWrite ==
    /\ writing = Idle /\ Reachable
    /\ \E resume \in BOOLEAN :
          \/ /\ Continue(resume)
             /\ writing' = [id |-> Found, next |-> Progress(KnownParts(Found)) + 1]
             /\ NoFault /\ UNCHANGED <<uploads, started, created>>
          \/ /\ ~Continue(resume) /\ Dead = {}
             /\ CreateUpload(Without(uploads, Aborted), Without(started, Aborted)) /\ NoFault
    /\ UNCHANGED <<lists, seesParts, object>>

(* a dead upload cannot be aborted; or the answer is lost that one was     *)
(* aborted, or created                                                     *)
OpenWriteFails ==
    /\ writing = Idle /\ Reachable
    /\ \/ Dead # {} /\ AbortAll /\ NoFault /\ UNCHANGED created
       \/ /\ Fault /\ UNCHANGED <<started, created>>
          /\ \E id \in Aborted : uploads' = Without(uploads, {id})
       \/ /\ Fault /\ Dead = {}
          /\ created < MaxUploads /\ created' = created + 1
          /\ uploads' = With(Without(uploads, Aborted), created + 1, Nothing)
          /\ started' = Without(started, Aborted)
    /\ UNCHANGED <<lists, seesParts, object, writing>>

Finished == writing # Idle /\ writing.next > LastPart
PartOf(n) == IF n = LastPart THEN "last" ELSE "full"

(* start_part and part_sender: sent, stored, remembered *)
SendPart ==
    /\ writing # Idle /\ ~Finished /\ writing.id \in DOMAIN uploads
    /\ uploads' = PutIn(uploads, writing.id, writing.next, PartOf(writing.next))
    /\ started' = PutIn(started, writing.id, writing.next, PartOf(writing.next))
    /\ writing' = [writing EXCEPT !.next = @ + 1]
    /\ UNCHANGED <<lists, seesParts, object, created, faults>>

(* the upload is not there any more *)
PartRefused ==
    /\ writing # Idle /\ ~Finished /\ writing.id \notin DOMAIN uploads
    /\ writing' = Idle
    /\ UNCHANGED <<lists, seesParts, uploads, object, started, created, faults>>

(* the copy is stopped, or a part fails: what was buffered is flushed, and *)
(* stored or not, and its answer comes or not                              *)
Stop ==
    /\ writing # Idle /\ ~Finished /\ writing.id \in DOMAIN uploads /\ Fault
    /\ \E part \in {"cut", PartOf(writing.next)} :
          \/ UNCHANGED <<uploads, started>>
          \/ uploads' = PutIn(uploads, writing.id, writing.next, part) /\ UNCHANGED started
          \/ /\ uploads' = PutIn(uploads, writing.id, writing.next, part)
             /\ started' = PutIn(started, writing.id, writing.next, part)
    /\ writing' = Idle
    /\ UNCHANGED <<lists, seesParts, object, created>>

(* rename of `k.part` to `k`: pending, complete *)
Complete ==
    /\ Finished /\ Reachable /\ Found \in DOMAIN uploads
    /\ object' = Completed(KnownParts(Found))
    /\ uploads' = Without(uploads, {Found})
    /\ \/ started' = Without(started, {Found}) /\ NoFault
       \/ UNCHANGED started /\ Fault                        \* the answer is lost
    /\ writing' = Idle
    /\ UNCHANGED <<lists, seesParts, created>>

CompleteFails ==
    /\ Finished /\ Fault
    /\ writing' = Idle
    /\ UNCHANGED <<lists, seesParts, uploads, object, started, created>>

(***************************************************************************)
(* Others                                                                  *)
(***************************************************************************)
(* remove_file of `k.part`: abort_all *)
RemovePartial ==
    /\ writing = Idle /\ Found # 0 /\ Reachable
    /\ AbortAll
    /\ UNCHANGED <<lists, seesParts, object, writing, created, faults>>

(* the program is started anew *)
Restart ==
    /\ Fault
    /\ started' = Nothing /\ writing' = Idle
    /\ UNCHANGED <<lists, seesParts, uploads, object, created>>

S3Next ==
    \/ OpenWrite \/ OpenWriteFails \/ SendPart \/ PartRefused \/ Stop
    \/ Complete \/ CompleteFails
    \/ RemovePartial \/ Restart

S3Spec == S3Init /\ [][S3Next]_s3Vars

(***************************************************************************)
(* Properties                                                              *)
(***************************************************************************)
(* pending, known_parts and completed: when all parts were taken, renaming *)
(* completes the upload they were put into, with all of them and no other; *)
(* through stopped copies, restarts and refused listings.                  *)
CompletesOwn ==
    /\ Finished => /\ Found = writing.id
                   /\ Completed(KnownParts(Found)) = [n \in 1..LastPart |-> PartOf(n)]
    /\ object # Nothing => object = [n \in 1..LastPart |-> PartOf(n)]

(* protocols/s3/tests/transfers.rs:163, uploads_work_for_a_key_that_cannot_*)
(* list_unfinished_uploads, and for any key: no upload that is gone stands *)
(* in the way of the next one.                                             *)
UploadsWork == writing = Idle => Reachable /\ Dead = {}
=================================================================================
