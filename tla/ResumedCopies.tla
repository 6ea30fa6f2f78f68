----------------------------- MODULE ResumedCopies -----------------------------
(***************************************************************************)
(* How the content of one file is copied, over several attempts:           *)
(* transfer/execute/mod.rs, and the writers its bytes go through, of every *)
(* kind of connection: open_write and the stream it returns.               *)
(*                                                                         *)
(* An attempt writes a partial file beside the destination, from where an  *)
(* earlier attempt left it when it may be resumed, and renames it over the *)
(* destination when all was written.  Between the program and the server   *)
(* bytes are under way: those of an attempt that fails may be stored or    *)
(* not.  A unit of content is <<version of the source, position>>; what    *)
(* was written past the end of a file leaves a Hole.  A transfer has one   *)
(* local end, so the other end alone decides how it goes.                  *)
(***************************************************************************)
EXTENDS Naturals, Sequences, SequencesExt, FiniteSets

CONSTANTS
    Lengths,        \* how long a version of the source may be
    MaxVersions,    \* bound: versions of the source
    MaxAttempts,    \* bound: attempts
    Tolerance       \* CLOCK_SKEW_TOLERANCE_SECS

Kinds == {"local", "sftp", "ftp", "scp", "webdav", "s3"}

PartUnits == 2      \* PART_SIZE
PipeUnits == 2      \* what a writer takes before the server has it

VARIABLES
    reader, writer, \* of what kind the ends are
    source,         \* [version, length, modified, lengths], the last of all its versions (observer)
    part,           \* the partial file: its units; of "s3", its upload: parts of units
    partTime,       \* when it was last written
    final,          \* the destination
    stage,          \* "idle", "copying", "renaming", "done"
    resumed,        \* how the writer stores: "placed", "appended", "put", "parts"
    size,           \* of the source, when the attempt started
    offset,         \* Writer::offset
    read,           \* how far the source was read
    pipe,           \* units written that are not stored
    now,
    attempts,
    untold           \* observer: the source changed while it was copied, or has a time that does not tell

copyVars == <<reader, writer, source, part, partTime, final, stage, resumed, size, offset, read, pipe, now, attempts, untold>>
ends == <<reader, writer>>

Hole == <<0, 0>>
Version(v, length) == [i \in 1..length |-> <<v, i>>]
Content == IF writer = "s3" THEN FlattenSeq(part) ELSE part

CopyInit ==
    /\ reader \in Kinds /\ writer \in Kinds /\ "local" \in {reader, writer}
    /\ \E n \in Lengths : source = [version |-> 1, length |-> n, modified |-> 0, lengths |-> <<n>>]
    /\ part = <<>> /\ partTime = 0 /\ final = <<>>
    /\ stage = "idle" /\ resumed = "placed" /\ size = 0 /\ offset = 0 /\ read = 0 /\ pipe = <<>>
    /\ now = 0 /\ attempts = 0 /\ untold = FALSE

(***************************************************************************)
(* The user, and time                                                      *)
(***************************************************************************)
(* the source is written anew, so much later; or a file of any earlier     *)
(* date takes its place (mv, cp -p), which resume_offset may not tell from *)
(* the file of the partial one                                             *)
Change ==
    /\ source.version < MaxVersions
    /\ \E later \in {0, Tolerance + 1}, n \in Lengths :
          /\ now' = now + later
          /\ \E dated \in 0..(now + later) :
                source' = [version |-> source.version + 1, length |-> n, modified |-> dated,
                           lengths |-> Append(source.lengths, n)]
    /\ untold' = \/ untold
                 \/ stage \in {"copying", "renaming"}
                 \/ stage = "idle" /\ source'.modified <= partTime + Tolerance
    /\ UNCHANGED <<ends, part, partTime, final, stage, resumed, size, offset, read, pipe, attempts>>

(***************************************************************************)
(* Where to go on                                                          *)
(***************************************************************************)
(* S3: in_order, contiguous: only whole parts count *)
Contiguous == IF \E i \in DOMAIN part : Len(part[i]) # PartUnits
              THEN CHOOSE n \in 0..Len(part) :
                      /\ \A i \in 1..n : Len(part[i]) = PartUnits
                      /\ Len(part[n + 1]) # PartUnits
              ELSE Len(part)

PartLen == IF writer = "s3" THEN Contiguous * PartUnits ELSE Len(part)

ResumeBackoff == IF "sftp" \in {reader, writer} THEN PipeUnits ELSE 0

(* mutant: the last units of a partial file are taken for good *)
ResumeOffsetKept ==
    IF PartLen > source.length \/ source.modified > partTime + Tolerance THEN 0 ELSE PartLen

ResumeOffset ==
    IF PartLen > source.length \/ source.modified > partTime + Tolerance THEN 0
    ELSE IF PartLen > ResumeBackoff THEN PartLen - ResumeBackoff ELSE 0

(***************************************************************************)
(* open_write: the partial file as it is left, where writing starts, how   *)
(***************************************************************************)
Cut(s, n) == SubSeq(s, 1, n)
Opened(kept, from, how) == [part |-> kept, offset |-> from, how |-> how]

LocalOpens(from) == {Opened(Cut(part, from), from, "placed")}

(* the file is cut, or the server refuses to; or it is created *)
SftpOpens(from) ==
    {Opened(<<>>, 0, "placed")}
      \cup (IF from > 0 THEN {Opened(Cut(part, from), from, "placed"), Opened(part, from, "placed")} ELSE {})

(* first_write_start, fallback: STOR, or REST and STOR, then APPE, then STOR *)
FtpOpens(from) ==
    {Opened(<<>>, 0, "placed")}
      \cup (IF from > 0 THEN {Opened(Cut(part, from), from, "placed"), Opened(part, from, "placed"),
                              Opened(part, from, "appended")} ELSE {})

(* scp_sink or command_writer: `cat >>` appends *)
ScpOpens(from) == IF from > 0 THEN {Opened(part, from, "appended")} ELSE {Opened(<<>>, 0, "placed")}

(* PATCH, or PUT: in place, or once it is complete *)
DavOpens(from) ==
    {Opened(<<>>, 0, "placed"), Opened(part, 0, "put")}
      \cup (IF from > 0 THEN {Opened(part, from, "placed")} ELSE {})

(* decide: continue the upload, or abort_all and create_upload *)
S3Opens(from) ==
    IF from > 0 /\ from = PartLen THEN {Opened(part, from, "parts")} ELSE {Opened(<<>>, 0, "parts")}

Opens(from) ==
    CASE writer = "local"  -> LocalOpens(from)
      [] writer = "sftp"   -> SftpOpens(from)
      [] writer = "ftp"    -> FtpOpens(from)
      [] writer = "scp"    -> ScpOpens(from)
      [] writer = "webdav" -> DavOpens(from)
      [] writer = "s3"     -> S3Opens(from)

(***************************************************************************)
(* open_read: how many units are passed over                               *)
(***************************************************************************)
(* `tail -c +N` gives the N-th byte first *)
TailFrom(n) == n - 1
ScpReadsFrom(from) == IF from = 0 THEN 0 ELSE TailFrom(from + 1)

(* the answer starts where the Range does, or at the start of the file and *)
(* what comes before is read and dropped                                   *)
HttpReadsFrom(from) ==
    LET answers == {[start |-> from, dropped |-> 0], [start |-> 0, dropped |-> from]}
    IN  {a.start + a.dropped : a \in answers}

ReadsFrom(from) ==
    IF reader = "scp" THEN {ScpReadsFrom(from)}
    ELSE IF reader \in {"webdav", "s3"} THEN HttpReadsFrom(from)
    ELSE {from}

(* where the data end: scp was told a size *)
DataEnd == IF reader = "scp" /\ offset = 0 THEN size ELSE source.length

(* execute_preserving, to copy_with_progress; the partial file is opened,  *)
(* and cut, before the source is                                           *)
Start ==
    /\ stage = "idle" /\ attempts < MaxAttempts
    /\ attempts' = attempts + 1
    /\ \E resume \in BOOLEAN : \E opened \in Opens(IF resume THEN ResumeOffset ELSE 0) :
          /\ part' = opened.part /\ offset' = opened.offset /\ resumed' = opened.how
          /\ read' \in ReadsFrom(opened.offset)
          /\ partTime' = IF opened.part # part THEN now ELSE partTime
          /\ untold' = (untold /\ opened.part # <<>>)
    /\ stage' \in {"copying", "idle"} /\ size' = source.length /\ pipe' = <<>>
    /\ UNCHANGED <<ends, source, final, now>>

(***************************************************************************)
(* What the server stores of what is under way                             *)
(***************************************************************************)
(* units put at their places, some left out *)
Placed(units, left) ==
    LET at == read - Len(units)
        stored == DOMAIN units \ left
        last == IF stored = {} THEN 0 ELSE at + CHOOSE i \in stored : \A j \in stored : j <= i
        length == IF last > Len(part) THEN last ELSE Len(part)
    IN  [p \in 1..length |-> IF p - at \in stored THEN units[p - at]
                             ELSE IF p <= Len(part) THEN part[p] ELSE Hole]

(* MultipartWriter::start_part *)
PartPut(units) ==
    LET number == (read - Len(units)) \div PartUnits + 1
    IN  IF units = <<>> THEN part
        ELSE [n \in 1..(IF number > Len(part) THEN number ELSE Len(part)) |->
                 IF n = number THEN units ELSE part[n]]

(* the partial file when so many units are stored *)
Stored(n) ==
    CASE resumed = "placed"   -> Placed(pipe, (n + 1)..Len(pipe))
      [] resumed = "appended" -> part \o Cut(pipe, n)
      [] resumed = "put"      -> IF n = Len(pipe) THEN pipe ELSE part
      [] resumed = "parts"    -> IF n = Len(pipe) THEN PartPut(pipe) ELSE part

(* copy_with_progress: a unit is read and written *)
Copy ==
    /\ stage = "copying" /\ read < DataEnd /\ read < source.length
    /\ resumed = "put" \/ Len(pipe) < PipeUnits
    /\ pipe' = Append(pipe, <<source.version, read + 1>>)
    /\ read' = read + 1
    /\ UNCHANGED <<ends, source, part, partTime, final, stage, resumed, size, offset, now, attempts, untold>>

(* the writer's buffer is sent: pump, start_chunk, start_part *)
Store ==
    /\ stage = "copying" /\ resumed # "put" /\ Len(pipe) = PipeUnits
    /\ part' = Stored(Len(pipe)) /\ partTime' = now /\ pipe' = <<>>
    /\ UNCHANGED <<ends, source, final, stage, resumed, size, offset, read, now, attempts, untold>>

(* an error, a cancel, a crash, or data that stop before their end (the    *)
(* reply, the exit status or the announced length tells): the first units  *)
(* are stored, of SFTP's concurrent writes any                             *)
Left ==
    IF writer = "sftp" THEN {Placed(pipe, left) : left \in SUBSET DOMAIN pipe}
    ELSE {Stored(n) : n \in 0..Len(pipe)}

Fail ==
    /\ stage = "copying"
    /\ \E left \in Left : part' = left /\ partTime' = IF left # part THEN now ELSE partTime
    /\ stage' = "idle" /\ pipe' = <<>>
    /\ UNCHANGED <<ends, source, final, resumed, size, offset, read, now, attempts, untold>>

(* the source has ended: shutdown.  scp counts what was sent; WebDAV asks  *)
(* for the size of what a PUT stored, which a server may have ended early. *)
Shutdown ==
    /\ stage = "copying" /\ read >= DataEnd
    /\ \E n \in 0..Len(pipe) :
          /\ n = Len(pipe) \/ writer = "webdav"
          /\ part' = IF resumed = "put" THEN Cut(pipe, n) ELSE Stored(n)
          /\ stage' = IF \/ writer = "webdav" /\ offset = 0 /\ Len(part') # read
                         \/ writer = "webdav" /\ offset > 0 /\ n # Len(pipe)
                         \/ writer = "scp" /\ offset = 0 /\ read # size
                      THEN "idle" ELSE "renaming"
    /\ partTime' = now /\ pipe' = <<>>
    /\ UNCHANGED <<ends, source, final, resumed, size, offset, read, now, attempts, untold>>

(* rename, or S3's complete *)
Rename ==
    /\ stage = "renaming"
    /\ \/ final' = Content /\ part' = <<>> /\ stage' = "done"
       \/ stage' = "idle" /\ UNCHANGED <<final, part>>
    /\ UNCHANGED <<ends, source, partTime, resumed, size, offset, read, pipe, now, attempts, untold>>

CopyNext == Change \/ Start \/ Copy \/ Store \/ Fail \/ Shutdown \/ Rename

CopySpec == CopyInit /\ [][CopyNext]_copyVars

(***************************************************************************)
(* Properties                                                              *)
(***************************************************************************)
(* execute_preserving, resume_offset, open_write and the writers: what a   *)
(* copy puts in place is one version of its source, from its first unit to *)
(* the last that version had, whatever was left of earlier attempts.       *)
(* Nothing is said of a source that changed while it was copied, nor, as   *)
(* long as something of a partial file is kept, of one that changed        *)
(* between two attempts and whose time is not later than that file's by    *)
(* more than the tolerance: a change within those seconds, or an older     *)
(* file in its place.  resume_offset goes on with those.                   *)
CopiedWhole ==
    stage = "done" => untold \/ \E v \in DOMAIN source.lengths : final = Version(v, source.lengths[v])
=================================================================================
