------------------------------ MODULE KeyringJobs ------------------------------
(***************************************************************************)
(* Saved passwords: engine/handlers/profiles/{mod,keyring}.rs with         *)
(* secrets/mod.rs, profiles/store/mod.rs, and what connect/mod.rs does     *)
(* with a password it was given.                                           *)
(*                                                                         *)
(* A secret is at up to three places: in the system keyring under its      *)
(* account, in the cache of the run, and as a marker in connections.toml   *)
(* that says the keyring has it.  A handler changes cache and marker at    *)
(* once; the keyring, which may ask the user to unlock it, is changed by a *)
(* queue of jobs, one at a time, whose results come back later.  A call of *)
(* the keyring that takes too long is given up, yet it goes on, and may    *)
(* land after calls made later.                                            *)
(*                                                                         *)
(* Writing connections.toml is one step; what fails there is the saving of *)
(* a profile (`StoreFailed`), not the rewriting of markers.                *)
(***************************************************************************)
EXTENDS Integers, Sequences, FiniteSets, SequencesExt, Maps

CONSTANTS
    Profiles,       \* names of saved connections
    Aliases,        \* hosts of ~/.ssh/config
    Markers,        \* "password" and the secret options of the protocol
    Unhappy,        \* what goes wrong, one of them per behaviour: of {"Failed", "TimedOut", "NoKeyring", "StoreFailed"}
    MaxSecrets,     \* bound: secrets the user types
    MaxJobs,        \* bound: keyring jobs
    MaxConnects     \* bound: connections being made at once

ASSUME MarkersAssumption == IsFiniteSet(Markers) /\ "password" \in Markers
ASSUME OwnersAssumption == Profiles \cap Aliases = {}

VARIABLES
    marks,          \* connections.toml: in_keyring of each profile, and of each alias ({} if it has no record)
    cache,          \* Inner::cache
    keyring,        \* what the system keyring holds
    available,      \* Inner::available; "unknown" until the probe has ended, and taken for available
    jobs,           \* keyring_jobs: the first one is being run
    lastJob,        \* next_keyring_job
    latest,         \* latest_keyring_job
    late,           \* calls that were given up and go on
    turn,           \* backend_turn: {} or the late call that holds it
    finished,       \* KeyringDone results that wait
    connecting,     \* the connect tasks: what they know, and how far they are
    typed,          \* how many secrets the user has typed
    unhappy,        \* what goes wrong here
    given,          \* observer: the secrets the user wants saved, by account
    told,           \* observer: accounts of whose secret an error was reported
    strays          \* observer: accounts that lost their owner with a secret on its way

keyringVars == <<marks, cache, keyring, available, jobs, lastJob, latest, late, turn, finished,
                 connecting, typed, unhappy, given, told, strays>>

Accounts(owner) == {owner} \X Markers
Password(owner) == <<owner, "password">>
AllAccounts == (Profiles \cup Aliases) \X Markers

KeyringInit ==
    /\ marks = [o \in Aliases |-> {}]
    /\ cache = Nothing /\ keyring = Nothing /\ available = "unknown"
    /\ jobs = <<>> /\ lastJob = 0 /\ latest = Nothing
    /\ late = {} /\ turn = {} /\ finished = <<>>
    /\ connecting = Nothing /\ typed = 0
    /\ unhappy \in Unhappy
    /\ given = Nothing /\ told = {} /\ strays = {}

Available == available # "no"

(***************************************************************************)
(* Calls of the keyring                                                    *)
(***************************************************************************)
Write(account, secret) == [op |-> "write", from |-> account, to |-> account, secret |-> secret]
Erase(account) == [op |-> "erase", from |-> account, to |-> account, secret |-> 0]
Move(from, to) == [op |-> "move", from |-> from, to |-> to, secret |-> 0]

(* what the keyring holds after the call *)
Performed(call) ==
    CASE call.op = "write" -> With(keyring, call.to, call.secret)
      [] call.op = "erase" -> Without(keyring, {call.to})
      [] call.op = "move" ->
           IF call.from \in DOMAIN keyring
           THEN With(Without(keyring, {call.from}), call.to, keyring[call.from])
           ELSE keyring

(* ... and after one that failed: a move may have come half way *)
Attempted(call) ==
    {keyring} \cup (IF call.op = "move" /\ call.from \in DOMAIN keyring
                    THEN {With(keyring, call.to, keyring[call.from])} ELSE {})

(***************************************************************************)
(* enqueue_keyring_job.  `restore` are the markers a failed erasing puts   *)
(* back.                                                                   *)
(***************************************************************************)
Enqueue(owner, calls, restore) ==
    /\ lastJob' = lastJob + 1
    /\ latest' = With(latest, owner, lastJob + 1)
    /\ jobs' = Append(jobs, [id |-> lastJob + 1, owner |-> owner, calls |-> calls,
                             rollback |-> {}, restore |-> restore, failed |-> FALSE])

NoJob == UNCHANGED <<jobs, lastJob, latest>>

(* profile_markers, ssh_markers *)
MarkersOf(owner) == IF owner \in DOMAIN marks THEN marks[owner] ELSE {}

(* write_markers: a profile that is gone gets none *)
Marked(m, owner, markers) == IF owner \in DOMAIN m THEN With(m, owner, markers) ELSE m

(* add_marker *)
Added(owner, marker) == Marked(marks, owner, MarkersOf(owner) \cup {marker})

(* move_profile_cache, uncache_profile *)
MovedCache(old, name) ==
    LET moved == {a \in DOMAIN cache : a[1] = old /\ old # name}
    IN  Over(Without(cache, moved), [a \in {<<name, b[2]>> : b \in moved} |-> cache[<<old, a[2]>>]])

Uncached(name) == Without(cache, Accounts(name))

(* ProfileDraft::validate: the saved secrets the form keeps; from_edits:   *)
(* those it gives anew; dropped: the others                                *)
Kept(before, edit) == {m \in before : edit[m] = "Keep"}
Replaced(edit) == {m \in Markers : edit[m] = "Replace"}
Dropped(before, kept, replaced) == before \ (kept \cup replaced)

(* mutant: apply_secret_changes writes the new secrets before it moves the old ones *)
WritesFirst(name, old, before, replaced, dropped, secret) ==
    LET ms(S) == SetToSeq(S)
    IN  [i \in DOMAIN ms(replaced) |-> Write(<<name, ms(replaced)[i]>>, secret)]
        \o [i \in DOMAIN ms(before) |-> Move(<<old, ms(before)[i]>>, <<name, ms(before)[i]>>)]
        \o [i \in DOMAIN ms(dropped) |-> Erase(<<name, ms(dropped)[i]>>)]

(* the calls of apply_secret_changes' job: `old` is the name before *)
ChangeCalls(name, old, before, replaced, dropped, secret) ==
    LET ms(S) == SetToSeq(S)
    IN  (IF old = name THEN <<>>
         ELSE [i \in DOMAIN ms(before) |-> Move(<<old, ms(before)[i]>>, <<name, ms(before)[i]>>)])
        \o [i \in DOMAIN ms(replaced) |-> Write(<<name, ms(replaced)[i]>>, secret)]
        \o [i \in DOMAIN ms(dropped) |-> Erase(<<name, ms(dropped)[i]>>)]

(* apply_secret_changes, with the profile saved as it is in `saved` *)
ApplySecretChanges(saved, name, old, before, kept, replaced, secret) ==
    LET dropped == Dropped(before, kept, replaced)
        moves == old # name /\ before # {}
    IN  /\ cache' = Over(Without(MovedCache(old, name), {name} \X dropped), [a \in {name} \X replaced |-> secret])
        /\ IF Available /\ (moves \/ replaced # {} \/ dropped # {})
           THEN /\ marks' = Marked(saved, name, kept \cup replaced)
                /\ Enqueue(name, ChangeCalls(name, old, before, replaced, dropped, secret), {})
           ELSE marks' = saved /\ NoJob

(***************************************************************************)
(* Commands                                                                *)
(***************************************************************************)
(* save_profile: a new connection (original = name, not stored yet) or an  *)
(* edited one, whose form was opened for `original`, maybe deleted since.  *)
SaveProfile(original, name, edit) ==
    LET before == MarkersOf(original)
        kept == Kept(before, edit)
        replaced == Replaced(edit)
        \* what the user wants saved from now on, under the new name
        wanted == Over([a \in {name} \X {m \in kept : <<original, m>> \in DOMAIN given} |-> given[<<original, a[2]>>]],
                       [a \in {name} \X replaced |-> typed + 1])
    IN  /\ lastJob < MaxJobs /\ (replaced # {} => typed < MaxSecrets)
        /\ name \in DOMAIN marks => name = original          \* else it is rejected
        /\ typed' = IF replaced # {} THEN typed + 1 ELSE typed
        /\ given' = Over(Without(given, Accounts(original) \cup Accounts(name)), IF Available THEN wanted ELSE Nothing)
        /\ ApplySecretChanges(With(Without(marks, {original}), name, kept), name, original, before, kept, replaced, typed + 1)
        /\ UNCHANGED <<unhappy, keyring, available, late, turn, finished, connecting, told, strays>>

(* save_profile when connections.toml cannot be written: a profile that is *)
(* renamed may be deleted already                                          *)
SaveFails(original, name) ==
    /\ unhappy = "StoreFailed"
    /\ original \in DOMAIN marks /\ name \notin DOMAIN marks
    /\ marks' = Without(marks, {original})
    /\ told' = told \cup Accounts(original)
    /\ strays' = strays \cup Accounts(original)
    /\ UNCHANGED <<unhappy, cache, keyring, available, jobs, lastJob, latest, late, turn, finished, connecting, typed, given>>

(* forget_profile_secrets *)
ForgetProfileSecrets(name, saved) ==
    /\ cache' = Uncached(name)
    /\ IF saved = {} \/ ~Available THEN NoJob
       ELSE Enqueue(name, LET ms == SetToSeq(saved) IN [i \in DOMAIN ms |-> Erase(<<name, ms[i]>>)], {})

DeleteProfile(name) ==
    /\ lastJob < MaxJobs
    /\ name \in Profiles \cap DOMAIN marks
    /\ marks' = Without(marks, {name})
    /\ given' = Without(given, Accounts(name))
    /\ ForgetProfileSecrets(name, marks[name])
    /\ UNCHANGED <<unhappy, keyring, available, late, turn, finished, connecting, typed, told, strays>>

(* move_ssh_password *)
MoveSshPassword(from, to) ==
    /\ cache' = IF Password(from) \in DOMAIN cache
                THEN With(Without(cache, {Password(from)}), Password(to), cache[Password(from)]) ELSE cache
    /\ IF Available THEN Enqueue(to, <<Move(Password(from), Password(to))>>, {}) ELSE NoJob

(* move_ssh_labels: the record of `to` is replaced, and with it the marker *)
(* of a password it may have                                               *)
MoveSshLabels(from, to) ==
    /\ lastJob < MaxJobs
    /\ from # to
    /\ marks' = [marks EXCEPT ![from] = {}, ![to] = marks[from]]
    /\ IF marks[from] = {}
       THEN /\ strays' = IF marks[to] # {} THEN strays \cup {Password(to)} ELSE strays
            /\ given' = Without(given, {Password(from), Password(to)})
            /\ UNCHANGED cache /\ NoJob
       ELSE /\ MoveSshPassword(from, to)
            /\ given' = IF Password(from) \in DOMAIN given
                        THEN With(Without(given, {Password(from)}), Password(to), given[Password(from)])
                        ELSE Without(given, {Password(to)})
            /\ UNCHANGED strays
    /\ UNCHANGED <<unhappy, keyring, available, late, turn, finished, connecting, typed, told>>

(* drop_ssh_password: `saved` is what was marked, and is no more in `left` *)
DropSshPassword(alias, saved, left, keepRecord) ==
    /\ cache' = Without(cache, {Password(alias)})
    /\ IF saved = {} \/ ~Available
       THEN marks' = left /\ NoJob
       ELSE /\ marks' = [left EXCEPT ![alias] = {}]
            /\ Enqueue(alias, <<Erase(Password(alias))>>, IF keepRecord THEN saved ELSE {})
    /\ given' = Without(given, {Password(alias)})
    /\ UNCHANGED <<unhappy, keyring, available, late, turn, finished, connecting, typed, told, strays>>

ForgetSshLabels(alias) ==
    /\ lastJob < MaxJobs
    /\ DropSshPassword(alias, marks[alias], [marks EXCEPT ![alias] = {}], FALSE)

(* forget_ssh_password: the record stays *)
ForgetSshPassword(alias) ==
    /\ lastJob < MaxJobs
    /\ DropSshPassword(alias, marks[alias], marks, TRUE)

(***************************************************************************)
(* Connecting: secured_target looks the password up, finish_connect keeps  *)
(* one that was typed.                                                     *)
(***************************************************************************)
ConnectProfile(owner) ==
    /\ owner \in DOMAIN marks \ DOMAIN connecting
    /\ Cardinality(DOMAIN connecting) < MaxConnects
    /\ connecting' = With(connecting, owner, [saved |-> "password" \in marks[owner], at |-> "lookup", found |-> 0])
    /\ UNCHANGED <<unhappy, marks, cache, keyring, available, jobs, lastJob, latest, late, turn, finished, typed, given, told, strays>>

Lookup(owner) ==
    /\ owner \in DOMAIN connecting
    /\ \/ /\ connecting[owner].at = "lookup"
          /\ LET reads == Password(owner) \notin DOMAIN cache /\ connecting[owner].saved /\ Available
             IN  \/ /\ reads /\ turn = {} /\ Password(owner) \in DOMAIN keyring
                    /\ connecting' = [connecting EXCEPT ![owner].at = "insert", ![owner].found = keyring[Password(owner)]]
                 \/ /\ reads => unhappy \in {"Failed", "TimedOut"} \/ Password(owner) \notin DOMAIN keyring
                    /\ connecting' = [connecting EXCEPT ![owner].at = "connect"]
          /\ UNCHANGED cache
       \/ /\ connecting[owner].at = "insert"
          /\ cache' = With(cache, Password(owner), connecting[owner].found)
          /\ connecting' = [connecting EXCEPT ![owner].at = "connect"]
    /\ UNCHANGED <<unhappy, marks, keyring, available, jobs, lastJob, latest, late, turn, finished, typed, given, told, strays>>

(* save_typed_password; a profile deleted meanwhile gets no marker, yet    *)
(* its secret is written                                                   *)
SaveTypedPassword(owner, secret) ==
    IF ~Available THEN UNCHANGED <<marks, given, strays>> /\ NoJob
    ELSE /\ marks' = Added(owner, "password")
         /\ given' = IF owner \in DOMAIN marks THEN With(given, Password(owner), secret) ELSE given
         /\ strays' = IF owner \in DOMAIN marks THEN strays ELSE strays \cup {Password(owner)}
         /\ Enqueue(owner, <<Write(Password(owner), secret)>>, {})

(* keep_typed_password *)
KeepTypedPassword(owner, save) ==
    /\ typed < MaxSecrets /\ lastJob < MaxJobs
    /\ typed' = typed + 1
    /\ cache' = With(cache, Password(owner), typed + 1)
    /\ IF save THEN SaveTypedPassword(owner, typed + 1)
       ELSE UNCHANGED <<marks, given, strays>> /\ NoJob

(* finish_connect; or the connection failed, or nobody had to type         *)
EndConnect(owner) ==
    /\ owner \in DOMAIN connecting
    /\ connecting[owner].at = "connect"
    /\ connecting' = Without(connecting, {owner})
    /\ \/ UNCHANGED <<marks, cache, typed, given, strays>> /\ NoJob
       \/ \E save \in BOOLEAN : KeepTypedPassword(owner, save)
    /\ UNCHANGED <<unhappy, keyring, available, late, turn, finished, told>>

(***************************************************************************)
(* The queue, and the calls that were given up                             *)
(***************************************************************************)
Probe ==
    /\ available = "unknown"
    /\ \/ available' = "yes" /\ UNCHANGED told
       \/ unhappy = "NoKeyring" /\ available' = "no" /\ told' = AllAccounts
    /\ UNCHANGED <<unhappy, marks, cache, keyring, jobs, lastJob, latest, late, turn, finished, connecting, typed, given, strays>>

(* an error about one account's secret is one about where it is moved to   *)
Follows(S, call) == IF call.op = "move" /\ call.from \in S THEN S \cup {call.to} ELSE S

(* the first job after its next call *)
CallTaken(failed, rollback) ==
    [jobs EXCEPT ![1] = [jobs[1] EXCEPT !.calls = Tail(jobs[1].calls), !.failed = failed, !.rollback = rollback]]

(* the next call of the first job: it works, it fails, or it is given up;  *)
(* a keyring that is not available is not called                           *)
RunCall ==
    /\ jobs # <<>>
    /\ jobs[1].calls # <<>>
    /\ LET call == Head(jobs[1].calls)
           failed == jobs[1].failed
           rollback == jobs[1].rollback
           undone == IF call.op = "erase" THEN rollback ELSE rollback \cup {call.to[2]}
       IN  \/ /\ Available /\ turn = {}
              /\ keyring' = Performed(call)
              /\ jobs' = CallTaken(failed, rollback)
              /\ told' = Follows(told, call) /\ strays' = Follows(strays, call)
              /\ UNCHANGED <<late, turn>>
           \/ /\ ~Available
              /\ jobs' = CallTaken(failed, IF call.op = "write" THEN undone ELSE rollback)
              /\ UNCHANGED <<keyring, late, turn, told, strays>>
           \/ /\ Available /\ turn = {} /\ unhappy = "Failed"
              /\ keyring' \in Attempted(call)
              /\ jobs' = CallTaken(TRUE, undone)
              /\ told' = told \cup {call.from, call.to}
              /\ UNCHANGED <<late, turn, strays>>
           \/ /\ Available /\ unhappy = "TimedOut"
              /\ jobs' = CallTaken(TRUE, undone)
              /\ told' = told \cup {call.from, call.to}
              /\ late' = late \cup {call}
              /\ turn' \in {turn} \cup (IF turn = {} THEN {{call}} ELSE {})   \* it hangs, or waits behind a read
              /\ UNCHANGED <<keyring, strays>>
    /\ UNCHANGED <<unhappy, marks, cache, available, lastJob, latest, finished, connecting, typed, given>>

LateLands ==
    /\ \E call \in late :
         /\ turn \in {{}, {call}}
         /\ keyring' \in {Performed(call)} \cup Attempted(call)
         /\ late' = late \ {call}
         /\ turn' = {}
    /\ UNCHANGED <<unhappy, marks, cache, available, jobs, lastJob, latest, finished, connecting, typed, given, told, strays>>

JobEnds ==
    /\ jobs # <<>>
    /\ jobs[1].calls = <<>>
    /\ finished' = Append(finished, [id |-> jobs[1].id, owner |-> jobs[1].owner, rollback |-> jobs[1].rollback,
                                     restore |-> IF jobs[1].failed THEN jobs[1].restore ELSE {}])
    /\ jobs' = Tail(jobs)
    /\ UNCHANGED <<unhappy, marks, cache, keyring, available, lastJob, latest, late, turn, connecting, typed, given, told, strays>>

(* mutant: every job that failed takes its markers back, the latest or not *)
SettledAlways(done) == Marked(marks, done.owner, (marks[done.owner] \ done.rollback) \cup done.restore)

(* the markers after finish_keyring_job *)
Settled(done) ==
    IF done.owner \in DOMAIN latest /\ latest[done.owner] = done.id
    THEN Marked(marks, done.owner, (marks[done.owner] \ done.rollback) \cup done.restore)
    ELSE marks

(* finish_keyring_job *)
FinishJob ==
    /\ finished # <<>>
    /\ LET done == Head(finished)
       IN  /\ marks' = IF done.owner \in DOMAIN marks THEN Settled(done) ELSE marks
           /\ latest' = IF done.owner \in DOMAIN latest /\ latest[done.owner] = done.id
                        THEN Without(latest, {done.owner}) ELSE latest
    /\ finished' = Tail(finished)
    /\ UNCHANGED <<unhappy, cache, keyring, available, jobs, lastJob, late, turn, connecting, typed, given, told, strays>>

KeyringCommand ==
    \/ \E original, name \in Profiles, edit \in [Markers -> {"Keep", "Clear", "Replace"}] :
         SaveProfile(original, name, edit)
    \/ \E original, name \in Profiles : SaveFails(original, name)
    \/ \E name \in Profiles : DeleteProfile(name)
    \/ \E from, to \in Aliases : MoveSshLabels(from, to)
    \/ \E alias \in Aliases : ForgetSshLabels(alias) \/ ForgetSshPassword(alias)

KeyringNext ==
    \/ KeyringCommand
    \/ Probe \/ RunCall \/ LateLands \/ JobEnds \/ FinishJob
    \/ \E owner \in Profiles \cup Aliases : ConnectProfile(owner) \/ Lookup(owner) \/ EndConnect(owner)

KeyringSpec == KeyringInit /\ [][KeyringNext]_keyringVars

(***************************************************************************)
(* Properties                                                              *)
(***************************************************************************)
Quiet == jobs = <<>> /\ finished = <<>> /\ late = {} /\ connecting = Nothing

(* secrets/mod.rs and apply_secret_changes: when all is quiet the keyring  *)
(* holds exactly the secrets that are marked, each the one the user gave   *)
(* last, whatever was renamed, moved, replaced and dropped while jobs were *)
(* queued; but for secrets of which an error was reported, and those that  *)
(* lost their owner (see DeletedLeavesNothing).                            *)
KeyringAgrees ==
    Quiet => \A a \in AllAccounts \ (told \cup strays) :
      /\ a \in DOMAIN keyring <=> (a[1] \in DOMAIN marks /\ a[2] \in marks[a[1]])
      /\ a \in DOMAIN keyring <=> a \in DOMAIN given
      /\ a \in DOMAIN keyring => keyring[a] = given[a]

(* finish_keyring_job: a secret that a queued job is yet to bring into the *)
(* keyring stays marked, whatever jobs before it failed at; without the    *)
(* marker nobody would look it up, or erase it.                            *)
Touching(a) == {x \in (1..Len(jobs)) \X (1..Cardinality(Markers) * 3) :
                  /\ x[2] <= Len(jobs[x[1]].calls)
                  /\ LET call == jobs[x[1]].calls[x[2]] IN call.to = a \/ call.from = a}

MarkersAhead ==
    \A a \in AllAccounts \ strays : Touching(a) # {} /\ a[1] \in DOMAIN marks =>
      LET last == CHOOSE x \in Touching(a) :
                    \A y \in Touching(a) : y[1] < x[1] \/ (y[1] = x[1] /\ y[2] <= x[2])
          call == jobs[last[1]].calls[last[2]]
      IN  call.op = "write" /\ Available => a[2] \in marks[a[1]]

(* engine/handlers/profiles/tests.rs:597,                                  *)
(* a_profile_deleted_before_its_secret_was_stored_leaves_nothing_behind:   *)
(* the keyring holds no secret of a profile that does not exist, unless an *)
(* error told of it.                                                       *)
DeletedLeavesNothing ==
    Quiet => \A a \in DOMAIN keyring \ told : a[1] \in Profiles => a[1] \in DOMAIN marks
=================================================================================
