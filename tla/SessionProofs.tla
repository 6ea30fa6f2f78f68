----------------------------- MODULE SessionProofs -----------------------------
(***************************************************************************)
(* Theorems about the sessions of servers: a password goes only where the  *)
(* server was accepted, and a profile is connected once; an S3 upload is   *)
(* completed with all its parts and no other; no command of an FTP session *)
(* takes the answer of another.  And about a file panel: it shows its      *)
(* folder, and the cursor is on the row it was put on.                     *)
(***************************************************************************)
EXTENDS Connections, S3Uploads, FtpPool, Panels, FiniteSetTheorems, WellFoundedInduction, TLAPS

(***************************************************************************)
(* Connections: any profiles, hosts, keys and words, any number of connects*)
(***************************************************************************)
Protocols == {"ssh", "ftp", "webdav", "s3"}
Tried == {"ssh", "ftp"}         \* a typed password is tried on the connection they have
Places == {"begin", "contact", "trust", "remember", "rename", "login", "password", "try"}
Pins == [Hosts -> SUBSET (Keys \cup {0})]
KnownFits(files) ==
    /\ files \in [Stores \cup {"temporary"} -> Pins \cup {<<>>}]
    /\ \A store \in Stores : files[store] \in Pins

(* what a saved profile is *)
SetupsSound ==
    /\ Keys # {} /\ Words # {}
    /\ \A s \in Setups : \A p \in DOMAIN s :
         s[p].host \in Hosts /\ s[p].protocol \in Protocols

Word == Words \cup {0}
Key == Keys \cup {0}
Tasks == [of : Profiles, at : Places, secret : Word, typed : Word, key : Key,
          loaded : Pins \cup {<<>>}, moved : BOOLEAN]
Results == [id : Nat, of : Profiles, ok : BOOLEAN, typed : Word, key : Key]

ConnectTypeOK ==
    /\ setup \in Setups
    /\ servers \in [Hosts -> [key : Keys, word : Words]]
    /\ KnownFits(known)
    /\ cache \in [Profiles -> Word]
    /\ tasks \in [DOMAIN tasks -> Tasks] /\ DOMAIN tasks \subseteq Nat
    /\ internal \in Seq(Results)
    /\ sessions \in [DOMAIN sessions -> [of : Profiles, key : Key]]
    /\ nextId \in Nat

(* what is known, or about to be, was agreed to *)
PinsAgreed ==
    /\ \A store \in Stores, host \in Hosts : \A key \in known[store][host] : <<store, host, key>> \in agreed
    /\ known["temporary"] # <<>> =>
         \A host \in Hosts : \A key \in known["temporary"][host] : <<"certificates", host, key>> \in agreed

Trust(p, key, by) == setup[p].secure => <<Store(p), setup[p].host, key>> \in by

(* of a task: where its key stands for somebody's agreement, and where a *)
(* typed password may be                                                 *)
AgreedTo(t, by) ==
    /\ t.key # 0 /\ t.at \notin {"trust", "remember", "rename"} => Trust(t.of, t.key, by)
    /\ t.at \in {"login", "try"} => Trust(t.of, t.key, by)
    /\ t.at = "password" /\ setup[t.of].protocol \in Tried => Trust(t.of, t.key, by)
    /\ t.at = "remember" =>
         /\ <<"certificates", setup[t.of].host, t.key>> \in by
         /\ t.loaded \in Pins
         /\ \A host \in Hosts : \A key \in t.loaded[host] : <<"certificates", host, key>> \in by

TypedAt(t) ==
    /\ t.typed # 0 => t.at = "try" \/ setup[t.of].protocol \notin Tried
    /\ setup[t.of].protocol = "webdav" /\ setup[t.of].open => t.typed = 0 /\ t.at # "password"

(* of the result of a connect *)
Succeeds(done, by, ok) ==
    done.ok => /\ Trust(done.of, done.key, by)
               /\ done.typed # 0 => <<done.of, done.typed>> \in ok

TasksAgreed == \A id \in DOMAIN tasks : AgreedTo(tasks[id], agreed) /\ TypedAt(tasks[id])
ResultsAgreed == \A i \in 1..Len(internal) : Succeeds(internal[i], agreed, accepted)
SessionsAgreed == \A id \in DOMAIN sessions : Trust(sessions[id].of, sessions[id].key, agreed)
CacheAccepted == \A p \in Profiles : cache[p] # 0 => <<p, cache[p]>> \in accepted

IInv == ConnectTypeOK /\ PinsAgreed /\ TasksAgreed /\ ResultsAgreed /\ SessionsAgreed /\ CacheAccepted

(* what a step of a task leaves alone, and what it only adds to *)
Aside ==
    /\ UNCHANGED <<setup, servers, cache, sessions, nextId>>
    /\ agreed \subseteq agreed' /\ accepted \subseteq accepted'

---------------------------------------------------------------------------
LEMMA ProfileSound ==
    ASSUME SetupsSound, setup \in Setups, NEW p \in Profiles
    PROVE  setup[p].host \in Hosts /\ setup[p].protocol \in Protocols
  BY DEF SetupsSound, Profiles

(* a task that goes on as t *)
LEMMA GoesOnKeeps ==
    ASSUME IInv, Aside, NEW id \in DOMAIN tasks, NEW t \in Tasks, GoesOn(id, t),
           KnownFits(known'), PinsAgreed',
           AgreedTo(t, agreed'), TypedAt(t)
    PROVE  IInv'
<1>1. DOMAIN tasks' = DOMAIN tasks /\ tasks'[id] = t /\ \A j \in DOMAIN tasks \ {id} : tasks'[j] = tasks[j]
  BY DEF GoesOn, IInv, ConnectTypeOK
<1>2. Profiles' = Profiles /\ Tasks' = Tasks /\ Results' = Results
  BY DEF Aside, Profiles, Tasks, Results, Word, Key, Pins, Places
<1>3. ConnectTypeOK'
  <2>1. tasks' \in [DOMAIN tasks' -> Tasks] /\ DOMAIN tasks' \subseteq Nat
    BY <1>1 DEF IInv, ConnectTypeOK, GoesOn
  <2> QED
    BY <1>2, <2>1 DEF IInv, ConnectTypeOK, Aside, GoesOn, Word, Key
<1>4. ASSUME NEW j \in DOMAIN tasks PROVE AgreedTo(tasks[j], agreed')
  BY <1>4 DEF IInv, TasksAgreed, AgreedTo, Trust, Aside
<1>5. TasksAgreed'
  <2> SUFFICES ASSUME NEW j \in DOMAIN tasks' PROVE AgreedTo(tasks'[j], agreed') /\ TypedAt(tasks'[j])
    BY DEF TasksAgreed, AgreedTo, TypedAt, Trust, Store, Aside, Pins, Tried
  <2> QED
    BY <1>1, <1>4 DEF IInv, TasksAgreed
<1>6. ResultsAgreed'
  BY DEF IInv, ResultsAgreed, Succeeds, Trust, Store, Aside, GoesOn
<1>7. SessionsAgreed'
  BY DEF IInv, SessionsAgreed, Trust, Store, Aside
<1>8. CacheAccepted'
  BY <1>2 DEF IInv, CacheAccepted, Aside
<1> QED
  BY <1>3, <1>5, <1>6, <1>7, <1>8 DEF IInv

(* a task that ends; its result is good *)
LEMMA EndsKeeps ==
    ASSUME IInv, Aside, NEW id \in DOMAIN tasks, NEW ok \in BOOLEAN, Ends(id, ok),
           known' = known,
           ok => /\ Trust(tasks[id].of, tasks[id].key, agreed)
                 /\ tasks[id].typed # 0 => <<tasks[id].of, tasks[id].typed>> \in accepted'
    PROVE  IInv'
<1> DEFINE done == [id |-> id, of |-> tasks[id].of, ok |-> ok, typed |-> tasks[id].typed, key |-> tasks[id].key]
<1>1. Profiles' = Profiles /\ Tasks' = Tasks /\ Results' = Results
  BY DEF Aside, Profiles, Tasks, Results, Word, Key, Pins, Places
<1>2. tasks[id] \in Tasks /\ id \in Nat
  BY DEF IInv, ConnectTypeOK
<1>3. done \in Results
  BY <1>2 DEF Tasks, Results
<1>4. internal' = Append(internal, done) /\ internal \in Seq(Results)
  BY DEF Ends, IInv, ConnectTypeOK
<1>5. internal' \in Seq(Results)
  BY <1>3, <1>4
<1>6. tasks' = [j \in DOMAIN tasks \ {id} |-> tasks[j]]
  BY DEF Ends, Without
<1>7. ConnectTypeOK'
  <2>1. tasks' \in [DOMAIN tasks' -> Tasks] /\ DOMAIN tasks' \subseteq Nat
    BY <1>6 DEF IInv, ConnectTypeOK
  <2> QED
    BY <1>1, <1>5, <2>1 DEF IInv, ConnectTypeOK, Aside, Word, Key
<1>8. PinsAgreed'
  BY DEF IInv, PinsAgreed, Aside
<1>9. TasksAgreed'
  <2> SUFFICES ASSUME NEW j \in DOMAIN tasks' PROVE AgreedTo(tasks'[j], agreed') /\ TypedAt(tasks'[j])
    BY DEF TasksAgreed, AgreedTo, TypedAt, Trust, Store, Aside, Pins, Tried
  <2>1. j \in DOMAIN tasks /\ tasks'[j] = tasks[j]
    BY <1>6
  <2>2. AgreedTo(tasks[j], agreed) /\ TypedAt(tasks[j])
    BY <2>1 DEF IInv, TasksAgreed
  <2> QED
    BY <2>1, <2>2 DEF AgreedTo, Trust, Aside
<1>10. ResultsAgreed'
  <2> SUFFICES ASSUME NEW i \in 1..Len(internal') PROVE Succeeds(internal'[i], agreed', accepted')
    BY DEF ResultsAgreed, Succeeds, Trust, Store, Aside
  <2>1. CASE i <= Len(internal)
    <3>1. i \in 1..Len(internal) /\ internal'[i] = internal[i]
      BY <1>4, <2>1
    <3> QED
      BY <3>1 DEF IInv, ResultsAgreed, Succeeds, Trust, Aside
  <2>2. CASE ~(i <= Len(internal))
    <3>1. internal'[i] = done
      BY <1>4, <2>2
    <3> QED
      BY <3>1 DEF Succeeds, Trust, Aside
  <2> QED
    BY <2>1, <2>2
<1>11. SessionsAgreed'
  BY DEF IInv, SessionsAgreed, Trust, Store, Aside
<1>12. CacheAccepted'
  BY <1>1 DEF IInv, CacheAccepted, Aside
<1> QED
  BY <1>7, <1>8, <1>9, <1>10, <1>11, <1>12 DEF IInv

---------------------------------------------------------------------------
(* the steps of a task *)
LEMMA BeginKeeps ==
    ASSUME SetupsSound, IInv, Aside, NEW id \in DOMAIN tasks, Begin(id)
    PROVE  IInv'
<1> DEFINE t == tasks[id]
           next == [t EXCEPT !.secret = cache[t.of],
                             !.at = IF setup[t.of].protocol = "s3" /\ cache[t.of] = 0 THEN "password" ELSE "contact"]
<1>1. t \in Tasks /\ cache[t.of] \in Word /\ AgreedTo(t, agreed) /\ TypedAt(t)
  BY DEF IInv, ConnectTypeOK, TasksAgreed, Tasks
<1>2. next \in Tasks
  BY <1>1 DEF Tasks, Places
<1>3. AgreedTo(next, agreed') /\ TypedAt(next)
  BY <1>1 DEF Begin, AgreedTo, TypedAt, Trust, Tasks, Tried, Aside
<1>4. PinsAgreed' /\ KnownFits(known') /\ GoesOn(id, next)
  BY DEF Begin, IInv, PinsAgreed, ConnectTypeOK, Aside
<1> QED
  BY <1>2, <1>3, <1>4, GoesOnKeeps

LEMMA MetKeeps ==
    ASSUME SetupsSound, IInv, Aside, NEW id \in DOMAIN tasks, NEW next \in {"login", "trust"},
           known' = known, tasks[id].at = "contact", Met(id, next),
           next = "login" => Trust(tasks[id].of, Server(tasks[id].of).key, agreed)
    PROVE  IInv'
<1> DEFINE t == tasks[id]
           met == [t EXCEPT !.key = Server(t.of).key, !.at = next]
<1>1. t \in Tasks /\ AgreedTo(t, agreed) /\ TypedAt(t)
  BY DEF IInv, ConnectTypeOK, TasksAgreed
<1>2. Server(t.of).key \in Key
  <2>1. setup[t.of].host \in Hosts
    BY <1>1, ProfileSound DEF Tasks, IInv, ConnectTypeOK
  <2> QED
    BY <2>1 DEF Server, Key, IInv, ConnectTypeOK
<1>3. met \in Tasks
  BY <1>1, <1>2 DEF Tasks, Places
<1>4. AgreedTo(met, agreed') /\ TypedAt(met)
  BY <1>1 DEF AgreedTo, TypedAt, Trust, Tasks, Tried, Aside
<1>5. PinsAgreed' /\ KnownFits(known') /\ GoesOn(id, met)
  BY DEF Met, IInv, PinsAgreed, ConnectTypeOK, Aside
<1> QED
  BY <1>3, <1>4, <1>5, GoesOnKeeps

LEMMA ContactKeeps ==
    ASSUME SetupsSound, IInv, Aside, NEW id \in DOMAIN tasks, Contact(id)
    PROVE  IInv'
<1> DEFINE t == tasks[id]
<1>1. t \in Tasks /\ AgreedTo(t, agreed) /\ TypedAt(t)
  BY DEF IInv, ConnectTypeOK, TasksAgreed
<1>2. t.of \in Profiles /\ setup[t.of].host \in Hosts
  BY <1>1, ProfileSound DEF Tasks, IInv, ConnectTypeOK
<1>3. CASE Opened(id)
  <2>1. Trust(t.of, Server(t.of).key, agreed)
    BY <1>2, <1>3 DEF Opened, OpensAnew, Meet, Trust, Pinned, Store, Stores, IInv, PinsAgreed
  <2> QED
    BY <1>3, <2>1, MetKeeps DEF Opened, OpensAnew
<1>4. CASE ProbesAgain(id)
  <2> DEFINE next == [t EXCEPT !.at = "login"]
  <2>1. next \in Tasks
    BY <1>1 DEF Tasks, Places
  <2>2. AgreedTo(next, agreed') /\ TypedAt(next)
    BY <1>1, <1>4 DEF ProbesAgain, AgreedTo, TypedAt, Trust, Tasks, Tried, Aside
  <2>3. PinsAgreed' /\ KnownFits(known') /\ GoesOn(id, next)
    BY <1>4 DEF ProbesAgain, IInv, PinsAgreed, ConnectTypeOK, Aside
  <2> QED
    BY <2>1, <2>2, <2>3, GoesOnKeeps
<1>5. CASE AsksToTrust(id)
  BY <1>5, MetKeeps, EndsKeeps DEF AsksToTrust, OpensAnew
<1>6. CASE Refuses(id)
  BY <1>6, EndsKeeps DEF Refuses, OpensAnew
<1> QED
  BY <1>3, <1>4, <1>5, <1>6 DEF Contact

(* a task at the login that is asked for a password *)
LEMMA AsksKeeps ==
    ASSUME IInv, Aside, NEW id \in DOMAIN tasks, known' = known, Asks(id), tasks[id].at = "login",
           ~(setup[tasks[id].of].protocol = "webdav" /\ setup[tasks[id].of].open)
    PROVE  IInv'
<1> DEFINE t == tasks[id]
           next == [t EXCEPT !.at = "password"]
<1>1. t \in Tasks /\ AgreedTo(t, agreed) /\ TypedAt(t)
  BY DEF IInv, ConnectTypeOK, TasksAgreed
<1>2. next \in Tasks
  BY <1>1 DEF Tasks, Places
<1>3. AgreedTo(next, agreed') /\ TypedAt(next)
  BY <1>1 DEF AgreedTo, TypedAt, Trust, Tasks, Tried, Aside
<1>4. PinsAgreed' /\ KnownFits(known') /\ GoesOn(id, next)
  BY DEF Asks, IInv, PinsAgreed, ConnectTypeOK, Aside
<1> QED
  BY <1>2, <1>3, <1>4, GoesOnKeeps

(* a login that succeeds; what was typed was accepted *)
LEMMA SucceedsKeeps ==
    ASSUME IInv, Aside, NEW id \in DOMAIN tasks, known' = known, tasks[id].at \in {"login", "try"}, NEW ok \in BOOLEAN, Ends(id, ok),
           ok /\ tasks[id].typed # 0 => <<tasks[id].of, tasks[id].typed>> \in accepted'
    PROVE  IInv'
<1>1. Trust(tasks[id].of, tasks[id].key, agreed)
  BY DEF IInv, TasksAgreed, AgreedTo
<1> QED
  BY <1>1, EndsKeeps

LEMMA AcceptsAdds ==
    ASSUME NEW p, NEW word, Accepts(p, word)
    PROVE  accepted \subseteq accepted' /\ (Right(p, word) => <<p, word>> \in accepted')
  BY DEF Accepts

LEMMA LoginKeeps ==
    ASSUME SetupsSound, IInv, Aside, NEW id \in DOMAIN tasks, Login(id)
    PROVE  IInv'
<1> DEFINE t == tasks[id]
           word == IF t.typed # 0 THEN t.typed ELSE t.secret
<1>1. t \in Tasks /\ AgreedTo(t, agreed) /\ TypedAt(t) /\ t.at = "login" /\ known' = known
  BY DEF IInv, ConnectTypeOK, TasksAgreed, Login
<1>2. setup[t.of].protocol \in Protocols
  BY <1>1, ProfileSound DEF Tasks, IInv, ConnectTypeOK
<1>3. CASE setup[t.of].protocol = "ssh"
  <2>1. LoginSsh(id) /\ t.typed = 0
    BY <1>1, <1>3 DEF Login, TypedAt, Tried
  <2>2. CASE Ends(id, TRUE)
    BY <1>1, <2>1, <2>2, SucceedsKeeps
  <2>3. CASE Asks(id)
    BY <1>1, <1>3, <2>3, AsksKeeps
  <2> QED
    BY <2>1, <2>2, <2>3 DEF LoginSsh
<1>4. CASE setup[t.of].protocol = "ftp"
  <2>1. LoginFtp(id) /\ t.typed = 0
    BY <1>1, <1>4 DEF Login, TypedAt, Tried
  <2>2. CASE Ends(id, TRUE) \/ Ends(id, FALSE)
    BY <1>1, <2>1, <2>2, SucceedsKeeps
  <2>3. CASE Asks(id)
    BY <1>1, <1>4, <2>3, AsksKeeps
  <2> QED
    BY <2>1, <2>2, <2>3 DEF LoginFtp
<1>5. CASE setup[t.of].protocol = "webdav"
  <2>1. LoginWebDav(id) /\ (setup[t.of].open => t.typed = 0)
    BY <1>1, <1>5 DEF Login, TypedAt
  <2>2. Right(t.of, word) => <<t.of, word>> \in accepted'
    BY <2>1, AcceptsAdds DEF LoginWebDav
  <2>3. CASE (setup[t.of].open \/ Right(t.of, word)) /\ Ends(id, TRUE)
    BY <1>1, <2>1, <2>2, <2>3, SucceedsKeeps
  <2>4. CASE Ends(id, FALSE)
    BY <1>1, <2>4, SucceedsKeeps
  <2>5. CASE ~setup[t.of].open /\ Asks(id)
    BY <1>1, <2>5, AsksKeeps
  <2> QED
    BY <2>1, <2>3, <2>4, <2>5 DEF LoginWebDav
<1>6. CASE setup[t.of].protocol = "s3"
  <2>1. LoginS3(id)
    BY <1>1, <1>6 DEF Login
  <2>2. CASE GoesOn(id, [t EXCEPT !.moved = TRUE, !.at = "contact"])
    <3> DEFINE next == [t EXCEPT !.moved = TRUE, !.at = "contact"]
    <3>1. next \in Tasks
      BY <1>1 DEF Tasks, Places
    <3>2. AgreedTo(next, agreed') /\ TypedAt(next)
      BY <1>1, <1>6 DEF AgreedTo, TypedAt, Trust, Tasks, Tried, Aside
    <3>3. PinsAgreed' /\ KnownFits(known')
      BY <1>1 DEF IInv, PinsAgreed, ConnectTypeOK, Aside
    <3> QED
      BY <2>2, <3>1, <3>2, <3>3, GoesOnKeeps
  <2>3. CASE Right(t.of, word) /\ Ends(id, TRUE) /\ Accepts(t.of, word)
    <3>1. <<t.of, word>> \in accepted'
      BY <2>3, AcceptsAdds
    <3> QED
      BY <1>1, <2>3, <3>1, SucceedsKeeps
  <2>4. CASE Ends(id, FALSE)
    BY <1>1, <2>4, SucceedsKeeps
  <2>5. CASE Asks(id)
    BY <1>1, <1>6, <2>5, AsksKeeps
  <2> QED
    BY <2>1, <2>2, <2>3, <2>4, <2>5 DEF LoginS3
<1> QED
  BY <1>2, <1>3, <1>4, <1>5, <1>6 DEF Protocols

(* somebody confirmed the key of a host, or a certificate *)
LEMMA TrustedKeeps ==
    ASSUME SetupsSound, IInv, Aside, NEW id \in DOMAIN tasks, Trusted(id)
    PROVE  IInv'
<1> DEFINE t == tasks[id]
           host == setup[t.of].host
<1>1. t \in Tasks /\ AgreedTo(t, agreed) /\ TypedAt(t) /\ t.at = "trust"
  BY DEF IInv, ConnectTypeOK, TasksAgreed, Trusted
<1>2. host \in Hosts /\ t.key \in Key /\ t.of \in Profiles
  BY <1>1, ProfileSound DEF Tasks, IInv, ConnectTypeOK
<1>3. <<Store(t.of), host, t.key>> \in agreed'
  BY DEF Trusted
<1>4. CASE TrustedHost(id)
  <2> DEFINE next == [t EXCEPT !.at = "login"]
  <2>1. next \in Tasks
    BY <1>1 DEF Tasks, Places
  <2>2. AgreedTo(next, agreed') /\ TypedAt(next)
    BY <1>1, <1>3 DEF AgreedTo, TypedAt, Trust, Tasks, Tried
  <2>3. CASE known' = known
    <3>1. PinsAgreed' /\ KnownFits(known') /\ GoesOn(id, next)
      BY <1>4, <2>3 DEF TrustedHost, IInv, PinsAgreed, ConnectTypeOK, Aside
    <3> QED
      BY <2>1, <2>2, <3>1, GoesOnKeeps
  <2>4. CASE known' = [known EXCEPT !["hosts"][host] = @ \cup {t.key}]
    <3>1. KnownFits(known)
      BY DEF IInv, ConnectTypeOK
    <3>2. PICK pins : pins = known["hosts"][host] \cup {t.key}
      OBVIOUS
    <3>5. known["hosts"] \in Pins /\ [known["hosts"] EXCEPT ![host] = pins] \in Pins
      BY <1>2, <3>1, <3>2 DEF KnownFits, Stores, Pins, Key
    <3>6. PICK file \in Pins : file = [known["hosts"] EXCEPT ![host] = pins]
      BY <3>5
    <3>7. known' = [known EXCEPT !["hosts"] = file]
      BY <2>4, <3>2, <3>6
    <3>8. /\ KnownFits(known') /\ known'["hosts"] = file /\ known'["certificates"] = known["certificates"]
          /\ known'["temporary"] = known["temporary"]
      BY <3>1, <3>7 DEF KnownFits, Stores
    <3>3. ASSUME NEW store \in Stores, NEW h \in Hosts, NEW key \in known'[store][h]
          PROVE  <<store, h, key>> \in agreed'
      <4>1. key \in known[store][h] \/ (store = "hosts" /\ h = host /\ key = t.key)
        BY <1>2, <3>2, <3>3, <3>5, <3>6, <3>8 DEF Stores, Pins
      <4>2. store = "hosts" /\ h = host /\ key = t.key => <<store, h, key>> \in agreed'
        BY <1>3, <1>4 DEF TrustedHost
      <4> QED
        BY <4>1, <4>2 DEF IInv, PinsAgreed, Aside
    <3>4. PinsAgreed'
      BY <3>3, <3>8 DEF IInv, PinsAgreed, Stores, Aside
    <3> QED
      BY <1>4, <2>1, <2>2, <3>8, <3>4, GoesOnKeeps DEF TrustedHost
  <2> QED
    BY <1>4, <2>3, <2>4 DEF TrustedHost
<1>5. CASE TrustedCertificate(id)
  <2> DEFINE next == [t EXCEPT !.at = "remember", !.loaded = known["certificates"]]
  <2>1. known["certificates"] \in Pins
    BY DEF IInv, ConnectTypeOK, KnownFits, Stores
  <2>2. next \in Tasks
    BY <1>1, <2>1 DEF Tasks, Places
  <2>3. AgreedTo(next, agreed') /\ TypedAt(next)
    BY <1>1, <1>3, <1>5, <2>1 DEF AgreedTo, TypedAt, Trust, Tasks, Tried, TrustedCertificate, Stores, IInv, PinsAgreed, Aside
  <2>4. PinsAgreed' /\ KnownFits(known') /\ GoesOn(id, next)
    BY <1>5 DEF TrustedCertificate, IInv, PinsAgreed, ConnectTypeOK, Aside
  <2> QED
    BY <2>2, <2>3, <2>4, GoesOnKeeps
<1> QED
  BY <1>4, <1>5 DEF Trusted

(* all that was read when it was confirmed is written, and the certificate *)
LEMMA RememberKeeps ==
    ASSUME SetupsSound, IInv, Aside, NEW id \in DOMAIN tasks, Remember(id)
    PROVE  IInv'
<1> DEFINE t == tasks[id]
           host == setup[t.of].host
           next == [t EXCEPT !.at = "rename", !.loaded = <<>>]
           written == [t.loaded EXCEPT ![host] = {t.key}]
<1>1. t \in Tasks /\ AgreedTo(t, agreed) /\ TypedAt(t) /\ t.at = "remember" /\ GoesOn(id, next)
  BY DEF IInv, ConnectTypeOK, TasksAgreed, Remember
<1>2. next \in Tasks
  BY <1>1 DEF Tasks, Places
<1>3. AgreedTo(next, agreed') /\ TypedAt(next)
  BY <1>1 DEF AgreedTo, TypedAt, Tasks, Tried
<1>4. host \in Hosts /\ t.key \in Key
  BY <1>1, ProfileSound DEF Tasks, IInv, ConnectTypeOK
<1>5. written \in Pins
  BY <1>1, <1>4 DEF AgreedTo, Pins, Key
<1>6. KnownFits(known) /\ known' = [known EXCEPT !["temporary"] = written]
  BY DEF Remember, IInv, ConnectTypeOK
<1>7. KnownFits(known') /\ known'["temporary"] = written /\ \A store \in Stores : known'[store] = known[store]
  BY <1>5, <1>6 DEF KnownFits, Stores
<1>8. ASSUME NEW h \in Hosts, NEW key \in written[h]
      PROVE  <<"certificates", h, key>> \in agreed
  <2>1. CASE h = host
    BY <1>1, <1>4, <1>8, <2>1 DEF AgreedTo, Pins
  <2>2. CASE h # host
    BY <1>1, <1>8, <2>2 DEF AgreedTo, Pins
  <2> QED
    BY <2>1, <2>2
<1>9. PinsAgreed'
  BY <1>7, <1>8 DEF IInv, PinsAgreed, Stores, Aside
<1> QED
  BY <1>1, <1>2, <1>3, <1>7, <1>9, GoesOnKeeps

(* what was written is put in place, by its task or by another *)
LEMMA RenamesKeeps ==
    ASSUME SetupsSound, IInv, Aside, NEW id \in DOMAIN tasks, Renames(id)
    PROVE  IInv'
<1>1. CASE Ends(id, FALSE) /\ UNCHANGED known
  BY <1>1, EndsKeeps
<1>2. CASE ~(Ends(id, FALSE) /\ UNCHANGED known)
  <2> DEFINE t == tasks[id]
             next == [t EXCEPT !.at = "contact", !.key = 0]
  <2>1. t \in Tasks /\ AgreedTo(t, agreed) /\ TypedAt(t) /\ t.at = "rename" /\ GoesOn(id, next)
    BY <1>2 DEF IInv, ConnectTypeOK, TasksAgreed, Renames
  <2>2. next \in Tasks
    BY <2>1 DEF Tasks, Places, Key
  <2>3. AgreedTo(next, agreed') /\ TypedAt(next)
    BY <2>1 DEF AgreedTo, TypedAt, Tasks, Tried
  <2>4. PICK pins : pins = known["temporary"]
    OBVIOUS
  <2>5. /\ KnownFits(known) /\ pins # <<>>
        /\ known' = [known EXCEPT !["certificates"] = pins, !["temporary"] = <<>>]
    BY <1>2, <2>4 DEF Renames, IInv, ConnectTypeOK
  <2>6. pins \in Pins
    BY <2>4, <2>5 DEF KnownFits, Stores
  <2>7. /\ KnownFits(known') /\ known'["temporary"] = <<>> /\ known'["certificates"] = pins
        /\ known'["hosts"] = known["hosts"]
    BY <2>5, <2>6 DEF KnownFits, Stores
  <2>8. PinsAgreed'
    BY <2>4, <2>5, <2>7 DEF IInv, PinsAgreed, Stores, Aside
  <2> QED
    BY <2>1, <2>2, <2>3, <2>7, <2>8, GoesOnKeeps
<1> QED
  BY <1>1, <1>2

LEMMA TypedKeeps ==
    ASSUME SetupsSound, IInv, Aside, NEW id \in DOMAIN tasks, NEW word \in Words, Typed(id, word)
    PROVE  IInv'
<1> DEFINE t == tasks[id]
           next == [t EXCEPT !.typed = word,
                             !.at = IF setup[t.of].protocol \in {"webdav", "s3"} THEN "contact" ELSE "try"]
<1>1. t \in Tasks /\ AgreedTo(t, agreed) /\ TypedAt(t) /\ t.at = "password" /\ GoesOn(id, next) /\ known' = known
  BY DEF IInv, ConnectTypeOK, TasksAgreed, Typed
<1>2. setup[t.of].protocol \in Protocols
  BY <1>1, ProfileSound DEF Tasks, IInv, ConnectTypeOK
<1>3. next \in Tasks
  BY <1>1 DEF Tasks, Places, Word
<1>4. AgreedTo(next, agreed')
  BY <1>1, <1>2 DEF AgreedTo, Trust, Tasks, Protocols, Tried, Aside
<1>5. TypedAt(next)
  BY <1>1, <1>2 DEF TypedAt, Tasks, Protocols, Tried
<1>6. PinsAgreed' /\ KnownFits(known')
  BY <1>1 DEF IInv, PinsAgreed, ConnectTypeOK, Aside
<1> QED
  BY <1>1, <1>3, <1>4, <1>5, <1>6, GoesOnKeeps

LEMMA TryKeeps ==
    ASSUME IInv, Aside, NEW id \in DOMAIN tasks, Try(id)
    PROVE  IInv'
<1>1. Right(tasks[id].of, tasks[id].typed) \in BOOLEAN
  BY DEF Right
<1>2. Right(tasks[id].of, tasks[id].typed) => <<tasks[id].of, tasks[id].typed>> \in accepted'
  BY AcceptsAdds DEF Try
<1> QED
  BY <1>1, <1>2, SucceedsKeeps DEF Try

LEMMA TaskRunsKeeps ==
    ASSUME SetupsSound, IInv, TaskRuns
    PROVE  IInv'
<1> PICK id \in DOMAIN tasks :
           \/ Trusted(id)
           \/ /\ \/ Begin(id) \/ Contact(id) \/ Login(id) \/ Remember(id) \/ Renames(id) \/ Try(id) \/ GivesUp(id)
                 \/ \E word \in Words : Typed(id, word)
              /\ UNCHANGED agreed
  BY DEF TaskRuns
<1>1. agreed \subseteq agreed'
  BY DEF Trusted
<1>2. accepted \subseteq accepted'
  <2>1. CASE Login(id)
    <3>1. setup[tasks[id].of].protocol \in Protocols
      BY ProfileSound DEF IInv, ConnectTypeOK, Tasks
    <3>2. LoginSsh(id) \/ LoginFtp(id) \/ LoginWebDav(id) \/ LoginS3(id)
      BY <2>1, <3>1 DEF Login, Protocols
    <3> QED
      BY <3>2, AcceptsAdds DEF LoginSsh, LoginFtp, LoginWebDav, LoginS3
  <2>2. CASE Try(id)
    BY <2>2, AcceptsAdds DEF Try
  <2> QED
    BY <2>1, <2>2 DEF Trusted, Begin, Contact, Opened, ProbesAgain, AsksToTrust, Refuses, OpensAnew, Remember, Renames,
                      GivesUp, Typed
<1>3. Aside
  BY <1>1, <1>2 DEF TaskRuns, Aside
<1>4. CASE GivesUp(id)
  BY <1>3, <1>4, EndsKeeps DEF GivesUp
<1>5. CASE \E word \in Words : Typed(id, word)
  BY <1>3, <1>5, TypedKeeps
<1> QED
  BY <1>3, <1>4, <1>5, TrustedKeeps, BeginKeeps, ContactKeeps, LoginKeeps, RememberKeeps, RenamesKeeps, TryKeeps

---------------------------------------------------------------------------
(* the steps of the engine and of the servers *)
LEMMA TasksShrink ==
    ASSUME IInv, NEW id, tasks' = Without(tasks, {id}),
           UNCHANGED <<setup, servers, known, cache, internal, sessions, nextId, agreed, accepted>>
    PROVE  IInv'
<1>1. tasks' = [j \in DOMAIN tasks \ {id} |-> tasks[j]]
  BY DEF Without
<1>2. Profiles' = Profiles /\ Tasks' = Tasks /\ Results' = Results
  BY DEF Profiles, Tasks, Results, Word, Key, Pins, Places
<1>3. ConnectTypeOK'
  <2>1. tasks' \in [DOMAIN tasks' -> Tasks] /\ DOMAIN tasks' \subseteq Nat
    BY <1>1 DEF IInv, ConnectTypeOK
  <2> QED
    BY <1>2, <2>1 DEF IInv, ConnectTypeOK, Word, Key
<1>4. TasksAgreed'
  BY <1>1 DEF IInv, TasksAgreed, AgreedTo, TypedAt, Trust, Store, Pins, Tried
<1> QED
  BY <1>2, <1>3, <1>4
     DEF IInv, PinsAgreed, ResultsAgreed, Succeeds, SessionsAgreed, Trust, Store, CacheAccepted

LEMMA ConnectKeeps ==
    ASSUME IInv, NEW p \in Profiles, Connect(p)
    PROVE  IInv'
<1>1. Task(p) \in Tasks
  BY DEF Task, Tasks, Places, Word, Key
<1>2. tasks' = [j \in DOMAIN tasks \cup {nextId} |-> IF j = nextId THEN Task(p) ELSE tasks[j]]
  BY DEF Connect, With, IInv, ConnectTypeOK
<1>3. Profiles' = Profiles /\ Tasks' = Tasks /\ Results' = Results
  BY DEF Connect, Profiles, Tasks, Results, Word, Key, Pins, Places
<1>4. ConnectTypeOK'
  <2>1. tasks' \in [DOMAIN tasks' -> Tasks] /\ DOMAIN tasks' \subseteq Nat
    BY <1>1, <1>2 DEF IInv, ConnectTypeOK
  <2> QED
    BY <1>3, <2>1 DEF IInv, ConnectTypeOK, Connect, Word, Key
<1>5. AgreedTo(Task(p), agreed) /\ TypedAt(Task(p))
  BY DEF AgreedTo, TypedAt, Task
<1>6. TasksAgreed'
  <2> SUFFICES ASSUME NEW j \in DOMAIN tasks' PROVE AgreedTo(tasks'[j], agreed) /\ TypedAt(tasks'[j])
    BY DEF TasksAgreed, AgreedTo, TypedAt, Trust, Store, Connect, Pins, Tried
  <2> QED
    BY <1>2, <1>5 DEF IInv, TasksAgreed
<1> QED
  BY <1>3, <1>4, <1>6
     DEF IInv, Connect, PinsAgreed, ResultsAgreed, Succeeds, SessionsAgreed, Trust, Store, CacheAccepted

(* the loop takes the next result *)
LEMMA TailKept ==
    ASSUME IInv, internal # <<>>, internal' = Tail(internal),
           UNCHANGED <<setup, agreed, accepted>>
    PROVE  /\ Head(internal) \in Results /\ Succeeds(Head(internal), agreed, accepted)
           /\ internal' \in Seq(Results) /\ ResultsAgreed'
<1>1. internal \in Seq(Results) /\ Len(internal) > 0
  BY DEF IInv, ConnectTypeOK
<1>2. Head(internal) = internal[1] /\ 1 \in 1..Len(internal)
  BY <1>1
<1>3. Head(internal) \in Results /\ Succeeds(Head(internal), agreed, accepted)
  BY <1>1, <1>2 DEF IInv, ResultsAgreed
<1>4. internal' \in Seq(Results) /\ Len(internal') = Len(internal) - 1
      /\ \A i \in 1..Len(internal') : internal'[i] = internal[i + 1] /\ i + 1 \in 1..Len(internal)
  BY <1>1
<1>5. ResultsAgreed'
  BY <1>4 DEF IInv, ResultsAgreed, Succeeds, Trust, Store
<1> QED
  BY <1>3, <1>4, <1>5

LEMMA FinishConnectKeeps ==
    ASSUME IInv, FinishConnect
    PROVE  IInv'
<1> DEFINE done == Head(internal)
<1>1. /\ done \in Results /\ Succeeds(done, agreed, accepted)
      /\ internal' \in Seq(Results) /\ ResultsAgreed'
  BY TailKept DEF FinishConnect
<1>2. Trust(done.of, done.key, agreed) /\ (done.typed # 0 => <<done.of, done.typed>> \in accepted)
  BY <1>1 DEF Succeeds, FinishConnect
<1>3. sessions' = [j \in DOMAIN sessions \cup {done.id} |->
                     IF j = done.id THEN [of |-> done.of, key |-> done.key] ELSE sessions[j]]
  BY DEF FinishConnect, With
<1>4. cache \in [Profiles -> Word]
      /\ cache' = IF done.typed # 0 THEN [cache EXCEPT ![done.of] = done.typed] ELSE cache
  BY DEF FinishConnect, IInv, ConnectTypeOK
<1>5. Profiles' = Profiles /\ Tasks' = Tasks /\ Results' = Results
  BY DEF FinishConnect, Profiles, Tasks, Results, Word, Key, Pins, Places
<1>6. done.of \in Profiles /\ done.typed \in Word /\ done.key \in Key
  BY <1>1 DEF Results
<1>7. ConnectTypeOK'
  <2>1. sessions' \in [DOMAIN sessions' -> [of : Profiles, key : Key]]
    BY <1>3, <1>6 DEF IInv, ConnectTypeOK
  <2>2. cache' \in [Profiles -> Word]
    BY <1>4, <1>6
  <2> QED
    BY <1>1, <1>5, <2>1, <2>2 DEF IInv, ConnectTypeOK, FinishConnect, Word, Key
<1>8. SessionsAgreed'
  <2> SUFFICES ASSUME NEW j \in DOMAIN sessions' PROVE Trust(sessions'[j].of, sessions'[j].key, agreed)
    BY DEF SessionsAgreed, Trust, Store, FinishConnect
  <2>1. CASE j = done.id
    BY <1>2, <1>3, <2>1
  <2>2. CASE j # done.id
    BY <1>3, <2>2 DEF IInv, SessionsAgreed
  <2> QED
    BY <2>1, <2>2
<1>9. CacheAccepted'
  BY <1>2, <1>4, <1>5, <1>6 DEF IInv, CacheAccepted, FinishConnect
<1>10. PinsAgreed' /\ TasksAgreed'
  BY DEF IInv, PinsAgreed, TasksAgreed, AgreedTo, TypedAt, Trust, Store, Pins, Tried, FinishConnect
<1> QED
  BY <1>1, <1>7, <1>8, <1>9, <1>10 DEF IInv

LEMMA ConnectFailedKeeps ==
    ASSUME IInv, ConnectFailed
    PROVE  IInv'
<1>1. internal' \in Seq(Results) /\ ResultsAgreed'
  BY TailKept DEF ConnectFailed
<1>2. Profiles' = Profiles /\ Tasks' = Tasks /\ Results' = Results
  BY DEF ConnectFailed, Profiles, Tasks, Results, Word, Key, Pins, Places
<1>3. ConnectTypeOK'
  BY <1>1, <1>2 DEF IInv, ConnectTypeOK, ConnectFailed, Word, Key
<1>4. PinsAgreed' /\ TasksAgreed' /\ SessionsAgreed' /\ CacheAccepted'
  BY <1>2 DEF IInv, PinsAgreed, TasksAgreed, AgreedTo, TypedAt, SessionsAgreed, CacheAccepted,
              Trust, Store, Pins, Tried, ConnectFailed
<1> QED
  BY <1>1, <1>3, <1>4 DEF IInv

LEMMA DisconnectKeeps ==
    ASSUME IInv, NEW id \in DOMAIN sessions, Disconnect(id)
    PROVE  IInv'
<1>1. sessions' = [j \in DOMAIN sessions \ {id} |-> sessions[j]]
  BY DEF Disconnect, Without
<1>2. Profiles' = Profiles /\ Tasks' = Tasks /\ Results' = Results
  BY DEF Disconnect, Profiles, Tasks, Results, Word, Key, Pins, Places
<1>3. ConnectTypeOK'
  <2>1. sessions' \in [DOMAIN sessions' -> [of : Profiles, key : Key]]
    BY <1>1 DEF IInv, ConnectTypeOK
  <2> QED
    BY <1>2, <2>1 DEF IInv, ConnectTypeOK, Disconnect, Word, Key
<1>4. SessionsAgreed'
  BY <1>1 DEF IInv, SessionsAgreed, Trust, Store, Disconnect
<1>5. PinsAgreed' /\ TasksAgreed' /\ ResultsAgreed' /\ CacheAccepted'
  BY <1>2 DEF IInv, PinsAgreed, TasksAgreed, AgreedTo, TypedAt, ResultsAgreed, Succeeds, CacheAccepted,
              Trust, Store, Pins, Tried, Disconnect
<1> QED
  BY <1>3, <1>4, <1>5 DEF IInv

LEMMA ServerChangesKeeps ==
    ASSUME IInv, ServerChanges
    PROVE  IInv'
<1>1. Profiles' = Profiles /\ Tasks' = Tasks /\ Results' = Results
  BY DEF ServerChanges, Profiles, Tasks, Results, Word, Key, Pins, Places
<1>2. ConnectTypeOK'
  <2>1. servers' \in [Hosts -> [key : Keys, word : Words]]
    BY DEF ServerChanges, IInv, ConnectTypeOK
  <2> QED
    BY <1>1, <2>1 DEF IInv, ConnectTypeOK, ServerChanges, Word, Key
<1> QED
  BY <1>1, <1>2
     DEF IInv, PinsAgreed, TasksAgreed, AgreedTo, TypedAt, ResultsAgreed, Succeeds, SessionsAgreed,
         CacheAccepted, Trust, Store, Pins, Tried, ServerChanges

---------------------------------------------------------------------------
LEMMA InitHolds ==
    ASSUME SetupsSound, ConnectInit
    PROVE  IInv
<1> PICK saved \in {0} \cup Words :
      /\ servers = [host \in Hosts |-> [key |-> CHOOSE k \in Keys : TRUE, word |-> CHOOSE w \in Words : TRUE]]
      /\ cache = [p \in DOMAIN setup |-> saved]
      /\ known \in {KnownWith(pins) : pins \in {{}, {servers[host].key : host \in Hosts}}}
  BY DEF ConnectInit
<1>1. (CHOOSE k \in Keys : TRUE) \in Keys /\ (CHOOSE w \in Words : TRUE) \in Words
  BY DEF SetupsSound
<1>2. servers \in [Hosts -> [key : Keys, word : Words]]
  BY <1>1
<1>3. PICK pins \in SUBSET Keys : known = KnownWith(pins)
  <2>1. {} \subseteq Keys /\ {servers[host].key : host \in Hosts} \subseteq Keys
    BY <1>2
  <2>2. PICK pins \in {{}, {servers[host].key : host \in Hosts}} :
          known = KnownWith(pins)
    OBVIOUS
  <2>3. pins \in SUBSET Keys
    BY <2>1, <2>2
  <2> QED
    BY <2>2, <2>3
<1>4. KnownFits(known) /\ known["temporary"] = <<>> /\ \A store \in Stores, host \in Hosts : known[store][host] = pins
  BY <1>3 DEF KnownFits, KnownWith, Stores, Pins
<1>5. tasks = [x \in {} |-> 0] /\ sessions = [x \in {} |-> 0] /\ internal = <<>> /\ nextId = 0
  BY DEF ConnectInit, Nothing
<1>6. ConnectTypeOK
  <2>1. cache \in [Profiles -> Word]
    BY DEF Profiles, Word
  <2> QED
    BY <1>2, <1>4, <1>5, <2>1 DEF ConnectTypeOK, ConnectInit
<1>7. PinsAgreed
  BY <1>4 DEF PinsAgreed, ConnectInit
<1>8. TasksAgreed /\ SessionsAgreed /\ ResultsAgreed
  BY <1>5 DEF TasksAgreed, SessionsAgreed, ResultsAgreed
<1>9. CacheAccepted
  BY DEF CacheAccepted, ConnectInit, Profiles
<1> QED
  BY <1>6, <1>7, <1>8, <1>9 DEF IInv

LEMMA NextKeeps ==
    ASSUME SetupsSound, IInv, [ConnectNext]_connectVars
    PROVE  IInv'
<1>1. CASE UNCHANGED connectVars
  <2>1. Profiles' = Profiles /\ Tasks' = Tasks /\ Results' = Results
    BY <1>1 DEF connectVars, Profiles, Tasks, Results, Word, Key, Pins, Places
  <2>2. ConnectTypeOK'
    BY <1>1, <2>1 DEF IInv, ConnectTypeOK, connectVars, Word, Key
  <2> QED
    BY <1>1, <2>1, <2>2
       DEF connectVars, IInv, PinsAgreed, TasksAgreed, AgreedTo, TypedAt, ResultsAgreed, Succeeds,
           SessionsAgreed, CacheAccepted, Trust, Store, Pins, Tried
<1>2. CASE \E p \in Profiles : Connect(p)
  BY <1>2, ConnectKeeps
<1>3. CASE TaskRuns
  BY <1>3, TaskRunsKeeps
<1>4. CASE \E id \in DOMAIN tasks : Panics(id)
  BY <1>4, TasksShrink DEF Panics
<1>5. CASE FinishConnect \/ ConnectFailed
  BY <1>5, FinishConnectKeeps, ConnectFailedKeeps
<1>6. CASE \E id \in DOMAIN sessions : Disconnect(id)
  BY <1>6, DisconnectKeeps
<1>7. CASE ServerChanges
  BY <1>7, ServerChangesKeeps
<1> QED
  BY <1>1, <1>2, <1>3, <1>4, <1>5, <1>6, <1>7 DEF ConnectNext

(* open_trusted and probe_trusted ask and connect again, verify compares    *)
(* what a server presents with what is known, remember writes what it read  *)
(* before: for any profiles, any servers that change their keys and their   *)
(* passwords, and any number of connects at once, a password is sent and a  *)
(* session lives only over a key or certificate that was known or that      *)
(* somebody confirmed, and finish_connect keeps only a password that the    *)
(* server took.                                                             *)
THEOREM ConnectsSafely == SetupsSound => (ConnectSpec => []OnlyAccepted)
<1> SUFFICES ASSUME SetupsSound PROVE ConnectSpec => []OnlyAccepted
  OBVIOUS
<1>1. ConnectInit => IInv
  BY InitHolds
<1>2. IInv /\ [ConnectNext]_connectVars => IInv'
  BY NextKeeps
<1>3. IInv => OnlyAccepted
  BY DEF IInv, OnlyAccepted, TasksAgreed, AgreedTo, SessionsAgreed, CacheAccepted, Agreed, Trust
<1> QED
  BY <1>1, <1>2, <1>3, PTL DEF ConnectSpec

---------------------------------------------------------------------------
(* One session each.  A profile that is being connected has one task, or one *)
(* result on its way, or panicked.                                           *)
Runs(p) == \E id \in DOMAIN tasks : tasks[id].of = p
Told(p) == \E i \in 1..Len(internal) : internal[i].of = p

AttemptsDiffer ==
    /\ \A id, j \in DOMAIN tasks : tasks[id].of = tasks[j].of => id = j
    /\ \A i, j \in 1..Len(internal) : internal[i].of = internal[j].of => i = j
    /\ \A p \in Profiles : ~(Runs(p) /\ Told(p))

Underway ==
    /\ \A p \in Profiles : p \in connecting \ wedged <=> Runs(p) \/ Told(p)
    /\ wedged \subseteq connecting
    /\ \A id \in DOMAIN tasks : id < nextId

SessionsDiffer ==
    /\ \A id, j \in DOMAIN sessions : sessions[id].of = sessions[j].of => id = j
    /\ \A id \in DOMAIN sessions : sessions[id].of \notin connecting

OneEach == AttemptsDiffer /\ Underway /\ SessionsDiffer

(* a task goes on for its profile, or ends with its result *)
LEMMA TaskStep ==
    ASSUME SetupsSound, IInv, TaskRuns
    PROVE  \E id \in DOMAIN tasks :
             \/ \E t : GoesOn(id, t) /\ t.of = tasks[id].of
             \/ \E ok \in BOOLEAN : Ends(id, ok)
<1> PICK id \in DOMAIN tasks :
           \/ Trusted(id)
           \/ \/ Begin(id) \/ Contact(id) \/ Login(id) \/ Remember(id) \/ Renames(id) \/ Try(id) \/ GivesUp(id)
              \/ \E word \in Words : Typed(id, word)
  BY DEF TaskRuns
<1> DEFINE t == tasks[id]
           Going == \E next : GoesOn(id, next) /\ next.of = t.of
           Finishes == \E ok \in BOOLEAN : Ends(id, ok)
<1>1. t \in Tasks
  BY DEF IInv, ConnectTypeOK
<1>2. CASE Trusted(id)
  <2>1. [t EXCEPT !.at = "login"].of = t.of /\ [t EXCEPT !.at = "remember", !.loaded = known["certificates"]].of = t.of
    BY <1>1 DEF Tasks
  <2> QED
    BY <1>2, <2>1 DEF Trusted, TrustedHost, TrustedCertificate
<1>3. CASE Begin(id)
  <2> DEFINE next == [t EXCEPT !.secret = cache[t.of],
                               !.at = IF setup[t.of].protocol = "s3" /\ cache[t.of] = 0 THEN "password" ELSE "contact"]
  <2>1. next.of = t.of
    BY <1>1 DEF Tasks
  <2>2. GoesOn(id, next)
    BY <1>3 DEF Begin
  <2> QED
    BY <2>1, <2>2
<1>4. CASE Contact(id)
  <2>1. \A place : [t EXCEPT !.key = Server(t.of).key, !.at = place].of = t.of
    BY <1>1 DEF Tasks
  <2>2. [t EXCEPT !.at = "login"].of = t.of
    BY <1>1 DEF Tasks
  <2> QED
    BY <1>4, <2>1, <2>2 DEF Contact, Opened, ProbesAgain, AsksToTrust, Refuses, Met
<1>5. CASE Login(id)
  <2>1. setup[t.of].protocol \in Protocols
    BY <1>1, ProfileSound DEF IInv, ConnectTypeOK, Tasks
  <2>2. LoginSsh(id) \/ LoginFtp(id) \/ LoginWebDav(id) \/ LoginS3(id)
    BY <1>5, <2>1 DEF Login, Protocols
  <2>3. [t EXCEPT !.at = "password"].of = t.of /\ [t EXCEPT !.moved = TRUE, !.at = "contact"].of = t.of
    BY <1>1 DEF Tasks
  <2>4. Asks(id) => Going
    BY <2>3 DEF Asks
  <2> QED
    BY <2>2, <2>3, <2>4 DEF LoginSsh, LoginFtp, LoginWebDav, LoginS3
<1>6. CASE Remember(id) \/ Renames(id)
  <2>1. [t EXCEPT !.at = "rename", !.loaded = <<>>].of = t.of /\ [t EXCEPT !.at = "contact", !.key = 0].of = t.of
    BY <1>1 DEF Tasks
  <2> QED
    BY <1>6, <2>1 DEF Remember, Renames
<1>7. CASE Try(id)
  BY <1>7 DEF Try, Right
<1>8. CASE GivesUp(id)
  BY <1>8 DEF GivesUp
<1>9. CASE \E word \in Words : Typed(id, word)
  <2> PICK word \in Words : Typed(id, word)
    BY <1>9
  <2> DEFINE next == [t EXCEPT !.typed = word,
                               !.at = IF setup[t.of].protocol \in {"webdav", "s3"} THEN "contact" ELSE "try"]
  <2>1. next.of = t.of
    BY <1>1 DEF Tasks
  <2>2. GoesOn(id, next)
    BY DEF Typed
  <2> QED
    BY <2>1, <2>2
<1> QED
  BY <1>2, <1>3, <1>4, <1>5, <1>6, <1>7, <1>8, <1>9

LEMMA GoesOnOneEach ==
    ASSUME IInv, OneEach, NEW id \in DOMAIN tasks, NEW t, GoesOn(id, t), t.of = tasks[id].of,
           UNCHANGED <<setup, connecting, sessions, nextId, wedged>>
    PROVE  OneEach'
<1>1. DOMAIN tasks' = DOMAIN tasks /\ \A j \in DOMAIN tasks : tasks'[j].of = tasks[j].of
  BY DEF GoesOn, IInv, ConnectTypeOK
<1>2. internal' = internal /\ Profiles' = Profiles
  BY DEF GoesOn, Profiles
<1> QED
  BY <1>1, <1>2 DEF OneEach, AttemptsDiffer, Underway, SessionsDiffer, Runs, Told

LEMMA EndsOneEach ==
    ASSUME IInv, OneEach, NEW id \in DOMAIN tasks, NEW ok \in BOOLEAN, Ends(id, ok),
           UNCHANGED <<setup, connecting, sessions, nextId, wedged>>
    PROVE  OneEach'
<1> DEFINE done == [id |-> id, of |-> tasks[id].of, ok |-> ok, typed |-> tasks[id].typed, key |-> tasks[id].key]
<1>1. tasks' = [j \in DOMAIN tasks \ {id} |-> tasks[j]] /\ Profiles' = Profiles
  BY DEF Ends, Without, Profiles
<1>2. tasks[id].of \in Profiles /\ tasks[id] \in Tasks /\ id \in Nat
  BY DEF IInv, ConnectTypeOK, Tasks
<1>3. internal \in Seq(Results) /\ done \in Results /\ internal' = Append(internal, done)
  BY <1>2 DEF IInv, ConnectTypeOK, Ends, Tasks, Results
<1>4. /\ Len(internal') = Len(internal) + 1 /\ Len(internal) \in Nat
      /\ internal'[Len(internal) + 1].of = tasks[id].of
      /\ \A i \in 1..Len(internal) : internal'[i] = internal[i]
  BY <1>3
<1>5. ~Told(tasks[id].of)
  BY <1>2 DEF OneEach, AttemptsDiffer, Runs
<1>6. \A i \in 1..Len(internal') : internal'[i].of = tasks[id].of <=> i = Len(internal) + 1
  BY <1>4, <1>5 DEF Told
<1>7. \A p : Told(p)' <=> Told(p) \/ p = tasks[id].of
  BY <1>4 DEF Told
<1>8. \A p : Runs(p)' <=> Runs(p) /\ p # tasks[id].of
  BY <1>1 DEF Runs, OneEach, AttemptsDiffer
<1>9. AttemptsDiffer'
  <2>1. \A j, k \in DOMAIN tasks' : tasks'[j].of = tasks'[k].of => j = k
    BY <1>1 DEF OneEach, AttemptsDiffer
  <2>2. ASSUME NEW i \in 1..Len(internal'), NEW j \in 1..Len(internal'), internal'[i].of = internal'[j].of
        PROVE  i = j
    <3>1. CASE internal'[i].of = tasks[id].of
      BY <1>6, <2>2, <3>1
    <3>2. CASE internal'[i].of # tasks[id].of
      <4>1. i # Len(internal) + 1 /\ j # Len(internal) + 1
        BY <1>4, <2>2, <3>2
      <4>2. i \in 1..Len(internal) /\ j \in 1..Len(internal)
        BY <1>4, <4>1
      <4> QED
        BY <1>4, <2>2, <4>2 DEF OneEach, AttemptsDiffer
    <3> QED
      BY <3>1, <3>2
  <2>3. \A p \in Profiles : ~(Runs(p)' /\ Told(p)')
    BY <1>7, <1>8 DEF OneEach, AttemptsDiffer
  <2> QED
    BY <1>1, <2>1, <2>2, <2>3 DEF AttemptsDiffer
<1>10. Underway'
  <2>1. Runs(tasks[id].of)
    BY DEF Runs
  <2> QED
    BY <1>1, <1>7, <1>8, <2>1 DEF OneEach, Underway
<1>11. SessionsDiffer'
  BY DEF OneEach, SessionsDiffer
<1> QED
  BY <1>9, <1>10, <1>11 DEF OneEach

LEMMA PanicsOneEach ==
    ASSUME IInv, OneEach, NEW id \in DOMAIN tasks, Panics(id)
    PROVE  OneEach'
<1>1. tasks' = [j \in DOMAIN tasks \ {id} |-> tasks[j]] /\ Profiles' = Profiles /\ wedged' = wedged \cup {tasks[id].of}
  BY DEF Panics, Without, Profiles
<1>2. tasks[id].of \in Profiles
  BY DEF IInv, ConnectTypeOK, Tasks
<1>3. Runs(tasks[id].of)
  BY DEF Runs
<1>4. ~Told(tasks[id].of) /\ tasks[id].of \in connecting
  BY <1>2, <1>3 DEF OneEach, AttemptsDiffer, Underway
<1>5. \A p : Told(p)' <=> Told(p)
  BY DEF Told, Panics
<1>6. \A p : Runs(p)' <=> Runs(p) /\ p # tasks[id].of
  BY <1>1 DEF Runs, OneEach, AttemptsDiffer
<1>7. AttemptsDiffer'
  <2>1. \A j, k \in DOMAIN tasks' : tasks'[j].of = tasks'[k].of => j = k
    BY <1>1 DEF OneEach, AttemptsDiffer
  <2>2. \A q \in Profiles : ~(Runs(q)' /\ Told(q)')
    BY <1>5, <1>6 DEF OneEach, AttemptsDiffer
  <2> QED
    BY <1>1, <2>1, <2>2 DEF OneEach, AttemptsDiffer, Panics
<1>8. Underway'
  BY <1>1, <1>4, <1>5, <1>6 DEF OneEach, Underway, Panics
<1>9. SessionsDiffer'
  BY DEF OneEach, SessionsDiffer, Panics
<1> QED
  BY <1>7, <1>8, <1>9 DEF OneEach

LEMMA ConnectOneEach ==
    ASSUME IInv, OneEach, NEW p \in Profiles, Connect(p)
    PROVE  OneEach'
<1>1. tasks' = [j \in DOMAIN tasks \cup {nextId} |-> IF j = nextId THEN Task(p) ELSE tasks[j]]
  BY DEF Connect, With
<1>2. /\ p \notin connecting /\ connecting' = connecting \cup {p} /\ nextId' = nextId + 1
      /\ Profiles' = Profiles /\ Task(p).of = p
  BY DEF Connect, Connectable, Profiles, Task
<1>3. ~Runs(p) /\ ~Told(p) /\ p \notin wedged
  BY <1>2 DEF OneEach, Underway
<1>4. nextId \notin DOMAIN tasks /\ nextId \in Nat /\ DOMAIN tasks \subseteq Nat
  BY DEF OneEach, Underway, IInv, ConnectTypeOK
<1>5. \A q : Told(q)' <=> Told(q)
  BY DEF Told, Connect
<1>6. \A q : Runs(q)' <=> Runs(q) \/ q = p
  BY <1>1, <1>2, <1>4 DEF Runs
<1>7. AttemptsDiffer'
  <2>1. \A j, k \in DOMAIN tasks' : tasks'[j].of = tasks'[k].of => j = k
    BY <1>1, <1>2, <1>3 DEF OneEach, AttemptsDiffer, Runs
  <2> QED
    BY <1>2, <1>3, <1>5, <1>6, <2>1 DEF OneEach, AttemptsDiffer, Connect
<1>8. Underway'
  <2>1. \A j \in DOMAIN tasks' : j < nextId'
    BY <1>1, <1>2, <1>4 DEF OneEach, Underway
  <2> QED
    BY <1>2, <1>3, <1>5, <1>6, <2>1 DEF OneEach, Underway, Connect
<1>9. SessionsDiffer'
  BY <1>2 DEF OneEach, SessionsDiffer, Connect, Connectable, Named
<1> QED
  BY <1>7, <1>8, <1>9 DEF OneEach

(* finish_connect and the failure of a connect: the profile's one attempt *)
(* is over                                                                *)
LEMMA ResultOneEach ==
    ASSUME IInv, OneEach, internal # <<>>, internal' = Tail(internal),
           connecting' = connecting \ {Head(internal).of},
           UNCHANGED <<setup, tasks, nextId, wedged>>
    PROVE  AttemptsDiffer' /\ Underway'
<1> DEFINE p == Head(internal).of
<1>1. internal \in Seq(Results) /\ Len(internal) \in Nat \ {0} /\ Profiles' = Profiles
  BY DEF IInv, ConnectTypeOK, Profiles
<1>2. internal[1].of = p /\ 1 \in 1..Len(internal) /\ p \in Profiles
  <2>1. Head(internal) = internal[1] /\ 1 \in 1..Len(internal)
    BY <1>1
  <2>2. internal[1] \in Results
    BY <1>1, <2>1
  <2> QED
    BY <2>1, <2>2 DEF Results
<1>3. /\ Len(internal') = Len(internal) - 1
      /\ \A i \in 1..Len(internal') : internal'[i] = internal[i + 1] /\ i + 1 \in 1..Len(internal)
  BY <1>1
<1>4. \A q : Runs(q)' <=> Runs(q)
  BY DEF Runs
<1>5. \A q : Told(q)' <=> Told(q) /\ q # p
  <2>1. ASSUME NEW q, NEW i \in 1..Len(internal'), internal'[i].of = q PROVE Told(q) /\ q # p
    <3>1. i + 1 # 1 /\ internal[i + 1].of = q /\ i + 1 \in 1..Len(internal)
      BY <1>1, <1>3, <2>1
    <3> QED
      BY <1>2, <3>1 DEF OneEach, AttemptsDiffer, Told
  <2>2. ASSUME NEW q, NEW i \in 1..Len(internal), internal[i].of = q, q # p
        PROVE  \E j \in 1..Len(internal') : internal'[j].of = q
    <3>1. i # 1 /\ i - 1 \in 1..Len(internal') /\ (i - 1) + 1 = i
      BY <1>1, <1>2, <1>3, <2>2
    <3>2. internal'[i - 1] = internal[i]
      BY <1>3, <3>1
    <3> QED
      BY <2>2, <3>1, <3>2
  <2> QED
    BY <2>1, <2>2 DEF Told
<1>6. Told(p) /\ ~Runs(p) /\ p \notin wedged
  BY <1>2 DEF OneEach, AttemptsDiffer, Underway, Told
<1>7. AttemptsDiffer'
  <2>1. ASSUME NEW i \in 1..Len(internal'), NEW j \in 1..Len(internal'), internal'[i].of = internal'[j].of
        PROVE  i = j
    <3>1. i + 1 = j + 1
      BY <1>3, <2>1 DEF OneEach, AttemptsDiffer
    <3> QED
      BY <1>1, <1>3, <3>1
  <2> QED
    BY <1>1, <1>4, <1>5, <2>1 DEF OneEach, AttemptsDiffer
<1>8. Underway'
  BY <1>1, <1>4, <1>5, <1>6 DEF OneEach, Underway
<1> QED
  BY <1>7, <1>8

LEMMA NextOneEach ==
    ASSUME SetupsSound, IInv, OneEach, [ConnectNext]_connectVars
    PROVE  OneEach'
<1>1. CASE UNCHANGED connectVars
  BY <1>1 DEF connectVars, OneEach, AttemptsDiffer, Underway, SessionsDiffer, Runs, Told, Profiles
<1>2. CASE \E p \in Profiles : Connect(p)
  BY <1>2, ConnectOneEach
<1>3. CASE TaskRuns
  <2>1. UNCHANGED <<setup, connecting, sessions, nextId, wedged>>
    BY <1>3 DEF TaskRuns
  <2> QED
    BY <1>3, <2>1, TaskStep, GoesOnOneEach, EndsOneEach
<1>4. CASE \E id \in DOMAIN tasks : Panics(id)
  BY <1>4, PanicsOneEach
<1>5. CASE FinishConnect
  <2> DEFINE done == Head(internal)
  <2>1. AttemptsDiffer' /\ Underway'
    BY <1>5, ResultOneEach DEF FinishConnect
  <2>2. done.of \in connecting
    <3>1. internal \in Seq(Results) /\ internal # <<>>
      BY <1>5 DEF FinishConnect, IInv, ConnectTypeOK
    <3>2. done = internal[1] /\ 1 \in 1..Len(internal)
      BY <3>1
    <3>3. done \in Results
      BY <3>1, <3>2
    <3> QED
      BY <3>2, <3>3 DEF OneEach, Underway, Told, Results
  <2>3. sessions' = [j \in DOMAIN sessions \cup {done.id} |->
                       IF j = done.id THEN [of |-> done.of, key |-> done.key] ELSE sessions[j]]
        /\ connecting' = connecting \ {done.of}
    BY <1>5 DEF FinishConnect, With
  <2>4. \A j \in DOMAIN sessions' : sessions'[j].of = IF j = done.id THEN done.of ELSE sessions[j].of
    BY <2>3
  <2>5. SessionsDiffer'
    BY <2>2, <2>3, <2>4 DEF OneEach, SessionsDiffer
  <2> QED
    BY <2>1, <2>5 DEF OneEach
<1>6. CASE ConnectFailed
  <2>1. AttemptsDiffer' /\ Underway'
    BY <1>6, ResultOneEach DEF ConnectFailed
  <2>2. SessionsDiffer'
    BY <1>6 DEF ConnectFailed, OneEach, SessionsDiffer
  <2> QED
    BY <2>1, <2>2 DEF OneEach
<1>7. CASE \E id \in DOMAIN sessions : Disconnect(id)
  BY <1>7 DEF Disconnect, Without, OneEach, AttemptsDiffer, Underway, SessionsDiffer, Runs, Told, Profiles
<1>8. CASE ServerChanges
  BY <1>8 DEF ServerChanges, OneEach, AttemptsDiffer, Underway, SessionsDiffer, Runs, Told, Profiles
<1> QED
  BY <1>1, <1>2, <1>3, <1>4, <1>5, <1>6, <1>7, <1>8 DEF ConnectNext

LEMMA OneEachCounts ==
    ASSUME IInv, OneEach
    PROVE  OneSessionEach
<1>1. ASSUME NEW p \in Profiles
      PROVE  LET underway == {id \in DOMAIN tasks : tasks[id].of = p}
                 told == {i \in DOMAIN internal : internal[i].of = p}
             IN  Cardinality(underway) + Cardinality(told) = IF p \in connecting \ wedged THEN 1 ELSE 0
  <2> DEFINE underway == {id \in DOMAIN tasks : tasks[id].of = p}
             told == {i \in DOMAIN internal : internal[i].of = p}
  <2>1. DOMAIN internal = 1..Len(internal)
    BY DEF IInv, ConnectTypeOK
  <2>2. Cardinality(underway) = IF Runs(p) THEN 1 ELSE 0
    <3>1. CASE Runs(p)
      <4>1. PICK id \in DOMAIN tasks : tasks[id].of = p
        BY <3>1 DEF Runs
      <4>2. underway = {id}
        BY <4>1 DEF OneEach, AttemptsDiffer
      <4> QED
        BY <3>1, <4>2, FS_Singleton
    <3>2. CASE ~Runs(p)
      <4>1. underway = {}
        BY <3>2 DEF Runs
      <4> QED
        BY <3>2, <4>1, FS_EmptySet
    <3> QED
      BY <3>1, <3>2
  <2>3. Cardinality(told) = IF Told(p) THEN 1 ELSE 0
    <3>1. CASE Told(p)
      <4>1. PICK i \in 1..Len(internal) : internal[i].of = p
        BY <3>1 DEF Told
      <4>2. told = {i}
        BY <2>1, <4>1 DEF OneEach, AttemptsDiffer
      <4> QED
        BY <3>1, <4>2, FS_Singleton
    <3>2. CASE ~Told(p)
      <4>1. told = {}
        BY <2>1, <3>2 DEF Told
      <4> QED
        BY <3>2, <4>1, FS_EmptySet
    <3> QED
      BY <3>1, <3>2
  <2>4. p \in connecting \ wedged <=> Runs(p) \/ Told(p)
    BY DEF OneEach, Underway
  <2>5. ~(Runs(p) /\ Told(p))
    BY DEF OneEach, AttemptsDiffer
  <2> QED
    BY <2>2, <2>3, <2>4, <2>5
<1>2. ASSUME NEW p \in Profiles, p \in connecting PROVE Named(p) = {}
  BY <1>2 DEF Named, OneEach, SessionsDiffer
<1> QED
  BY <1>1, <1>2 DEF OneSessionEach, OneEach, Underway, SessionsDiffer

LEMMA OneEachStarts ==
    ASSUME ConnectInit
    PROVE  OneEach
  BY DEF ConnectInit, Nothing, OneEach, AttemptsDiffer, Underway, SessionsDiffer, Runs, Told

LEMMA OnlyAcceptedHolds ==
    ASSUME IInv
    PROVE  OnlyAccepted
  BY DEF IInv, OnlyAccepted, TasksAgreed, AgreedTo, SessionsAgreed, CacheAccepted, Agreed, Trust

(* `connect` looks for a session of the profile's name and in `connecting`, *)
(* the results are handled one by one: however many connects, answers,      *)
(* failures, panics and disconnects there are, a profile has one session or *)
(* one attempt, and stays in `connecting` exactly while the attempt or its  *)
(* result is under way, or after a panic.                                   *)
THEOREM ConnectsOnce == SetupsSound => (ConnectSpec => []OneSessionEach)
<1> SUFFICES ASSUME SetupsSound PROVE ConnectSpec => []OneSessionEach
  OBVIOUS
<1>1. ConnectInit => IInv
  BY InitHolds
<1>2. ConnectInit => OneEach
  BY OneEachStarts
<1>3. (IInv /\ OneEach) /\ [ConnectNext]_connectVars => (IInv /\ OneEach)'
  BY NextKeeps, NextOneEach
<1>4. IInv /\ OneEach => OneSessionEach
  BY OneEachCounts
<1> QED
  BY <1>1, <1>2, <1>3, <1>4, PTL DEF ConnectSpec

---------------------------------------------------------------------------
(***************************************************************************)
(* S3 uploads: a source of any length, any number of uploads and faults    *)
(***************************************************************************)
PartsOK(parts) ==
    /\ DOMAIN parts \subseteq 1..LastPart
    /\ \A n \in DOMAIN parts : parts[n] \in {"cut", PartOf(n)}

(* ids are given in order, so that the newest upload is that of the highest *)
TableOK(table, last) ==
    /\ DOMAIN table \subseteq 1..last
    /\ \A id \in DOMAIN table : PartsOK(table[id])

S3TypeOK ==
    /\ lists \in BOOLEAN /\ seesParts \in BOOLEAN /\ created \in Nat
    /\ TableOK(uploads, created) /\ TableOK(started, created)
    /\ writing \in [id : Nat, next : Nat]

(* the parts before the next one were put *)
Put(parts, next) == \A n \in 1..(next - 1) : n \in DOMAIN parts /\ parts[n] = PartOf(n)

(* what is written is the upload that will be found, and the parts that   *)
(* will be completed are those that were put                              *)
WritesFound ==
    writing # Idle =>
      /\ writing.id = Found /\ writing.next \in 1..(LastPart + 1)
      /\ IF seesParts THEN writing.id \in DOMAIN uploads /\ Put(uploads[writing.id], writing.next)
         ELSE writing.id \in DOMAIN started /\ Put(started[writing.id], writing.next)

Whole == [n \in 1..LastPart |-> PartOf(n)]
ObjectWhole == object # Nothing => object = Whole

S3IInv == S3TypeOK /\ WritesFound /\ ObjectWhole

SourceSound == LastPart \in Nat \ {0}

---------------------------------------------------------------------------
(* contiguous: the parts it counts are the first ones, and whole *)
LEMMA ProgressWhole ==
    ASSUME SourceSound, NEW parts, PartsOK(parts)
    PROVE  /\ Progress(parts) \in 0..(LastPart - 1)
           /\ Put(parts, Progress(parts) + 1)
<1> DEFINE S == {n \in InOrder(parts) : \A m \in 1..n : parts[m] = "full"}
           k == Cardinality(S)
<1>1. S \subseteq 1..(LastPart - 1)
  BY DEF InOrder, PartsOK, PartOf, SourceSound
<1>2. IsFiniteSet(1..(LastPart - 1)) /\ Cardinality(1..(LastPart - 1)) = LastPart - 1
  BY FS_Interval DEF SourceSound
<1>3. IsFiniteSet(S) /\ k \in Nat /\ k <= LastPart - 1
  BY <1>1, <1>2, FS_Subset, FS_CardinalityType
<1>4. ASSUME NEW j \in 1..k PROVE j \in S
  <2> SUFFICES ASSUME j \notin S PROVE FALSE
    OBVIOUS
  <2>1. S \subseteq 1..(j - 1)
    BY <1>1, <1>3 DEF InOrder, SourceSound
  <2>2. IsFiniteSet(1..(j - 1)) /\ Cardinality(1..(j - 1)) = j - 1
    <3>1. 1 \in Int /\ j - 1 \in Int /\ (1 > j - 1 => j - 1 = 0) /\ (j - 1) - 1 + 1 = j - 1
      BY <1>3
    <3> QED
      BY <3>1, FS_Interval
  <2>3. k <= j - 1
    BY <2>1, <2>2, FS_Subset
  <2> QED
    BY <1>3, <2>3
<1>5. Put(parts, k + 1)
  BY <1>1, <1>3, <1>4 DEF Put, InOrder, PartOf, SourceSound
<1> QED
  BY <1>3, <1>5 DEF Progress, SourceSound

LEMMA MaxIs ==
    ASSUME NEW S \in SUBSET Nat, NEW x \in S, \A y \in S : y <= x
    PROVE  Max(S) = x
<1>1. \A y \in S : x >= y
  OBVIOUS
<1>2. Max(S) \in S /\ \A y \in S : Max(S) >= y
  BY <1>1 DEF Max
<1>3. ASSUME NEW m \in S, m >= x PROVE m = x
  BY <1>3
<1> QED
  BY <1>2, <1>3

LEMMA WithoutOK ==
    ASSUME NEW table, NEW ids, NEW last, TableOK(table, last)
    PROVE  TableOK(Without(table, ids), last)
  BY DEF TableOK, Without

LEMMA CreatedOK ==
    ASSUME NEW table, NEW last \in Nat, TableOK(table, last)
    PROVE  /\ TableOK(table, last + 1)
           /\ TableOK(With(table, last + 1, Nothing), last + 1)
           /\ Max(DOMAIN With(table, last + 1, Nothing)) = last + 1
           /\ DOMAIN With(table, last + 1, Nothing) # {}
<1> DEFINE grown == With(table, last + 1, Nothing)
<1>1. TableOK(table, last + 1)
  BY DEF TableOK
<1>2. PartsOK(Nothing)
  BY DEF PartsOK, Nothing
<1>3. TableOK(grown, last + 1)
  BY <1>2 DEF TableOK, With
<1>4. DOMAIN grown \in SUBSET Nat /\ last + 1 \in DOMAIN grown /\ \A id \in DOMAIN grown : id <= last + 1
  BY <1>3 DEF TableOK, With
<1> QED
  BY <1>1, <1>3, <1>4, MaxIs

(* one more part, sent or flushed *)
LEMMA PutInOK ==
    ASSUME NEW table, NEW last, TableOK(table, last), NEW id, NEW n \in 1..LastPart,
           NEW part \in {"cut", PartOf(n)}
    PROVE  /\ TableOK(PutIn(table, id, n, part), last)
           /\ DOMAIN PutIn(table, id, n, part) = DOMAIN table
           /\ id \in DOMAIN table =>
                /\ n \in DOMAIN PutIn(table, id, n, part)[id] /\ PutIn(table, id, n, part)[id][n] = part
                /\ \A m \in DOMAIN table[id] \ {n} :
                     /\ m \in DOMAIN PutIn(table, id, n, part)[id]
                     /\ PutIn(table, id, n, part)[id][m] = table[id][m]
<1>1. \A parts : PartsOK(parts) => PartsOK(With(parts, n, part))
  BY DEF PartsOK, With
<1> QED
  BY <1>1 DEF TableOK, PutIn, With

LEMMA KnownPartsOK ==
    ASSUME S3TypeOK, NEW id, seesParts => id \in DOMAIN uploads
    PROVE  PartsOK(KnownParts(id))
  BY DEF S3TypeOK, TableOK, KnownParts, PartsOK, Nothing

---------------------------------------------------------------------------
LEMMA IdleKeeps ==
    ASSUME S3IInv, UNCHANGED <<lists, seesParts>>, created' \in Nat,
           TableOK(uploads, created)', TableOK(started, created)', writing' = Idle, ObjectWhole'
    PROVE  S3IInv'
  BY DEF S3IInv, S3TypeOK, WritesFound, Idle

(* an upload that goes on, after its whole parts *)
LEMMA ContinueKeeps ==
    ASSUME SourceSound, S3IInv, Reachable, Found # 0, Progress(KnownParts(Found)) > 0,
           writing' = [id |-> Found, next |-> Progress(KnownParts(Found)) + 1],
           UNCHANGED <<uploads, started, created, lists, seesParts, object>>
    PROVE  S3IInv'
<1>1. seesParts => Found \in DOMAIN uploads
  BY DEF Reachable
<1>2. Progress(KnownParts(Found)) \in 0..(LastPart - 1) /\ Put(KnownParts(Found), Progress(KnownParts(Found)) + 1)
  BY <1>1, KnownPartsOK, ProgressWhole DEF S3IInv
<1>3. ~seesParts => Found \in DOMAIN started
  BY <1>2 DEF KnownParts, Put, Nothing
<1>4. Found' = Found
  BY DEF Found
<1>5. Found \in Nat
  BY <1>1, <1>3 DEF S3IInv, S3TypeOK, TableOK
<1>6. S3TypeOK'
  BY <1>2, <1>5 DEF S3IInv, S3TypeOK, TableOK, PartsOK, PartOf
<1>7. WritesFound'
  BY <1>1, <1>2, <1>3, <1>4 DEF WritesFound, KnownParts, Put, PartOf, SourceSound
<1> QED
  BY <1>6, <1>7 DEF S3IInv, ObjectWhole, Whole, PartOf

LEMMA CreateKeeps ==
    ASSUME SourceSound, S3IInv, NEW ids, CreateUpload(Without(uploads, ids), Without(started, ids)),
           UNCHANGED <<lists, seesParts, object>>
    PROVE  S3IInv'
<1> DEFINE id == created + 1
<1>1. created \in Nat /\ TableOK(Without(uploads, ids), created) /\ TableOK(Without(started, ids), created)
  BY WithoutOK DEF S3IInv, S3TypeOK
<1>2. uploads' = With(Without(uploads, ids), id, Nothing) /\ started' = With(Without(started, ids), id, Nothing)
      /\ created' = id /\ writing' = [id |-> id, next |-> 1]
  BY DEF CreateUpload
<1>3. TableOK(uploads', id) /\ TableOK(started', id) /\ Max(DOMAIN uploads') = id /\ Max(DOMAIN started') = id
      /\ DOMAIN uploads' # {} /\ DOMAIN started' # {}
  BY <1>1, <1>2, CreatedOK
<1>4. id \in DOMAIN uploads' /\ id \in DOMAIN started'
  BY <1>2 DEF With
<1>5. Found' = id
  BY <1>3 DEF Found
<1>6. S3TypeOK'
  BY <1>1, <1>2, <1>3 DEF S3IInv, S3TypeOK, TableOK, PartsOK, PartOf
<1>7. WritesFound'
  BY <1>1, <1>2, <1>4, <1>5 DEF WritesFound, Put, SourceSound
<1> QED
  BY <1>6, <1>7 DEF S3IInv, ObjectWhole, Whole, PartOf

LEMMA OpenWriteKeeps ==
    ASSUME SourceSound, S3IInv, OpenWrite
    PROVE  S3IInv'
  BY ContinueKeeps, CreateKeeps DEF OpenWrite, Continue

LEMMA OpenWriteFailsKeeps ==
    ASSUME SourceSound, S3IInv, OpenWriteFails
    PROVE  S3IInv'
<1>1. created \in Nat /\ TableOK(uploads, created) /\ TableOK(started, created) /\ writing' = Idle
  BY DEF S3IInv, S3TypeOK, OpenWriteFails
<1>2. ObjectWhole'
  BY DEF OpenWriteFails, S3IInv, ObjectWhole, Whole, PartOf
<1>3. CASE AbortAll /\ UNCHANGED created
  <2>1. TableOK(uploads', created) /\ TableOK(started', created)
    BY <1>1, <1>3, WithoutOK DEF AbortAll
  <2> QED
    BY <1>1, <1>2, <1>3, <2>1, IdleKeeps DEF OpenWriteFails, TableOK, PartsOK, PartOf
<1>4. CASE UNCHANGED <<started, created>> /\ \E id \in Aborted : uploads' = Without(uploads, {id})
  <2>1. TableOK(uploads', created)
    BY <1>1, <1>4, WithoutOK
  <2> QED
    BY <1>1, <1>2, <1>4, <2>1, IdleKeeps DEF OpenWriteFails, TableOK, PartsOK, PartOf
<1>5. CASE /\ created' = created + 1
           /\ uploads' = With(Without(uploads, Aborted), created + 1, Nothing)
           /\ started' = Without(started, Aborted)
  <2>1. TableOK(Without(uploads, Aborted), created) /\ TableOK(Without(started, Aborted), created)
    BY <1>1, WithoutOK
  <2>2. TableOK(uploads', created + 1) /\ TableOK(started', created + 1)
    BY <1>1, <1>5, <2>1, CreatedOK
  <2> QED
    BY <1>1, <1>2, <1>5, <2>2, IdleKeeps DEF OpenWriteFails, TableOK, PartsOK, PartOf
<1> QED
  BY <1>3, <1>4, <1>5 DEF OpenWriteFails

LEMMA SendPartKeeps ==
    ASSUME SourceSound, S3IInv, SendPart
    PROVE  S3IInv'
<1> DEFINE id == writing.id
           n == writing.next
<1>1. /\ TableOK(uploads, created) /\ TableOK(started, created)
      /\ writing \in [id : Nat, next : Nat] /\ WritesFound /\ writing # Idle
  BY DEF S3IInv, S3TypeOK, SendPart
<1>2. n \in 1..LastPart /\ PartOf(n) \in {"cut", PartOf(n)}
  BY <1>1 DEF SendPart, Finished, WritesFound, SourceSound
<1>3. /\ uploads' = PutIn(uploads, id, n, PartOf(n)) /\ started' = PutIn(started, id, n, PartOf(n))
      /\ writing' = [id |-> id, next |-> n + 1]
  BY <1>1 DEF SendPart
<1>4. /\ TableOK(uploads', created) /\ DOMAIN uploads' = DOMAIN uploads
      /\ id \in DOMAIN uploads =>
           /\ n \in DOMAIN uploads'[id] /\ uploads'[id][n] = PartOf(n)
           /\ \A m \in DOMAIN uploads[id] \ {n} : m \in DOMAIN uploads'[id] /\ uploads'[id][m] = uploads[id][m]
  BY <1>1, <1>2, <1>3, PutInOK
<1>5. /\ TableOK(started', created) /\ DOMAIN started' = DOMAIN started
      /\ id \in DOMAIN started =>
           /\ n \in DOMAIN started'[id] /\ started'[id][n] = PartOf(n)
           /\ \A m \in DOMAIN started[id] \ {n} : m \in DOMAIN started'[id] /\ started'[id][m] = started[id][m]
  BY <1>1, <1>2, <1>3, PutInOK
<1>6. Found' = Found
  BY <1>4, <1>5 DEF Found, SendPart
<1>7. S3TypeOK'
  BY <1>1, <1>2, <1>3, <1>4, <1>5 DEF S3IInv, S3TypeOK, SendPart, TableOK, PartsOK, PartOf
<1>8. WritesFound'
  <2>1. 1..((n + 1) - 1) = 1..(n - 1) \cup {n} /\ n \notin 1..(n - 1) /\ n + 1 \in 1..(LastPart + 1)
    BY <1>2 DEF SourceSound
  <2>2. CASE seesParts
    <3>1. id \in DOMAIN uploads /\ Put(uploads[id], n)
      BY <1>1, <2>2 DEF WritesFound
    <3>2. Put(uploads'[id], n + 1)
      BY <1>4, <2>1, <3>1 DEF Put
    <3> QED
      BY <1>1, <1>3, <1>4, <1>6, <2>1, <2>2, <3>1, <3>2 DEF WritesFound, SendPart, Put, PartOf
  <2>3. CASE ~seesParts
    <3>1. id \in DOMAIN started /\ Put(started[id], n)
      BY <1>1, <2>3 DEF WritesFound
    <3>2. Put(started'[id], n + 1)
      BY <1>5, <2>1, <3>1 DEF Put
    <3> QED
      BY <1>1, <1>3, <1>5, <1>6, <2>1, <2>3, <3>1, <3>2 DEF WritesFound, SendPart, Put, PartOf
  <2> QED
    BY <2>2, <2>3
<1> QED
  BY <1>7, <1>8 DEF S3IInv, ObjectWhole, Whole, PartOf, SendPart

LEMMA StopKeeps ==
    ASSUME SourceSound, S3IInv, Stop
    PROVE  S3IInv'
<1>1. TableOK(uploads, created) /\ TableOK(started, created) /\ writing \in [id : Nat, next : Nat]
  BY DEF S3IInv, S3TypeOK
<1>2. writing.next \in 1..LastPart
  BY <1>1 DEF Stop, Finished, S3IInv, WritesFound, SourceSound
<1>3. TableOK(uploads', created) /\ TableOK(started', created)
  BY <1>1, <1>2, PutInOK DEF Stop
<1> QED
  BY <1>3, IdleKeeps DEF Stop, S3IInv, S3TypeOK, ObjectWhole, Whole, PartOf, TableOK, PartsOK

(* what is put in place *)
LEMMA FinishedWhole ==
    ASSUME SourceSound, S3IInv, Finished
    PROVE  Found = writing.id /\ Completed(KnownParts(Found)) = Whole
<1>1. WritesFound /\ S3TypeOK /\ writing # Idle
  BY DEF S3IInv, Finished
<1>2. Found = writing.id /\ writing.next - 1 = LastPart
  BY <1>1 DEF WritesFound, Finished, SourceSound
<1>3. Put(KnownParts(Found), writing.next) /\ PartsOK(KnownParts(Found))
  BY <1>1, <1>2 DEF WritesFound, KnownParts, S3TypeOK, TableOK
<1>4. InOrder(KnownParts(Found)) = 1..LastPart
  BY <1>2, <1>3 DEF Put, PartsOK, InOrder, SourceSound
<1>5. \A n \in 1..LastPart : KnownParts(Found)[n] = PartOf(n)
  BY <1>2, <1>3 DEF Put
<1> QED
  BY <1>2, <1>4, <1>5 DEF Completed, Whole

LEMMA CompleteKeeps ==
    ASSUME SourceSound, S3IInv, Complete
    PROVE  S3IInv'
<1>1. created \in Nat /\ TableOK(uploads, created) /\ TableOK(started, created)
  BY DEF S3IInv, S3TypeOK
<1>2. TableOK(uploads', created) /\ TableOK(started', created)
  BY <1>1, WithoutOK DEF Complete
<1>3. object' = Whole
  BY FinishedWhole DEF Complete
<1> QED
  BY <1>1, <1>2, <1>3, IdleKeeps DEF Complete, ObjectWhole, Whole, PartOf, TableOK, PartsOK

LEMMA OthersKeep ==
    ASSUME S3IInv, PartRefused \/ CompleteFails \/ RemovePartial \/ Restart
    PROVE  S3IInv'
<1>1. created \in Nat /\ TableOK(uploads, created) /\ TableOK(started, created)
  BY DEF S3IInv, S3TypeOK
<1>2. TableOK(Without(uploads, Aborted), created) /\ TableOK(Without(started, Aborted), created)
  BY <1>1, WithoutOK
<1>3. TableOK(Nothing, created)
  BY DEF TableOK, Nothing
<1>4. TableOK(uploads', created) /\ TableOK(started', created)
  BY <1>1, <1>2, <1>3 DEF PartRefused, CompleteFails, RemovePartial, AbortAll, Restart
<1> QED
  BY <1>1, <1>4, IdleKeeps
     DEF PartRefused, CompleteFails, RemovePartial, Restart, S3IInv, ObjectWhole, Whole, PartOf, TableOK, PartsOK

LEMMA S3Starts ==
    ASSUME S3Init
    PROVE  S3IInv
  BY DEF S3Init, Idle, Nothing, S3IInv, S3TypeOK, TableOK, WritesFound, ObjectWhole

LEMMA S3Keeps ==
    ASSUME SourceSound, S3IInv, [S3Next]_s3Vars
    PROVE  S3IInv'
<1>1. CASE UNCHANGED s3Vars
  BY <1>1 DEF s3Vars, S3IInv, S3TypeOK, TableOK, PartsOK, PartOf, WritesFound, Found, Put, ObjectWhole, Whole
<1> QED
  BY <1>1, OpenWriteKeeps, OpenWriteFailsKeeps, SendPartKeeps, StopKeeps, CompleteKeeps, OthersKeep
     DEF S3Next

LEMMA S3Completes ==
    ASSUME SourceSound, S3IInv
    PROVE  CompletesOwn
  BY FinishedWhole DEF CompletesOwn, S3IInv, ObjectWhole, Whole

---------------------------------------------------------------------------
(* open_write goes on with the upload that `pending` finds, `known_parts` *)
(* is what was put or what is remembered of it, rename completes what     *)
(* `pending` finds then: for a source of any number of parts, any number  *)
(* of uploads, and copies that are stopped, answers that are lost and     *)
(* restarts in any order, the upload that is completed is the one that    *)
(* was written, with all parts of the source and no other.                *)
THEOREM CompletesOwnHolds == SourceSound => (S3Spec => []CompletesOwn)
<1> SUFFICES ASSUME SourceSound PROVE S3Spec => []CompletesOwn
  OBVIOUS
<1>1. S3Init => S3IInv
  BY S3Starts
<1>2. S3IInv /\ [S3Next]_s3Vars => S3IInv'
  BY S3Keeps
<1>3. S3IInv => CompletesOwn
  BY S3Completes
<1> QED
  BY <1>1, <1>2, <1>3, PTL DEF S3Spec

---------------------------------------------------------------------------
(***************************************************************************)
(* FTP: any commands, and any order of answers, timeouts and closings      *)
(***************************************************************************)
Using == {"borrowed", "streaming"}
OnMain == {"locked", "unparseable", "replay", "again"}
Users == {c \in DOMAIN command : command[c].at \in Using}
CommandsFinite == IsFiniteSet(Commands)

FtpTypeOK ==
    /\ \A k \in DOMAIN owed : owed[k] \in Seq(Commands)
    /\ idle \in Seq(Nat) /\ main \in Nat /\ DOMAIN owed \subseteq Nat
    /\ DOMAIN command \subseteq Commands /\ outOfStep \in BOOLEAN /\ unmarked \in BOOLEAN
    /\ \A c \in DOMAIN command : command[c] \in [at : Using \cup OnMain, on : Nat]

(* a connection that is open and is not main is idle, or one transfer's    *)
Apart ==
    /\ \A i \in 1..Len(idle) : idle[i] \in DOMAIN owed /\ idle[i] # main
    /\ \A i, j \in 1..Len(idle) : i # j => idle[i] # idle[j]
    /\ \A c \in Users : command[c].on \in DOMAIN owed /\ command[c].on # main
    /\ \A c, d \in Users : c # d => command[c].on # command[d].on
    /\ \A c \in Users : \A i \in 1..Len(idle) : command[c].on # idle[i]
    /\ \A k \in DOMAIN owed \ {main} :
         (\E i \in 1..Len(idle) : idle[i] = k) \/ (\E c \in Users : command[c].on = k)
    /\ Len(idle) + Cardinality(Users) <= Cardinality(Commands)

(* one command at a time uses main, and one that finds it out of step      *)
(* replaces it first                                                       *)
TakesTurns ==
    /\ stage # "ready" => Users = {}
    /\ \A c \in DOMAIN command : command[c].at \in OnMain => turn = {c}
    /\ outOfStep = TRUE => stage = "ready" /\ \A c \in DOMAIN command : command[c].at \in Using \cup {"locked"}

Replaying == \E c \in DOMAIN command : command[c].at = "replay"

(* an answer is on its way only on main, and it is known, or about to be,  *)
(* but for the ways out of `attempt` that are not                          *)
AnswersKnown ==
    /\ \A k \in DOMAIN owed \ {main} : owed[k] = <<>>
    /\ main \in DOMAIN owed /\ owed[main] # <<>> => outOfStep = TRUE \/ unmarked = TRUE \/ Replaying
    /\ "marked" \notin took

FtpIInv == FtpTypeOK /\ Apart /\ TakesTurns /\ AnswersKnown

---------------------------------------------------------------------------
LEMMA UsersFinite ==
    ASSUME CommandsFinite, FtpTypeOK
    PROVE  /\ IsFiniteSet(Users) /\ Cardinality(Users) \in Nat /\ Cardinality(Commands) \in Nat
           /\ Users \subseteq Commands /\ Len(idle) \in Nat
  BY FS_Subset, FS_CardinalityType DEF CommandsFinite, FtpTypeOK, Users

LEMMA LeastOf ==
    ASSUME NEW T \in SUBSET Nat, T # {}
    PROVE  Min(T) \in T
<1>1. IsWellFoundedOn(OpToRel(<, Nat), Nat)
  BY NatLessThanWellFounded
<1>2. PICK x \in T : \A y \in T : ~(<<y, x>> \in OpToRel(<, Nat))
  BY <1>1, WFMin
<1>3. \A y \in T : x <= y
  <2>1. \A y \in T : ~(y < x)
    BY <1>2 DEF OpToRel
  <2> QED
    BY <2>1
<1> QED
  BY <1>3 DEF Min

(* there is always a number for a new connection *)
LEMMA FreshIs ==
    ASSUME CommandsFinite, FtpTypeOK, Apart
    PROVE  Fresh \in Nat /\ Fresh \notin DOMAIN owed /\ Fresh # main
<1> DEFINE n == Cardinality(Commands)
           idles == {idle[i] : i \in 1..Len(idle)}
           used == {command[c].on : c \in Users}
           busy == DOMAIN owed \cup {main}
           all == 1..(2 * n + 2)
<1>1. /\ IsFiniteSet(Users) /\ Cardinality(Users) \in Nat /\ n \in Nat /\ Len(idle) \in Nat
      /\ Len(idle) + Cardinality(Users) <= n
  BY UsersFinite DEF Apart
<1>2. IsFiniteSet(idles) /\ Cardinality(idles) <= Len(idle)
  <2>1. IsFiniteSet(1..Len(idle)) /\ Cardinality(1..Len(idle)) = Len(idle)
    <3>1. PICK m \in Nat : m = Len(idle)
      BY <1>1
    <3>2. IsFiniteSet(1..m) /\ Cardinality(1..m) = m
      BY FS_Interval
    <3> QED
      BY <3>1, <3>2
  <2>2. [i \in 1..Len(idle) |-> idle[i]] \in Surjection(1..Len(idle), idles)
    BY DEF Surjection
  <2> HIDE DEF idles
  <2> QED
    BY <2>1, <2>2, FS_Surjection
<1>3. IsFiniteSet(used) /\ Cardinality(used) <= Cardinality(Users)
  <2>1. [c \in Users |-> command[c].on] \in Surjection(Users, used)
    BY DEF Surjection
  <2> HIDE DEF used
  <2> QED
    BY <1>1, <2>1, FS_Surjection
<1>4. busy \subseteq idles \cup used \cup {main}
  BY DEF Apart
<1> HIDE DEF idles, used, busy, n
<1>5. /\ IsFiniteSet(idles \cup used)
      /\ Cardinality(idles \cup used) = Cardinality(idles) + Cardinality(used) - Cardinality(idles \cap used)
  BY <1>2, <1>3, FS_Union
<1>6. /\ Cardinality(idles) \in Nat /\ Cardinality(used) \in Nat /\ Cardinality(idles \cap used) \in Nat
      /\ Cardinality(idles \cup used) \in Nat
  <2>1. IsFiniteSet(idles \cap used)
    BY <1>2, FS_Subset
  <2> QED
    BY <1>2, <1>3, <1>5, <2>1, FS_CardinalityType
<1>7. Cardinality(idles \cup used) <= n
  BY <1>1, <1>2, <1>3, <1>5, <1>6
<1>8. /\ IsFiniteSet(idles \cup used \cup {main})
      /\ Cardinality(idles \cup used \cup {main}) <= Cardinality(idles \cup used) + 1
      /\ Cardinality(idles \cup used \cup {main}) \in Nat
  <2>1. PICK U : U = idles \cup used
    OBVIOUS
  <2>2. /\ IsFiniteSet(U \cup {main})
        /\ Cardinality(U \cup {main}) = IF main \in U THEN Cardinality(U) ELSE Cardinality(U) + 1
    BY <1>5, <2>1, FS_AddElement
  <2>3. Cardinality(U) \in Nat /\ Cardinality(U \cup {main}) \in Nat
    BY <1>6, <2>1, <2>2, FS_CardinalityType
  <2> QED
    BY <2>1, <2>2, <2>3
<1>9. ~(all \subseteq busy)
  <2>1. 2 * n + 2 \in Nat /\ 2 * n + 2 > n + 1
    BY <1>1
  <2>2. Cardinality(all) = 2 * n + 2
    BY <2>1, FS_Interval
  <2> SUFFICES ASSUME all \subseteq busy PROVE FALSE
    OBVIOUS
  <2>3. all \subseteq idles \cup used \cup {main}
    BY <1>4
  <2>4. Cardinality(all) <= Cardinality(idles \cup used \cup {main})
    BY <1>8, <2>3, FS_Subset
  <2> HIDE DEF all
  <2> QED
    BY <1>1, <1>6, <1>7, <1>8, <2>1, <2>2, <2>4
<1>10. PICK T : T = all \ busy
  OBVIOUS
<1>11. T \in SUBSET Nat /\ T # {}
  BY <1>1, <1>9, <1>10
<1>12. Fresh = Min(T)
  BY <1>10 DEF Fresh, n, busy
<1>13. Min(T) \in T
  BY <1>11, LeastOf
<1>14. Fresh \in all \ busy
  BY <1>10, <1>12, <1>13
<1> QED
  BY <1>1, <1>14 DEF busy

---------------------------------------------------------------------------
(* one exchange on a connection *)
OwedTyped == DOMAIN owed \subseteq Nat /\ \A k \in DOMAIN owed : owed[k] \in Seq(Commands)

LEMMA AnsweredIs ==
    ASSUME OwedTyped, NEW c \in Commands, NEW k, Answered(c, k)
    PROVE  /\ k \in DOMAIN owed /\ DOMAIN owed' = DOMAIN owed /\ OwedTyped'
           /\ \A j \in DOMAIN owed : j # k => owed'[j] = owed[j]
           /\ owed[k] = <<>> => owed'[k] = <<>> /\ took' = took
           /\ k = main /\ unmarked = TRUE => took' \subseteq took \cup {"unmarked"}
<1>1. PICK answers : answers = Append(owed[k], c)
  OBVIOUS
<1>2. /\ k \in DOMAIN owed /\ owed' = [owed EXCEPT ![k] = Tail(answers)]
      /\ took' = IF Head(answers) = c THEN took
                 ELSE took \cup {IF k = main /\ unmarked THEN "unmarked" ELSE "marked"}
  BY <1>1 DEF Answered
<1>3. owed[k] \in Seq(Commands) /\ answers \in Seq(Commands) /\ answers # <<>>
  BY <1>1, <1>2 DEF OwedTyped
<1>4. Tail(answers) \in Seq(Commands)
  BY <1>3
<1>5. owed[k] = <<>> => Head(answers) = c /\ Tail(answers) = <<>>
  BY <1>1
<1>6. DOMAIN owed' = DOMAIN owed /\ owed'[k] = Tail(answers) /\ \A j \in DOMAIN owed : j # k => owed'[j] = owed[j]
  BY <1>2
<1>7. OwedTyped'
  BY <1>4, <1>6 DEF OwedTyped
<1> QED
  BY <1>2, <1>5, <1>6, <1>7

LEMMA LateIs ==
    ASSUME OwedTyped, NEW c \in Commands, NEW k, Late(c, k)
    PROVE  /\ k \in DOMAIN owed /\ DOMAIN owed' = DOMAIN owed /\ OwedTyped'
           /\ \A j \in DOMAIN owed : j # k => owed'[j] = owed[j]
           /\ took' = took
  BY DEF Late, OwedTyped

LEMMA ClosedIs ==
    ASSUME OwedTyped, NEW k, Closed(k)
    PROVE  /\ DOMAIN owed' = DOMAIN owed \ {k} /\ OwedTyped'
           /\ \A j \in DOMAIN owed' : owed'[j] = owed[j]
           /\ took' = took
  BY DEF Closed, Without, OwedTyped

LEMMA OpenIs ==
    ASSUME OwedTyped, NEW S, Open(Without(owed, S)), Fresh \in Nat
    PROVE  /\ DOMAIN owed' = (DOMAIN owed \ S) \cup {Fresh} /\ OwedTyped'
           /\ owed'[Fresh] = <<>> /\ \A j \in DOMAIN owed \ S : j # Fresh => owed'[j] = owed[j]
<1>1. PICK k \in Nat : k = Fresh
  OBVIOUS
<1>2. owed' = With(Without(owed, S), k, <<>>)
  BY <1>1 DEF Open
<1> QED
  BY <1>1, <1>2 DEF With, Without, OwedTyped

(* the commands that use main come and go *)
SameUsers == Users' = Users /\ \A c \in Users : command'[c].on = command[c].on
CommandsTyped ==
    DOMAIN command \subseteq Commands /\ \A c \in DOMAIN command : command[c] \in [at : Using \cup OnMain, on : Nat]
OnMainOnly(c) == c \in DOMAIN command /\ command[c].at \in OnMain

LEMMA StaysInTurn ==
    ASSUME CommandsTyped, TakesTurns, NEW c, OnMainOnly(c), NEW place \in OnMain, Goes(c, place),
           outOfStep # TRUE, UNCHANGED <<turn, stage, outOfStep>>
    PROVE  /\ SameUsers /\ CommandsTyped' /\ TakesTurns'
           /\ c \in DOMAIN command' /\ command'[c].at = place
           /\ \A d \in DOMAIN command' : command'[d].at \in OnMain => d = c
<1>1. /\ DOMAIN command' = DOMAIN command
      /\ command'[c] = [command[c] EXCEPT !.at = place]
      /\ \A d \in DOMAIN command : d # c => command'[d] = command[d]
  BY DEF Goes, OnMainOnly
<1>2. command[c] \in [at : Using \cup OnMain, on : Nat]
  BY DEF OnMainOnly, CommandsTyped
<1>3. command'[c].at = place /\ command'[c].on = command[c].on /\ command'[c] \in [at : Using \cup OnMain, on : Nat]
  BY <1>1, <1>2
<1>4. \A p \in OnMain : p \notin Using
  BY DEF OnMain, Using
<1>5. Users' = {d \in DOMAIN command' : command'[d].at \in Using}
  BY DEF Users
<1>6. SameUsers
  BY <1>1, <1>3, <1>4, <1>5 DEF SameUsers, Users, OnMainOnly
<1>7. CommandsTyped'
  BY <1>1, <1>3 DEF CommandsTyped
<1>8. turn = {c} /\ \A d \in DOMAIN command : command[d].at \in OnMain => d = c
  BY DEF TakesTurns, OnMainOnly
<1>9. TakesTurns'
  BY <1>1, <1>6, <1>8 DEF TakesTurns, SameUsers
<1> QED
  BY <1>1, <1>3, <1>6, <1>7, <1>8, <1>9 DEF OnMainOnly

LEMMA EndsOn ==
    ASSUME CommandsTyped, TakesTurns, NEW c, OnMainOnly(c), NEW succeeded, CommandEnds(c, succeeded),
           outOfStep' = outOfStep \/ outOfStep' = FALSE
    PROVE  /\ SameUsers /\ CommandsTyped' /\ TakesTurns' /\ ~Replaying'
<1>1. /\ DOMAIN command' = DOMAIN command \ {c}
      /\ \A d \in DOMAIN command' : command'[d] = command[d]
      /\ stage' # "ready" => stage # "ready"
      /\ stage = "ready" => stage' = "ready"
  BY DEF CommandEnds, Without
<1>2. \A p \in OnMain : p \notin Using
  BY DEF OnMain, Using
<1>3. Users' = {d \in DOMAIN command' : command'[d].at \in Using}
  BY DEF Users
<1>4. SameUsers
  BY <1>1, <1>2, <1>3 DEF SameUsers, Users, OnMainOnly
<1>5. CommandsTyped'
  BY <1>1 DEF CommandsTyped
<1>6. \A d \in DOMAIN command : command[d].at \in OnMain => d = c
  BY DEF TakesTurns, OnMainOnly
<1>7. \A d \in DOMAIN command' : command'[d].at \notin OnMain
  BY <1>1, <1>6
<1>8. TakesTurns'
  BY <1>1, <1>4, <1>7 DEF TakesTurns, SameUsers
<1>9. ~Replaying'
  BY <1>7 DEF Replaying, OnMain
<1> QED
  BY <1>4, <1>5, <1>8, <1>9

LEMMA ApartStays ==
    ASSUME Apart, SameUsers, idle' = idle, DOMAIN owed' \ {main'} = DOMAIN owed \ {main}
    PROVE  Apart'
  BY DEF Apart, SameUsers

(* ... and what they leave of the answers on main *)
LEMMA MainKeeps ==
    ASSUME FtpIInv, SameUsers, CommandsTyped', TakesTurns', OwedTyped',
           idle' = idle, main' \in Nat, outOfStep' \in BOOLEAN, unmarked' \in BOOLEAN,
           DOMAIN owed' \ {main'} = DOMAIN owed \ {main},
           \A k \in DOMAIN owed' \ {main'} : owed'[k] = owed[k],
           "marked" \notin took',
           main' \in DOMAIN owed' /\ owed'[main'] # <<>> => outOfStep' = TRUE \/ unmarked' = TRUE \/ Replaying'
    PROVE  FtpIInv'
<1>1. Apart'
  BY ApartStays DEF FtpIInv
<1>2. FtpTypeOK'
  BY DEF FtpIInv, FtpTypeOK, CommandsTyped, OwedTyped
<1>3. AnswersKnown'
  BY DEF FtpIInv, AnswersKnown
<1> QED
  BY <1>1, <1>2, <1>3 DEF FtpIInv

LEMMA Parts ==
    ASSUME FtpIInv
    PROVE  /\ OwedTyped /\ CommandsTyped /\ TakesTurns /\ main \in Nat
           /\ outOfStep \in BOOLEAN /\ unmarked \in BOOLEAN /\ "marked" \notin took
           /\ \A k \in DOMAIN owed \ {main} : owed[k] = <<>>
           /\ \A c \in Commands : At(c, "locked") \/ At(c, "unparseable") \/ At(c, "again") => ~Replaying
           /\ \A c \in Commands : At(c, "unparseable") \/ At(c, "replay") \/ At(c, "again") => outOfStep = FALSE
           /\ \A c \in Commands : At(c, "locked") \/ At(c, "unparseable") \/ At(c, "replay") \/ At(c, "again") => OnMainOnly(c)
<1>1. \A c, d \in DOMAIN command : command[c].at \in OnMain /\ command[d].at \in OnMain => c = d
  BY DEF FtpIInv, TakesTurns
<1>2. \A c \in Commands : At(c, "locked") \/ At(c, "unparseable") \/ At(c, "again") => ~Replaying
  BY <1>1 DEF At, Replaying, OnMain
<1> QED
  BY <1>2 DEF FtpIInv, FtpTypeOK, OwedTyped, CommandsTyped, TakesTurns, AnswersKnown, At, OnMainOnly, OnMain, Using

(* one exchange on main that nobody replays at *)
LEMMA ExchangeOnMain ==
    ASSUME FtpIInv, NEW c \in Commands, outOfStep = FALSE, ~Replaying,
           Answered(c, main) \/ Late(c, main) \/ Closed(main)
    PROVE  /\ OwedTyped' /\ DOMAIN owed' \ {main} = DOMAIN owed \ {main}
           /\ \A k \in DOMAIN owed' \ {main} : owed'[k] = owed[k]
           /\ "marked" \notin took'
           /\ Answered(c, main) \/ Closed(main) =>
                (main \in DOMAIN owed' /\ owed'[main] # <<>> => unmarked = TRUE)
<1>1. OwedTyped /\ "marked" \notin took
  BY Parts
<1>2. main \in DOMAIN owed /\ owed[main] # <<>> => unmarked = TRUE
  BY DEF FtpIInv, AnswersKnown
<1>3. CASE Answered(c, main)
  BY <1>1, <1>2, <1>3, AnsweredIs
<1>4. CASE Late(c, main) /\ ~Answered(c, main) /\ ~Closed(main)
  BY <1>1, <1>4, LateIs
<1>5. CASE Closed(main) /\ ~Answered(c, main)
  BY <1>1, <1>5, ClosedIs
<1> QED
  BY <1>3, <1>4, <1>5

(* what becomes of a command after an exchange on main *)
MovesOn(c) ==
    \E place \in OnMain :
      /\ Goes(c, place) /\ UNCHANGED <<turn, stage>> /\ unmarked' = unmarked
      /\ Answered(c, main) \/ Closed(main) \/ place = "replay"
IsOver(c) ==
    \E succeeded \in BOOLEAN :
      /\ CommandEnds(c, succeeded)
      /\ \/ unmarked' = unmarked /\ (Answered(c, main) \/ Closed(main))
         \/ unmarked' = TRUE

LEMMA TryMainKeeps ==
    ASSUME FtpIInv, NEW c \in Commands, FirstTry(c) \/ Noop(c) \/ SecondTry(c)
    PROVE  FtpIInv'
<1>1. /\ CommandsTyped /\ TakesTurns /\ OnMainOnly(c) /\ ~Replaying /\ outOfStep = FALSE
      /\ main \in Nat /\ unmarked \in BOOLEAN
      /\ UNCHANGED <<main, outOfStep, idle>>
      /\ Answered(c, main) \/ Late(c, main) \/ Closed(main)
  BY Parts DEF FirstTry, Noop, SecondTry
<1>2. /\ OwedTyped' /\ DOMAIN owed' \ {main} = DOMAIN owed \ {main}
      /\ \A k \in DOMAIN owed' \ {main} : owed'[k] = owed[k]
      /\ "marked" \notin took'
      /\ Answered(c, main) \/ Closed(main) =>
           (main \in DOMAIN owed' /\ owed'[main] # <<>> => unmarked = TRUE)
  BY <1>1, ExchangeOnMain
<1>3. MovesOn(c) \/ IsOver(c)
  BY DEF FirstTry, Noop, SecondTry, OnMain, MovesOn, IsOver
<1>4. CASE MovesOn(c)
  <2>1. PICK place \in OnMain :
          /\ Goes(c, place) /\ UNCHANGED <<turn, stage>> /\ unmarked' = unmarked
          /\ Answered(c, main) \/ Closed(main) \/ place = "replay"
    BY <1>4 DEF MovesOn
  <2>2. SameUsers /\ CommandsTyped' /\ TakesTurns' /\ c \in DOMAIN command' /\ command'[c].at = place
    BY <1>1, <2>1, StaysInTurn
  <2>3. place = "replay" => Replaying'
    BY <2>2 DEF Replaying
  <2>4. main' \in DOMAIN owed' /\ owed'[main'] # <<>> => outOfStep' = TRUE \/ unmarked' = TRUE \/ Replaying'
    BY <1>1, <1>2, <2>1, <2>3
  <2> QED
    BY <1>1, <1>2, <2>1, <2>2, <2>4, MainKeeps
<1>5. CASE IsOver(c)
  <2>1. PICK succeeded \in BOOLEAN :
          /\ CommandEnds(c, succeeded)
          /\ \/ unmarked' = unmarked /\ (Answered(c, main) \/ Closed(main))
             \/ unmarked' = TRUE
    BY <1>5 DEF IsOver
  <2>2. SameUsers /\ CommandsTyped' /\ TakesTurns'
    BY <1>1, <2>1, EndsOn
  <2>3. main' \in DOMAIN owed' /\ owed'[main'] # <<>> => outOfStep' = TRUE \/ unmarked' = TRUE \/ Replaying'
    BY <1>1, <1>2, <2>1
  <2>4. unmarked' \in BOOLEAN
    BY <1>1, <2>1
  <2> QED
    BY <1>1, <1>2, <2>2, <2>3, <2>4, MainKeeps
<1> QED
  BY <1>3, <1>4, <1>5

LEMMA OpensMain ==
    ASSUME CommandsFinite, FtpIInv, Open(Without(owed, {main})), main' = Fresh
    PROVE  /\ OwedTyped' /\ main' \in Nat /\ DOMAIN owed' \ {main'} = DOMAIN owed \ {main}
           /\ \A k \in DOMAIN owed' \ {main'} : owed'[k] = owed[k]
           /\ owed'[main'] = <<>>
<1>1. Fresh \in Nat /\ Fresh \notin DOMAIN owed
  BY FreshIs DEF FtpIInv
<1>2. /\ DOMAIN owed' = (DOMAIN owed \ {main}) \cup {Fresh} /\ OwedTyped'
      /\ owed'[Fresh] = <<>> /\ \A j \in DOMAIN owed \ {main} : j # Fresh => owed'[j] = owed[j]
  BY <1>1, Parts, OpenIs
<1> QED
  BY <1>1, <1>2

LEMMA ReopenKeeps ==
    ASSUME CommandsFinite, FtpIInv, NEW c \in Commands, Reopen(c)
    PROVE  FtpIInv'
<1>1. /\ CommandsTyped /\ TakesTurns /\ OnMainOnly(c) /\ outOfStep = FALSE /\ OwedTyped
      /\ main \in Nat /\ unmarked \in BOOLEAN /\ "marked" \notin took
      /\ UNCHANGED <<outOfStep, idle, took>>
  BY Parts DEF Reopen
<1>2. CASE /\ Open(Without(owed, {main})) /\ main' = Fresh /\ Goes(c, "again")
           /\ unmarked' = FALSE /\ UNCHANGED <<turn, stage>>
  <2>1. SameUsers /\ CommandsTyped' /\ TakesTurns'
    BY <1>1, <1>2, StaysInTurn DEF OnMain
  <2> QED
    BY <1>1, <1>2, <2>1, OpensMain, MainKeeps
<1>3. CASE CommandEnds(c, FALSE) /\ unmarked' = (unmarked \/ main \in DOMAIN owed) /\ UNCHANGED <<owed, main>>
  <2>1. SameUsers /\ CommandsTyped' /\ TakesTurns'
    BY <1>1, <1>3, EndsOn
  <2>2. unmarked' \in BOOLEAN /\ (main \in DOMAIN owed => unmarked' = TRUE)
    BY <1>3
  <2>3. OwedTyped'
    BY <1>1, <1>3 DEF OwedTyped
  <2> QED
    BY <1>1, <1>3, <2>1, <2>2, <2>3, MainKeeps
<1> QED
  BY <1>2, <1>3 DEF Reopen

LEMMA ReplaceKeeps ==
    ASSUME CommandsFinite, FtpIInv, NEW c \in Commands, ReplaceMain(c)
    PROVE  FtpIInv'
<1>1. /\ CommandsTyped /\ TakesTurns /\ OnMainOnly(c) /\ OwedTyped
      /\ main \in Nat /\ unmarked \in BOOLEAN /\ outOfStep \in BOOLEAN /\ "marked" \notin took
      /\ UNCHANGED <<idle, took>>
  BY Parts DEF ReplaceMain
<1>2. CASE /\ Open(Without(owed, {main})) /\ main' = Fresh /\ outOfStep' = FALSE /\ unmarked' = FALSE
           /\ UNCHANGED <<turn, command, stage>>
  <2>1. SameUsers /\ CommandsTyped' /\ TakesTurns'
    BY <1>1, <1>2 DEF SameUsers, Users, CommandsTyped, TakesTurns
  <2> QED
    BY <1>1, <1>2, <2>1, OpensMain, MainKeeps
<1>3. CASE CommandEnds(c, FALSE) /\ UNCHANGED <<owed, main, outOfStep, unmarked>>
  <2>1. SameUsers /\ CommandsTyped' /\ TakesTurns'
    BY <1>1, <1>3, EndsOn
  <2>2. outOfStep = TRUE
    BY <1>1 DEF ReplaceMain
  <2>3. OwedTyped'
    BY <1>1, <1>3 DEF OwedTyped
  <2> QED
    BY <1>1, <1>3, <2>1, <2>2, <2>3, MainKeeps
<1> QED
  BY <1>2, <1>3 DEF ReplaceMain

LEMMA AttemptKeeps ==
    ASSUME FtpIInv, NEW c \in Commands, Attempt(c)
    PROVE  FtpIInv'
<1>1. /\ CommandsTyped /\ TakesTurns /\ OwedTyped /\ main \in Nat /\ unmarked \in BOOLEAN
      /\ outOfStep \in BOOLEAN /\ "marked" \notin took
      /\ turn = {} /\ turn' = {c} /\ c \notin DOMAIN command
      /\ command' = With(command, c, [at |-> "locked", on |-> 0])
      /\ UNCHANGED <<owed, main, outOfStep, idle, stage, took, unmarked>>
  BY Parts DEF Attempt
<1>2. /\ DOMAIN command' = DOMAIN command \cup {c} /\ command'[c] = [at |-> "locked", on |-> 0]
      /\ \A d \in DOMAIN command : command'[d] = command[d]
  BY <1>1 DEF With
<1>3. Users' = {d \in DOMAIN command' : command'[d].at \in Using}
  BY DEF Users
<1>4. SameUsers
  BY <1>1, <1>2, <1>3 DEF SameUsers, Users, Using
<1>5. CommandsTyped'
  BY <1>1, <1>2 DEF CommandsTyped, OnMain
<1>6. \A d \in DOMAIN command : command[d].at \notin OnMain
  BY <1>1 DEF TakesTurns
<1>7. TakesTurns'
  BY <1>1, <1>2, <1>4, <1>6 DEF TakesTurns, SameUsers
<1>8. ~Replaying
  BY <1>6 DEF Replaying, OnMain
<1>9. main \in DOMAIN owed /\ owed[main] # <<>> => outOfStep = TRUE \/ unmarked = TRUE
  BY <1>8 DEF FtpIInv, AnswersKnown
<1>10. OwedTyped'
  BY <1>1 DEF OwedTyped
<1> QED
  BY <1>1, <1>4, <1>5, <1>7, <1>9, <1>10, MainKeeps

(* at that time there is no other command *)
LEMMA AskOnceKeeps ==
    ASSUME FtpIInv, NEW c \in Commands, AskOnce(c)
    PROVE  FtpIInv'
<1>1. /\ CommandsTyped /\ TakesTurns /\ main \in Nat /\ unmarked \in BOOLEAN
      /\ turn = {} /\ stage = "features" /\ CommandEnds(c, TRUE) /\ UNCHANGED <<main, idle, unmarked>>
      /\ outOfStep' = outOfStep \/ outOfStep' = TRUE
      /\ Answered(c, main) \/ Late(c, main) \/ Closed(main)
      /\ Answered(c, main) \/ Closed(main) \/ outOfStep' = TRUE
  BY Parts DEF AskOnce
<1>2. DOMAIN command = {}
  <2>1. \A d \in DOMAIN command : command[d].at \in Using \cup OnMain
    BY <1>1 DEF CommandsTyped
  <2> QED
    BY <1>1, <2>1 DEF TakesTurns, Users
<1>3. outOfStep = FALSE /\ ~Replaying
  BY <1>1, <1>2, Parts DEF TakesTurns, Replaying
<1>4. DOMAIN command' = {} /\ stage' = "ready"
  BY <1>1, <1>2 DEF CommandEnds, Without
<1>5. Users = {} /\ Users' = {} /\ SameUsers
  BY <1>2, <1>4 DEF Users, SameUsers
<1>6. CommandsTyped' /\ TakesTurns'
  BY <1>4, <1>5 DEF CommandsTyped, TakesTurns
<1>7. /\ OwedTyped' /\ DOMAIN owed' \ {main} = DOMAIN owed \ {main}
      /\ \A k \in DOMAIN owed' \ {main} : owed'[k] = owed[k]
      /\ "marked" \notin took'
      /\ Answered(c, main) \/ Closed(main) => (main \in DOMAIN owed' /\ owed'[main] # <<>> => unmarked = TRUE)
  BY <1>1, <1>3, ExchangeOnMain
<1> QED
  BY <1>1, <1>3, <1>5, <1>6, <1>7, MainKeeps

(***************************************************************************)
(* Transfers                                                               *)
(***************************************************************************)
TurnsKept ==
    /\ stage = "ready" /\ stage' = "ready" /\ turn' = turn /\ outOfStep' = outOfStep
    /\ \A d \in DOMAIN command' :
         \/ command'[d].at \in Using
         \/ d \in DOMAIN command /\ command'[d].at = command[d].at
    /\ \A d \in DOMAIN command : command[d].at \in OnMain => d \in DOMAIN command' /\ command'[d] = command[d]

(* a transfer uses a connection of its own *)
LEMMA TransferKeeps ==
    ASSUME FtpIInv, TurnsKept, CommandsTyped', OwedTyped', Apart', idle' \in Seq(Nat),
           UNCHANGED <<main, unmarked, took>>,
           main \in DOMAIN owed' => main \in DOMAIN owed /\ owed'[main] = owed[main],
           \A k \in DOMAIN owed' \ {main} : owed'[k] = <<>>
    PROVE  FtpIInv'
<1>1. FtpTypeOK'
  BY DEF FtpIInv, FtpTypeOK, CommandsTyped, OwedTyped, TurnsKept
<1>2. TakesTurns'
  <2>1. \A p \in Using : p \notin OnMain
    BY DEF Using, OnMain
  <2>2. \A d \in DOMAIN command' : command'[d].at \in OnMain => turn' = {d}
    BY <2>1 DEF FtpIInv, TakesTurns, TurnsKept
  <2>3. outOfStep = TRUE => \A d \in DOMAIN command' : command'[d].at \in Using \cup {"locked"}
    BY DEF FtpIInv, TakesTurns, TurnsKept
  <2> QED
    BY <2>2, <2>3 DEF TakesTurns, TurnsKept
<1>3. Replaying => Replaying'
  BY DEF Replaying, TurnsKept, OnMain
<1>4. AnswersKnown'
  BY <1>3 DEF FtpIInv, AnswersKnown, TurnsKept
<1> QED
  BY <1>1, <1>2, <1>4 DEF FtpIInv

LEMMA Joins ==
    ASSUME FtpIInv, stage = "ready", NEW c \in Commands, c \notin DOMAIN command, NEW k \in Nat,
           command' = With(command, c, [at |-> "borrowed", on |-> k]),
           UNCHANGED <<stage, turn, outOfStep>>
    PROVE  /\ TurnsKept /\ CommandsTyped' /\ Users' = Users \cup {c} /\ c \notin Users
           /\ command'[c].on = k /\ \A d \in Users : command'[d].on = command[d].on
<1>1. PICK r : r = [at |-> "borrowed", on |-> k]
  OBVIOUS
<1>2. r.at = "borrowed" /\ r.on = k /\ r \in [at : Using \cup OnMain, on : Nat]
  BY <1>1 DEF Using
<1>3. /\ DOMAIN command' = DOMAIN command \cup {c} /\ command'[c] = r
      /\ \A d \in DOMAIN command : command'[d] = command[d]
  BY <1>1 DEF With
<1>4. Users' = {d \in DOMAIN command' : command'[d].at \in Using}
  BY DEF Users
<1>5. Users' = Users \cup {c} /\ c \notin Users
  BY <1>2, <1>3, <1>4 DEF Users, Using
<1>6. CommandsTyped'
  BY <1>2, <1>3, Parts DEF CommandsTyped
<1>7. TurnsKept
  BY <1>2, <1>3 DEF TurnsKept, Using
<1> QED
  BY <1>2, <1>3, <1>5, <1>6, <1>7 DEF Users

LEMMA LeavesIs ==
    ASSUME FtpIInv, NEW c \in Users, Leaves(c), UNCHANGED <<stage, turn, outOfStep>>
    PROVE  /\ TurnsKept /\ CommandsTyped' /\ Users' = Users \ {c}
           /\ \A d \in Users' : command'[d].on = command[d].on
<1>1. /\ DOMAIN command' = DOMAIN command \ {c} /\ \A d \in DOMAIN command' : command'[d] = command[d]
  BY DEF Leaves, Without
<1>2. Users' = {d \in DOMAIN command' : command'[d].at \in Using}
  BY DEF Users
<1>3. Users' = Users \ {c}
  BY <1>1, <1>2 DEF Users
<1>4. CommandsTyped'
  BY <1>1, Parts DEF CommandsTyped
<1>5. command[c].at \notin OnMain
  BY DEF Users, Using, OnMain
<1>6. stage = "ready"
  BY DEF FtpIInv, TakesTurns
<1>7. TurnsKept
  BY <1>1, <1>5, <1>6 DEF TurnsKept
<1> QED
  BY <1>1, <1>3, <1>4, <1>7 DEF Users

LEMMA StreamsIs ==
    ASSUME FtpIInv, NEW c \in Users, Goes(c, "streaming"), UNCHANGED <<stage, turn, outOfStep>>
    PROVE  TurnsKept /\ CommandsTyped' /\ SameUsers
<1>1. /\ DOMAIN command' = DOMAIN command /\ c \in DOMAIN command
      /\ command'[c] = [command[c] EXCEPT !.at = "streaming"]
      /\ \A d \in DOMAIN command : d # c => command'[d] = command[d]
  BY DEF Goes, Users
<1>2. CommandsTyped
  BY Parts
<1>3. command[c] \in [at : Using \cup OnMain, on : Nat]
  BY <1>1, <1>2 DEF CommandsTyped
<1>4. /\ command'[c].at = "streaming" /\ command'[c].on = command[c].on
      /\ command'[c] \in [at : Using \cup OnMain, on : Nat]
  BY <1>1, <1>3 DEF Using
<1>5. Users' = {d \in DOMAIN command' : command'[d].at \in Using}
  BY DEF Users
<1>6. SameUsers
  BY <1>1, <1>4, <1>5 DEF SameUsers, Users, Using
<1>7. CommandsTyped'
  BY <1>1, <1>2, <1>4 DEF CommandsTyped
<1>8. command[c].at \notin OnMain
  BY DEF Users, Using, OnMain
<1>9. stage = "ready"
  BY DEF FtpIInv, TakesTurns
<1>10. TurnsKept
  BY <1>1, <1>4, <1>8, <1>9 DEF TurnsKept, Using
<1> QED
  BY <1>6, <1>7, <1>10

(* an exchange on a connection that is not main *)
LEMMA AnsweredElsewhere ==
    ASSUME FtpIInv, NEW c \in Commands, NEW k, k # main, Answered(c, k)
    PROVE  /\ OwedTyped' /\ DOMAIN owed' = DOMAIN owed /\ took' = took
           /\ main \in DOMAIN owed' => main \in DOMAIN owed /\ owed'[main] = owed[main]
           /\ \A j \in DOMAIN owed' \ {main} : owed'[j] = <<>>
<1>1. OwedTyped /\ \A j \in DOMAIN owed \ {main} : owed[j] = <<>>
  BY Parts
<1> QED
  BY <1>1, AnsweredIs

LEMMA ClosedElsewhere ==
    ASSUME FtpIInv, NEW k, k # main, Closed(k)
    PROVE  /\ OwedTyped' /\ DOMAIN owed' = DOMAIN owed \ {k} /\ took' = took
           /\ main \in DOMAIN owed' => main \in DOMAIN owed /\ owed'[main] = owed[main]
           /\ \A j \in DOMAIN owed' \ {main} : owed'[j] = <<>>
<1>1. OwedTyped /\ \A j \in DOMAIN owed \ {main} : owed[j] = <<>>
  BY Parts
<1> QED
  BY <1>1, ClosedIs

(* a transfer ends, and its connection with it *)
LEMMA ClosesApart ==
    ASSUME CommandsFinite, FtpIInv, NEW c \in Users,
           Users' = Users \ {c}, \A d \in Users' : command'[d].on = command[d].on,
           DOMAIN owed' = DOMAIN owed \ {command[c].on}, UNCHANGED <<idle, main>>
    PROVE  Apart'
<1> DEFINE k == command[c].on
<1>1. Apart
  BY DEF FtpIInv
<1>2. \A i \in 1..Len(idle) : idle[i] # k /\ idle[i] \in DOMAIN owed /\ idle[i] # main
  BY <1>1 DEF Apart
<1>3. \A d \in Users \ {c} : command[d].on # k /\ command[d].on \in DOMAIN owed /\ command[d].on # main
  BY <1>1 DEF Apart
<1>4. \A j \in DOMAIN owed \ {main, k} :
         (\E i \in 1..Len(idle) : idle[i] = j) \/ (\E d \in Users \ {c} : command[d].on = j)
  BY <1>1 DEF Apart
<1>5. Len(idle) + Cardinality(Users \ {c}) <= Cardinality(Commands)
  <2>1. /\ IsFiniteSet(Users) /\ Cardinality(Users) \in Nat /\ Cardinality(Commands) \in Nat
        /\ Len(idle) \in Nat /\ Len(idle) + Cardinality(Users) <= Cardinality(Commands)
    BY <1>1, UsersFinite DEF FtpIInv, Apart
  <2>2. Cardinality(Users \ {c}) = Cardinality(Users) - 1
    BY <2>1, FS_RemoveElement
  <2> QED
    BY <2>1, <2>2
<1>6. \A d, e \in Users : d # e => command[d].on # command[e].on
  BY <1>1 DEF Apart
<1>7. /\ \A i, j \in 1..Len(idle) : i # j => idle[i] # idle[j]
      /\ \A d \in Users : \A i \in 1..Len(idle) : command[d].on # idle[i]
  BY <1>1 DEF Apart
<1> QED
  BY <1>2, <1>3, <1>4, <1>5, <1>6, <1>7 DEF Apart

LEMMA OpenStreamKeeps ==
    ASSUME CommandsFinite, FtpIInv, NEW c \in Commands, OpenStream(c)
    PROVE  FtpIInv'
<1> DEFINE k == command[c].on
<1>1. /\ c \in Users /\ UNCHANGED <<main, outOfStep, idle, turn, stage, unmarked>>
      /\ \/ Answered(c, k) /\ Goes(c, "streaming")
         \/ Answered(c, k) /\ command' = command
         \/ Closed(k) /\ Leaves(c)
  BY DEF OpenStream, At, Users, Using
<1>2. k \in DOMAIN owed /\ k # main /\ idle \in Seq(Nat) /\ Apart
  BY <1>1 DEF FtpIInv, Apart, FtpTypeOK
<1> HIDE DEF k
<1>3. CASE Answered(c, k) /\ Goes(c, "streaming")
  <2>1. TurnsKept /\ CommandsTyped' /\ SameUsers
    BY <1>1, <1>3, StreamsIs
  <2>2. /\ OwedTyped' /\ DOMAIN owed' = DOMAIN owed /\ took' = took
        /\ main \in DOMAIN owed' => main \in DOMAIN owed /\ owed'[main] = owed[main]
        /\ \A j \in DOMAIN owed' \ {main} : owed'[j] = <<>>
    BY <1>2, <1>3, AnsweredElsewhere
  <2>3. Apart'
    BY <1>1, <1>2, <2>1, <2>2, ApartStays
  <2> QED
    BY <1>1, <1>2, <2>1, <2>2, <2>3, TransferKeeps
<1>4. CASE Answered(c, k) /\ command' = command
  <2>1. SameUsers /\ CommandsTyped'
    BY <1>4, Parts DEF SameUsers, Users, CommandsTyped
  <2>2. stage = "ready"
    BY <1>1 DEF FtpIInv, TakesTurns
  <2>3. TurnsKept
    BY <1>1, <1>4, <2>2 DEF TurnsKept
  <2>4. /\ OwedTyped' /\ DOMAIN owed' = DOMAIN owed /\ took' = took
        /\ main \in DOMAIN owed' => main \in DOMAIN owed /\ owed'[main] = owed[main]
        /\ \A j \in DOMAIN owed' \ {main} : owed'[j] = <<>>
    BY <1>2, <1>4, AnsweredElsewhere
  <2>5. Apart'
    BY <1>1, <1>2, <2>1, <2>4, ApartStays
  <2> QED
    BY <1>1, <1>2, <2>1, <2>3, <2>4, <2>5, TransferKeeps
<1>5. CASE Closed(k) /\ Leaves(c)
  <2>1. /\ TurnsKept /\ CommandsTyped' /\ Users' = Users \ {c}
        /\ \A d \in Users' : command'[d].on = command[d].on
    BY <1>1, <1>5, LeavesIs
  <2>2. /\ OwedTyped' /\ DOMAIN owed' = DOMAIN owed \ {k} /\ took' = took
        /\ main \in DOMAIN owed' => main \in DOMAIN owed /\ owed'[main] = owed[main]
        /\ \A j \in DOMAIN owed' \ {main} : owed'[j] = <<>>
    BY <1>2, <1>5, ClosedElsewhere
  <2>4. Apart'
    BY <1>1, <2>1, <2>2, ClosesApart DEF k
  <2> QED
    BY <1>1, <1>2, <2>1, <2>2, <2>4, TransferKeeps
<1> QED
  BY <1>1, <1>3, <1>4, <1>5

LEMMA StreamEndsKeeps ==
    ASSUME CommandsFinite, FtpIInv, NEW c \in Commands, StreamEnds(c)
    PROVE  FtpIInv'
<1> DEFINE k == command[c].on
           n == Len(idle)
<1>1. /\ c \in Users /\ UNCHANGED <<main, outOfStep, turn, stage, unmarked>> /\ Leaves(c)
      /\ \/ Answered(c, k) /\ idle' = Append(idle, k)
         \/ Closed(k) /\ idle' = idle
  BY DEF StreamEnds, At, Users, Using
<1>2. k \in DOMAIN owed /\ k # main /\ idle \in Seq(Nat) /\ Apart /\ n \in Nat /\ k \in Nat
  <2>1. FtpTypeOK /\ Apart /\ idle \in Seq(Nat)
    BY DEF FtpIInv, FtpTypeOK
  <2>2. k \in DOMAIN owed /\ k # main
    BY <1>1, <2>1 DEF Apart
  <2> QED
    BY <2>1, <2>2 DEF FtpTypeOK
<1>3. /\ TurnsKept /\ CommandsTyped' /\ Users' = Users \ {c}
      /\ \A d \in Users' : command'[d].on = command[d].on
  BY <1>1, LeavesIs
<1>4. CASE Closed(k) /\ idle' = idle
  <2>1. /\ OwedTyped' /\ DOMAIN owed' = DOMAIN owed \ {k} /\ took' = took
        /\ main \in DOMAIN owed' => main \in DOMAIN owed /\ owed'[main] = owed[main]
        /\ \A j \in DOMAIN owed' \ {main} : owed'[j] = <<>>
    BY <1>2, <1>4, ClosedElsewhere
  <2>2. Apart'
    BY <1>1, <1>3, <1>4, <2>1, ClosesApart
  <2> QED
    BY <1>1, <1>2, <1>3, <1>4, <2>1, <2>2, TransferKeeps
<1>5. CASE Answered(c, k) /\ idle' = Append(idle, k)
  <2>1. /\ OwedTyped' /\ DOMAIN owed' = DOMAIN owed /\ took' = took
        /\ main \in DOMAIN owed' => main \in DOMAIN owed /\ owed'[main] = owed[main]
        /\ \A j \in DOMAIN owed' \ {main} : owed'[j] = <<>>
    BY <1>2, <1>5, AnsweredElsewhere
  <2>2. /\ idle' \in Seq(Nat) /\ Len(idle') = n + 1 /\ idle'[n + 1] = k
        /\ \A i \in 1..n : idle'[i] = idle[i]
        /\ \A i \in 1..(n + 1) : i \in 1..n \/ i = n + 1
    BY <1>2, <1>5
  <2>3. /\ \A i \in 1..n : idle[i] \in DOMAIN owed /\ idle[i] # main /\ idle[i] # k
        /\ \A i, j \in 1..n : i # j => idle[i] # idle[j]
        /\ \A d \in Users : command[d].on \in DOMAIN owed /\ command[d].on # main
        /\ \A d, e \in Users : d # e => command[d].on # command[e].on
        /\ \A d \in Users : \A i \in 1..n : command[d].on # idle[i]
        /\ \A j \in DOMAIN owed \ {main} :
             (\E i \in 1..n : idle[i] = j) \/ (\E d \in Users : command[d].on = j)
    BY <1>1, <1>2 DEF Apart
  <2>4. (n + 1) + Cardinality(Users \ {c}) <= Cardinality(Commands)
    <3>1. /\ IsFiniteSet(Users) /\ Cardinality(Users) \in Nat /\ Cardinality(Commands) \in Nat
          /\ n + Cardinality(Users) <= Cardinality(Commands)
      BY <1>2, UsersFinite DEF FtpIInv, Apart
    <3>2. Cardinality(Users \ {c}) = Cardinality(Users) - 1
      BY <1>1, <3>1, FS_RemoveElement
    <3> QED
      BY <1>2, <3>1, <3>2
  <2> HIDE DEF n
  <2>5. \A i \in 1..(n + 1) : idle'[i] \in DOMAIN owed /\ idle'[i] # main
    BY <1>2, <2>2, <2>3
  <2>6. \A i, j \in 1..(n + 1) : i # j => idle'[i] # idle'[j]
    BY <2>2, <2>3
  <2>7. \A d \in Users \ {c} : \A i \in 1..(n + 1) : command[d].on # idle'[i]
    BY <1>1, <2>2, <2>3
  <2>8. \A j \in DOMAIN owed \ {main} :
          (\E i \in 1..(n + 1) : idle'[i] = j) \/ (\E d \in Users \ {c} : command[d].on = j)
    <3> SUFFICES ASSUME NEW j \in DOMAIN owed \ {main}, ~(\E d \in Users \ {c} : command[d].on = j)
                 PROVE  \E i \in 1..(n + 1) : idle'[i] = j
      OBVIOUS
    <3>1. CASE \E i \in 1..n : idle[i] = j
      <4>1. PICK i \in 1..n : idle[i] = j
        BY <3>1
      <4> QED
        BY <1>2, <2>2, <4>1
    <3>2. CASE j = k
      BY <1>2, <2>2, <3>2
    <3> QED
      BY <2>3, <3>1, <3>2
  <2>9. Apart'
    BY <1>1, <1>3, <2>1, <2>2, <2>3, <2>4, <2>5, <2>6, <2>7, <2>8 DEF Apart
  <2> QED
    BY <1>1, <1>2, <1>3, <2>1, <2>2, <2>9, TransferKeeps
<1> QED
  BY <1>1, <1>4, <1>5

LEMMA BorrowKeeps ==
    ASSUME CommandsFinite, FtpIInv, NEW c \in Commands, Borrow(c)
    PROVE  FtpIInv'
<1> DEFINE n == Len(idle)
           k == idle[n]
<1>1. /\ stage = "ready" /\ c \notin DOMAIN command
      /\ UNCHANGED <<main, outOfStep, turn, stage, unmarked>>
      /\ \/ /\ idle # <<>> /\ idle' = SubSeq(idle, 1, n - 1)
            /\ \/ Answered(c, k) /\ command' = With(command, c, [at |-> "borrowed", on |-> k])
               \/ Closed(k) /\ command' = command
         \/ /\ idle = <<>> /\ Open(owed) /\ idle' = idle /\ took' = took
            /\ command' = With(command, c, [at |-> "borrowed", on |-> Fresh])
  BY DEF Borrow
<1>2. /\ Apart /\ OwedTyped /\ idle \in Seq(Nat) /\ n \in Nat /\ c \notin Users
      /\ IsFiniteSet(Users) /\ Cardinality(Users) \in Nat /\ Cardinality(Commands) \in Nat
      /\ Users \subseteq Commands /\ n + Cardinality(Users) <= Cardinality(Commands)
  BY <1>1, UsersFinite, Parts DEF FtpIInv, FtpTypeOK, Apart, Users
<1>3. Cardinality(Users \cup {c}) = Cardinality(Users) + 1
  BY <1>2, FS_AddElement
<1>4. ASSUME idle # <<>>, idle' = SubSeq(idle, 1, n - 1)
      PROVE  /\ k \in DOMAIN owed /\ k # main /\ k \in Nat /\ n - 1 \in Nat
             /\ idle' \in Seq(Nat) /\ Len(idle') = n - 1
             /\ \A i \in 1..(n - 1) : idle'[i] = idle[i] /\ idle[i] # k
             /\ \A i \in 1..n : i \in 1..(n - 1) \/ i = n
  <2>1. n \in 1..n /\ \A i \in 1..(n - 1) : i \in 1..n /\ i # n
    BY <1>2, <1>4
  <2>2. k \in DOMAIN owed /\ k # main
    BY <1>2, <2>1 DEF Apart
  <2>3. \A i \in 1..(n - 1) : idle[i] # k
    BY <1>2, <2>1 DEF Apart
  <2>4. n - 1 \in Nat /\ \A i \in 1..n : i \in 1..(n - 1) \/ i = n
    BY <1>2, <1>4, <2>1
  <2>5. idle' \in Seq(Nat) /\ Len(idle') = n - 1 /\ \A i \in 1..(n - 1) : idle'[i] = idle[i]
    <3>1. PICK m \in Nat : m = n - 1
      BY <2>4
    <3>2. m <= Len(idle) /\ idle' = SubSeq(idle, 1, m)
      BY <1>2, <1>4, <3>1
    <3>3. \A i \in 1..m : i \in 1..Len(idle)
      BY <2>1, <3>1
    <3>6. \A i \in 1..Len(idle) : idle[i] \in Nat
      BY <1>2
    <3>4. idle' = [i \in 1..m |-> idle[i]]
      BY <1>2, <3>2
    <3> HIDE DEF k, n
    <3>5. idle' \in Seq(Nat) /\ Len(idle') = m
      BY <3>3, <3>4, <3>6
    <3> QED
      BY <3>1, <3>4, <3>5
  <2>6. k \in Nat
    BY <1>2, <2>2 DEF OwedTyped
  <2> QED
    BY <2>2, <2>3, <2>4, <2>5, <2>6
<1>5. CASE /\ idle # <<>> /\ idle' = SubSeq(idle, 1, n - 1)
           /\ Answered(c, k) /\ command' = With(command, c, [at |-> "borrowed", on |-> k])
  <2>1. /\ TurnsKept /\ CommandsTyped' /\ Users' = Users \cup {c}
        /\ command'[c].on = k /\ \A d \in Users : command'[d].on = command[d].on
    BY <1>1, <1>4, <1>5, Joins
  <2>2. /\ OwedTyped' /\ DOMAIN owed' = DOMAIN owed /\ took' = took
        /\ main \in DOMAIN owed' => main \in DOMAIN owed /\ owed'[main] = owed[main]
        /\ \A j \in DOMAIN owed' \ {main} : owed'[j] = <<>>
    BY <1>4, <1>5, AnsweredElsewhere
  <2>3. \A i \in 1..(n - 1) : i \in 1..n
    BY <1>2
  <2>4. /\ \A i \in 1..n : idle[i] \in DOMAIN owed /\ idle[i] # main
        /\ \A i, j \in 1..n : i # j => idle[i] # idle[j]
        /\ \A d \in Users : command[d].on \in DOMAIN owed /\ command[d].on # main
        /\ \A d, e \in Users : d # e => command[d].on # command[e].on
        /\ \A d \in Users : \A i \in 1..n : command[d].on # idle[i]
        /\ \A j \in DOMAIN owed \ {main} :
             (\E i \in 1..n : idle[i] = j) \/ (\E d \in Users : command[d].on = j)
    BY <1>2 DEF Apart
  <2>5. n \in 1..n
    BY <1>2, <1>5
  <2>6. \A d \in Users : command[d].on # k
    BY <2>4, <2>5
  <2>7. (n - 1) + Cardinality(Users \cup {c}) <= Cardinality(Commands)
    BY <1>2, <1>3
  <2> HIDE DEF k, n
  <2>8. \A j \in DOMAIN owed \ {main} :
          (\E i \in 1..(n - 1) : idle'[i] = j) \/ (\E d \in Users \cup {c} : command'[d].on = j)
    <3> SUFFICES ASSUME NEW j \in DOMAIN owed \ {main}, ~(\E d \in Users \cup {c} : command'[d].on = j)
                 PROVE  \E i \in 1..(n - 1) : idle'[i] = j
      OBVIOUS
    <3>1. (\E i \in 1..n : idle[i] = j) /\ j # k
      BY <2>1, <2>4
    <3>2. PICK i \in 1..n : idle[i] = j
      BY <3>1
    <3>3. i \in 1..(n - 1)
      BY <1>4, <1>5, <3>1, <3>2 DEF k
    <3> QED
      BY <1>4, <1>5, <3>2, <3>3
  <2>9. \A i \in 1..(n - 1) : idle'[i] \in DOMAIN owed /\ idle'[i] # main /\ idle'[i] # k
    BY <1>4, <1>5, <2>3, <2>4
  <2>10. \A i, j \in 1..(n - 1) : i # j => idle'[i] # idle'[j]
    BY <1>4, <1>5, <2>3, <2>4
  <2>11. \A d \in Users : \A i \in 1..(n - 1) : command[d].on # idle'[i]
    BY <1>4, <1>5, <2>3, <2>4
  <2>12. Len(idle') = n - 1 /\ k \in DOMAIN owed /\ k # main /\ idle' \in Seq(Nat)
    BY <1>4, <1>5
  <2>13. \A d \in Users \cup {c} : command'[d].on \in DOMAIN owed /\ command'[d].on # main
    BY <2>1, <2>4, <2>12
  <2>14. \A d, e \in Users \cup {c} : d # e => command'[d].on # command'[e].on
    BY <2>1, <2>4, <2>6
  <2>15. \A d \in Users \cup {c} : \A i \in 1..(n - 1) : command'[d].on # idle'[i]
    BY <2>1, <2>9, <2>11
  <2>16. Apart'
    BY <1>1, <2>1, <2>2, <2>7, <2>8, <2>9, <2>10, <2>12, <2>13, <2>14, <2>15 DEF Apart
  <2> QED
    BY <1>1, <2>1, <2>2, <2>12, <2>16, TransferKeeps
<1>6. CASE idle # <<>> /\ idle' = SubSeq(idle, 1, n - 1) /\ Closed(k) /\ command' = command
  <2>1. SameUsers /\ CommandsTyped' /\ TurnsKept
    BY <1>1, <1>6, Parts DEF SameUsers, Users, CommandsTyped, TurnsKept
  <2>2. /\ OwedTyped' /\ DOMAIN owed' = DOMAIN owed \ {k} /\ took' = took
        /\ main \in DOMAIN owed' => main \in DOMAIN owed /\ owed'[main] = owed[main]
        /\ \A j \in DOMAIN owed' \ {main} : owed'[j] = <<>>
    BY <1>4, <1>6, ClosedElsewhere
  <2>3. \A i \in 1..(n - 1) : i \in 1..n
    BY <1>2
  <2>4. /\ \A i \in 1..n : idle[i] \in DOMAIN owed /\ idle[i] # main
        /\ \A i, j \in 1..n : i # j => idle[i] # idle[j]
        /\ \A d \in Users : command[d].on \in DOMAIN owed /\ command[d].on # main
        /\ \A d, e \in Users : d # e => command[d].on # command[e].on
        /\ \A d \in Users : \A i \in 1..n : command[d].on # idle[i]
        /\ \A j \in DOMAIN owed \ {main} :
             (\E i \in 1..n : idle[i] = j) \/ (\E d \in Users : command[d].on = j)
    BY <1>2 DEF Apart
  <2>5. n \in 1..n
    BY <1>2, <1>6
  <2>6. \A d \in Users : command[d].on # k
    BY <2>4, <2>5
  <2>7. (n - 1) + Cardinality(Users) <= Cardinality(Commands)
    BY <1>2
  <2> HIDE DEF k, n
  <2>8. \A j \in DOMAIN owed \ {main, k} :
          (\E i \in 1..(n - 1) : idle'[i] = j) \/ (\E d \in Users : command[d].on = j)
    <3> SUFFICES ASSUME NEW j \in DOMAIN owed \ {main, k}, ~(\E d \in Users : command[d].on = j)
                 PROVE  \E i \in 1..(n - 1) : idle'[i] = j
      OBVIOUS
    <3>1. PICK i \in 1..n : idle[i] = j
      BY <2>4
    <3>2. i \in 1..(n - 1)
      BY <1>4, <1>6, <3>1 DEF k
    <3> QED
      BY <1>4, <1>6, <3>1, <3>2
  <2>9. \A i \in 1..(n - 1) : idle'[i] \in DOMAIN owed /\ idle'[i] # main /\ idle'[i] # k
    BY <1>4, <1>6, <2>3, <2>4
  <2>10. \A i, j \in 1..(n - 1) : i # j => idle'[i] # idle'[j]
    BY <1>4, <1>6, <2>3, <2>4
  <2>11. \A d \in Users : \A i \in 1..(n - 1) : command[d].on # idle'[i]
    BY <1>4, <1>6, <2>3, <2>4
  <2>12. Len(idle') = n - 1 /\ idle' \in Seq(Nat)
    BY <1>4, <1>6
  <2>13. Users' = Users /\ command' = command
    BY <1>6, <2>1 DEF SameUsers
  <2>14. Apart'
    BY <1>1, <2>2, <2>4, <2>6, <2>7, <2>8, <2>9, <2>10, <2>11, <2>12, <2>13 DEF Apart
  <2> QED
    BY <1>1, <2>1, <2>2, <2>12, <2>14, TransferKeeps
<1>7. CASE /\ idle = <<>> /\ Open(owed) /\ idle' = idle /\ took' = took
           /\ command' = With(command, c, [at |-> "borrowed", on |-> Fresh])
  <2>1. Fresh \in Nat /\ Fresh \notin DOMAIN owed /\ Fresh # main
    BY FreshIs DEF FtpIInv
  <2>2. PICK f : f = Fresh
    OBVIOUS
  <2>3. /\ TurnsKept /\ CommandsTyped' /\ Users' = Users \cup {c}
        /\ command'[c].on = f /\ \A d \in Users : command'[d].on = command[d].on
    BY <1>1, <1>7, <2>1, <2>2, Joins
  <2>4. owed' = With(owed, f, <<>>)
    BY <1>7, <2>2 DEF Open
  <2>5. /\ DOMAIN owed' = DOMAIN owed \cup {f} /\ OwedTyped' /\ owed'[f] = <<>>
        /\ \A j \in DOMAIN owed : owed'[j] = owed[j]
    BY <1>2, <2>1, <2>2, <2>4 DEF With, OwedTyped
  <2>6. n = 0 /\ Len(idle') = 0
    BY <1>7
  <2>7. Cardinality(Users \cup {c}) <= Cardinality(Commands)
    <3>1. Users \cup {c} \subseteq Commands
      BY <1>2
    <3> QED
      BY <3>1, FS_Subset DEF CommandsFinite
  <2>8. /\ \A d \in Users : command[d].on \in DOMAIN owed /\ command[d].on # main
        /\ \A d, e \in Users : d # e => command[d].on # command[e].on
        /\ \A j \in DOMAIN owed \ {main} : \E d \in Users : command[d].on = j
    BY <1>2, <2>6 DEF Apart
  <2>9. \A i \in 1..Len(idle') : FALSE
    BY <2>6
  <2>10. 0 + Cardinality(Users \cup {c}) <= Cardinality(Commands)
    BY <1>2, <1>3, <2>7
  <2>11. Apart'
    BY <1>1, <1>2, <2>1, <2>2, <2>3, <2>5, <2>6, <2>8, <2>9, <2>10 DEF Apart
  <2>12. \A j \in DOMAIN owed \ {main} : owed[j] = <<>>
    BY Parts
  <2> QED
    BY <1>1, <1>2, <1>7, <2>1, <2>2, <2>3, <2>5, <2>11, <2>12, TransferKeeps
<1> QED
  BY <1>1, <1>5, <1>6, <1>7

LEMMA FtpStarts ==
    ASSUME CommandsFinite, FtpInit
    PROVE  FtpIInv
<1>1. /\ DOMAIN owed = {1} /\ owed[1] = <<>> /\ main = 1 /\ outOfStep = FALSE /\ idle = <<>> /\ turn = {}
      /\ DOMAIN command = {} /\ stage = "home" /\ took = {} /\ unmarked = FALSE
  BY DEF FtpInit, Nothing
<1>2. FtpTypeOK
  <2>1. \A k \in DOMAIN owed : k = 1 /\ owed[k] = <<>>
    BY <1>1, Zenon
  <2>2. <<>> \in Seq(Commands) /\ <<>> \in Seq(Nat) /\ 1 \in Nat
    OBVIOUS
  <2>3. \A k \in DOMAIN owed : k \in Nat /\ owed[k] \in Seq(Commands)
    BY <2>1, <2>2, Zenon
  <2> QED
    BY <1>1, <2>2, <2>3 DEF FtpTypeOK
<1>3. Users = {}
  BY <1>1 DEF Users
<1>4. Cardinality(Users) = 0 /\ Cardinality(Commands) \in Nat /\ Len(idle) = 0
  BY <1>1, <1>3, FS_EmptySet, FS_CardinalityType DEF CommandsFinite
<1>5. Apart
  BY <1>1, <1>3, <1>4 DEF Apart
<1> QED
  BY <1>1, <1>2, <1>3, <1>5 DEF FtpIInv, TakesTurns, AnswersKnown

LEMMA FtpKeeps ==
    ASSUME CommandsFinite, FtpIInv, [FtpNext]_ftpVars
    PROVE  FtpIInv'
<1>1. CASE UNCHANGED ftpVars
  BY <1>1 DEF ftpVars, FtpIInv, FtpTypeOK, Apart, TakesTurns, AnswersKnown, Users, Replaying
<1>2. CASE FtpNext
  BY <1>2, AttemptKeeps, ReplaceKeeps, TryMainKeeps, ReopenKeeps, AskOnceKeeps, BorrowKeeps,
     OpenStreamKeeps, StreamEndsKeeps DEF FtpNext
<1> QED
  BY <1>1, <1>2

LEMMA FtpInStep ==
    ASSUME FtpIInv
    PROVE  InStep
<1>1. DOMAIN idle = 1..Len(idle)
  BY DEF FtpIInv, FtpTypeOK
<1> QED
  BY <1>1 DEF FtpIInv, AnswersKnown, Apart, InStep

(* Pool::attempt, ask_once, borrow and the streams take and give back the   *)
(* connections, and a late answer stays on its way: whatever is late,       *)
(* refused or closed, no command takes the answer of another and no idle    *)
(* connection has one on its way, but for the two ways out of `attempt`     *)
(* that leave main out of step unmarked.                                    *)
THEOREM InStepHolds == CommandsFinite => (FtpSpec => []InStep)
<1> SUFFICES ASSUME CommandsFinite PROVE FtpSpec => []InStep
  OBVIOUS
<1>1. FtpInit => FtpIInv
  BY FtpStarts
<1>2. FtpIInv /\ [FtpNext]_ftpVars => FtpIInv'
  BY FtpKeeps
<1>3. FtpIInv => InStep
  BY FtpInStep
<1> QED
  BY <1>1, <1>2, <1>3, PTL DEF FtpSpec

(***************************************************************************)
(* File panels: Panels                                                     *)
(***************************************************************************)
PanelSound ==
    /\ Orders \in Seq(Seq(Names)) /\ Orders # <<>>
    /\ Dir \in Names /\ Names \cap {None, Free, Parent} = {}

FolderNames == {"top", "sub"}
FsTask ==
    [kind : {"start"}]
      \cup [kind : {"list"}, path : FolderNames, read : BOOLEAN, entries : SUBSET Names]
      \cup [kind : {"delete"}, path : FolderNames, names : SUBSET Names, some : BOOLEAN]
      \cup [kind : {"rename"}, path : FolderNames, from : Names, to : Names]
      \cup [kind : {"create"}, path : FolderNames]
FsEvent == [kind : {"Listed"}, path : FolderNames, entries : SUBSET Names] \cup [kind : {"LocationChanged"}]

PanelFormed(p) ==
    /\ p = [path |-> p.path, entries |-> p.entries, order |-> p.order, hidden |-> p.hidden, filter |-> p.filter,
            cursor |-> p.cursor, selected |-> p.selected, anchor |-> p.anchor, placed |-> p.placed]
    /\ p.path \in FolderNames /\ p.entries \in SUBSET Names /\ p.order \in DOMAIN Orders /\ p.hidden \in BOOLEAN
    /\ p.cursor \in Nat \ {0} /\ p.selected \in SUBSET Names

PanelTyped ==
    /\ disk \in [FolderNames -> SUBSET Names]
    /\ PanelFormed(panel)
    /\ fsTasks \in Seq(FsTask) /\ events \in Seq(FsEvent) /\ unsure \in BOOLEAN

(* the cursor is on a row *)
CursorOn(p) == p.cursor \in DOMAIN Rows(p) \/ (Rows(p) = <<>> /\ p.cursor = 1)

Unfiltered(p) == [p EXCEPT !.filter = NoText]

(* the row that the filter holds is one there is, and the cursor is on it  *)
(* whenever it is shown                                                    *)
HeldOn(p, row) ==
    /\ row = None => p.anchor = None
    /\ row \notin {None, Free} => Anchor(p) = row /\ row \in ToSet(Rows(Unfiltered(p)))
    /\ row \in ToSet(Rows(p)) /\ (row # Parent \/ p.filter = NoText) => RowAt(p) = row

Asked(t) == t.kind \in {"start", "list"}
Unread(t) == t.kind = "start" \/ (t.kind = "list" /\ ~t.read)
ReadTrue(t, folders) == t.kind = "list" /\ t.read /\ t.entries = folders[t.path]
Changing(t) == t.kind = "delete" /\ t.some
ToldTrue(told, n, folders) ==
    /\ told[n].kind = "Listed" /\ told[n].entries = folders[told[n].path]
    /\ \A m \in DOMAIN told : m > n => told[m].kind # "Listed"

(* what the panel will show at last is what is there: a listing has not    *)
(* read yet, or has read what is there, another will follow, or the last   *)
(* one is right                                                            *)
Shows(running, told, folders, p) ==
    \/ \E i \in DOMAIN running : Unread(running[i]) \/ ReadTrue(running[i], folders) \/ Changing(running[i])
    \/ \E n \in DOMAIN told : told[n].kind = "LocationChanged"
    \/ /\ \A i \in DOMAIN running : ~Asked(running[i])
       /\ \/ \E n \in DOMAIN told : ToldTrue(told, n, folders)
          \/ (\A n \in DOMAIN told : told[n].kind # "Listed") /\ p.entries = folders[p.path]

OneListing(running) == \A i, j \in DOMAIN running : Asked(running[i]) /\ Asked(running[j]) => i = j

ListingsTrue == ~unsure => OneListing(fsTasks) /\ Shows(fsTasks, events, disk, panel)

PanelIInv == PanelTyped /\ CursorOn(panel) /\ HeldOn(panel, held) /\ ListingsTrue

---------------------------------------------------------------------------
(* The rows                                                                *)
LEMMA LeastNumber ==
  ASSUME NEW T \in SUBSET Nat, T # {}
  PROVE  \E m \in T : \A k \in T : m <= k
<1>1. IsWellFoundedOn(OpToRel(<, Nat), Nat)
  BY NatLessThanWellFounded
<1>2. PICK x \in T : \A y \in T : ~(<<y, x>> \in OpToRel(<, Nat))
  BY <1>1, WFMin
<1>3. \A y \in T : ~(y < x)
  BY <1>2 DEF OpToRel
<1> QED BY <1>3

RowTurn(order, names, before, n) == IF order[n] \in names THEN Append(before, order[n]) ELSE before
IsRows(order, names, above, k, f) ==
    f = [n \in 0..k |-> IF n = 0 THEN above ELSE RowTurn(order, names, f[n - 1], n)]

(* after n entries: those above, and of the n those that are shown         *)
RowsUpTo(order, names, above, n, rows) ==
    /\ rows \in Seq(Names \cup {Parent})
    /\ ToSet(rows) = ToSet(above) \cup {order[m] : m \in {l \in 1..n : order[l] \in names}}

LEMMA RowsExist ==
  ASSUME NEW order, NEW names, NEW above, NEW n \in Nat
  PROVE  \E f : IsRows(order, names, above, n, f)
<1> DEFINE Adds(x, j) == RowTurn(order, names, x, j)
           Upto(k) == \E f : f = [j \in 0..k |-> IF j = 0 THEN above ELSE Adds(f[j - 1], j)]
           D == {k \in Nat : ~Upto(k)}
<1>1. ASSUME NEW k \in Nat, k # 0 => Upto(k - 1) PROVE Upto(k)
  <2> HIDE DEF Adds
  <2>1. PICK g : k # 0 => g = [j \in 0..(k - 1) |-> IF j = 0 THEN above ELSE Adds(g[j - 1], j)]
    BY <1>1
  <2> DEFINE f == [j \in 0..k |-> IF j = 0 THEN above ELSE Adds(g[j - 1], j)]
  <2>2. ASSUME NEW j \in 0..k, j # 0 PROVE f[j - 1] = g[j - 1]
    <3>1. PICK i : i = j - 1
      OBVIOUS
    <3>2. i \in 0..k /\ i \in 0..(k - 1) /\ k # 0
      BY <2>2, <3>1
    <3>3. f[i] = g[i]
      BY <2>1, <3>2
    <3> QED BY <3>1, <3>3
  <2>3. f = [j \in 0..k |-> IF j = 0 THEN above ELSE Adds(f[j - 1], j)]
    BY <2>2
  <2> QED BY <2>3
<1>2. D = {}
  <2> SUFFICES ASSUME D # {} PROVE FALSE
    OBVIOUS
  <2> HIDE DEF Upto
  <2>1. PICK m \in D : \A k \in D : m <= k
    <3>1. D \in SUBSET Nat
      OBVIOUS
    <3> HIDE DEF D
    <3> QED BY <3>1, LeastNumber
  <2>2. m \in Nat /\ ~Upto(m) /\ (m # 0 => Upto(m - 1))
    <3>1. m # 0 => m - 1 \in Nat /\ ~(m <= m - 1)
      OBVIOUS
    <3> QED BY <2>1, <3>1
  <2> QED BY <1>1, <2>2
<1>3. Upto(n)
  BY <1>2
<1> QED BY <1>3 DEF IsRows

LEMMA RowAppended ==
  ASSUME NEW order, NEW names, NEW above, NEW k \in Nat \ {0}, NEW i \in Nat, k = i + 1, order[k] \in Names,
         NEW before, RowsUpTo(order, names, above, i, before)
  PROVE  RowsUpTo(order, names, above, k, RowTurn(order, names, before, k))
<1> DEFINE Shown(n) == {order[m] : m \in {l \in 1..n : order[l] \in names}}
<1>1. PICK name : name = order[k]
  OBVIOUS
<1>2. before \in Seq(Names \cup {Parent}) /\ ToSet(before) = ToSet(above) \cup Shown(i)
  BY DEF RowsUpTo
<1>3. \A l \in 1..k : l \in 1..i \/ l = k
  OBVIOUS
<1>4. \A l \in 1..i : l \in 1..k
  OBVIOUS
<1>5. CASE name \in names
  <2>1. Shown(k) = Shown(i) \cup {name}
    BY <1>1, <1>3, <1>4, <1>5
  <2>2. PICK rows : rows = Append(before, name)
    OBVIOUS
  <2>3. rows \in Seq(Names \cup {Parent}) /\ ToSet(rows) = ToSet(before) \cup {name}
    <3>1. /\ rows \in Seq(Names \cup {Parent}) /\ Len(rows) = Len(before) + 1 /\ rows[Len(rows)] = name
          /\ Len(before) \in Nat /\ DOMAIN rows = 1..Len(rows) /\ DOMAIN before = 1..Len(before)
          /\ \A l \in 1..Len(before) : rows[l] = before[l]
      BY <1>1, <1>2, <2>2
    <3>2. ToSet(rows) = {rows[l] : l \in 1..Len(rows)} /\ ToSet(before) = {before[l] : l \in 1..Len(before)}
      BY <3>1 DEF ToSet
    <3>3. \A l \in 1..Len(rows) : l \in 1..Len(before) \/ l = Len(rows)
      BY <3>1
    <3>4. \A l \in 1..Len(before) : l \in 1..Len(rows)
      BY <3>1
    <3>5. Len(rows) \in 1..Len(rows)
      BY <3>1
    <3>6. ToSet(rows) \subseteq ToSet(before) \cup {name}
      BY <3>1, <3>2, <3>3
    <3>7. ToSet(before) \cup {name} \subseteq ToSet(rows)
      BY <3>1, <3>2, <3>4, <3>5
    <3> QED BY <3>1, <3>6, <3>7
  <2>4. RowTurn(order, names, before, k) = rows
    BY <1>1, <1>5, <2>2 DEF RowTurn
  <2> HIDE DEF Shown
  <2>5. ToSet(rows) = ToSet(above) \cup Shown(k)
    BY <1>2, <2>1, <2>3
  <2> QED BY <2>3, <2>4, <2>5 DEF RowsUpTo, Shown
<1>6. CASE name \notin names
  <2>1. Shown(k) = Shown(i)
    BY <1>1, <1>3, <1>4, <1>6
  <2>2. RowTurn(order, names, before, k) = before
    BY <1>1, <1>6 DEF RowTurn
  <2> QED BY <1>2, <2>1, <2>2 DEF RowsUpTo
<1> QED BY <1>5, <1>6

LEMMA SiftedIs ==
  ASSUME PanelSound, NEW order \in Seq(Names), NEW names, NEW above \in {<<>>, <<Parent>>}
  PROVE  RowsUpTo(order, names, above, Len(order), Sifted(order, names, above))
<1> DEFINE l == Len(order)
<1>1. l \in Nat
  OBVIOUS
<1>2. PICK f : IsRows(order, names, above, l, f) /\ Sifted(order, names, above) = f[l]
  <2>1. \E f : IsRows(order, names, above, l, f)
    BY <1>1, RowsExist
  <2>2. Sifted(order, names, above) = (CHOOSE f : IsRows(order, names, above, l, f))[l]
    BY DEF Sifted, IsRows, RowTurn
  <2> HIDE DEF l
  <2> QED BY <2>1, <2>2
<1> DEFINE Fine(k) == RowsUpTo(order, names, above, k, f[k])
           D == {k \in Nat : k <= l /\ ~Fine(k)}
<1>3. Fine(0)
  <2>1. f[0] = above
    <3> HIDE DEF l
    <3> QED BY <1>1, <1>2 DEF IsRows
  <2>2. above \in Seq(Names \cup {Parent})
    <3>1. <<>> \in Seq(Names \cup {Parent}) /\ <<Parent>> \in Seq(Names \cup {Parent})
      OBVIOUS
    <3> QED BY <3>1
  <2> QED BY <2>1, <2>2 DEF RowsUpTo
<1>4. ASSUME NEW k \in Nat, k # 0, k <= l, Fine(k - 1) PROVE Fine(k)
  <2>1. PICK i : i = k - 1
    OBVIOUS
  <2>2. i \in Nat /\ k = i + 1 /\ k \in Nat \ {0} /\ k \in 1..l /\ k \in 0..l
    BY <1>1, <1>4, <2>1
  <2>3. order[k] \in Names
    BY <2>2
  <2> HIDE DEF l
  <2>4. f[k] = RowTurn(order, names, f[i], k)
    BY <1>2, <1>4, <2>1, <2>2 DEF IsRows
  <2>5. RowsUpTo(order, names, above, i, f[i])
    BY <1>4, <2>1
  <2> QED BY <2>2, <2>3, <2>4, <2>5, RowAppended
<1> HIDE DEF l
<1>5. D = {}
  <2> SUFFICES ASSUME D # {} PROVE FALSE
    OBVIOUS
  <2> HIDE DEF Fine
  <2>1. PICK m \in D : \A k \in D : m <= k
    <3>1. D \in SUBSET Nat
      OBVIOUS
    <3> HIDE DEF D
    <3> QED BY <3>1, LeastNumber
  <2>2. m \in Nat /\ m <= l /\ ~Fine(m) /\ (m # 0 => Fine(m - 1))
    <3>1. m # 0 => m - 1 \in Nat /\ ~(m <= m - 1) /\ m - 1 <= l
      BY <1>1
    <3> QED BY <2>1, <3>1
  <2> QED BY <1>3, <1>4, <2>2
<1>6. Fine(l)
  BY <1>1, <1>5
<1> QED BY <1>2, <1>6 DEF l

Listable(p) == {Orders[p.order][m] : m \in 1..Len(Orders[p.order])}
VisibleNames(p) == {name \in p.entries : Visible(p, name)}

LEMMA RowsAre ==
  ASSUME PanelSound, NEW p, PanelFormed(p)
  PROVE  /\ Rows(p) \in Seq(Names \cup {Parent})
         /\ ToSet(Rows(p)) = (IF p.path = "sub" THEN {Parent} ELSE {}) \cup (Listable(p) \cap VisibleNames(p))
<1>1. PICK order, above : order = Orders[p.order] /\ above = IF p.path = "sub" THEN <<Parent>> ELSE <<>>
  OBVIOUS
<1>2. order \in Seq(Names) /\ above \in {<<>>, <<Parent>>}
  BY <1>1 DEF PanelSound, PanelFormed
<1>3. Rows(p) = Sifted(order, VisibleNames(p), above)
  BY <1>1 DEF Rows, VisibleNames
<1>4. RowsUpTo(order, VisibleNames(p), above, Len(order), Sifted(order, VisibleNames(p), above))
  BY <1>2, SiftedIs
<1>5. ToSet(above) = IF p.path = "sub" THEN {Parent} ELSE {}
  <2>1. CASE p.path = "sub"
    <3>1. above = <<Parent>> /\ DOMAIN above = {1} /\ above[1] = Parent
      BY <1>1, <2>1
    <3> QED BY <2>1, <3>1 DEF ToSet
  <2>2. CASE p.path # "sub"
    <3>1. above = <<>> /\ DOMAIN above = {}
      BY <1>1, <2>2
    <3> QED BY <2>2, <3>1 DEF ToSet
  <2> QED BY <2>1, <2>2
<1>6. {order[m] : m \in {n \in 1..Len(order) : order[n] \in VisibleNames(p)}} = Listable(p) \cap VisibleNames(p)
  BY <1>1 DEF Listable
<1> QED BY <1>3, <1>4, <1>5, <1>6 DEF RowsUpTo

(* what is selected, and where the cursor is, make no rows                 *)
LEMMA SameRows ==
  ASSUME NEW p, NEW q, q.path = p.path, q.entries = p.entries, q.order = p.order, q.hidden = p.hidden,
         q.filter = p.filter
  PROVE  Rows(q) = Rows(p)
<1>1. \A name : Visible(q, name) = Visible(p, name)
  BY DEF Visible
<1>2. {name \in q.entries : Visible(q, name)} = {name \in p.entries : Visible(p, name)}
  BY <1>1
<1> QED BY <1>2 DEF Rows

---------------------------------------------------------------------------
(* The cursor                                                              *)
SameButCursor(p, q) ==
    /\ q.path = p.path /\ q.entries = p.entries /\ q.order = p.order /\ q.hidden = p.hidden
    /\ q.filter = p.filter /\ q.selected = p.selected

LEMMA ClampedOn ==
  ASSUME PanelSound, NEW p, PanelFormed(p), NEW q, q = Clamped(p)
  PROVE  /\ PanelFormed(q) /\ CursorOn(q) /\ SameButCursor(p, q)
         /\ q.anchor = p.anchor /\ q.placed = p.placed
<1>1. PICK rows \in Seq(Names \cup {Parent}) : rows = Rows(p)
  BY RowsAre
<1>2. PICK c : c = IF rows = <<>> THEN 1 ELSE IF p.cursor > Len(rows) THEN Len(rows) ELSE p.cursor
  OBVIOUS
<1>3. q = [p EXCEPT !.cursor = c]
  BY <1>1, <1>2 DEF Clamped
<1>4. p.cursor \in Nat \ {0} /\ Len(rows) \in Nat /\ DOMAIN rows = 1..Len(rows) /\ (Len(rows) = 0 => rows = <<>>)
  BY <1>1 DEF PanelFormed
<1>5. c \in Nat \ {0} /\ (c \in DOMAIN rows \/ (rows = <<>> /\ c = 1))
  <2>1. CASE rows = <<>>
    BY <1>2, <2>1
  <2>2. CASE rows # <<>>
    <3>1. PICK l \in Nat \ {0} : l = Len(rows)
      BY <1>4, <2>2
    <3>2. PICK n \in Nat \ {0} : n = p.cursor
      BY <1>4
    <3>3. c = (IF n > l THEN l ELSE n) /\ DOMAIN rows = 1..l
      BY <1>2, <1>4, <2>2, <3>1, <3>2
    <3> QED BY ONLY <3>3, l \in Nat \ {0}, n \in Nat \ {0}
  <2> QED BY <2>1, <2>2
<1>6. q.cursor = c /\ SameButCursor(p, q) /\ q.anchor = p.anchor /\ q.placed = p.placed /\ PanelFormed(q)
  BY <1>3, <1>5 DEF PanelFormed, SameButCursor
<1>7. Rows(q) = rows
  BY <1>1, <1>6, SameRows DEF SameButCursor
<1> QED BY <1>5, <1>6, <1>7 DEF CursorOn

LEMMA FirstIs ==
  ASSUME NEW S \in SUBSET Nat, S # {}
  PROVE  First(S) \in S
BY LeastNumber DEF First

LEMMA NoSuchRow ==
  ASSUME PanelSound, NEW p, PanelFormed(p)
  PROVE  /\ None \notin ToSet(Rows(p)) /\ Free \notin ToSet(Rows(p))
         /\ RowAt(p) = None \/ RowAt(p) \in ToSet(Rows(p))
         /\ RowAt(p) \in Names \cup {None, Parent}
         /\ ToSet(Rows(p)) \subseteq Names \cup {Parent}
         /\ ToSet(Rows(p)) \ {Parent} \subseteq VisibleNames(p)
         /\ ToSet(Rows(p)) \subseteq ToSet(Rows(Unfiltered(p)))
<1>1. PICK rows \in Seq(Names \cup {Parent}) : rows = Rows(p)
  BY RowsAre
<1>2. ToSet(rows) \subseteq Names \cup {Parent}
  BY <1>1 DEF ToSet
<1>3. None # Parent /\ Free # Parent /\ None \notin Names /\ Free \notin Names
  BY DEF PanelSound, None, Free, Parent
<1>4. RowAt(p) = None \/ RowAt(p) \in ToSet(rows)
  BY <1>1 DEF RowAt, ToSet
<1>5. PICK q : q = Unfiltered(p)
  OBVIOUS
<1>6. /\ PanelFormed(q) /\ q.path = p.path /\ q.entries = p.entries /\ q.order = p.order /\ q.hidden = p.hidden
      /\ q.filter = NoText
  BY <1>5 DEF Unfiltered, PanelFormed
<1>7. VisibleNames(p) \subseteq VisibleNames(q) /\ Listable(p) = Listable(q)
  BY <1>6 DEF VisibleNames, Visible, Listable
<1>8. /\ ToSet(rows) = (IF p.path = "sub" THEN {Parent} ELSE {}) \cup (Listable(p) \cap VisibleNames(p))
      /\ ToSet(Rows(q)) = (IF p.path = "sub" THEN {Parent} ELSE {}) \cup (Listable(p) \cap VisibleNames(q))
  BY <1>1, <1>6, <1>7, RowsAre
<1>9. ToSet(rows) \subseteq ToSet(Rows(q)) /\ ToSet(rows) \ {Parent} \subseteq VisibleNames(p)
  BY <1>7, <1>8
<1> QED BY <1>1, <1>2, <1>3, <1>4, <1>5, <1>9

(* what apply_filter makes of a panel *)
LEMMA FilteredOn ==
  ASSUME PanelSound, NEW p, PanelFormed(p), NEW text, NEW q, q = Filtered(p, text)
  PROVE  /\ PanelFormed(q) /\ CursorOn(q)
         /\ q.path = p.path /\ q.entries = p.entries /\ q.order = p.order /\ q.hidden = p.hidden
         /\ q.selected = p.selected /\ q.filter = text
         /\ q.anchor = Anchor(p) /\ (Anchor(p) # None => q.placed = q.cursor)
         /\ Anchor(p) \in ToSet(Rows(q)) /\ (Anchor(p) # Parent \/ text = NoText) => RowAt(q) = Anchor(p)
<1>1. PICK a, r : a = Anchor(p) /\ r = [p EXCEPT !.filter = text]
  OBVIOUS
<1>2. /\ PanelFormed(r) /\ r.path = p.path /\ r.entries = p.entries /\ r.order = p.order /\ r.hidden = p.hidden
      /\ r.filter = text /\ r.selected = p.selected
  BY <1>1 DEF PanelFormed
<1>3. PICK rows \in Seq(Names \cup {Parent}) : rows = Rows(r)
  BY <1>2, RowsAre
<1>4. PICK kept, matches : /\ kept = {n \in DOMAIN rows : rows[n] = a /\ (text = NoText \/ a # Parent)}
                           /\ matches = {n \in DOMAIN rows : rows[n] # Parent}
  OBVIOUS
<1>5. PICK some : some = IF kept # {} THEN kept ELSE matches
  OBVIOUS
<1>6. PICK c : c = First(some)
  OBVIOUS
<1>7. q = [r EXCEPT !.cursor = c, !.anchor = a, !.placed = IF a = None THEN 0 ELSE c]
  BY <1>1, <1>3, <1>4, <1>5, <1>6 DEF Filtered
<1>8. some \subseteq DOMAIN rows /\ DOMAIN rows = 1..Len(rows) /\ Len(rows) \in Nat /\ (Len(rows) = 0 => rows = <<>>)
  BY <1>3, <1>4, <1>5
<1>9. some \in SUBSET Nat
  BY <1>8
<1>10. some # {} => c \in some
  BY <1>6, <1>9, FirstIs
<1>11. some = {} => c = 1
  BY <1>6 DEF First
<1>12. c \in Nat \ {0} /\ (c \in DOMAIN rows \/ (rows = <<>> /\ c = 1))
  <2>1. Len(rows) # 0 => 1 \in DOMAIN rows
    BY <1>8
  <2> QED BY <1>8, <1>10, <1>11, <2>1
<1>13. /\ PanelFormed(q) /\ q.path = p.path /\ q.entries = p.entries /\ q.order = p.order /\ q.hidden = p.hidden
       /\ q.selected = p.selected /\ q.filter = text /\ q.cursor = c /\ q.anchor = a
       /\ (a # None => q.placed = q.cursor)
  BY <1>2, <1>7, <1>12 DEF PanelFormed
<1>14. Rows(q) = rows
  BY <1>2, <1>3, <1>13, SameRows
<1>15. CursorOn(q)
  BY <1>12, <1>13, <1>14 DEF CursorOn
<1>16. ASSUME a \in ToSet(rows), a # Parent \/ text = NoText PROVE RowAt(q) = a
  <2>1. PICK n \in DOMAIN rows : rows[n] = a
    BY <1>16 DEF ToSet
  <2>2. n \in kept
    BY <1>4, <1>16, <2>1
  <2>3. c \in kept
    BY <1>5, <1>10, <2>2
  <2> QED BY <1>4, <1>13, <1>14, <2>3 DEF RowAt
<1> QED BY <1>1, <1>13, <1>14, <1>15, <1>16

(* the row that the filter holds, after a key of the filter, any other     *)
(* key, and a listing                                                      *)
LEMMA ChangeFilterKeeps ==
  ASSUME PanelSound, PanelFormed(panel), HeldOn(panel, held), ChangeFilter
  PROVE  /\ PanelFormed(panel') /\ CursorOn(panel') /\ HeldOn(panel', held')
         /\ panel'.path = panel.path /\ panel'.entries = panel.entries
<1>1. PICK p, q, a, h, k : p = panel /\ q = panel' /\ a = Anchor(panel) /\ h = held /\ k = held'
  OBVIOUS
<1>2. PanelFormed(p) /\ HeldOn(p, h)
  BY <1>1
<1>3. k = IF h = None THEN RowAt(p) ELSE h
  BY <1>1 DEF ChangeFilter
<1>4. PICK text, f : /\ f = Filtered(p, text)
                     /\ q = f \/ (text = NoText /\ q = [f EXCEPT !.anchor = None, !.placed = 0])
  <2>1. panel' \in FilterKeys
    BY DEF ChangeFilter
  <2>2. \E text : \/ panel' = Filtered(panel, text)
                  \/ text = NoText /\ panel' = [Filtered(panel, text) EXCEPT !.anchor = None, !.placed = 0]
    BY <2>1 DEF FilterKeys
  <2> QED BY <1>1, <2>2
<1>5. /\ PanelFormed(f) /\ CursorOn(f)
      /\ f.path = p.path /\ f.entries = p.entries /\ f.order = p.order /\ f.hidden = p.hidden
      /\ f.selected = p.selected /\ f.filter = text
      /\ f.anchor = a /\ (a # None => f.placed = f.cursor)
      /\ a \in ToSet(Rows(f)) /\ (a # Parent \/ text = NoText) => RowAt(f) = a
  BY <1>1, <1>2, <1>4, FilteredOn
<1>6. PICK all : all = ToSet(Rows(Unfiltered(p)))
  OBVIOUS
<1>7. ToSet(Rows(Unfiltered(f))) = all
  <2>1. PICK u, v : u = Unfiltered(p) /\ v = Unfiltered(f)
    OBVIOUS
  <2>2. v.path = u.path /\ v.entries = u.entries /\ v.order = u.order /\ v.hidden = u.hidden /\ v.filter = u.filter
    BY <1>2, <1>5, <2>1 DEF Unfiltered, PanelFormed
  <2> QED BY <1>6, <2>1, <2>2, SameRows
<1>8. None \notin ToSet(Rows(f)) /\ Free \notin ToSet(Rows(f)) /\ None # Free
  BY <1>5, NoSuchRow DEF None, Free
<1>9. RowAt(p) = None \/ (RowAt(p) \in all /\ RowAt(p) # Free)
  BY <1>2, <1>6, NoSuchRow
<1>10. k = Free \/ (k = a /\ (a = None \/ (a # Free /\ a \in all)))
  <2>1. CASE h = None
    <3>1. a = RowAt(p)
      BY <1>1, <1>2, <2>1 DEF HeldOn, Anchor
    <3> QED BY <1>3, <1>9, <2>1, <3>1
  <2>2. CASE h = Free
    BY <1>3, <1>8, <2>2
  <2>3. CASE h \notin {None, Free}
    BY <1>1, <1>2, <1>3, <1>6, <2>3 DEF HeldOn
  <2> QED BY <2>1, <2>2, <2>3
<1>11. CASE q = f
  <2>1. k = None => f.anchor = None
    BY <1>5, <1>8, <1>10
  <2>2. ASSUME k \notin {None, Free} PROVE Anchor(f) = k /\ k \in all
    BY <1>5, <1>10, <2>2 DEF Anchor
  <2>3. ASSUME k \in ToSet(Rows(f)), k # Parent \/ f.filter = NoText PROVE RowAt(f) = k
    BY <1>5, <1>8, <1>10, <2>3
  <2>4. HeldOn(f, k)
    BY <1>7, <2>1, <2>2, <2>3 DEF HeldOn
  <2> QED BY <1>1, <1>5, <1>11, <2>4
<1>12. CASE text = NoText /\ q = [f EXCEPT !.anchor = None, !.placed = 0]
  <2>1. /\ PanelFormed(q) /\ q.path = f.path /\ q.entries = f.entries /\ q.order = f.order /\ q.hidden = f.hidden
        /\ q.filter = f.filter /\ q.cursor = f.cursor /\ q.anchor = None
    BY <1>5, <1>12 DEF PanelFormed
  <2>2. Rows(q) = Rows(f)
    BY <2>1, SameRows
  <2>3. RowAt(q) = RowAt(f) /\ CursorOn(q)
    BY <1>5, <2>1, <2>2 DEF RowAt, CursorOn
  <2>4. Rows(Unfiltered(q)) = Rows(q) /\ Rows(Unfiltered(f)) = Rows(f)
    <3>1. ASSUME NEW x, PanelFormed(x), x.filter = NoText PROVE Rows(Unfiltered(x)) = Rows(x)
      <4>1. PICK u : u = Unfiltered(x)
        OBVIOUS
      <4>2. u.path = x.path /\ u.entries = x.entries /\ u.order = x.order /\ u.hidden = x.hidden /\ u.filter = x.filter
        BY <3>1, <4>1 DEF Unfiltered, PanelFormed
      <4> QED BY <4>1, <4>2, SameRows
    <3> QED BY <1>5, <1>12, <2>1, <3>1
  <2>5. ToSet(Rows(f)) = all /\ ToSet(Rows(Unfiltered(q))) = all /\ ToSet(Rows(q)) = all
    BY <1>7, <2>2, <2>4
  <2>6. Anchor(q) = RowAt(f)
    BY <2>1, <2>3 DEF Anchor
  <2>7. ASSUME k # None, k # Free PROVE RowAt(f) = k /\ k \in all
    BY <1>5, <1>10, <1>12, <2>5, <2>7
  <2>8. HeldOn(q, k)
    BY <1>8, <2>1, <2>3, <2>5, <2>6, <2>7 DEF HeldOn
  <2> QED BY <1>1, <1>5, <2>1, <2>3, <2>8
<1> QED BY <1>4, <1>11, <1>12

LEMMA HeldNoMore ==
  ASSUME PanelSound, NEW q, PanelFormed(q), NEW row, row = IF q.anchor = None THEN None ELSE Free
  PROVE  HeldOn(q, row)
BY NoSuchRow DEF HeldOn, None, Free

LEMMA PanelKeyKeeps ==
  ASSUME PanelSound, PanelFormed(panel), CursorOn(panel), HeldOn(panel, held), PanelKey
  PROVE  /\ PanelFormed(panel') /\ CursorOn(panel') /\ HeldOn(panel', held')
         /\ panel'.path = panel.path /\ panel'.entries = panel.entries
<1>1. PICK p, q, h, k : p = panel /\ q = panel' /\ h = held /\ k = held'
  OBVIOUS
<1>2. PanelFormed(p) /\ CursorOn(p) /\ HeldOn(p, h)
  BY <1>1
<1>3. CASE panel' = Selected /\ UNCHANGED held
  <2>1. PICK row : row = RowAt(p)
    OBVIOUS
  <2>2. CASE row \in {None, Parent}
    BY <1>1, <1>2, <1>3, <2>1, <2>2 DEF Selected
  <2>3. CASE row \notin {None, Parent}
    <3>1. PICK chosen : chosen = (p.selected \ {row}) \cup ({row} \ p.selected)
      OBVIOUS
    <3>2. q = [p EXCEPT !.selected = chosen]
      BY <1>1, <1>3, <2>1, <2>3, <3>1 DEF Selected
    <3>3. row \in Names
      BY <1>2, <2>1, <2>3, NoSuchRow
    <3>4. /\ PanelFormed(q) /\ q.path = p.path /\ q.entries = p.entries /\ q.order = p.order /\ q.hidden = p.hidden
          /\ q.filter = p.filter /\ q.cursor = p.cursor /\ q.anchor = p.anchor /\ q.placed = p.placed
      BY <1>2, <3>1, <3>2, <3>3 DEF PanelFormed
    <3>5. Rows(q) = Rows(p)
      BY <3>4, SameRows
    <3>6. Rows(Unfiltered(q)) = Rows(Unfiltered(p))
      <4>1. PICK u, v : u = Unfiltered(p) /\ v = Unfiltered(q)
        OBVIOUS
      <4>2. v.path = u.path /\ v.entries = u.entries /\ v.order = u.order /\ v.hidden = u.hidden /\ v.filter = u.filter
        BY <1>2, <3>4, <4>1 DEF Unfiltered, PanelFormed
      <4> QED BY <4>1, <4>2, SameRows
    <3>7. RowAt(q) = RowAt(p) /\ Anchor(q) = Anchor(p) /\ CursorOn(q)
      BY <1>2, <3>4, <3>5 DEF RowAt, Anchor, CursorOn
    <3>8. HeldOn(q, h)
      BY <1>2, <3>4, <3>5, <3>6, <3>7 DEF HeldOn
    <3> QED BY <1>1, <1>3, <3>4, <3>7, <3>8
  <2> QED BY <2>2, <2>3
<1>4. CASE /\ panel' \in Moved \cup {HiddenToggled, SortCycled}
           /\ held' = IF panel.anchor = None THEN None ELSE Free
  <2>1. /\ PanelFormed(q) /\ CursorOn(q) /\ q.anchor = p.anchor /\ q.path = p.path /\ q.entries = p.entries
    <3>1. CASE q \in Moved
      <4>1. PICK n \in DOMAIN Rows(p) : q = [p EXCEPT !.cursor = n]
        BY <1>1, <3>1 DEF Moved
      <4>2. n \in Nat \ {0}
        <5>1. PICK rows \in Seq(Names \cup {Parent}) : rows = Rows(p)
          BY <1>2, RowsAre
        <5> QED BY <4>1, <5>1
      <4>3. /\ PanelFormed(q) /\ q.path = p.path /\ q.entries = p.entries /\ q.order = p.order /\ q.hidden = p.hidden
            /\ q.filter = p.filter /\ q.cursor = n /\ q.anchor = p.anchor
        BY <1>2, <4>1, <4>2 DEF PanelFormed
      <4>4. Rows(q) = Rows(p)
        BY <4>3, SameRows
      <4> QED BY <4>1, <4>3, <4>4 DEF CursorOn
    <3>2. CASE q = HiddenToggled
      <4>1. PICK b, r : b \in BOOLEAN /\ r = [p EXCEPT !.hidden = b] /\ q = Clamped(r)
        BY <1>1, <3>2 DEF HiddenToggled
      <4>2. PanelFormed(r) /\ r.path = p.path /\ r.entries = p.entries /\ r.anchor = p.anchor
        BY <1>2, <4>1 DEF PanelFormed
      <4> QED BY <4>1, <4>2, ClampedOn DEF SameButCursor
    <3>3. CASE q = SortCycled
      <4>1. PICK o, r : o = (p.order % Len(Orders)) + 1 /\ r = [p EXCEPT !.order = o] /\ q = Clamped(r)
        BY <1>1, <3>3 DEF SortCycled
      <4>2. o \in DOMAIN Orders
        <5>1. Len(Orders) \in Nat /\ DOMAIN Orders = 1..Len(Orders) /\ (Len(Orders) = 0 => Orders = <<>>)
          BY DEF PanelSound
        <5>2. PICK l \in Nat, n \in Nat : l = Len(Orders) /\ n = p.order
          BY <1>2, <5>1 DEF PanelFormed
        <5>3. l # 0
          BY <5>1, <5>2 DEF PanelSound
        <5>4. (n % l) + 1 \in 1..l
          BY <5>3
        <5> QED BY <4>1, <5>1, <5>2, <5>4
      <4>3. PanelFormed(r) /\ r.path = p.path /\ r.entries = p.entries /\ r.anchor = p.anchor
        BY <1>2, <4>1, <4>2 DEF PanelFormed
      <4>4. /\ PanelFormed(q) /\ CursorOn(q) /\ SameButCursor(r, q) /\ q.anchor = r.anchor
        BY ONLY <4>1, <4>3, PanelSound, ClampedOn
      <4> QED BY <4>3, <4>4 DEF SameButCursor
    <3> QED BY <1>1, <1>4, <3>1, <3>2, <3>3
  <2>2. k = IF q.anchor = None THEN None ELSE Free
    BY <1>1, <1>4, <2>1
  <2> QED BY <1>1, <2>1, <2>2, HeldNoMore
<1> QED BY <1>3, <1>4 DEF PanelKey

LEMMA ReplacedOn ==
  ASSUME PanelSound, PanelFormed(panel), NEW path \in FolderNames, NEW entries \in SUBSET Names,
         NEW q, q = Replaced(panel, path, entries)
  PROVE  PanelFormed(q) /\ CursorOn(q) /\ HeldOn(q, None) /\ q.path = path /\ q.entries = entries
<1>1. PICK p : p = panel
  OBVIOUS
<1>2. PICK text, c, r : /\ c = (IF path # p.path /\ resets THEN 1 ELSE p.cursor)
                        /\ r = [p EXCEPT !.path = path, !.entries = entries, !.selected = {}, !.anchor = None,
                                         !.placed = 0, !.filter = text, !.cursor = c]
                        /\ q = Clamped(r)
  BY <1>1 DEF Replaced
<1>3. c \in Nat \ {0}
  BY <1>1, <1>2 DEF PanelFormed
<1>4. PanelFormed(r) /\ r.path = path /\ r.entries = entries /\ r.anchor = None
  BY <1>1, <1>2, <1>3 DEF PanelFormed
<1>5. PanelFormed(q) /\ CursorOn(q) /\ q.path = path /\ q.entries = entries /\ q.anchor = None
  BY <1>2, <1>4, ClampedOn DEF SameButCursor
<1>6. HeldOn(q, None)
  BY <1>5, HeldNoMore
<1> QED BY <1>5, <1>6

---------------------------------------------------------------------------
(* The listings that are on their way                                      *)
LEMMA JoinedTo ==
  ASSUME NEW S, NEW a \in Seq(S), NEW b \in Seq(S)
  PROVE  a \o b \in Seq(S) /\ Len(a \o b) = Len(a) + Len(b)
OBVIOUS

LEMMA TaskGone ==
  ASSUME NEW S, NEW s \in Seq(S), NEW i \in DOMAIN s, NEW t, t = RemoveAt(s, i)
  PROVE  /\ t \in Seq(S)
         /\ \A k \in DOMAIN t : \E j \in DOMAIN s : j # i /\ t[k] = s[j] /\ j = IF k < i THEN k ELSE k + 1
         /\ \A j \in DOMAIN s : j # i => \E k \in DOMAIN t : t[k] = s[j]
<1>1. PICK a, b, l : a = SubSeq(s, 1, i - 1) /\ b = SubSeq(s, i + 1, Len(s)) /\ l = Len(s)
  OBVIOUS
<1>2. t = a \o b
  BY <1>1 DEF RemoveAt
<1>3. l \in Nat /\ i \in 1..l /\ DOMAIN s = 1..l
  BY <1>1
<1>4. a \in Seq(S) /\ Len(a) = i - 1 /\ \A m \in 1..(i - 1) : a[m] = s[m]
  BY <1>1, <1>3
<1>5. b \in Seq(S) /\ Len(b) = l - i /\ \A m \in 1..(l - i) : b[m] = s[i + m]
  BY <1>1, <1>3
<1>6. t \in Seq(S) /\ Len(t) = l - 1 /\ DOMAIN t = 1..(l - 1)
  <2>1. a \o b \in Seq(S) /\ Len(a \o b) = Len(a) + Len(b)
    BY <1>4, <1>5, JoinedTo
  <2>2. Len(a) + Len(b) = l - 1
    BY <1>3, <1>4, <1>5
  <2> QED BY <1>2, <2>1, <2>2
<1>7. ASSUME NEW k \in 1..(l - 1), k < i PROVE t[k] = s[k]
  BY <1>2, <1>3, <1>4, <1>5, <1>7
<1>8. ASSUME NEW k \in 1..(l - 1), ~(k < i) PROVE t[k] = s[k + 1]
  <2>1. PICK m : m = k - (i - 1)
    OBVIOUS
  <2>2. m \in 1..(l - i) /\ k = (i - 1) + m /\ i + m = k + 1
    BY <1>3, <1>8, <2>1
  <2>3. t[k] = b[m]
    <3>1. PICK n \in Nat : n = Len(a)
      BY <1>4
    <3>2. m \in 1..Len(b) /\ n = i - 1
      BY <1>4, <1>5, <2>2, <3>1
    <3>3. (a \o b)[n + m] = b[m]
      BY <1>4, <1>5, <3>1, <3>2
    <3> QED BY <1>2, <2>2, <3>2, <3>3
  <2> QED BY <1>5, <2>2, <2>3
<1>9. ASSUME NEW k \in DOMAIN t
      PROVE  \E j \in DOMAIN s : j # i /\ t[k] = s[j] /\ j = IF k < i THEN k ELSE k + 1
  <2>1. k \in 1..(l - 1)
    BY <1>6
  <2>2. CASE k < i
    BY <1>3, <1>7, <2>1, <2>2
  <2>3. CASE ~(k < i)
    <3>1. k + 1 \in 1..l /\ k + 1 # i
      BY <1>3, <2>1, <2>3
    <3> QED BY <1>3, <1>8, <2>1, <2>3, <3>1
  <2> QED BY <2>2, <2>3
<1>10. ASSUME NEW j \in DOMAIN s, j # i PROVE \E k \in DOMAIN t : t[k] = s[j]
  <2>1. j \in 1..l
    BY <1>3
  <2>2. CASE j < i
    <3>1. j \in 1..(l - 1)
      BY <1>3, <2>1, <2>2
    <3> QED BY <1>6, <1>7, <2>2, <3>1
  <2>3. CASE ~(j < i)
    <3>1. PICK k : k = j - 1
      OBVIOUS
    <3>2. k \in 1..(l - 1) /\ ~(k < i) /\ k + 1 = j
      BY <1>3, <1>10, <2>1, <2>3, <3>1
    <3> QED BY <1>6, <1>8, <3>2
  <2> QED BY <2>2, <2>3
<1> QED BY <1>6, <1>9, <1>10

LEMMA OthersLeft ==
  ASSUME NEW S, NEW s \in Seq(S), NEW i \in DOMAIN s, NEW t, t = RemoveAt(s, i)
  PROVE  /\ \A k \in DOMAIN t : \E j \in DOMAIN s : j # i /\ t[k] = s[j]
         /\ \A j \in DOMAIN s : j # i => \E k \in DOMAIN t : t[k] = s[j]
<1>1. /\ \A k \in DOMAIN t : \E j \in DOMAIN s : j # i /\ t[k] = s[j] /\ j = IF k < i THEN k ELSE k + 1
      /\ \A j \in DOMAIN s : j # i => \E k \in DOMAIN t : t[k] = s[j]
  BY TaskGone
<1>2. ASSUME NEW k \in DOMAIN t PROVE \E j \in DOMAIN s : j # i /\ t[k] = s[j]
  BY ONLY <1>1, <1>2, Zenon
<1> QED BY ONLY <1>1, <1>2, Zenon

LEMMA AddedTo ==
  ASSUME NEW S, NEW s \in Seq(S), NEW e \in S, NEW t, t = Append(s, e)
  PROVE  /\ t \in Seq(S)
         /\ \A k \in DOMAIN s : k \in DOMAIN t /\ t[k] = s[k]
         /\ \E n \in DOMAIN t : /\ t[n] = e /\ n \notin DOMAIN s
                                /\ \A k \in DOMAIN t : k # n => k \in DOMAIN s
                                /\ \A k \in DOMAIN s : ~(k > n)
<1>1. /\ t \in Seq(S) /\ Len(s) \in Nat /\ DOMAIN s = 1..Len(s) /\ DOMAIN t = 1..(Len(s) + 1)
      /\ t[Len(s) + 1] = e /\ \A k \in 1..Len(s) : t[k] = s[k]
  OBVIOUS
<1> QED BY <1>1

LEMMA RelistShows ==
  ASSUME NEW ts \in Seq(FsTask), \A i \in DOMAIN ts : ~Asked(ts[i]), NEW path \in FolderNames,
         NEW t, t = Append(ts, Lists(path)), NEW es, NEW d, NEW p
  PROVE  t \in Seq(FsTask) /\ OneListing(t) /\ Shows(t, es, d, p)
<1>1. PICK e : e = Lists(path)
  OBVIOUS
<1>2. e \in FsTask /\ Unread(e)
  BY <1>1 DEF Lists, FsTask, Unread
<1>3. /\ t \in Seq(FsTask) /\ \A k \in DOMAIN ts : t[k] = ts[k]
      /\ \E n \in DOMAIN t : t[n] = e /\ \A k \in DOMAIN t : k # n => k \in DOMAIN ts
  BY <1>1, <1>2, AddedTo
<1> QED BY <1>2, <1>3 DEF OneListing, Shows

LEMMA SpawnShows ==
  ASSUME NEW ts \in Seq(FsTask), NEW task \in FsTask, ~Asked(task),
         NEW t, t = Append(ts, task), NEW es, NEW d, NEW p, OneListing(ts), Shows(ts, es, d, p)
  PROVE  OneListing(t) /\ Shows(t, es, d, p)
<1>1. /\ \A k \in DOMAIN ts : k \in DOMAIN t /\ t[k] = ts[k]
      /\ \E n \in DOMAIN t : t[n] = task /\ \A k \in DOMAIN t : k # n => k \in DOMAIN ts
  BY AddedTo
<1>2. \A k \in DOMAIN t : Asked(t[k]) => k \in DOMAIN ts /\ t[k] = ts[k]
  BY <1>1
<1> QED BY <1>1, <1>2 DEF OneListing, Shows

LEMMA GoneOneListing ==
  ASSUME NEW ts \in Seq(FsTask), NEW i \in DOMAIN ts, NEW t, t = RemoveAt(ts, i), OneListing(ts)
  PROVE  OneListing(t)
<1> SUFFICES ASSUME NEW k \in DOMAIN t, NEW l \in DOMAIN t, Asked(t[k]), Asked(t[l]) PROVE k = l
  BY DEF OneListing
<1>1. PICK j \in DOMAIN ts : j # i /\ t[k] = ts[j] /\ j = IF k < i THEN k ELSE k + 1
  BY TaskGone
<1>2. PICK m \in DOMAIN ts : m # i /\ t[l] = ts[m] /\ m = IF l < i THEN l ELSE l + 1
  BY TaskGone
<1>3. j = m
  BY <1>1, <1>2 DEF OneListing
<1>4. k \in Nat /\ l \in Nat /\ i \in Nat
  <2>1. t \in Seq(FsTask)
    BY TaskGone
  <2> QED BY <2>1
<1> QED BY <1>1, <1>2, <1>3, <1>4

(* a task that ends, and was neither a listing nor had changed anything    *)
LEMMA GoneShows ==
  ASSUME NEW ts \in Seq(FsTask), NEW i \in DOMAIN ts, NEW t, t = RemoveAt(ts, i), ~Asked(ts[i]), ~Changing(ts[i]),
         NEW es, NEW d, NEW p, Shows(ts, es, d, p)
  PROVE  Shows(t, es, d, p)
<1>1. /\ \A k \in DOMAIN t : \E j \in DOMAIN ts : j # i /\ t[k] = ts[j]
      /\ \A j \in DOMAIN ts : j # i => \E k \in DOMAIN t : t[k] = ts[j]
  BY ONLY OthersLeft, ts \in Seq(FsTask), i \in DOMAIN ts, t = RemoveAt(ts, i)
<1>2. ~Unread(ts[i]) /\ ~ReadTrue(ts[i], d)
  BY DEF Asked, Unread, ReadTrue
<1> QED BY <1>1, <1>2 DEF Shows

(* a listing that ends tells what it has read                              *)
LEMMA ToldShows ==
  ASSUME NEW ts \in Seq(FsTask), OneListing(ts), NEW i \in DOMAIN ts, ts[i].kind = "list", ts[i].read,
         NEW t, t = RemoveAt(ts, i), NEW es \in Seq(FsEvent), NEW e \in FsEvent,
         e.kind = "Listed", e.path = ts[i].path, e.entries = ts[i].entries,
         NEW after, after = Append(es, e), NEW d, NEW p, Shows(ts, es, d, p)
  PROVE  Shows(t, after, d, p)
<1>1. /\ \A k \in DOMAIN t : \E j \in DOMAIN ts : j # i /\ t[k] = ts[j]
      /\ \A j \in DOMAIN ts : j # i => \E k \in DOMAIN t : t[k] = ts[j]
  BY ONLY OthersLeft, ts \in Seq(FsTask), i \in DOMAIN ts, t = RemoveAt(ts, i)
<1>2. /\ \A k \in DOMAIN es : k \in DOMAIN after /\ after[k] = es[k]
      /\ \E n \in DOMAIN after : /\ after[n] = e
                                 /\ \A k \in DOMAIN after : k # n => k \in DOMAIN es
                                 /\ \A k \in DOMAIN es : ~(k > n)
  BY AddedTo
<1>3. Asked(ts[i]) /\ \A j \in DOMAIN ts : Asked(ts[j]) => j = i
  BY DEF OneListing, Asked
<1>4. \A k \in DOMAIN t : ~Asked(t[k])
  BY <1>1, <1>3
<1>5. CASE \E n \in DOMAIN es : es[n].kind = "LocationChanged"
  BY <1>2, <1>5 DEF Shows
<1>6. CASE \E j \in DOMAIN ts : j # i /\ Changing(ts[j])
  BY <1>1, <1>6 DEF Shows
<1>7. CASE ReadTrue(ts[i], d)
  <2>1. PICK n \in DOMAIN after : /\ after[n] = e
                                  /\ \A k \in DOMAIN after : k # n => k \in DOMAIN es
                                  /\ \A k \in DOMAIN es : ~(k > n)
    BY <1>2
  <2>2. n \in Nat
    <3>1. after \in Seq(FsEvent)
      BY AddedTo
    <3> QED BY <3>1
  <2>3. \A k \in DOMAIN after : k > n => k \in DOMAIN es
    BY <2>1, <2>2
  <2>4. ToldTrue(after, n, d)
    BY <1>7, <2>1, <2>3 DEF ToldTrue, ReadTrue
  <2> QED BY <1>4, <2>4 DEF Shows
<1>8. ~Unread(ts[i]) /\ ~Changing(ts[i])
  BY DEF Unread, Changing
<1>9. \A j \in DOMAIN ts : Unread(ts[j]) \/ ReadTrue(ts[j], d) => j = i
  BY <1>3 DEF Unread, ReadTrue, Asked
<1> QED BY <1>3, <1>5, <1>6, <1>7, <1>8, <1>9 DEF Shows

(* an event of a listing is applied *)
LEMMA AppliedShows ==
  ASSUME NEW ts, NEW es \in Seq(FsEvent), es # <<>>, es[1].kind = "Listed", NEW after, after = Tail(es),
         NEW d, NEW p, NEW q, q.path = es[1].path, q.entries = es[1].entries, Shows(ts, es, d, p)
  PROVE  Shows(ts, after, d, q)
<1>1. /\ Len(es) \in Nat /\ Len(es) # 0 /\ DOMAIN es = 1..Len(es) /\ DOMAIN after = 1..(Len(es) - 1)
      /\ \A k \in 1..(Len(es) - 1) : after[k] = es[k + 1]
  <2>1. Len(es) \in Nat /\ Len(es) # 0 /\ DOMAIN es = 1..Len(es)
    OBVIOUS
  <2>2. after \in Seq(FsEvent) /\ Len(after) = Len(es) - 1
    OBVIOUS
  <2>3. \A k \in 1..(Len(es) - 1) : after[k] = es[k + 1]
    OBVIOUS
  <2> QED BY <2>1, <2>2, <2>3
<1>2. ASSUME NEW n \in DOMAIN es, n # 1 PROVE \E k \in DOMAIN after : n = k + 1 /\ after[k] = es[n]
  <2>1. PICK k : k = n - 1
    OBVIOUS
  <2>2. k \in 1..(Len(es) - 1) /\ n = k + 1
    BY <1>1, <1>2, <2>1
  <2> QED BY <1>1, <2>2
<1>3. ASSUME NEW k \in DOMAIN after PROVE k + 1 \in DOMAIN es /\ after[k] = es[k + 1] /\ k \in Nat /\ k + 1 > 1
  BY <1>1
<1>4. 1 \in DOMAIN es
  BY <1>1
<1>5. CASE \E i \in DOMAIN ts : Unread(ts[i]) \/ ReadTrue(ts[i], d) \/ Changing(ts[i])
  BY <1>5 DEF Shows
<1>6. CASE \E n \in DOMAIN es : es[n].kind = "LocationChanged"
  <2>1. PICK n \in DOMAIN es : es[n].kind = "LocationChanged"
    BY <1>6
  <2>2. PICK k \in DOMAIN after : after[k] = es[n]
    BY <1>2, <2>1
  <2> QED BY <2>1, <2>2 DEF Shows
<1>7. CASE /\ \A i \in DOMAIN ts : ~Asked(ts[i])
           /\ \E n \in DOMAIN es : ToldTrue(es, n, d)
  <2>1. PICK n \in DOMAIN es : ToldTrue(es, n, d)
    BY <1>7
  <2>2. CASE n = 1
    <3>1. \A k \in DOMAIN after : after[k].kind # "Listed"
      BY <1>3, <2>1, <2>2 DEF ToldTrue
    <3>2. q.entries = d[q.path]
      BY <2>1, <2>2 DEF ToldTrue
    <3> QED BY <1>7, <3>1, <3>2 DEF Shows
  <2>3. CASE n # 1
    <3>1. PICK k \in DOMAIN after : n = k + 1 /\ after[k] = es[n]
      BY <1>2, <2>3
    <3>2. \A m \in DOMAIN after : m > k => m + 1 > n
      BY <1>3, <3>1
    <3>3. \A m \in DOMAIN after : m > k => after[m].kind # "Listed"
      BY <1>3, <2>1, <3>2 DEF ToldTrue
    <3>4. ToldTrue(after, k, d)
      BY <2>1, <3>1, <3>3 DEF ToldTrue
    <3> QED BY <1>7, <3>4 DEF Shows
  <2> QED BY <2>2, <2>3
<1> QED BY <1>4, <1>5, <1>6, <1>7 DEF Shows

LEMMA RelistsKeep ==
  ASSUME PanelTyped, NEW path \in FolderNames, Relists(path)
  PROVE  fsTasks' \in Seq(FsTask) /\ unsure' \in BOOLEAN /\ ListingsTrue'
<1>1. PICK ts \in Seq(FsTask) : ts = fsTasks
  BY DEF PanelTyped
<1>2. fsTasks' = Append(ts, Lists(path)) /\ unsure' = (ListingTasks # {})
  BY <1>1 DEF Relists
<1>3. Append(ts, Lists(path)) \in Seq(FsTask)
  BY <1>1, AddedTo DEF Lists, FsTask
<1>4. ASSUME ~unsure' PROVE OneListing(fsTasks') /\ Shows(fsTasks', events', disk', panel')
  <2>1. \A i \in DOMAIN ts : ~Asked(ts[i])
    BY <1>1, <1>2, <1>4 DEF ListingTasks, Asked
  <2> QED BY <1>2, <2>1, RelistShows
<1> QED BY <1>2, <1>3, <1>4 DEF ListingsTrue

LEMMA SpawnsKeep ==
  ASSUME PanelTyped, ListingsTrue, NEW task \in FsTask, ~Asked(task), Spawns(task)
  PROVE  fsTasks' \in Seq(FsTask) /\ ListingsTrue'
<1>1. PICK ts \in Seq(FsTask) : ts = fsTasks
  BY DEF PanelTyped
<1>2. fsTasks' = Append(ts, task) /\ UNCHANGED <<events, disk, panel, unsure>>
  BY <1>1 DEF Spawns
<1>3. Append(ts, task) \in Seq(FsTask)
  BY <1>1, AddedTo
<1>4. ASSUME OneListing(ts), Shows(ts, events, disk, panel)
      PROVE  OneListing(fsTasks') /\ Shows(fsTasks', events', disk', panel')
  BY <1>2, <1>4, SpawnShows
<1> QED BY <1>1, <1>2, <1>3, <1>4 DEF ListingsTrue

(* a task replaced in its place                                            *)
LEMMA TaskPut ==
  ASSUME NEW ts \in Seq(FsTask), NEW i \in DOMAIN ts, NEW task \in FsTask, Asked(task) => Asked(ts[i]),
         NEW t, t = [ts EXCEPT ![i] = task], OneListing(ts)
  PROVE  t \in Seq(FsTask) /\ OneListing(t) /\ i \in DOMAIN t /\ t[i] = task
<1>1. t \in Seq(FsTask) /\ DOMAIN t = DOMAIN ts /\ t[i] = task /\ \A j \in DOMAIN ts : j # i => t[j] = ts[j]
  OBVIOUS
<1> QED BY <1>1 DEF OneListing

LEMMA TaskPutTyped ==
  ASSUME NEW ts \in Seq(FsTask), NEW i \in DOMAIN ts, NEW task \in FsTask
  PROVE  [ts EXCEPT ![i] = task] \in Seq(FsTask)
OBVIOUS

LEMMA ListStartKeeps ==
  ASSUME PanelTyped, ListingsTrue, NEW i \in DOMAIN fsTasks, ListStart(i), UNCHANGED panel
  PROVE  fsTasks' \in Seq(FsTask) /\ unsure' \in BOOLEAN /\ ListingsTrue'
<1>1. PICK ts \in Seq(FsTask) : ts = fsTasks
  BY DEF PanelTyped
<1>2. i \in DOMAIN ts /\ ts[i].kind = "start" /\ Asked(ts[i]) /\ UNCHANGED <<disk, events>>
  BY <1>1 DEF ListStart, Asked
<1>3. CASE fsTasks' = [ts EXCEPT ![i] = [Lists("sub") EXCEPT !.read = TRUE, !.entries = disk["sub"]]] /\ UNCHANGED unsure
  <2>1. PICK task : task = [Lists("sub") EXCEPT !.read = TRUE, !.entries = disk["sub"]]
    OBVIOUS
  <2>2. task \in FsTask /\ task.kind = "list" /\ task.read /\ task.path = "sub" /\ task.entries = disk["sub"]
    BY <2>1 DEF Lists, FsTask, PanelTyped, FolderNames
  <2>3. fsTasks' = [ts EXCEPT ![i] = task]
    BY <1>3, <2>1
  <2>4. ReadTrue(task, disk')
    BY <1>2, <2>2 DEF ReadTrue
  <2>5. fsTasks' \in Seq(FsTask)
    BY <1>2, <2>2, <2>3, TaskPutTyped
  <2>6. ASSUME OneListing(ts) PROVE OneListing(fsTasks') /\ Shows(fsTasks', events', disk', panel')
    <3>1. OneListing(fsTasks') /\ i \in DOMAIN fsTasks' /\ fsTasks'[i] = task
      BY <1>2, <2>2, <2>3, <2>6, TaskPut
    <3> QED BY <2>4, <3>1 DEF Shows
  <2> QED BY <1>1, <1>3, <2>5, <2>6 DEF ListingsTrue, PanelTyped
<1>4. CASE fsTasks' = [ts EXCEPT ![i] = Lists("top")] /\ UNCHANGED unsure
  <2>1. PICK task : task = Lists("top")
    OBVIOUS
  <2>2. task \in FsTask /\ Unread(task)
    BY <2>1 DEF Lists, FsTask, Unread, FolderNames
  <2>3. fsTasks' = [ts EXCEPT ![i] = task]
    BY <1>4, <2>1
  <2>4. fsTasks' \in Seq(FsTask)
    BY <1>2, <2>2, <2>3, TaskPutTyped
  <2>5. ASSUME OneListing(ts) PROVE OneListing(fsTasks') /\ Shows(fsTasks', events', disk', panel')
    <3>1. OneListing(fsTasks') /\ i \in DOMAIN fsTasks' /\ fsTasks'[i] = task
      BY <1>2, <2>2, <2>3, <2>5, TaskPut
    <3> QED BY <2>2, <3>1 DEF Shows
  <2> QED BY <1>1, <1>4, <2>4, <2>5 DEF ListingsTrue, PanelTyped
<1>5. CASE fsTasks' = RemoveAt(ts, i) /\ unsure' = TRUE
  BY <1>2, <1>5, TaskGone DEF ListingsTrue
<1> QED BY <1>1, <1>3, <1>4, <1>5 DEF ListStart, Gone

LEMMA EventAdded ==
  ASSUME PanelTyped, NEW e \in FsEvent, Tells(e)
  PROVE  /\ events' \in Seq(FsEvent)
         /\ e.kind = "LocationChanged" => \E n \in DOMAIN events' : events'[n].kind = "LocationChanged"
<1>1. PICK es \in Seq(FsEvent) : es = events
  BY DEF PanelTyped
<1>2. events' = Append(es, e)
  BY <1>1 DEF Tells
<1> QED BY <1>1, <1>2, AddedTo

LEMMA ListIntoKeeps ==
  ASSUME PanelTyped, ListingsTrue, NEW i \in DOMAIN fsTasks, ListInto(i), UNCHANGED panel
  PROVE  fsTasks' \in Seq(FsTask) /\ events' \in Seq(FsEvent) /\ unsure' \in BOOLEAN /\ ListingsTrue'
<1>1. PICK ts \in Seq(FsTask), t \in FsTask : ts = fsTasks /\ t = ts[i]
  BY DEF PanelTyped
<1>2. i \in DOMAIN ts /\ t.kind = "list" /\ Asked(t) /\ UNCHANGED disk
  BY <1>1 DEF ListInto, Asked
<1>3. t \in [kind : {"list"}, path : FolderNames, read : BOOLEAN, entries : SUBSET Names]
  BY <1>2 DEF FsTask
<1>4. CASE fsTasks' = [ts EXCEPT ![i].read = TRUE, ![i].entries = disk[t.path]] /\ UNCHANGED <<events, unsure>>
  <2>1. PICK task : task = [t EXCEPT !.read = TRUE, !.entries = disk[t.path]]
    OBVIOUS
  <2>2. task \in FsTask /\ task.kind = "list" /\ task.read /\ task.path = t.path /\ task.entries = disk[t.path]
    BY <1>3, <2>1 DEF FsTask, PanelTyped
  <2>3. fsTasks' = [ts EXCEPT ![i] = task]
    BY <1>1, <1>2, <1>4, <2>1
  <2>4. ReadTrue(task, disk')
    BY <1>2, <2>2 DEF ReadTrue
  <2>5. fsTasks' \in Seq(FsTask)
    BY <1>2, <2>2, <2>3, TaskPutTyped
  <2>6. ASSUME OneListing(ts) PROVE OneListing(fsTasks') /\ Shows(fsTasks', events', disk', panel')
    <3>1. OneListing(fsTasks') /\ i \in DOMAIN fsTasks' /\ fsTasks'[i] = task
      BY <1>1, <1>2, <2>2, <2>3, <2>6, TaskPut
    <3> QED BY <2>4, <3>1 DEF Shows
  <2> QED BY <1>1, <1>4, <2>5, <2>6 DEF ListingsTrue, PanelTyped
<1>5. CASE /\ t.read /\ fsTasks' = RemoveAt(ts, i) /\ UNCHANGED unsure
           /\ Tells([kind |-> "Listed", path |-> t.path, entries |-> t.entries])
  <2>1. PICK e : e = [kind |-> "Listed", path |-> t.path, entries |-> t.entries]
    OBVIOUS
  <2>2. e \in FsEvent /\ e.kind = "Listed" /\ e.path = t.path /\ e.entries = t.entries
    BY <1>3, <2>1 DEF FsEvent
  <2>3. PICK es \in Seq(FsEvent) : es = events
    BY DEF PanelTyped
  <2>4. events' = Append(es, e)
    BY <1>5, <2>1, <2>3 DEF Tells
  <2>5. events' \in Seq(FsEvent) /\ fsTasks' \in Seq(FsTask)
    BY <1>2, <1>5, <2>2, <2>4, AddedTo, TaskGone
  <2>6. ASSUME OneListing(ts), Shows(ts, es, disk, panel)
        PROVE  OneListing(fsTasks') /\ Shows(fsTasks', events', disk', panel')
    BY <1>1, <1>2, <1>5, <2>2, <2>3, <2>4, <2>6, ToldShows, GoneOneListing
  <2> QED BY <1>1, <1>5, <2>3, <2>5, <2>6 DEF ListingsTrue, PanelTyped
<1>6. CASE fsTasks' = RemoveAt(ts, i) /\ unsure' = TRUE /\ UNCHANGED events
  BY <1>2, <1>6, TaskGone DEF ListingsTrue, PanelTyped
<1> QED BY <1>1, <1>4, <1>5, <1>6 DEF ListInto, Gone

(* something was changed, and LocationChanged is told                      *)
LEMMA ChangesKeep ==
  ASSUME PanelTyped, ListingsTrue, NEW i \in DOMAIN fsTasks, Changes(i)
  PROVE  fsTasks' \in Seq(FsTask) /\ events' \in Seq(FsEvent) /\ unsure' \in BOOLEAN /\ ListingsTrue'
<1>1. PICK ts \in Seq(FsTask) : ts = fsTasks
  BY DEF PanelTyped
<1>2. /\ i \in DOMAIN ts /\ fsTasks' = RemoveAt(ts, i) /\ UNCHANGED unsure
      /\ Tells([kind |-> "LocationChanged"])
  BY <1>1 DEF Changes, Gone
<1>3. events' \in Seq(FsEvent) /\ \E n \in DOMAIN events' : events'[n].kind = "LocationChanged"
  <2>1. PICK e : e = [kind |-> "LocationChanged"]
    OBVIOUS
  <2>2. e \in FsEvent /\ e.kind = "LocationChanged"
    BY <2>1 DEF FsEvent
  <2> QED BY <1>2, <2>1, <2>2, EventAdded
<1>4. Shows(fsTasks', events', disk', panel')
  BY <1>3 DEF Shows
<1>5. OneListing(ts) => OneListing(fsTasks')
  BY <1>2, GoneOneListing
<1> QED BY <1>1, <1>2, <1>3, <1>4, <1>5, TaskGone DEF ListingsTrue, PanelTyped

LEMMA FailsKeep ==
  ASSUME PanelTyped, ListingsTrue, NEW i \in DOMAIN fsTasks, ~Asked(fsTasks[i]), NEW broken \in BOOLEAN,
         broken = Changing(fsTasks[i]), Fails(i, broken), UNCHANGED <<disk, panel>>
  PROVE  fsTasks' \in Seq(FsTask) /\ unsure' \in BOOLEAN /\ ListingsTrue'
<1>1. PICK ts \in Seq(FsTask) : ts = fsTasks
  BY DEF PanelTyped
<1>2. /\ i \in DOMAIN ts /\ ~Asked(ts[i]) /\ fsTasks' = RemoveAt(ts, i) /\ unsure' = (unsure \/ broken)
      /\ UNCHANGED events
  BY <1>1 DEF Fails, Gone
<1>3. ASSUME ~broken, OneListing(ts), Shows(ts, events, disk, panel)
      PROVE  OneListing(fsTasks') /\ Shows(fsTasks', events', disk', panel')
  BY <1>1, <1>2, <1>3, GoneShows, GoneOneListing
<1> QED BY <1>1, <1>2, <1>3, TaskGone DEF ListingsTrue, PanelTyped

LEMMA DeleteKeeps ==
  ASSUME PanelSound, PanelTyped, ListingsTrue, NEW i \in DOMAIN fsTasks, Delete(i), UNCHANGED panel
  PROVE  /\ disk' \in [FolderNames -> SUBSET Names]
         /\ fsTasks' \in Seq(FsTask) /\ events' \in Seq(FsEvent) /\ unsure' \in BOOLEAN /\ ListingsTrue'
<1>1. PICK ts \in Seq(FsTask), t \in FsTask : ts = fsTasks /\ t = ts[i]
  BY DEF PanelTyped
<1>2. i \in DOMAIN ts /\ t.kind = "delete" /\ ~Asked(t)
  BY <1>1 DEF Delete, Asked
<1>3. t \in [kind : {"delete"}, path : FolderNames, names : SUBSET Names, some : BOOLEAN]
  BY <1>2 DEF FsTask
<1>4. CASE Changes(i) /\ UNCHANGED disk
  BY <1>4, ChangesKeep DEF PanelTyped
<1>5. CASE \E name \in t.names \cap disk[t.path] :
              /\ disk' = Emptied([disk EXCEPT ![t.path] = @ \ {name}], {name})
              /\ fsTasks' = [fsTasks EXCEPT ![i].names = @ \ {name}, ![i].some = TRUE]
              /\ UNCHANGED <<events, unsure>>
  <2>1. PICK name : /\ disk' = Emptied([disk EXCEPT ![t.path] = @ \ {name}], {name})
                    /\ fsTasks' = [fsTasks EXCEPT ![i].names = @ \ {name}, ![i].some = TRUE]
                    /\ UNCHANGED <<events, unsure>>
    BY <1>5
  <2>2. PICK task : task = [t EXCEPT !.names = @ \ {name}, !.some = TRUE]
    OBVIOUS
  <2>3. task \in FsTask /\ ~Asked(task) /\ Changing(task)
    BY <1>3, <2>2 DEF FsTask, Asked, Changing
  <2>4. fsTasks' = [ts EXCEPT ![i] = task]
    BY <1>1, <1>2, <2>1, <2>2
  <2>5. fsTasks' \in Seq(FsTask)
    BY <1>2, <2>3, <2>4, TaskPutTyped
  <2>6. ASSUME OneListing(ts) PROVE OneListing(fsTasks') /\ Shows(fsTasks', events', disk', panel')
    <3>1. OneListing(fsTasks') /\ i \in DOMAIN fsTasks' /\ fsTasks'[i] = task
      BY <1>2, <2>3, <2>4, <2>6, TaskPut
    <3> QED BY <2>3, <3>1 DEF Shows
  <2>7. disk' \in [FolderNames -> SUBSET Names]
    <3>1. PICK d : d = [disk EXCEPT ![t.path] = @ \ {name}]
      OBVIOUS
    <3>2. d \in [FolderNames -> SUBSET Names]
      BY <1>3, <3>1 DEF PanelTyped
    <3>3. disk' = [d EXCEPT !["sub"] = IF Dir \in {name} THEN {} ELSE @]
      BY <2>1, <3>1 DEF Emptied
    <3> QED BY <3>2, <3>3
  <2> QED BY <1>1, <2>1, <2>5, <2>6, <2>7 DEF ListingsTrue, PanelTyped
<1>6. CASE Fails(i, t.some) /\ UNCHANGED disk
  <2>1. t.some \in BOOLEAN /\ t.some = Changing(t)
    BY <1>2, <1>3 DEF Changing
  <2>2. PICK b \in BOOLEAN : b = t.some
    BY <2>1
  <2>3. Fails(i, b) /\ b = Changing(fsTasks[i]) /\ ~Asked(fsTasks[i])
    BY <1>1, <1>2, <1>6, <2>1, <2>2
  <2>4. fsTasks' \in Seq(FsTask) /\ unsure' \in BOOLEAN /\ ListingsTrue'
    BY <1>6, <2>3, FailsKeep
  <2> QED BY <1>6, <2>4 DEF Fails, PanelTyped
<1> QED BY <1>1, <1>4, <1>5, <1>6 DEF Delete

LEMMA RenameKeeps ==
  ASSUME PanelSound, PanelTyped, ListingsTrue, NEW i \in DOMAIN fsTasks, Rename(i) \/ CreateDir(i), UNCHANGED panel
  PROVE  /\ disk' \in [FolderNames -> SUBSET Names]
         /\ fsTasks' \in Seq(FsTask) /\ events' \in Seq(FsEvent) /\ unsure' \in BOOLEAN /\ ListingsTrue'
<1>1. PICK t \in FsTask : t = fsTasks[i]
  BY DEF PanelTyped
<1>2. t.kind \in {"rename", "create"}
  BY <1>1 DEF Rename, CreateDir
<1>3. ~Asked(t) /\ Changing(t) = FALSE
  BY <1>2 DEF Asked, Changing
<1>4. CASE Fails(i, FALSE) /\ UNCHANGED disk
  <2>1. fsTasks' \in Seq(FsTask) /\ unsure' \in BOOLEAN /\ ListingsTrue'
    BY <1>1, <1>3, <1>4, FailsKeep
  <2> QED BY <1>4, <2>1 DEF Fails, PanelTyped
<1>5. CASE Changes(i) /\ disk' \in [FolderNames -> SUBSET Names]
  BY <1>5, ChangesKeep
<1>6. ASSUME Rename(i), ~(Fails(i, FALSE) /\ UNCHANGED disk)
      PROVE  Changes(i) /\ disk' \in [FolderNames -> SUBSET Names]
  <2>1. Changes(i) /\ disk' = [disk EXCEPT ![t.path] = (@ \ {t.from}) \cup {t.to}] /\ t.kind = "rename"
    BY <1>1, <1>6 DEF Rename
  <2>2. t \in [kind : {"rename"}, path : FolderNames, from : Names, to : Names]
    BY <2>1 DEF FsTask
  <2> QED BY <2>1, <2>2 DEF PanelTyped
<1>7. ASSUME CreateDir(i), ~(Fails(i, FALSE) /\ UNCHANGED disk)
      PROVE  Changes(i) /\ disk' \in [FolderNames -> SUBSET Names]
  <2>1. Changes(i) /\ disk' = [disk EXCEPT !["top"] = @ \cup {Dir}]
    BY <1>7 DEF CreateDir
  <2> QED BY <2>1 DEF PanelTyped, PanelSound
<1> QED BY <1>4, <1>5, <1>6, <1>7

---------------------------------------------------------------------------
LEMMA PanelStarts ==
  ASSUME PanelSound, PanelInit
  PROVE  PanelIInv
<1>1. PICK p : p = panel
  OBVIOUS
<1>2. PICK chosen \in SUBSET Names, entries \in SUBSET Names :
        /\ p = [path |-> "top", entries |-> entries, order |-> 1, hidden |-> FALSE,
                filter |-> NoText, cursor |-> 1, selected |-> chosen, anchor |-> None, placed |-> 0]
        /\ entries = IF resets THEN Names ELSE {}
  BY <1>1 DEF PanelInit
<1>3. 1 \in DOMAIN Orders
  BY DEF PanelSound
<1>4. PanelFormed(p) /\ p.anchor = None /\ p.path = "top" /\ p.entries = entries /\ p.cursor = 1
  BY <1>2, <1>3 DEF PanelFormed, FolderNames
<1>5. CursorOn(p)
  <2>1. PICK rows \in Seq(Names \cup {Parent}) : rows = Rows(p)
    BY <1>4, RowsAre
  <2> QED BY <1>4, <2>1 DEF CursorOn
<1>6. HeldOn(p, held)
  BY <1>4, HeldNoMore DEF PanelInit
<1>7. disk \in [FolderNames -> SUBSET Names] /\ disk["top"] = Names
  BY DEF PanelInit, FolderNames
<1>8. events = <<>> /\ events \in Seq(FsEvent) /\ unsure = FALSE /\ resets \in BOOLEAN
  BY DEF PanelInit
<1>9. CASE resets
  <2>1. fsTasks = <<>> /\ fsTasks \in Seq(FsTask)
    BY <1>9 DEF PanelInit
  <2>2. DOMAIN fsTasks = {} /\ DOMAIN events = {}
    BY <1>8, <2>1
  <2>3. panel.entries = disk[panel.path]
    BY <1>1, <1>2, <1>4, <1>7, <1>9
  <2>4. ListingsTrue
    BY <2>2, <2>3 DEF ListingsTrue, OneListing, Shows
  <2> QED BY <1>1, <1>4, <1>5, <1>6, <1>7, <1>8, <2>1, <2>4 DEF PanelIInv, PanelTyped
<1>10. CASE ~resets
  <2>1. PICK task : task = [kind |-> "start"]
    OBVIOUS
  <2>2. task \in FsTask /\ Unread(task)
    BY <2>1 DEF FsTask, Unread
  <2>3. fsTasks = <<task>>
    BY <1>10, <2>1 DEF PanelInit
  <2>4. fsTasks \in Seq(FsTask) /\ DOMAIN fsTasks = {1} /\ fsTasks[1] = task
    BY <2>2, <2>3
  <2>5. ListingsTrue
    BY <2>2, <2>4 DEF ListingsTrue, OneListing, Shows
  <2> QED BY <1>1, <1>4, <1>5, <1>6, <1>7, <1>8, <2>4, <2>5 DEF PanelIInv, PanelTyped
<1> QED BY <1>8, <1>9, <1>10

LEMMA PanelKeysKeep ==
  ASSUME PanelSound, PanelIInv, ChangeFilter \/ PanelKey
  PROVE  PanelIInv'
<1>1. PanelFormed(panel') /\ CursorOn(panel') /\ HeldOn(panel', held') /\ panel'.path = panel.path
        /\ panel'.entries = panel.entries
  BY ChangeFilterKeeps, PanelKeyKeeps DEF PanelIInv, PanelTyped
<1>2. UNCHANGED <<disk, fsTasks, events, unsure>>
  BY DEF ChangeFilter, PanelKey
<1>3. Shows(fsTasks, events, disk, panel) => Shows(fsTasks', events', disk', panel')
  BY <1>1, <1>2 DEF Shows
<1>4. OneListing(fsTasks) => OneListing(fsTasks')
  BY <1>2
<1>5. ListingsTrue'
  BY <1>2, <1>3, <1>4 DEF ListingsTrue, PanelIInv
<1>6. PanelTyped'
  BY <1>1, <1>2 DEF PanelIInv, PanelTyped
<1> QED BY <1>1, <1>5, <1>6 DEF PanelIInv

LEMMA PanelStays ==
  ASSUME PanelIInv, UNCHANGED <<panel, held>>, disk' \in [FolderNames -> SUBSET Names],
         fsTasks' \in Seq(FsTask), events' \in Seq(FsEvent), unsure' \in BOOLEAN, ListingsTrue'
  PROVE  PanelIInv'
<1>1. PanelFormed(panel') /\ CursorOn(panel') /\ HeldOn(panel', held')
  BY DEF PanelIInv, PanelTyped
<1> QED BY <1>1 DEF PanelIInv, PanelTyped

LEMMA CommandsKeep ==
  ASSUME PanelSound, PanelIInv, OpenRow \/ DeleteTargets \/ RenameCurrent \/ CreateDirectory
  PROVE  PanelIInv'
<1>1. PanelTyped /\ ListingsTrue /\ panel.path \in FolderNames /\ PanelFormed(panel)
  BY DEF PanelIInv, PanelTyped, PanelFormed
<1>2. CASE OpenRow
  <2>1. PICK path \in FolderNames : Relists(path)
    <3>1. TargetForOpen \subseteq FolderNames
      BY DEF TargetForOpen, FolderNames
    <3> QED BY <1>1, <1>2, <3>1 DEF OpenRow
  <2>2. UNCHANGED <<disk, panel, events, held>>
    BY <1>2 DEF OpenRow
  <2> QED BY <1>1, <2>1, <2>2, RelistsKeep, PanelStays DEF PanelTyped
<1>3. CASE \E task \in FsTask : ~Asked(task) /\ Spawns(task)
  <2>1. PICK task \in FsTask : ~Asked(task) /\ Spawns(task)
    BY <1>3
  <2>2. UNCHANGED <<disk, panel, events, held, unsure>>
    BY <2>1 DEF Spawns
  <2> QED BY <1>1, <2>1, <2>2, SpawnsKeep, PanelStays DEF PanelTyped
<1>4. CASE DeleteTargets
  <2>1. Targets \in SUBSET Names
    BY <1>1, NoSuchRow DEF Targets, PanelFormed
  <2>2. PICK task : task = [kind |-> "delete", path |-> panel.path, names |-> Targets, some |-> FALSE]
    OBVIOUS
  <2>3. task \in FsTask /\ ~Asked(task)
    BY <1>1, <2>1, <2>2 DEF FsTask, Asked
  <2>4. Spawns(task)
    BY <1>4, <2>2 DEF DeleteTargets
  <2> QED BY <1>3, <2>3, <2>4
<1>5. CASE RenameCurrent
  <2>1. PICK to \in Names : /\ RowAt(panel) \notin {None, Parent, Dir, to}
                            /\ Spawns([kind |-> "rename", path |-> panel.path, from |-> RowAt(panel), to |-> to])
    BY <1>5 DEF RenameCurrent
  <2>2. RowAt(panel) \in Names
    BY <1>1, <2>1, NoSuchRow
  <2>3. PICK task : task = [kind |-> "rename", path |-> panel.path, from |-> RowAt(panel), to |-> to]
    OBVIOUS
  <2>4. task \in FsTask /\ ~Asked(task)
    BY <1>1, <2>2, <2>3 DEF FsTask, Asked
  <2> QED BY <1>3, <2>1, <2>3, <2>4
<1>6. CASE CreateDirectory
  <2>1. PICK task : task = [kind |-> "create", path |-> "top"]
    OBVIOUS
  <2>2. task \in FsTask /\ ~Asked(task)
    BY <2>1 DEF FsTask, Asked, FolderNames
  <2>3. Spawns(task)
    BY <1>6, <2>1 DEF CreateDirectory
  <2> QED BY <1>3, <2>2, <2>3
<1> QED BY <1>2, <1>4, <1>5, <1>6

LEMMA FsTaskRunsKeep ==
  ASSUME PanelSound, PanelIInv, FsTaskRuns
  PROVE  PanelIInv'
<1>1. PanelTyped /\ ListingsTrue /\ UNCHANGED <<panel, held>>
  BY DEF PanelIInv, FsTaskRuns
<1>2. PICK i \in DOMAIN fsTasks : ListStart(i) \/ ListInto(i) \/ Delete(i) \/ Rename(i) \/ CreateDir(i)
  BY DEF FsTaskRuns
<1>3. CASE ListStart(i)
  <2>1. UNCHANGED <<disk, events>>
    BY <1>3 DEF ListStart
  <2> QED BY <1>1, <1>3, <2>1, ListStartKeeps, PanelStays DEF PanelTyped
<1>4. CASE ListInto(i)
  <2>1. UNCHANGED disk
    BY <1>4 DEF ListInto
  <2> QED BY <1>1, <1>4, <2>1, ListIntoKeeps, PanelStays DEF PanelTyped
<1>5. CASE Delete(i)
  BY <1>1, <1>5, DeleteKeeps, PanelStays
<1>6. CASE Rename(i) \/ CreateDir(i)
  BY <1>1, <1>6, RenameKeeps, PanelStays
<1> QED BY <1>2, <1>3, <1>4, <1>5, <1>6

LEMMA TailTyped ==
  ASSUME NEW S, NEW s \in Seq(S), s # <<>>
  PROVE  Tail(s) \in Seq(S) /\ Head(s) = s[1] /\ s[1] \in S
OBVIOUS

LEMMA EventsKeep ==
  ASSUME PanelSound, PanelIInv, ApplyListing \/ Relist
  PROVE  PanelIInv'
<1>1. PICK es \in Seq(FsEvent) : es = events
  BY DEF PanelIInv, PanelTyped
<1>2. /\ PanelTyped /\ PanelFormed(panel) /\ ListingsTrue /\ es # <<>> /\ events' = Tail(es)
      /\ events' \in Seq(FsEvent) /\ UNCHANGED disk
  BY <1>1, TailTyped DEF PanelIInv, PanelTyped, ApplyListing, Relist
<1>3. PICK e \in FsEvent : e = es[1] /\ e = Head(events)
  BY <1>1, <1>2, TailTyped
<1>4. CASE ApplyListing
  <2>1. /\ e.kind = "Listed" /\ panel' = Replaced(panel, e.path, e.entries) /\ held' = None
        /\ UNCHANGED <<disk, fsTasks, unsure>>
    BY <1>3, <1>4 DEF ApplyListing
  <2>2. e.path \in FolderNames /\ e.entries \in SUBSET Names
    BY <2>1 DEF FsEvent
  <2>3. PanelFormed(panel') /\ CursorOn(panel') /\ HeldOn(panel', held') /\ panel'.path = e.path
          /\ panel'.entries = e.entries
    BY <1>2, <2>1, <2>2, ReplacedOn
  <2>4. Shows(fsTasks, es, disk, panel) => Shows(fsTasks', events', disk', panel')
    <3>1. PICK after, q : after = Tail(es) /\ q = panel'
      OBVIOUS
    <3>2. q.path = es[1].path /\ q.entries = es[1].entries /\ es[1].kind = "Listed"
      BY <1>3, <2>1, <2>3, <3>1
    <3>3. ASSUME Shows(fsTasks, es, disk, panel) PROVE Shows(fsTasks, after, disk, q)
      BY <1>2, <3>1, <3>2, <3>3, AppliedShows
    <3>4. UNCHANGED <<fsTasks, disk>> /\ events' = after
      BY <1>2, <2>1, <3>1
    <3> QED BY <3>1, <3>3, <3>4
  <2>5. ListingsTrue'
    BY <1>1, <1>2, <2>1, <2>4 DEF ListingsTrue
  <2> QED BY <1>2, <2>1, <2>3, <2>5 DEF PanelIInv, PanelTyped
<1>5. CASE Relist
  <2>1. Relists(panel.path) /\ UNCHANGED <<disk, panel, held>> /\ panel.path \in FolderNames
    BY <1>2, <1>5 DEF Relist, PanelFormed
  <2>2. fsTasks' \in Seq(FsTask) /\ unsure' \in BOOLEAN /\ ListingsTrue'
    BY <1>2, <2>1, RelistsKeep
  <2> QED BY <1>2, <2>1, <2>2, PanelStays DEF PanelTyped
<1> QED BY <1>4, <1>5

LEMMA PanelNextKeeps ==
  ASSUME PanelSound, PanelIInv, [PanelNext]_panelVars
  PROVE  PanelIInv'
<1>1. CASE UNCHANGED panelVars
  <2>1. UNCHANGED <<disk, panel, fsTasks, events, held, unsure>>
    BY <1>1 DEF panelVars
  <2>2. Shows(fsTasks', events', disk', panel') = Shows(fsTasks, events, disk, panel)
          /\ OneListing(fsTasks') = OneListing(fsTasks)
    BY <2>1
  <2>3. ListingsTrue'
    BY <2>1, <2>2 DEF ListingsTrue, PanelIInv
  <2> QED BY <2>1, <2>3, PanelStays DEF PanelIInv, PanelTyped
<1>2. CASE PanelNext
  BY <1>2, PanelKeysKeep, CommandsKeep, FsTaskRunsKeep, EventsKeep DEF PanelNext
<1> QED BY <1>1, <1>2

LEMMA PanelInvariantTrue ==
  ASSUME PanelSound, PanelIInv
  PROVE  PanelTrue
<1>1. PanelFormed(panel) /\ CursorOn(panel) /\ HeldOn(panel, held) /\ ListingsTrue
  BY DEF PanelIInv, PanelTyped
<1>2. PICK rows : rows = Rows(panel)
  OBVIOUS
<1>3. panel.cursor \in DOMAIN rows \/ (rows = <<>> /\ panel.cursor = 1)
  BY <1>1, <1>2 DEF CursorOn
<1>4. Targets \subseteq {name \in panel.entries : Visible(panel, name)}
  <2>1. /\ ToSet(rows) \ {Parent} \subseteq VisibleNames(panel)
        /\ RowAt(panel) = None \/ RowAt(panel) \in ToSet(rows)
    BY <1>1, <1>2, NoSuchRow
  <2>2. Parent \notin panel.selected
    BY <1>1 DEF PanelFormed, PanelSound
  <2>3. Targets = panel.selected \cap ToSet(rows) \/ Targets = {RowAt(panel)} \ {None, Parent}
    BY <1>2 DEF Targets
  <2> QED BY <2>1, <2>2, <2>3 DEF VisibleNames
<1>5. held \in ToSet(rows) /\ (held # Parent \/ panel.filter = NoText) => RowAt(panel) = held
  BY <1>1, <1>2 DEF HeldOn
<1>6. ASSUME fsTasks = <<>>, events = <<>>, ~unsure PROVE panel.entries = disk[panel.path]
  <2>1. DOMAIN fsTasks = {} /\ DOMAIN events = {}
    BY <1>6
  <2>2. Shows(fsTasks, events, disk, panel)
    BY <1>1, <1>6 DEF ListingsTrue
  <2> QED BY <2>1, <2>2 DEF Shows
<1> QED BY <1>2, <1>3, <1>4, <1>5, <1>6 DEF PanelTrue

PanelSpec == PanelInit /\ [][PanelNext]_panelVars

(* recompute_rows, apply_filter, targets and the events of handlers/fs,    *)
(* for any names, sort orders and filters, any keys and any number of      *)
(* tasks: the cursor is on a row, an operation takes no row that is not    *)
(* shown, the cursor comes back to its row when only the filter changed,   *)
(* and at rest the panel shows its folder as it is, unless two listings    *)
(* ran at once, or a listing or a deletion broke off.                      *)
THEOREM PanelStaysTrue ==
  ASSUME PanelSound
  PROVE  PanelSpec => []PanelTrue
<1>1. PanelInit => PanelIInv
  BY PanelStarts
<1>2. PanelIInv /\ [PanelNext]_panelVars => PanelIInv'
  BY PanelNextKeeps
<1>3. PanelIInv => PanelTrue
  BY PanelInvariantTrue
<1> QED BY <1>1, <1>2, <1>3, PTL DEF PanelSpec
================================================================================
