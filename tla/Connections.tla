----------------------------- MODULE Connections -----------------------------
(***************************************************************************)
(* Connecting: the engine's handlers, its prompter, and how SSH, FTP,      *)
(* WebDAV and S3 come from a saved profile to a session: whose key or      *)
(* certificate they trust and which password they end with.  Tasks run in  *)
(* parallel, and a server may change its key or its password meanwhile.    *)
(* A saved secret is in the cache once it was looked up.                   *)
(***************************************************************************)
EXTENDS Naturals, Sequences, FiniteSets, SequencesExt, Maps

CONSTANTS
    Setups,         \* [profile -> [protocol, host, secure, agent, open]] that may meet
    Hosts, Keys,
    Words,          \* what may be typed for a password; 0 is none
    MaxConnects,    \* bound: connect tasks
    MaxChanges      \* bound: changes of a server

VARIABLES
    setup,
    servers,        \* [host -> [key, word]]: what each presents and accepts
    known,          \* [file -> host -> keys]: known_hosts, the known certificates,
                    \* and the temporary file these are written to, if there is one
    cache,          \* Secrets' cache, [profile -> word]
    connecting,
    tasks,          \* [id -> connect task]
    internal,       \* what is on its way to the engine's loop
    sessions,       \* [id -> [of, key]]
    nextId,         \* of a task; a session is given that of its task
    wedged,         \* profiles whose connect task panicked
    agreed,         \* <<store, host, key>> known at the start, or confirmed
    accepted,       \* <<profile, word>> known at the start, or accepted
    changes

connectVars == <<setup, servers, known, cache, connecting, tasks, internal,
                 sessions, nextId, wedged, agreed, accepted, changes>>

Profiles == DOMAIN setup
Store(p) == IF setup[p].protocol = "ssh" THEN "hosts" ELSE "certificates"
Server(p) == servers[setup[p].host]
Pinned(p) == known[Store(p)][setup[p].host]
Right(p, word) == word # 0 /\ word = Server(p).word

(***************************************************************************)
(* What the core decides from what a server presents                       *)
(***************************************************************************)
(* mutant: what a server presents is not compared with what is known of it *)
MeetAnyKey(p) == IF ~setup[p].secure \/ Pinned(p) # {} THEN "Trusted" ELSE "Unknown"

(* verify_server_cert (the system's roots know none of these), verify *)
Meet(p) ==
    IF ~setup[p].secure \/ Server(p).key \in Pinned(p) THEN "Trusted"
    ELSE IF Pinned(p) = {} THEN "Unknown" ELSE "Changed"

(***************************************************************************)
(* Steps of the connect task.  Each ends its connect, or goes on.          *)
(***************************************************************************)
Task(p) == [of |-> p, at |-> "begin", secret |-> 0, typed |-> 0, key |-> 0,
            loaded |-> <<>>, moved |-> FALSE]

GoesOn(id, t) == tasks' = [tasks EXCEPT ![id] = t] /\ UNCHANGED internal
Ends(id, ok) ==
    /\ tasks' = Without(tasks, {id})
    /\ internal' = Append(internal, [id |-> id, of |-> tasks[id].of, ok |-> ok,
                                     typed |-> tasks[id].typed, key |-> tasks[id].key])

Asks(id) == GoesOn(id, [tasks[id] EXCEPT !.at = "password"])
Accepts(p, word) == accepted' = IF Right(p, word) THEN accepted \cup {<<p, word>>} ELSE accepted

(* secured_target; S3 asks for a secret it does not have before it connects *)
Begin(id) ==
    LET t == tasks[id]
    IN  /\ t.at = "begin"
        /\ GoesOn(id, [t EXCEPT
             !.secret = cache[t.of],
             !.at = IF setup[t.of].protocol = "s3" /\ cache[t.of] = 0 THEN "password" ELSE "contact"])
        /\ UNCHANGED <<known, accepted>>

(* a new connection: SSH connects, FTP opens, WebDAV and S3 probe *)
OpensAnew(id, status) ==
    tasks[id].at = "contact" /\ Meet(tasks[id].of) = status /\ UNCHANGED <<known, accepted>>

Met(id, next) == GoesOn(id, [tasks[id] EXCEPT !.key = Server(tasks[id].of).key, !.at = next])

Opened(id) == OpensAnew(id, "Trusted") /\ Met(id, "login")

(* probe_trusted's client keeps connections: its next probe may use one *)
ProbesAgain(id) ==
    /\ tasks[id].at = "contact" /\ tasks[id].key # 0
    /\ GoesOn(id, [tasks[id] EXCEPT !.at = "login"])
    /\ UNCHANGED <<known, accepted>>

(* open_trusted, probe_trusted: somebody is asked, and it starts over; only *)
(* a WebDAV probe with a typed password asks nothing any more               *)
AsksToTrust(id) ==
    /\ OpensAnew(id, "Unknown")
    /\ IF setup[tasks[id].of].protocol = "webdav" /\ tasks[id].typed # 0 THEN Ends(id, FALSE)
       ELSE Met(id, "trust")

Refuses(id) == OpensAnew(id, "Changed") /\ Ends(id, FALSE)

Contact(id) == Opened(id) \/ ProbesAgain(id) \/ AsksToTrust(id) \/ Refuses(id)

(* authenticate_non_interactive: a key, then the saved password *)
LoginSsh(id) ==
    LET t == tasks[id]
    IN  /\ IF setup[t.of].agent \/ Right(t.of, t.secret) THEN Ends(id, TRUE) ELSE Asks(id)
        /\ Accepts(t.of, t.secret)

(* authenticate: a refusal that calls for encryption, or of an anonymous *)
(* user, is final                                                        *)
LoginFtp(id) ==
    LET t == tasks[id]
    IN  /\ IF Right(t.of, t.secret) THEN Ends(id, TRUE)
           ELSE Asks(id) \/ (t.secret # 0 /\ Ends(id, FALSE))
        /\ Accepts(t.of, t.secret)

(* a saved password is sent once the challenge is known; the server may ask *)
(* for a scheme that is not supported                                       *)
LoginWebDav(id) ==
    LET t == tasks[id]
        word == IF t.typed # 0 THEN t.typed ELSE t.secret
    IN  /\ IF setup[t.of].open \/ Right(t.of, word) THEN Ends(id, TRUE)
           ELSE IF t.typed # 0 THEN Ends(id, FALSE)
           ELSE Asks(id) \/ Ends(id, FALSE)
        /\ Accepts(t.of, word)

(* one correction of the region; refused, the secret is asked for once *)
LoginS3(id) ==
    LET t == tasks[id]
        word == IF t.typed # 0 THEN t.typed ELSE t.secret
    IN  \/ /\ ~t.moved
           /\ GoesOn(id, [t EXCEPT !.moved = TRUE, !.at = "contact"])
           /\ UNCHANGED accepted
        \/ /\ IF Right(t.of, word) THEN Ends(id, TRUE)
              ELSE IF t.typed # 0 THEN Ends(id, FALSE) ELSE Asks(id)
           /\ Accepts(t.of, word)

Login(id) ==
    LET t == tasks[id]
    IN  /\ t.at = "login"
        /\ CASE setup[t.of].protocol = "ssh" -> LoginSsh(id)
             [] setup[t.of].protocol = "ftp" -> LoginFtp(id)
             [] setup[t.of].protocol = "webdav" -> LoginWebDav(id)
             [] setup[t.of].protocol = "s3" -> LoginS3(id)
        /\ UNCHANGED known

(* ask_to_trust of SSH: a key that cannot be saved is trusted this once *)
TrustedHost(id) ==
    LET t == tasks[id]
    IN  /\ Store(t.of) = "hosts"
        /\ known' \in {known, [known EXCEPT !["hosts"][setup[t.of].host] = @ \cup {t.key}]}
        /\ GoesOn(id, [t EXCEPT !.at = "login"])

(* ask_to_trust of TLS: remember reads the file here *)
TrustedCertificate(id) ==
    LET t == tasks[id]
    IN  /\ Store(t.of) = "certificates"
        /\ GoesOn(id, [t EXCEPT !.at = "remember", !.loaded = known["certificates"]])
        /\ UNCHANGED known

Trusted(id) ==
    LET t == tasks[id]
    IN  /\ t.at = "trust"
        /\ agreed' = agreed \cup {<<Store(t.of), setup[t.of].host, t.key>>}
        /\ TrustedHost(id) \/ TrustedCertificate(id)
        /\ UNCHANGED accepted

(* remember writes all it has read and the new certificate to a file that  *)
(* has one name for all; that it is written in parts is left out           *)
Remember(id) ==
    LET t == tasks[id]
    IN  /\ t.at = "remember"
        /\ known' = [known EXCEPT !["temporary"] = [t.loaded EXCEPT ![setup[t.of].host] = {t.key}]]
        /\ GoesOn(id, [t EXCEPT !.at = "rename", !.loaded = <<>>])
        /\ UNCHANGED accepted

(* and renames what is there by then, its own or another's *)
Renames(id) ==
    LET t == tasks[id]
    IN  /\ t.at = "rename"
        /\ \/ /\ known["temporary"] # <<>>
              /\ known' = [known EXCEPT !["certificates"] = known["temporary"], !["temporary"] = <<>>]
              /\ GoesOn(id, [t EXCEPT !.at = "contact", !.key = 0])
           \/ known["temporary"] = <<>> /\ Ends(id, FALSE) /\ UNCHANGED known
        /\ UNCHANGED accepted

(* a password is typed: SSH and FTP try it on the connection they have *)
Typed(id, word) ==
    LET t == tasks[id]
    IN  /\ t.at = "password"
        /\ GoesOn(id, [t EXCEPT
             !.typed = word, !.at = IF setup[t.of].protocol \in {"webdav", "s3"} THEN "contact" ELSE "try"])
        /\ UNCHANGED <<known, accepted>>

Try(id) ==
    LET t == tasks[id]
    IN  /\ t.at = "try"
        /\ Ends(id, Right(t.of, t.typed))
        /\ Accepts(t.of, t.typed)
        /\ UNCHANGED known

(* a question is declined, the network or the disk fails *)
GivesUp(id) == tasks[id].at # "begin" /\ Ends(id, FALSE) /\ UNCHANGED <<known, accepted>>

Panics(id) ==
    /\ tasks' = Without(tasks, {id})
    /\ wedged' = wedged \cup {tasks[id].of}
    /\ UNCHANGED <<setup, servers, known, cache, connecting, internal, sessions, nextId, agreed, accepted, changes>>

TaskRuns ==
    /\ \E id \in DOMAIN tasks :
         \/ Trusted(id)
         \/ /\ \/ Begin(id) \/ Contact(id) \/ Login(id) \/ Remember(id) \/ Renames(id) \/ Try(id) \/ GivesUp(id)
               \/ \E word \in Words : Typed(id, word)
            /\ UNCHANGED agreed
    /\ UNCHANGED <<setup, servers, cache, connecting, sessions, nextId, wedged, changes>>

(***************************************************************************)
(* The engine                                                              *)
(***************************************************************************)
Named(p) == {id \in DOMAIN sessions : sessions[id].of = p}

(* mutant: a profile is connected again while it is being connected *)
ConnectableTwice(p) == Named(p) = {}

(* a profile that is connected is told of its session; one that is being   *)
(* connected is left alone                                                 *)
Connectable(p) == Named(p) = {} /\ p \notin connecting

Connect(p) ==
    /\ Connectable(p)
    /\ nextId < MaxConnects
    /\ connecting' = connecting \cup {p}
    /\ tasks' = With(tasks, nextId, Task(p))
    /\ nextId' = nextId + 1
    /\ UNCHANGED <<setup, servers, known, cache, internal, sessions, wedged, agreed, accepted, changes>>

(* finish_connect: a typed password is kept, and saved if the user wishes *)
FinishConnect ==
    /\ internal # <<>> /\ Head(internal).ok
    /\ LET done == Head(internal)
       IN  /\ connecting' = connecting \ {done.of}
           /\ cache' = IF done.typed # 0 THEN [cache EXCEPT ![done.of] = done.typed] ELSE cache
           /\ sessions' = With(sessions, done.id, [of |-> done.of, key |-> done.key])
    /\ internal' = Tail(internal)
    /\ UNCHANGED <<setup, servers, known, tasks, nextId, wedged, agreed, accepted, changes>>

ConnectFailed ==
    /\ internal # <<>> /\ ~Head(internal).ok
    /\ connecting' = connecting \ {Head(internal).of}
    /\ internal' = Tail(internal)
    /\ UNCHANGED <<setup, servers, known, cache, tasks, sessions, nextId, wedged, agreed, accepted, changes>>

Disconnect(id) ==
    /\ sessions' = Without(sessions, {id})
    /\ UNCHANGED <<setup, servers, known, cache, connecting, tasks, internal, nextId, wedged, agreed, accepted, changes>>

(* a server is set up anew, or its password is changed *)
ServerChanges ==
    /\ changes < MaxChanges /\ changes' = changes + 1
    /\ \E host \in Hosts, key \in Keys, word \in Words :
         /\ servers[host] # [key |-> key, word |-> word]
         /\ servers' = [servers EXCEPT ![host] = [key |-> key, word |-> word]]
    /\ UNCHANGED <<setup, known, cache, connecting, tasks, internal, sessions, nextId, wedged, agreed, accepted>>

Stores == {"hosts", "certificates"}
KnownWith(pins) ==
    [file \in Stores \cup {"temporary"} |-> IF file \in Stores THEN [host \in Hosts |-> pins] ELSE <<>>]

ConnectInit ==
    /\ setup \in Setups
    /\ \E saved \in {0} \cup Words :
         /\ servers = [host \in Hosts |-> [key |-> CHOOSE k \in Keys : TRUE, word |-> CHOOSE w \in Words : TRUE]]
         /\ cache = [p \in DOMAIN setup |-> saved]
         /\ known \in {KnownWith(pins) : pins \in {{}, {servers[host].key : host \in Hosts}}}
    /\ connecting = {} /\ tasks = Nothing /\ internal = <<>> /\ sessions = Nothing
    /\ nextId = 0 /\ wedged = {} /\ changes = 0
    /\ agreed = {a \in Stores \X Hosts \X Keys : a[3] \in known[a[1]][a[2]]}
    /\ accepted = {<<p, cache[p]>> : p \in DOMAIN setup}

ConnectNext ==
    \/ \E p \in Profiles : Connect(p)
    \/ TaskRuns
    \/ \E id \in DOMAIN tasks : Panics(id)
    \/ FinishConnect \/ ConnectFailed
    \/ \E id \in DOMAIN sessions : Disconnect(id)
    \/ ServerChanges

ConnectSpec == ConnectInit /\ [][ConnectNext]_connectVars

(***************************************************************************)
(* Properties                                                              *)
(***************************************************************************)
(* connect looks for a session of the name, then in `connecting`: however  *)
(* connects, answers, failures and disconnects interleave, a profile has   *)
(* one session or one attempt at most, and is in `connecting` while its    *)
(* attempt or the result of it is under way - or for good, when the        *)
(* attempt panicked, of which the engine only tells.                       *)
OneSessionEach ==
    /\ \A i, j \in DOMAIN sessions : sessions[i].of = sessions[j].of => i = j
    /\ \A p \in Profiles :
         LET underway == {id \in DOMAIN tasks : tasks[id].of = p}
             told == {i \in DOMAIN internal : internal[i].of = p}
         IN  /\ Cardinality(underway) + Cardinality(told) =
                 IF p \in connecting \ wedged THEN 1 ELSE 0
             /\ wedged \subseteq connecting
             /\ p \in connecting => Named(p) = {}

Agreed(p, key) == setup[p].secure => <<Store(p), setup[p].host, key>> \in agreed

(* Whatever changes and whoever else connects, in the loops of asking and  *)
(* connecting again: a password is sent, and a session lives, over a key   *)
(* or certificate the user confirmed or that was known; and a password     *)
(* that is kept was accepted by the server.                                *)
OnlyAccepted ==
    /\ \A id \in DOMAIN tasks : tasks[id].at \in {"login", "try"} => Agreed(tasks[id].of, tasks[id].key)
    /\ \A id \in DOMAIN sessions : Agreed(sessions[id].of, sessions[id].key)
    /\ \A p \in Profiles : cache[p] # 0 => <<p, cache[p]>> \in accepted
=============================================================================
