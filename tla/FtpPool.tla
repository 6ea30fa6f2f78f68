-------------------------------- MODULE FtpPool --------------------------------
(***************************************************************************)
(* The connections of an FTP session: protocols/ftp/src/pool/mod.rs, with  *)
(* the streams of streams/mod.rs and the parts of fs/mod.rs that open them.*)
(*                                                                         *)
(* FTP answers the commands of a connection in their order and says        *)
(* nowhere which one it answers.  A command whose answer was not waited    *)
(* for leaves the connection out of step: the next command takes the late  *)
(* answer for its own.  Commands share one main connection under a lock;   *)
(* transfers borrow connections of their own.                              *)
(*                                                                         *)
(* Of a command only its answer matters here: it comes, it comes too late  *)
(* (or a listing's data stop before the answer that ends them), it cannot  *)
(* be parsed, it refuses, or the connection is closed.  A connection that  *)
(* is gone gives its number to a later one.                                *)
(***************************************************************************)
EXTENDS Naturals, Sequences, FiniteSets, FiniteSetsExt, Maps

CONSTANTS
    Commands,       \* what is called: the first is PWD, the second FEAT (FtpFs::new)
    MaxTrouble      \* bound: late, unparseable or refused answers, closed failed openings

VARIABLES
    owed,           \* open connections: the commands whose answers are still to be read
    main,           \* Pool::main
    outOfStep,      \* Pool::main_out_of_step
    idle,           \* Pool::idle
    turn,           \* who holds the lock of main: {} or one command
    command,        \* the commands under way
    stage,          \* FtpFs::new: "home", "features", then "ready" or "failed"
    trouble,        \* how much has gone wrong
    took,           \* observer: of what main connections a command took the answer of another
    unmarked        \* observer: main is a connection `attempt` left out of step without a mark

ftpVars == <<owed, main, outOfStep, idle, turn, command, stage, trouble, took, unmarked>>

FtpInit ==
    /\ owed = [k \in {1} |-> <<>>] /\ main = 1
    /\ outOfStep = FALSE /\ idle = <<>> /\ turn = {}
    /\ command = Nothing /\ stage = "home"
    /\ trouble = 0 /\ took = {} /\ unmarked = FALSE

Goes(c, place) == command' = [command EXCEPT ![c].at = place]
At(c, place) == c \in DOMAIN command /\ command[c].at = place

Trouble == trouble < MaxTrouble /\ trouble' = trouble + 1
Calm == UNCHANGED trouble

(***************************************************************************)
(* One exchange of a command on a connection.                              *)
(***************************************************************************)
Answered(c, k) ==
    /\ k \in DOMAIN owed
    /\ LET answers == Append(owed[k], c)
       IN  /\ took' = IF Head(answers) = c THEN took
                      ELSE took \cup {IF k = main /\ unmarked THEN "unmarked" ELSE "marked"}
           /\ owed' = [owed EXCEPT ![k] = Tail(answers)]

(* `within` gives up, or the data of a listing stop *)
Late(c, k) ==
    /\ k \in DOMAIN owed
    /\ owed' = [owed EXCEPT ![k] = Append(@, c)]
    /\ UNCHANGED took

Closed(k) == owed' = Without(owed, {k}) /\ UNCHANGED took

(* open_logged_in *)
Fresh == Min(1..(2 * Cardinality(Commands) + 2) \ (DOMAIN owed \cup {main}))
Open(kept) == owed' = With(kept, Fresh, <<>>)

(***************************************************************************)
(* Pool::attempt, for the commands of the main connection                  *)
(***************************************************************************)
(* `?` or the result: the lock is given back *)
CommandEnds(c, succeeded) ==
    /\ command' = Without(command, {c})
    /\ turn' = turn \ {c}
    /\ stage' = IF stage = "home" THEN (IF succeeded THEN "features" ELSE "failed")
                ELSE IF stage = "features" THEN "ready" ELSE stage

Attempt(c) ==
    /\ turn = {} /\ stage \in {"home", "ready"}
    /\ c \notin DOMAIN command
    /\ turn' = {c}
    /\ command' = With(command, c, [at |-> "locked", on |-> 0])
    /\ UNCHANGED <<owed, main, outOfStep, idle, stage, trouble, took, unmarked>>

(* a main connection that is out of step is replaced first *)
ReplaceMain(c) ==
    /\ At(c, "locked") /\ outOfStep
    /\ \/ /\ Open(Without(owed, {main})) /\ main' = Fresh
          /\ outOfStep' = FALSE /\ unmarked' = FALSE
          /\ Calm /\ UNCHANGED <<turn, command, stage>>
       \/ Trouble /\ CommandEnds(c, FALSE) /\ UNCHANGED <<owed, main, outOfStep, unmarked>>
    /\ UNCHANGED <<idle, took>>

FirstTry(c) ==
    /\ At(c, "locked") /\ ~outOfStep
    /\ \/ Answered(c, main) /\ Calm /\ CommandEnds(c, TRUE)
       \/ Answered(c, main) /\ Trouble /\ Goes(c, "unparseable") /\ UNCHANGED <<turn, stage>>
       \/ Late(c, main) /\ Trouble /\ Goes(c, "replay") /\ UNCHANGED <<turn, stage>>
       \/ Closed(main) /\ Trouble /\ Goes(c, "replay") /\ UNCHANGED <<turn, stage>>
    /\ UNCHANGED <<main, outOfStep, idle, unmarked>>

(* an answer that cannot be parsed: NOOP tells whether the connection lives *)
Noop(c) ==
    /\ At(c, "unparseable")
    /\ \/ Answered(c, main) /\ Calm /\ CommandEnds(c, FALSE)
       \/ Late(c, main) /\ Trouble /\ Goes(c, "replay") /\ UNCHANGED <<turn, stage>>
       \/ Closed(main) /\ Trouble /\ Goes(c, "replay") /\ UNCHANGED <<turn, stage>>
    /\ UNCHANGED <<main, outOfStep, idle, unmarked>>

(* the connection is lost: a new one, if it can be had *)
Reopen(c) ==
    /\ At(c, "replay")
    /\ \/ /\ Open(Without(owed, {main})) /\ main' = Fresh
          /\ Goes(c, "again") /\ Calm /\ unmarked' = FALSE
          /\ UNCHANGED <<turn, stage>>
       \/ /\ Trouble /\ CommandEnds(c, FALSE)
          /\ unmarked' = (unmarked \/ main \in DOMAIN owed)
          /\ UNCHANGED <<owed, main>>
    /\ UNCHANGED <<outOfStep, idle, took>>

(* and the command again, whatever comes of it *)
SecondTry(c) ==
    /\ At(c, "again")
    /\ \/ Answered(c, main) /\ Calm /\ CommandEnds(c, TRUE) /\ UNCHANGED unmarked
       \/ Late(c, main) /\ Trouble /\ CommandEnds(c, FALSE) /\ unmarked' = TRUE
       \/ Closed(main) /\ Trouble /\ CommandEnds(c, FALSE) /\ UNCHANGED unmarked
    /\ UNCHANGED <<main, outOfStep, idle>>

(* mutant: ask_once only says that it got no answer *)
AskOnceUnmarked(c) ==
    /\ turn = {} /\ stage = "features"
    /\ \/ Answered(c, main) /\ Calm
       \/ Late(c, main) /\ Trouble
       \/ Closed(main) /\ Trouble
    /\ CommandEnds(c, TRUE)
    /\ UNCHANGED <<main, outOfStep, idle, unmarked>>

(* ask_once, for FEAT: no second try, but a mark *)
AskOnce(c) ==
    /\ turn = {} /\ stage = "features"
    /\ \/ Answered(c, main) /\ Calm /\ UNCHANGED outOfStep
       \/ Answered(c, main) /\ Trouble /\ outOfStep' = TRUE      \* unparseable
       \/ Late(c, main) /\ Trouble /\ outOfStep' = TRUE
       \/ Closed(main) /\ Trouble /\ outOfStep' = TRUE
    /\ CommandEnds(c, TRUE)
    /\ UNCHANGED <<main, idle, unmarked>>

(***************************************************************************)
(* Transfers: borrow, open_read, open_write, the streams, give_back        *)
(***************************************************************************)
Leaves(c) == command' = Without(command, {c})

(* borrow: an idle connection that answers NOOP, or a new one *)
Borrow(c) ==
    /\ stage = "ready" /\ c \notin DOMAIN command
    /\ \/ /\ idle # <<>>
          /\ LET k == idle[Len(idle)]
             IN  /\ idle' = SubSeq(idle, 1, Len(idle) - 1)
                 /\ \/ Answered(c, k) /\ Calm /\ command' = With(command, c, [at |-> "borrowed", on |-> k])
                    \/ Closed(k) /\ Trouble /\ UNCHANGED command
       \/ /\ idle = <<>>
          /\ Open(owed) /\ Calm
          /\ command' = With(command, c, [at |-> "borrowed", on |-> Fresh])
          /\ UNCHANGED <<idle, took>>
    /\ UNCHANGED <<main, outOfStep, turn, stage, unmarked>>

(* REST, STOR, APPE or RETR; what is refused is tried another way, or the  *)
(* connection is dropped with the error                                    *)
OpenStream(c) ==
    /\ At(c, "borrowed")
    /\ LET k == command[c].on
       IN  \/ Answered(c, k) /\ Calm /\ Goes(c, "streaming")
           \/ Answered(c, k) /\ Trouble /\ UNCHANGED command
           \/ Closed(k) /\ Trouble /\ Leaves(c)
    /\ UNCHANGED <<main, outOfStep, idle, turn, stage, unmarked>>

(* mutant: a stream that is dropped gives its connection back *)
StreamEndsKept(c) ==
    /\ At(c, "streaming")
    /\ LET k == command[c].on
       IN  /\ Late(c, k) /\ Calm
           /\ idle' = Append(idle, k)
    /\ Leaves(c)
    /\ UNCHANGED <<main, outOfStep, turn, stage, unmarked>>

(* poll_finish waits for the answer that ends the transfer and gives the   *)
(* connection back; a stream that fails, or is dropped before, takes its   *)
(* connection with it                                                      *)
StreamEnds(c) ==
    /\ At(c, "streaming")
    /\ LET k == command[c].on
       IN  \/ Answered(c, k) /\ Calm /\ idle' = Append(idle, k)
           \/ Closed(k) /\ Calm /\ UNCHANGED idle
    /\ Leaves(c)
    /\ UNCHANGED <<main, outOfStep, turn, stage, unmarked>>

FtpNext ==
    \E c \in Commands :
      \/ Attempt(c) \/ ReplaceMain(c) \/ FirstTry(c) \/ Noop(c) \/ Reopen(c) \/ SecondTry(c)
      \/ AskOnce(c)
      \/ Borrow(c) \/ OpenStream(c) \/ StreamEnds(c)

FtpSpec == FtpInit /\ [][FtpNext]_ftpVars

(***************************************************************************)
(* Properties                                                              *)
(***************************************************************************)
(* attempt, ask_once and the streams: no command takes the answer of       *)
(* another, and no idle connection has one on its way, but for the two     *)
(* ways out of `attempt` that leave main out of step unmarked.             *)
InStep ==
    /\ "marked" \notin took
    /\ \A i \in DOMAIN idle : idle[i] \in DOMAIN owed => owed[idle[i]] = <<>>

(* protocols/ftp/src/pool/tests.rs:27, a_timeout_means_the_connection_is_  *)
(* gone, and tests/review_fixes.rs:279, a_late_feat_reply_never_answers_a_ *)
(* later_command, for every command.                                       *)
LateAnswersNobody == took = {}
=================================================================================
