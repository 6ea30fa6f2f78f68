----------------------------- MODULE KeyringWaiting -----------------------------
(***************************************************************************)
(* The waiting reports of secrets/mod.rs: a call of the keyring that takes *)
(* long counts itself in, and out when it is answered or given up.  Who    *)
(* takes the counter from zero says that the keyring waits, who takes it   *)
(* back says that it does not.  Calls run on several threads: counting and *)
(* saying are two steps, and what is said last is what the user sees.      *)
(***************************************************************************)
EXTENDS Naturals, FiniteSets

CONSTANT Calls

ASSUME CallsAssumption == IsFiniteSet(Calls)

VARIABLES
    reach,          \* how far each call is
    waitingCalls,   \* Inner::waiting_calls
    toldWaiting     \* the last Event::KeyringWaiting

waitingVars == <<reach, waitingCalls, toldWaiting>>

Reaches == {"quick", "announcing", "waiting", "clearing"}

WaitingTypeOK ==
    /\ reach \in [Calls -> Reaches]
    /\ waitingCalls \in Nat
    /\ toldWaiting \in BOOLEAN

WaitingInit ==
    /\ reach = [c \in Calls |-> "quick"]
    /\ waitingCalls = 0
    /\ toldWaiting = FALSE

(* start_waiting: fetch_add, and a report to make if the counter was zero *)
StartWaiting(c) ==
    /\ reach[c] = "quick"
    /\ waitingCalls' = waitingCalls + 1
    /\ reach' = [reach EXCEPT ![c] = IF waitingCalls = 0 THEN "announcing" ELSE "waiting"]
    /\ UNCHANGED toldWaiting

(* mutant: stop_waiting compares with the value after the subtraction of another call *)
StopWaitingEarly(c) ==
    /\ reach[c] = "waiting"
    /\ waitingCalls' = waitingCalls - 1
    /\ reach' = [reach EXCEPT ![c] = IF waitingCalls = 2 THEN "clearing" ELSE "quick"]
    /\ UNCHANGED toldWaiting

(* stop_waiting *)
StopWaiting(c) ==
    /\ reach[c] = "waiting"
    /\ waitingCalls' = waitingCalls - 1
    /\ reach' = [reach EXCEPT ![c] = IF waitingCalls = 1 THEN "clearing" ELSE "quick"]
    /\ UNCHANGED toldWaiting

(* report_waiting *)
ReportWaiting(c) ==
    /\ \/ reach[c] = "announcing" /\ toldWaiting' = TRUE /\ reach' = [reach EXCEPT ![c] = "waiting"]
       \/ reach[c] = "clearing" /\ toldWaiting' = FALSE /\ reach' = [reach EXCEPT ![c] = "quick"]
    /\ UNCHANGED waitingCalls

WaitingNext == \E c \in Calls : StartWaiting(c) \/ StopWaiting(c) \/ ReportWaiting(c)

WaitingSpec == WaitingInit /\ [][WaitingNext]_waitingVars

(* report_waiting: however the reports of the threads come to be mixed,    *)
(* when no call waits any more the user does not go on being told that the *)
(* keyring is waited for.                                                  *)
ToldAtRest == (\A c \in Calls : reach[c] = "quick") => ~toldWaiting
=================================================================================
