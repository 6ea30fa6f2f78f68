------------------------------- MODULE MCKeyring -------------------------------
(* The jobs of the keyring, and the reports of its calls: two models that   *)
(* share no state; a behaviour is one of either.                            *)
EXTENDS KeyringJobs, KeyringWaiting, TLC

VARIABLE part

Init ==
    /\ KeyringInit /\ WaitingInit
    /\ \/ part = "jobs"
       \/ part = "waiting" /\ unhappy = CHOOSE u \in Unhappy : TRUE

Next ==
    \/ part = "jobs" /\ KeyringNext /\ UNCHANGED <<part, waitingVars>>
    \/ part = "waiting" /\ WaitingNext /\ UNCHANGED <<part, keyringVars>>

Spec == Init /\ [][Next]_<<part, keyringVars, waitingVars>>

Names == Permutations(Profiles) \cup Permutations(Aliases)
=================================================================================
