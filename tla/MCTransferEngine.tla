---------------------------- MODULE MCTransferEngine ----------------------------
(* Instances of the transfer engine for TLC *)
EXTENDS TransferEngine

File(p) == [path |-> p, total |-> 0, resume |-> FALSE]

NoCap == [s \in {} |-> 1]
OneChannel == [s \in {0} |-> 1]

(* the partial file of a path *)
MCPartOf == [p \in {"p", "q"} |-> IF p = "p" THEN "p.part" ELSE "q.part"]

OneFile == {[files |-> <<File("p")>>, asks |-> FALSE]}
TwoFiles == {[files |-> <<File("p"), File("q")>>, asks |-> FALSE]}
TwoFilesOrAsk == TwoFiles \cup {[files |-> <<File("p")>>, asks |-> TRUE]}
AskOrNothing == {[files |-> <<File("p")>>, asks |-> TRUE], [files |-> <<>>, asks |-> FALSE]}

NoSyncs == {}
TwoWays == {[uploads |-> <<>>, downloads |-> <<>>],
            [uploads |-> <<File("p")>>, downloads |-> <<File("q")>>]}
=================================================================================
