---------------------------- MODULE MCTransferQueue ----------------------------
(* Instances of the transfer queue for TLC *)
EXTENDS StartableWalk, TLC

CONSTANTS s1, s2

MCSessions == {s1, s2}

Copy(p, n) == [path |-> p, total |-> n, resume |-> FALSE]

(* uploads of a byte: a file, and two files at once *)
RowInputs == {<<s2, "Upload", <<Copy("p", 1)>>>>, <<s2, "Upload", <<Copy("p", 1), Copy("q", 1)>>>>}

(* an upload and a download in one session, a download to the same local path in another *)
SlotInputs ==
    {<<s, d, <<Copy("p", 0)>>>> : <<s, d>> \in {<<s1, "Upload">>, <<s1, "Download">>, <<s2, "Download">>}}

(* the first session allows one transfer at a time, the second any number *)
MCSessionCap == s1 :> 1
=================================================================================
