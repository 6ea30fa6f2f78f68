------------------------------- MODULE CopyPlan -------------------------------
(***************************************************************************)
(* A copy of a selection into a folder, from the look at the destination   *)
(* to the last file: transfer/plan/mod.rs, transfer/conflicts/mod.rs and   *)
(* the conflict dialog.                                                    *)
(*                                                                         *)
(* A file is at <<folder, name>>.  "n (1) (2)" is <<1, 2>>, the name that  *)
(* two renamings made.  A folder's contents are "old" files and "dir"s,    *)
(* and the numbers of the selected files that were copied there; of its    *)
(* partial files, "short" ones are smaller than the new file and "full"    *)
(* ones are not.  Nobody else writes meanwhile.                            *)
(***************************************************************************)
EXTENDS Naturals, Sequences, FiniteSets, Maps

CONSTANTS
    Selected,       \* the files, in the order of the walk: <<folder, name>>
    TreeFolder,     \* the folder among them that the selection itself brings
    Tops, Trees     \* what the two folders of the destination may hold: [there, old, part]

VARIABLES
    there,          \* [folder -> [name -> content]], the folders that are there
    parts,          \* [folder -> [name -> "short" or "full"]]
    looks,          \* how the look at a folder that is there goes: [how, missed]
    policy,         \* on_conflict
    files,          \* DirectoryPlan::files: [at, existing, partial, resume]
    taken,          \* DirectoryPlan::taken_names
    answers,        \* of the prompt, by the number of the file; "None" before
    rest,           \* ConflictDialog::apply_to_rest
    agreed,         \* the files whose replacing somebody was asked about
    left,           \* the jobs, by the number of the file
    phase           \* "plan", "ask", "copies", "over", "cancelled" or "failed"

planVars == <<there, parts, looks, policy, files, taken, answers, rest, agreed, left, phase>>

Numbers == 1..Len(Selected)
None == "None"
Top == "top"

(***************************************************************************)
(* plan_copy                                                               *)
(***************************************************************************)
(* ensure_directory: the folders of the selection that are not there *)
Missing == {TreeFolder} \ DOMAIN there

WithMissing(of) == [folder \in DOMAIN of \cup Missing |-> IF folder \in Missing THEN <<>> ELSE of[folder]]

(* ensure_directory takes a folder whose stat fails for one to be made, and *)
(* where create_dir does not mind that it is there, for made               *)
Made == {folder \in {TreeFolder} : folder \notin DOMAIN there \/ looks[folder].how = "made"}

EnsureDirectories == there' = WithMissing(there) /\ parts' = WithMissing(parts)

PlannedNames(folder) == {Selected[n][2] : n \in {m \in Numbers : Selected[m][1] = folder}}

(* How a look may go: the folder is "listed", its read_dir and its stat    *)
(* fail ("unseen"), it was taken for "made", or its read_dir alone fails   *)
(* and each planned name is "asked" for, the stat of the `missed` failing. *)
(* A folder that is not there is not looked at.                            *)
Looks(folder) ==
    {[how |-> how, missed |-> {}] : how \in {"listed", "unseen"} \cup {"made" : f \in {folder} \cap {TreeFolder}}}
        \cup {[how |-> "asked", missed |-> names] : names \in SUBSET PlannedNames(folder)}

(* the names that the look would not tell of                               *)
Overlooked(folder, name) ==
    \/ looks[folder].how \in {"unseen", "made"}
    \/ looks[folder].how = "asked" /\ name \notin PlannedNames(folder) \ looks[folder].missed

(* list_destination: a failed stat says that nothing is there; partial     *)
(* files are not asked for                                                 *)
ListDestination(folder) ==
    [name \in {n \in DOMAIN there[folder] : ~Overlooked(folder, n)} |-> there[folder][name]]

ListedParts(folder) == IF looks[folder].how = "listed" THEN parts[folder] ELSE <<>>

InListing(listing, name) == IF name \in DOMAIN listing THEN listing[name] ELSE None

(* mark_conflicts; a folder that was made just now is not listed *)
MarkConflicts(folder, name) ==
    [at |-> <<folder, name>>, resume |-> FALSE,
     existing |-> IF folder \in Made THEN None ELSE InListing(ListDestination(folder), name),
     partial |-> IF folder \in Made THEN None ELSE InListing(ListedParts(folder), name)]

TakenNames(folder) ==
    PlannedNames(folder) \cup (IF folder \in Made THEN {} ELSE DOMAIN ListDestination(folder))

IsConflict(file) == file.existing # None \/ file.partial # None

(* ConflictPolicy::resolution_for *)
ResolutionFor(file) ==
    CASE policy = "Ask" -> None
      [] policy # "Ask" /\ file.existing = None -> IF file.partial = "full" THEN "Overwrite" ELSE "Resume"
      [] policy = "Overwrite" /\ file.existing # None -> IF file.partial # None THEN "Resume" ELSE "Overwrite"
      [] policy \in {"Skip", "Rename"} /\ file.existing # None -> policy

(***************************************************************************)
(* resolve                                                                 *)
(***************************************************************************)
Blocked(file) == file.existing = "dir"

(* unique_name *)
UniqueName(name, others) ==
    Append(name, CHOOSE k \in 1..(Cardinality(others) + 1) :
                   /\ Append(name, k) \notin others
                   /\ \A j \in 1..(k - 1) : Append(name, j) \in others)

(* what becomes of the n-th file, given the names taken before it *)
Answered(file, answer, others) ==
    LET renamed == answer = "Rename" /\ file.existing # None
    IN  [file EXCEPT !.at = IF renamed THEN <<@[1], UniqueName(@[2], others)>> ELSE @,
                     !.resume = answer = "Resume" \/ (answer = "Rename" /\ file.existing = None)]

IsDropped(file, answer) ==
    \/ answer = "Skip"
    \/ answer \in {"Overwrite", "Resume"} /\ Blocked(file)

(* the files one after the other, each renaming taking a name *)
ResolvedUpTo(plan, names, given) ==
    LET upTo[n \in 0..Len(Selected)] ==
          IF n = 0 THEN [files |-> <<>>, taken |-> names]
          ELSE LET file == plan[n]
                   before == upTo[n - 1]
                   new == IF IsConflict(file) /\ ~IsDropped(file, given[n])
                          THEN Answered(file, given[n], before.taken[file.at[1]]) ELSE file
               IN  [files |-> Append(before.files, new),
                    taken |-> [before.taken EXCEPT ![new.at[1]] = @ \cup {new.at[2]}]]
    IN  upTo[Len(Selected)]

(* apply_plan_ready *)
Apply(plan, names, given) ==
    LET resolved == ResolvedUpTo(plan, names, given)
    IN  /\ files' = resolved.files /\ taken' = resolved.taken
        /\ left' = {n \in Numbers : ~(IsConflict(plan[n]) /\ IsDropped(plan[n], given[n]))}
        /\ phase' = IF left' = {} THEN "over" ELSE "copies"

Conflicts(plan) == {n \in Numbers : IsConflict(plan[n])}

(* review_or_apply_plan *)
Plan ==
    /\ phase = "plan"
    /\ EnsureDirectories
    /\ LET plan == [n \in Numbers |-> MarkConflicts(Selected[n][1], Selected[n][2])]
           names == [folder \in DOMAIN there' |-> TakenNames(folder)]
           automatic == [n \in Numbers |-> IF IsConflict(plan[n]) THEN ResolutionFor(plan[n]) ELSE None]
       IN  /\ answers' = automatic
           /\ agreed' = {n \in Numbers : automatic[n] \in {"Overwrite", "Resume"}}
           /\ IF policy = "Ask" /\ Conflicts(plan) # {}
              THEN files' = plan /\ taken' = names /\ phase' = "ask" /\ UNCHANGED left
              ELSE Apply(plan, names, automatic)
    /\ UNCHANGED <<looks, policy, rest>>

(* the walk or a listing fails, or the copy is cancelled before it was planned *)
PlanFails ==
    /\ phase = "plan"
    /\ phase' \in {"failed", "cancelled"}
    /\ \/ UNCHANGED <<there, parts>>
       \/ EnsureDirectories
    /\ UNCHANGED <<looks, policy, files, taken, answers, rest, agreed, left>>

(***************************************************************************)
(* The conflict dialog                                                     *)
(***************************************************************************)
Open == {n \in Conflicts(files) : answers[n] = None}
Current == CHOOSE n \in Open : \A m \in Open : n <= m

OffersResume(file) == file.partial # None /\ ~Blocked(file)

Offered(file) ==
    {"Skip"}
      \cup (IF OffersResume(file) THEN {"Resume"} ELSE {})
      \cup (IF ~Blocked(file) THEN {"Overwrite"} ELSE {})
      \cup (IF file.existing # None THEN {"Rename"} ELSE {})

(* mutant: what is started over replaces any file *)
FitsAnyRest(answer, first, later) ==
    CASE answer = "Resume" -> later.partial # None /\ ~Blocked(later)
      [] answer \in {"Overwrite", "Skip"} -> TRUE
      [] answer = "Rename" -> later.existing # None

FitsTheRest(answer, first, later) ==
    CASE answer = "Resume" -> later.partial # None /\ ~Blocked(later)
      [] answer = "Overwrite" -> (later.existing # None) = (first.existing # None)
      [] answer = "Rename" -> later.existing # None
      [] answer = "Skip" -> TRUE

(* answer_conflict *)
AnswerConflict ==
    /\ phase = "ask"
    /\ \E answer \in Offered(files[Current]) :
         LET first == files[Current]
             same == IF rest THEN {n \in Open : FitsTheRest(answer, first, files[n])} \cup {Current} ELSE {Current}
             given == [n \in Numbers |-> IF n \in same THEN answer ELSE answers[n]]
             shown == \* the dialog spoke of a file that is there, or of going on with partial files
               IF answer = "Resume" \/ (answer = "Overwrite" /\ first.existing # None) THEN same ELSE {}
         IN  /\ answers' = given
             /\ agreed' = agreed \cup shown
             /\ IF Open = same
                THEN Apply(files, taken, given)
                ELSE UNCHANGED <<files, taken, left, phase>>
    /\ rest' = FALSE
    /\ UNCHANGED <<there, parts, looks, policy>>

ToggleRest ==
    /\ phase = "ask" /\ Conflicts(files) \ (1..Current) # {}
    /\ rest' = ~rest
    /\ UNCHANGED <<there, parts, looks, policy, files, taken, answers, agreed, left, phase>>

CancelCopy ==
    /\ phase = "ask"
    /\ phase' = "cancelled"
    /\ UNCHANGED <<there, parts, looks, policy, files, taken, answers, rest, agreed, left>>

(***************************************************************************)
(* The jobs                                                                *)
(***************************************************************************)
(* execute: the partial file is written and renamed to the destination *)
CopyFile ==
    /\ phase = "copies"
    /\ \E n \in left :
         LET folder == files[n].at[1]
             name == files[n].at[2]
         IN  /\ InListing(there[folder], name) # "dir"
             /\ there' = [there EXCEPT ![folder] = With(@, name, n)]
             /\ parts' = [parts EXCEPT ![folder] = Without(@, {name})]
             /\ left' = left \ {n}
             /\ phase' = IF left' = {} THEN "over" ELSE "copies"
    /\ UNCHANGED <<looks, policy, files, taken, answers, rest, agreed>>

FileFails ==
    /\ phase = "copies"
    /\ \E n \in left :
         LET folder == files[n].at[1]
             name == files[n].at[2]
         IN  /\ parts' \in {parts, [parts EXCEPT ![folder] = With(@, name, "short")]}
             /\ left' = left \ {n}
             /\ phase' = IF left' = {} THEN "over" ELSE "copies"
    /\ UNCHANGED <<there, looks, policy, files, taken, answers, rest, agreed>>

PlanInit ==
    /\ \E top \in Tops, tree \in Trees :
         LET folders == {Top} \cup (IF tree.there THEN {TreeFolder} ELSE {})
             held == [folder \in folders |-> IF folder = Top THEN top ELSE tree]
         IN  /\ there = [folder \in folders |-> held[folder].old]
             /\ parts = [folder \in folders |-> held[folder].part]
    /\ \E top \in Looks(Top), tree \in Looks(TreeFolder) :
         looks = [folder \in {Top, TreeFolder} |-> IF folder = Top THEN top ELSE tree]
    /\ \A folder \in Missing : looks[folder].how = "listed"
    /\ policy \in {"Ask", "Overwrite", "Skip", "Rename"}
    /\ files = <<>> /\ taken = <<>> /\ answers = <<>>
    /\ rest = FALSE /\ agreed = {} /\ left = {} /\ phase = "plan"

PlanNext == Plan \/ PlanFails \/ AnswerConflict \/ ToggleRest \/ CancelCopy \/ CopyFile \/ FileFails

(* A copy replaces a file only where somebody was asked about that file,   *)
(* by its own dialog, by a "same for the rest" given where the dialog      *)
(* spoke of the same thing, or by the setting; what the copy renames finds *)
(* a free name, and no two of its files share one.  Nothing is said of a   *)
(* name that the look at the destination overlooked: in a folder that      *)
(* could not be listed those that nobody planned and those whose stat      *)
(* failed, and all in a folder whose own stat failed.  What is there is    *)
(* then replaced without a question.                                       *)
NothingReplacedUnasked ==
    phase \in {"copies", "over"} =>
      /\ \A n \in left :
           LET folder == files[n].at[1]
               name == files[n].at[2]
           IN  \/ n \in agreed /\ name = Selected[n][2]
               \/ InListing(there[folder], name) = None
               \/ Overlooked(folder, name)
      /\ \A n, m \in left : files[n].at = files[m].at => n = m

=================================================================================
