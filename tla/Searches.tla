------------------------------- MODULE Searches -------------------------------
(***************************************************************************)
(* Searching by name while it is typed: the search screen, the handler in  *)
(* handlers/search/mod.rs, and walk_search and glob_match of the virtual   *)
(* file system.  A task looks at its cancel flag before it reads a folder   *)
(* and at each entry; what it finds in a folder is told in one step.       *)
(* A result is an entry's folder and name: its path.                       *)
(***************************************************************************)
EXTENDS Naturals, Sequences, FiniteSets, SequencesExt

CONSTANTS
    Tree,           \* [folder -> its entries: <<name, folder or 0>>]; the root is 1
    Patterns,       \* what may be typed: sequences of letters, "*" and "?"
    MaxDepth, MaxResults,
    MaxKeys         \* bound: keys pressed

VARIABLES
    unreadable,     \* folders whose read_dir fails
    live,           \* the session that is searched is connected
    screen,         \* SearchView: [open, pattern, results, truncated, failed]
    commands,       \* to the core, in order
    events,         \* from the core, in order
    generation,     \* SearchState::generation
    tasks,          \* the search tasks, in the order they were spawned
    keys

searchVars == <<unreadable, live, screen, commands, events, generation, tasks, keys>>

(***************************************************************************)
(* glob_match                                                              *)
(***************************************************************************)
(* match_from's loop: p and n letters of pattern and name are matched;     *)
(* star remembers where the last "*" was met, and how far it reached       *)
MatchStep(pattern, name, s) ==
    IF s.n = Len(name) \/ s.failed THEN s
    ELSE IF s.p < Len(pattern) /\ pattern[s.p + 1] \in {"?", name[s.n + 1]}
    THEN [s EXCEPT !.p = @ + 1, !.n = @ + 1]
    ELSE IF s.p < Len(pattern) /\ pattern[s.p + 1] = "*"
    THEN [s EXCEPT !.star = <<s.p, s.n>>, !.p = @ + 1]
    ELSE IF s.star # <<>>
    THEN [s EXCEPT !.p = s.star[1] + 1, !.n = s.star[2] + 1, !.star = <<s.star[1], s.star[2] + 1>>]
    ELSE [s EXCEPT !.failed = TRUE]

GlobMatch(pattern, name) ==
    LET after[k \in 0..((Len(pattern) + 1) * (Len(name) + 1))] ==
          IF k = 0 THEN [p |-> 0, n |-> 0, star |-> <<>>, failed |-> FALSE]
          ELSE MatchStep(pattern, name, after[k - 1])
        end == after[(Len(pattern) + 1) * (Len(name) + 1)]
    IN  ~end.failed /\ \A i \in (end.p + 1)..Len(pattern) : pattern[i] = "*"

(* restart_search looks for the pattern anywhere in a name *)
Anywhere(typed) == <<"*">> \o typed \o <<"*">>

Names == {entry[1] : entry \in UNION {ToSet(Tree[folder]) : folder \in DOMAIN Tree}}
Matching == [typed \in Patterns |-> {name \in Names : GlobMatch(Anywhere(typed), name)}]

(***************************************************************************)
(* The search screen                                                       *)
(***************************************************************************)
NoScreen == [open |-> FALSE, pattern |-> <<>>, results |-> {}, truncated |-> FALSE, failed |-> FALSE]
Restarted(typed) == [NoScreen EXCEPT !.open = TRUE, !.pattern = typed]

Press == keys < MaxKeys /\ keys' = keys + 1
Elsewhere == UNCHANGED <<unreadable, live, events, generation, tasks>>

OpenSearch ==
    /\ ~screen.open /\ Press
    /\ screen' = Restarted(<<>>)
    /\ UNCHANGED commands /\ Elsewhere

(* restart_search *)
Type ==
    /\ screen.open /\ Press
    /\ \E typed \in Patterns \cup {<<>>} :
         /\ typed # screen.pattern
         /\ screen' = Restarted(typed)
         /\ commands' = Append(commands, IF typed = <<>> THEN <<"CancelSearch">> ELSE <<"Search", typed>>)
    /\ Elsewhere

(* Ctrl-C stops the search; Esc, and opening a result, leave the screen too *)
StopSearch ==
    /\ screen.open /\ Press
    /\ screen' \in {[screen EXCEPT !.failed = TRUE], NoScreen}
    /\ commands' = Append(commands, <<"CancelSearch">>)
    /\ Elsewhere

(* push_result and finish take what comes, whichever search it is of *)
TakeEvent ==
    /\ events # <<>>
    /\ events' = Tail(events)
    /\ screen' = IF ~screen.open THEN screen
               ELSE CASE Head(events)[1] = "Found" -> [screen EXCEPT !.results = @ \cup {Head(events)[2]}]
                      [] Head(events)[1] = "Done" -> [screen EXCEPT !.truncated = Head(events)[2]]
                      [] Head(events)[1] = "Failed" -> [screen EXCEPT !.truncated = FALSE, !.failed = TRUE]
    /\ UNCHANGED <<unreadable, live, commands, generation, tasks, keys>>

(***************************************************************************)
(* handlers/search: every live search is told to stop, then one is spawned *)
(***************************************************************************)
Cancelled == [i \in DOMAIN tasks |-> [tasks[i] EXCEPT !.cancel = TRUE]]

NewTask(typed) ==
    [generation |-> generation + 1, pattern |-> typed, cancel |-> FALSE,
     awake |-> FALSE, stack |-> <<>>, reading |-> <<>>, found |-> 0]

(* mutant: the search that was just started is told to stop as well *)
StartedCancelled(typed) == Append(Cancelled, [NewTask(typed) EXCEPT !.cancel = TRUE])

Started(typed) == Append(Cancelled, NewTask(typed))

Search ==
    /\ commands # <<>> /\ Head(commands)[1] = "Search"
    /\ commands' = Tail(commands)
    /\ generation' = generation + 1
    /\ tasks' = IF live THEN Started(Head(commands)[2]) ELSE Cancelled
    /\ UNCHANGED <<unreadable, live, screen, events, keys>>

CancelSearch ==
    /\ commands # <<>> /\ Head(commands)[1] = "CancelSearch"
    /\ commands' = Tail(commands)
    /\ tasks' = Cancelled
    /\ UNCHANGED <<unreadable, live, screen, events, generation, keys>>

(* the tasks of a session that goes keep their file system *)
Disconnect ==
    /\ live
    /\ live' = FALSE
    /\ UNCHANGED <<unreadable, screen, commands, events, generation, tasks, keys>>

(***************************************************************************)
(* The task: a pause, then walk_search                                     *)
(***************************************************************************)
Gone(i) == [j \in 1..(Len(tasks) - 1) |-> IF j < i THEN tasks[j] ELSE tasks[j + 1]]
Tells(told) == events' = events \o told
Smaller(a, b) == IF a <= b THEN a ELSE b

Wake(i) ==
    /\ ~tasks[i].awake
    /\ tasks' = IF tasks[i].cancel \/ tasks[i].generation # generation THEN Gone(i)
                ELSE [tasks EXCEPT ![i].awake = TRUE, ![i].stack = <<<<1, 0>>>>]
    /\ Tells(<<>>)

(* the next folder that is not too deep, if the search is still wanted *)
ReadNext(i) ==
    LET t == tasks[i]
    IN  /\ t.awake /\ t.reading = <<>> /\ t.stack # <<>>
        /\ tasks' = IF t.cancel THEN Gone(i)
                    ELSE [tasks EXCEPT ![i].stack = Front(@),
                                       ![i].reading = IF Last(t.stack)[2] > MaxDepth THEN <<>> ELSE Last(t.stack)]
        /\ Tells(<<>>)

Done(i) ==
    /\ tasks[i].awake /\ tasks[i].reading = <<>> /\ tasks[i].stack = <<>>
    /\ Tells(<<<<"Done", FALSE>>>>) /\ tasks' = Gone(i)

Refused(i) ==
    LET t == tasks[i]
    IN  /\ t.reading # <<>> /\ t.reading[1] \in unreadable
        /\ IF t.reading[2] = 0
           THEN Tells(<<<<"Failed">>>>) /\ tasks' = Gone(i)
           ELSE Tells(<<>>) /\ tasks' = [tasks EXCEPT ![i].reading = <<>>]

Picked(entries, wanted) ==
    LET upTo[n \in 0..Len(entries)] ==
          IF n = 0 THEN <<>>
          ELSE IF entries[n] \in wanted THEN Append(upTo[n - 1], entries[n]) ELSE upTo[n - 1]
    IN  upTo[Len(entries)]

Matches(t) ==
    LET entries == Tree[t.reading[1]]
    IN  Picked(entries, {entry \in ToSet(entries) : entry[1] \in Matching[t.pattern]})

Inside(t) ==
    LET entries == Tree[t.reading[1]]
    IN  Picked(entries, {entry \in ToSet(entries) : entry[2] # 0})

FoundIn(t) ==
    LET told == SubSeq(Matches(t), 1, Smaller(Len(Matches(t)), MaxResults - t.found))
    IN  [k \in DOMAIN told |-> <<"Found", <<t.reading[1], told[k][1]>>>>]

Below(t) == [k \in DOMAIN Inside(t) |-> <<Inside(t)[k][2], t.reading[2] + 1>>]

(* the entries of a folder; at max_results the walk stops *)
FolderRead(i) ==
    LET t == tasks[i]
    IN  /\ t.reading # <<>> /\ t.reading[1] \notin unreadable
        /\ IF t.cancel /\ Tree[t.reading[1]] # <<>>
           THEN Tells(<<>>) /\ tasks' = Gone(i)
           ELSE IF t.found + Len(FoundIn(t)) >= MaxResults
           THEN Tells(FoundIn(t) \o <<<<"Done", TRUE>>>>) /\ tasks' = Gone(i)
           ELSE /\ Tells(FoundIn(t))
                /\ tasks' = [tasks EXCEPT ![i].found = @ + Len(FoundIn(t)), ![i].reading = <<>>,
                                         ![i].stack = @ \o Below(t)]

TaskRuns ==
    /\ \E i \in DOMAIN tasks : Wake(i) \/ ReadNext(i) \/ Done(i) \/ Refused(i) \/ FolderRead(i)
    /\ UNCHANGED <<unreadable, live, screen, commands, generation, keys>>

SearchInit ==
    /\ unreadable \in SUBSET DOMAIN Tree
    /\ live = TRUE /\ screen = NoScreen
    /\ commands = <<>> /\ events = <<>> /\ generation = 0 /\ tasks = <<>> /\ keys = 0

SearchNext ==
    \/ OpenSearch \/ Type \/ StopSearch \/ TakeEvent
    \/ Search \/ CancelSearch \/ Disconnect \/ TaskRuns

(***************************************************************************)
(* The reference: a cut of the name for each letter of the pattern         *)
(***************************************************************************)
FitsGlob(pattern, name) ==
    \E cut \in [0..Len(pattern) -> 0..Len(name)] :
      /\ cut[0] = 0 /\ cut[Len(pattern)] = Len(name)
      /\ \A i \in 1..Len(pattern) :
           \/ pattern[i] = "*" /\ cut[i] >= cut[i - 1]
           \/ cut[i] = cut[i - 1] + 1 /\ pattern[i] \in {"?", name[cut[i]]}

Within(depth) ==
    LET level[d \in 0..depth] ==
          IF d = 0 THEN {1}
          ELSE {entry[2] : entry \in UNION {ToSet(Tree[f]) : f \in level[d - 1] \ unreadable}} \ {0}
    IN  UNION {level[d] : d \in 0..depth}

Fitting == [typed \in Patterns |-> {name \in Names : FitsGlob(Anywhere(typed), name)}]

Fitted(typed) ==
    {found \in (Within(MaxDepth) \ unreadable) \X Fitting[typed] :
       \E entry \in ToSet(Tree[found[1]]) : entry[1] = found[2]}

AtRest == commands = <<>> /\ events = <<>> /\ tasks = <<>>

(* search starts a walk after it cancelled the others, whose results may   *)
(* still come and be shown.  However the typing, the cancelling and the    *)
(* walks interleave: at rest, the screen shows every name the pattern fits *)
(* in every folder the walk can and may reach, or as many as the limit;    *)
(* names of an older pattern may stand among them.                         *)
SearchFindsAll ==
    AtRest /\ live /\ screen.open /\ screen.pattern # <<>> /\ ~screen.failed =>
      \/ Fitted(screen.pattern) \subseteq screen.results
      \/ Cardinality(screen.results) >= MaxResults

=================================================================================
