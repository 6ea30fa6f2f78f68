----------------------------- MODULE KeyringProofs -----------------------------
(***************************************************************************)
(* Theorems about the saved secrets, for any profiles, aliases, markers    *)
(* and numbers of jobs: what a queued job will bring stays marked, and at  *)
(* rest keyring, markers and what the user gave last agree; and about the  *)
(* waiting reports, for any number of calls.                               *)
(***************************************************************************)
EXTENDS KeyringJobs, KeyringWaiting, FiniteSetTheorems, WellFoundedInduction, TLAPS

(***************************************************************************)
(* The waiting reports                                                     *)
(***************************************************************************)
(* the calls counted in *)
Counted == {c \in Calls : reach[c] \in {"announcing", "waiting"}}

WaitingInv ==
    /\ WaitingTypeOK
    /\ waitingCalls = Cardinality(Counted)
    /\ toldWaiting => waitingCalls > 0 \/ \E c \in Calls : reach[c] = "clearing"

(* The counter is the number of the calls that are counted in, and who was *)
(* told to wait has somebody left who will say otherwise.                  *)
LEMMA WaitingInvHolds == WaitingSpec => []WaitingInv
<1>1. WaitingInit => WaitingInv
  <2> SUFFICES ASSUME WaitingInit PROVE WaitingInv
    OBVIOUS
  <2>1. Counted = {}
    BY DEF WaitingInit, Counted
  <2>2. Cardinality(Counted) = 0
    BY <2>1, FS_EmptySet
  <2> QED
    BY <2>2 DEF WaitingInit, WaitingInv, WaitingTypeOK, Reaches
<1>2. WaitingInv /\ [WaitingNext]_waitingVars => WaitingInv'
  <2> SUFFICES ASSUME WaitingInv, [WaitingNext]_waitingVars PROVE WaitingInv'
    OBVIOUS
  <2> USE DEF WaitingInv, WaitingTypeOK, Reaches
  <2>1. IsFiniteSet(Counted) /\ Cardinality(Counted) \in Nat
    <3>1. Counted \subseteq Calls
      BY DEF Counted
    <3> QED
      BY <3>1, CallsAssumption, FS_Subset, FS_CardinalityType
  <2>2. ASSUME NEW c \in Calls, StartWaiting(c) PROVE WaitingInv'
    <3>1. Counted' = Counted \cup {c} /\ c \notin Counted
      BY <2>2 DEF StartWaiting, Counted
    <3>2. Cardinality(Counted') = Cardinality(Counted) + 1
      BY <2>1, <3>1, FS_AddElement
    <3> QED
      BY <2>1, <2>2, <3>2 DEF StartWaiting
  <2>3. ASSUME NEW c \in Calls, StopWaiting(c) PROVE WaitingInv'
    <3>1. Counted' = Counted \ {c} /\ c \in Counted
      BY <2>3 DEF StopWaiting, Counted
    <3>2. Cardinality(Counted') = Cardinality(Counted) - 1
      BY <2>1, <3>1, FS_RemoveElement
    <3>3. Cardinality(Counted) # 0
      BY <2>1, <3>1, FS_EmptySet
    <3>4. waitingCalls' \in Nat /\ waitingCalls' = Cardinality(Counted')
      BY <2>1, <2>3, <3>2, <3>3 DEF StopWaiting
    <3>5. CASE waitingCalls = 1
      BY <2>3, <3>4, <3>5 DEF StopWaiting
    <3>6. CASE waitingCalls # 1
      <4>1. waitingCalls' > 0
        BY <2>1, <2>3, <3>3, <3>6 DEF StopWaiting
      <4> QED
        BY <2>3, <3>4, <4>1 DEF StopWaiting
    <3> QED
      BY <3>5, <3>6
  <2>4. ASSUME NEW c \in Calls, ReportWaiting(c) PROVE WaitingInv'
    <3>1. Counted' = Counted
      BY <2>4 DEF ReportWaiting, Counted
    <3>2. CASE reach[c] = "announcing"
      <4>1. Cardinality(Counted) # 0
        BY <2>1, <3>2, FS_EmptySet DEF Counted
      <4> QED
        BY <2>1, <2>4, <3>1, <3>2, <4>1 DEF ReportWaiting
    <3>3. CASE reach[c] = "clearing"
      BY <2>4, <3>1, <3>3 DEF ReportWaiting
    <3> QED
      BY <2>4, <3>2, <3>3 DEF ReportWaiting
  <2>5. CASE UNCHANGED waitingVars
    BY <2>5 DEF waitingVars, Counted
  <2> QED
    BY <2>2, <2>3, <2>4, <2>5 DEF WaitingNext
<1> QED
  BY <1>1, <1>2, PTL DEF WaitingSpec

(* report_waiting: when no call waits the user is not told to wait.        *)
THEOREM ToldAtRestHolds == WaitingSpec => []ToldAtRest
<1>1. WaitingInv => ToldAtRest
  <2> SUFFICES ASSUME WaitingInv, \A c \in Calls : reach[c] = "quick" PROVE ~toldWaiting
    BY DEF ToldAtRest
  <2>1. Counted = {}
    BY DEF Counted
  <2>2. waitingCalls = 0
    BY <2>1, FS_EmptySet DEF WaitingInv
  <2> QED
    BY <2>2 DEF WaitingInv
<1> QED
  BY <1>1, WaitingInvHolds, PTL

(***************************************************************************)
(* The queue of jobs                                                       *)
(***************************************************************************)
Owners == Profiles \cup Aliases
CallRecords == [op : {"write", "erase", "move"}, from : AllAccounts, to : AllAccounts, secret : Nat]
JobRecords ==
    [id : Nat, owner : Owners, calls : Seq(CallRecords), rollback : SUBSET Markers,
     restore : SUBSET Markers, failed : BOOLEAN]
DoneRecords == [id : Nat, owner : Owners, rollback : SUBSET Markers, restore : SUBSET Markers]

(* the secret options a kind of owner has *)
OwnMarkers(owner) == IF owner \in Aliases THEN {"password"} ELSE Markers

(* the calls that a job for the owner may have *)
CallsSound(calls, owner) ==
    /\ calls \in Seq(CallRecords)
    /\ Len(calls) <= Cardinality(Markers) * 3
    /\ \A j \in 1..Len(calls) :
         /\ calls[j].to[1] = owner
         /\ calls[j].op = "write" => calls[j].from = calls[j].to

JobSound(job) == CallsSound(job.calls, job.owner) /\ job.restore \subseteq OwnMarkers(job.owner)

MarksOK ==
    /\ DOMAIN marks \subseteq Owners /\ Aliases \subseteq DOMAIN marks
    /\ marks = [o \in DOMAIN marks |-> marks[o]]
    /\ \A o \in DOMAIN marks : marks[o] \subseteq OwnMarkers(o)
    /\ typed \in Nat

(* jobs are run in the order of their ids, and whoever has jobs queued has *)
(* the latest one queued                                                   *)
QueueOrdered ==
    /\ lastJob \in Nat /\ jobs \in Seq(JobRecords) /\ finished \in Seq(DoneRecords)
    /\ \A i \in 1..Len(jobs) :
         /\ JobSound(jobs[i])
         /\ jobs[i].id <= lastJob
         /\ jobs[i].owner \in DOMAIN latest /\ jobs[i].id <= latest[jobs[i].owner]
    /\ \A i, k \in 1..Len(jobs) : i < k => jobs[i].id < jobs[k].id
    /\ \A k \in 1..Len(finished) :
         /\ finished[k].restore \subseteq OwnMarkers(finished[k].owner)
         /\ finished[k].id <= lastJob
         /\ \A i \in 1..Len(jobs) : finished[k].id < jobs[i].id
    /\ \A o \in DOMAIN latest : latest[o] \in Nat

Touches(call, a) == call.to = a \/ call.from = a

(* a call writes the secret, and none after it touches it *)
BringsIn(calls, a) ==
    \E j \in 1..Len(calls) :
      /\ calls[j].op = "write" /\ calls[j].to = a
      /\ \A k \in 1..Len(calls) : k > j => ~Touches(calls[k], a)

TouchedIn(calls, a) == \E j \in 1..Len(calls) : Touches(calls[j], a)

Brings(queue, a) ==
    \E i \in 1..Len(queue) :
      /\ BringsIn(queue[i].calls, a)
      /\ \A k \in 1..Len(queue) : k > i => ~TouchedIn(queue[k].calls, a)

Bringing ==
    Available => \A a \in AllAccounts \ strays :
                   Brings(jobs, a) => a[1] \in DOMAIN marks /\ a[2] \in marks[a[1]]

MarkersIInv == MarksOK /\ QueueOrdered /\ Bringing

---------------------------------------------------------------------------
(* SetToSeq: all elements, each once *)
LEMMA SetListed ==
    ASSUME NEW S, IsFiniteSet(S)
    PROVE  /\ Cardinality(S) \in Nat
           /\ SetToSeq(S) \in [1..Cardinality(S) -> S] /\ IsInjective(SetToSeq(S))
           /\ \A x \in S : \E i \in 1..Cardinality(S) : SetToSeq(S)[i] = x
<1> DEFINE n == Cardinality(S)
           listings == {f \in [1..n -> S] : IsInjective(f)}
<1>1. n \in Nat /\ ExistsBijection(1..n, S)
  BY FS_CardinalityType
<1>2. PICK g \in Bijection(1..n, S) : TRUE
  BY <1>1 DEF ExistsBijection
<1>3. g \in [1..n -> S] /\ IsInjective(g)
  BY <1>2 DEF Bijection, Injection, IsInjective
<1>4. SetToSeq(S) \in [1..n -> S] /\ IsInjective(SetToSeq(S))
  BY <1>3 DEF SetToSeq
<1>5. SetToSeq(S) \in Injection(1..n, S)
  BY <1>4 DEF Injection, IsInjective
<1>6. IsFiniteSet(1..n) /\ Cardinality(1..n) = n
  BY <1>1, FS_Interval
<1>7. SetToSeq(S) \in Surjection(1..n, S)
  BY <1>5, <1>6, FS_Injection
<1> QED
  BY <1>1, <1>4, <1>7 DEF Surjection

LEMMA MarkersListed ==
    ASSUME NEW S \in SUBSET Markers
    PROVE  /\ Cardinality(S) \in Nat /\ Cardinality(Markers) \in Nat
           /\ Cardinality(S) <= Cardinality(Markers)
           /\ SetToSeq(S) \in [1..Cardinality(S) -> S] /\ IsInjective(SetToSeq(S))
           /\ \A m \in S : \E i \in 1..Cardinality(S) : SetToSeq(S)[i] = m
  BY MarkersAssumption, FS_Subset, FS_CardinalityType, SetListed

(***************************************************************************)
(* The calls of apply_secret_changes: moves, writes, erasings              *)
(***************************************************************************)
MovesIn(name, old, before) == IF old = name THEN 0 ELSE Cardinality(before)

LEMMA ListIsSeq ==
    ASSUME NEW n \in Nat, NEW S, NEW f \in [1..n -> S]
    PROVE  f \in Seq(S) /\ Len(f) = n
  OBVIOUS

LEMMA CallsTyped ==
    ASSUME NEW old \in Owners, NEW name \in Owners, NEW m \in Markers, NEW secret \in Nat
    PROVE  /\ Write(<<name, m>>, secret) \in CallRecords
           /\ Erase(<<name, m>>) \in CallRecords
           /\ Move(<<old, m>>, <<name, m>>) \in CallRecords
  BY DEF Write, Erase, Move, CallRecords, AllAccounts, Owners

ListsChanges(calls, name, old, before, replaced, dropped, secret) ==
    LET moves == MovesIn(name, old, before)
        writes == Cardinality(replaced)
        erasings == Cardinality(dropped)
    IN  /\ moves \in Nat /\ writes \in Nat /\ erasings \in Nat
        /\ calls \in Seq(CallRecords) /\ Len(calls) = moves + writes + erasings
        /\ \A j \in 1..moves :
             calls[j] = Move(<<old, SetToSeq(before)[j]>>, <<name, SetToSeq(before)[j]>>)
        /\ \A j \in 1..writes : calls[moves + j] = Write(<<name, SetToSeq(replaced)[j]>>, secret)
        /\ \A j \in 1..erasings : calls[moves + writes + j] = Erase(<<name, SetToSeq(dropped)[j]>>)

LEMMA Concatenated ==
    ASSUME NEW S, NEW s \in Seq(S), NEW t \in Seq(S), NEW l, Len(s) = l, NEW m, Len(t) = m
    PROVE  /\ s \o t \in Seq(S) /\ Len(s \o t) = l + m
           /\ \A j \in 1..(l + m) : (s \o t)[j] = IF j <= l THEN s[j] ELSE t[j - l]
  OBVIOUS

LEMMA ChangeCallsAre ==
    ASSUME NEW name \in Owners, NEW old \in Owners, NEW before \in SUBSET Markers,
           NEW replaced \in SUBSET Markers, NEW dropped \in SUBSET Markers, NEW secret \in Nat,
           NEW calls, calls = ChangeCalls(name, old, before, replaced, dropped, secret)
    PROVE  ListsChanges(calls, name, old, before, replaced, dropped, secret)
<1> DEFINE moves == MovesIn(name, old, before)
           writes == Cardinality(replaced)
           erasings == Cardinality(dropped)
           move(j) == Move(<<old, SetToSeq(before)[j]>>, <<name, SetToSeq(before)[j]>>)
           write(j) == Write(<<name, SetToSeq(replaced)[j]>>, secret)
           erase(j) == Erase(<<name, SetToSeq(dropped)[j]>>)
           p == IF old = name THEN <<>> ELSE [j \in 1..moves |-> move(j)]
           q == [j \in 1..writes |-> write(j)]
           r == [j \in 1..erasings |-> erase(j)]
<1>1. /\ moves \in Nat /\ writes \in Nat /\ erasings \in Nat
      /\ DOMAIN SetToSeq(replaced) = 1..writes /\ DOMAIN SetToSeq(dropped) = 1..erasings
      /\ old # name => DOMAIN SetToSeq(before) = 1..moves
  BY MarkersListed DEF MovesIn
<1>2. calls = p \o q \o r
  BY <1>1 DEF ChangeCalls
<1>3. p \in Seq(CallRecords) /\ Len(p) = moves /\ \A j \in 1..moves : p[j] = move(j)
  <2>1. CASE old = name
    <3>1. moves = 0
      BY <2>1 DEF MovesIn
    <3> QED
      BY <2>1, <3>1
  <2>2. CASE old # name
    <3>1. \A j \in 1..moves : SetToSeq(before)[j] \in Markers
      BY <2>2, MarkersListed DEF MovesIn
    <3>2. \A j \in 1..moves : move(j) \in CallRecords
      BY <3>1, CallsTyped
    <3> HIDE DEF move
    <3>3. [j \in 1..moves |-> move(j)] \in [1..moves -> CallRecords]
      BY <3>2
    <3> QED
      BY <1>1, <2>2, <3>3, ListIsSeq
  <2> QED
    BY <2>1, <2>2
<1>4. q \in Seq(CallRecords) /\ Len(q) = writes /\ \A j \in 1..writes : q[j] = write(j)
  <2>1. \A j \in 1..writes : SetToSeq(replaced)[j] \in Markers
    BY MarkersListed
  <2>2. \A j \in 1..writes : write(j) \in CallRecords
    BY <2>1, CallsTyped
  <2> HIDE DEF write
  <2>3. q \in [1..writes -> CallRecords]
    BY <2>2
  <2> QED
    BY <1>1, <2>3, ListIsSeq
<1>5. r \in Seq(CallRecords) /\ Len(r) = erasings /\ \A j \in 1..erasings : r[j] = erase(j)
  <2>1. \A j \in 1..erasings : SetToSeq(dropped)[j] \in Markers
    BY MarkersListed
  <2>2. \A j \in 1..erasings : erase(j) \in CallRecords
    BY <2>1, CallsTyped
  <2> HIDE DEF erase
  <2>3. r \in [1..erasings -> CallRecords]
    BY <2>2
  <2> QED
    BY <1>1, <2>3, ListIsSeq
<1> HIDE DEF p, q, r, move, write, erase, moves, writes, erasings
<1> PICK x : x = p \o q
  OBVIOUS
<1>6. /\ x \in Seq(CallRecords) /\ Len(x) = moves + writes
      /\ \A j \in 1..(moves + writes) : x[j] = IF j <= moves THEN p[j] ELSE q[j - moves]
  BY ONLY x = p \o q, <1>3, <1>4, Concatenated
<1>7. /\ calls \in Seq(CallRecords) /\ Len(calls) = moves + writes + erasings
      /\ \A j \in 1..(moves + writes + erasings) :
           calls[j] = IF j <= moves + writes THEN x[j] ELSE r[j - (moves + writes)]
  <2>1. PICK n : n = moves + writes
    OBVIOUS
  <2>2. n \in Nat /\ Len(x) = n /\ calls = x \o r
    BY <1>1, <1>2, <1>6, <2>1
  <2>3. /\ calls \in Seq(CallRecords) /\ Len(calls) = n + erasings
        /\ \A j \in 1..(n + erasings) : calls[j] = IF j <= n THEN x[j] ELSE r[j - n]
    BY ONLY <1>5, <1>6, <2>2, Concatenated
  <2> QED
    BY <2>1, <2>3
<1>8. ASSUME NEW j \in 1..moves PROVE calls[j] = move(j)
  <2>1. j \in 1..moves + writes /\ j <= moves /\ j \in 1..moves + writes + erasings /\ j <= moves + writes
    BY <1>1
  <2> QED
    BY <1>3, <1>6, <1>7, <2>1
<1>9. ASSUME NEW j \in 1..writes PROVE calls[moves + j] = write(j)
  <2>1. PICK k : k = moves + j
    OBVIOUS
  <2>2. /\ k \in 1..moves + writes + erasings /\ k \in 1..moves + writes
        /\ ~(k <= moves) /\ k - moves = j /\ k <= moves + writes
    BY <1>1, <2>1
  <2>3. calls[k] = q[j]
    BY <1>6, <1>7, <2>2
  <2> QED
    BY <1>4, <2>1, <2>3
<1>10. ASSUME NEW j \in 1..erasings PROVE calls[moves + writes + j] = erase(j)
  <2>1. PICK k : k = moves + writes + j
    OBVIOUS
  <2>2. k \in 1..moves + writes + erasings /\ ~(k <= moves + writes) /\ k - (moves + writes) = j
    BY <1>1, <2>1
  <2>3. calls[k] = r[j]
    BY <1>7, <2>2
  <2> QED
    BY <1>5, <2>1, <2>3
<1> QED
  BY <1>1, <1>7, <1>8, <1>9, <1>10 DEF move, write, erase, moves, writes, erasings, ListsChanges

(* they write the secrets that are given anew, and touch all that change   *)
ChangesTouch(calls, name, old, before, replaced, dropped) ==
    /\ \A a : BringsIn(calls, a) => a[1] = name /\ a[2] \in replaced
    /\ \A m \in replaced \cup dropped : TouchedIn(calls, <<name, m>>)
    /\ old # name => \A m \in before : TouchedIn(calls, <<old, m>>)

LEMMA ChangeCallsTouch ==
    ASSUME NEW name \in Owners, NEW old \in Owners, NEW before \in SUBSET Markers,
           NEW replaced \in SUBSET Markers, NEW dropped \in SUBSET Markers, NEW secret \in Nat,
           NEW calls, calls = ChangeCalls(name, old, before, replaced, dropped, secret)
    PROVE  /\ CallsSound(calls, name)
           /\ ChangesTouch(calls, name, old, before, replaced, dropped)
<1> DEFINE moves == MovesIn(name, old, before)
           writes == Cardinality(replaced)
           erasings == Cardinality(dropped)
<1>1. /\ moves \in Nat /\ writes \in Nat /\ erasings \in Nat
      /\ calls \in Seq(CallRecords) /\ Len(calls) = moves + writes + erasings
      /\ \A j \in 1..moves :
           calls[j] = Move(<<old, SetToSeq(before)[j]>>, <<name, SetToSeq(before)[j]>>)
      /\ \A j \in 1..writes : calls[moves + j] = Write(<<name, SetToSeq(replaced)[j]>>, secret)
      /\ \A j \in 1..erasings : calls[moves + writes + j] = Erase(<<name, SetToSeq(dropped)[j]>>)
  <2>1. ListsChanges(calls, name, old, before, replaced, dropped, secret)
    BY ChangeCallsAre
  <2> QED
    BY <2>1 DEF ListsChanges
<1>2. ASSUME NEW j \in 1..Len(calls)
      PROVE  \/ j \in 1..moves
             \/ \E i \in 1..writes : j = moves + i
             \/ \E i \in 1..erasings : j = moves + writes + i
  <2>1. \/ j \in 1..moves
        \/ j - moves \in 1..writes /\ j = moves + (j - moves)
        \/ j - (moves + writes) \in 1..erasings /\ j = moves + writes + (j - (moves + writes))
    BY <1>1
  <2> QED
    BY <2>1
<1>3. /\ Cardinality(before) <= Cardinality(Markers) /\ writes <= Cardinality(Markers)
      /\ erasings <= Cardinality(Markers) /\ Cardinality(Markers) \in Nat
  BY MarkersListed
<1>4. moves <= Cardinality(Markers)
  BY <1>3 DEF MovesIn
<1>5. Len(calls) <= Cardinality(Markers) * 3
  BY <1>1, <1>3, <1>4
<1> HIDE DEF moves, writes, erasings
<1>6. \A i \in 1..writes : SetToSeq(replaced)[i] \in replaced
  BY MarkersListed DEF writes
<1>7. ASSUME NEW j \in 1..Len(calls)
      PROVE  /\ calls[j].to[1] = name
             /\ calls[j].op = "write" => calls[j].from = calls[j].to /\ calls[j].to[2] \in replaced
  <2>1. CASE j \in 1..moves
    <3>1. calls[j] = Move(<<old, SetToSeq(before)[j]>>, <<name, SetToSeq(before)[j]>>)
      BY <1>1, <2>1
    <3> QED
      BY <3>1 DEF Move
  <2>2. CASE \E i \in 1..writes : j = moves + i
    <3>1. PICK i \in 1..writes : calls[j] = Write(<<name, SetToSeq(replaced)[i]>>, secret)
      BY <1>1, <2>2
    <3> QED
      BY <1>6, <3>1 DEF Write
  <2>3. CASE \E i \in 1..erasings : j = moves + writes + i
    <3>1. PICK i \in 1..erasings : calls[j] = Erase(<<name, SetToSeq(dropped)[i]>>)
      BY <1>1, <2>3
    <3> QED
      BY <3>1 DEF Erase
  <2> QED
    BY <1>2, <2>1, <2>2, <2>3
<1>10. ASSUME NEW m \in replaced PROVE TouchedIn(calls, <<name, m>>)
  <2>1. PICK i \in 1..writes : SetToSeq(replaced)[i] = m
    BY MarkersListed DEF writes
  <2>2. moves + i \in 1..Len(calls) /\ calls[moves + i] = Write(<<name, m>>, secret)
    BY <1>1, <2>1
  <2> QED
    BY <2>2 DEF TouchedIn, Touches, Write
<1>11. ASSUME NEW m \in dropped PROVE TouchedIn(calls, <<name, m>>)
  <2>1. PICK i \in 1..erasings : SetToSeq(dropped)[i] = m
    BY MarkersListed DEF erasings
  <2>2. moves + writes + i \in 1..Len(calls) /\ calls[moves + writes + i] = Erase(<<name, m>>)
    BY <1>1, <2>1
  <2> QED
    BY <2>2 DEF TouchedIn, Touches, Erase
<1>12. ASSUME old # name, NEW m \in before PROVE TouchedIn(calls, <<old, m>>)
  <2>1. PICK i \in 1..moves : SetToSeq(before)[i] = m
    BY <1>12, MarkersListed DEF moves, MovesIn
  <2>2. i \in 1..Len(calls) /\ calls[i] = Move(<<old, m>>, <<name, m>>)
    BY <1>1, <2>1
  <2> QED
    BY <2>2 DEF TouchedIn, Touches, Move
<1>13. CallsSound(calls, name)
  BY <1>1, <1>5, <1>7 DEF CallsSound
<1>14. \A a : BringsIn(calls, a) => a[1] = name /\ a[2] \in replaced
  BY <1>7 DEF BringsIn
<1> QED
  BY <1>10, <1>11, <1>12, <1>13, <1>14 DEF ChangesTouch

(***************************************************************************)
(* The queue: what each of its operations does to what it will bring       *)
(***************************************************************************)
BringsNoMore == \A a : Brings(jobs, a)' => Brings(jobs, a)

LEMMA QueueTyped ==
    ASSUME QueueOrdered
    PROVE  /\ lastJob \in Nat /\ Len(jobs) \in Nat /\ Len(finished) \in Nat
           /\ \A i \in 1..Len(jobs) :
                /\ jobs[i] \in JobRecords /\ jobs[i].id \in Nat /\ jobs[i].owner \in Owners
                /\ jobs[i].calls \in Seq(CallRecords) /\ jobs[i].rollback \in SUBSET Markers
                /\ jobs[i].restore \in SUBSET Markers /\ JobSound(jobs[i]) /\ jobs[i].id <= lastJob
                /\ jobs[i].owner \in DOMAIN latest /\ jobs[i].id <= latest[jobs[i].owner]
           /\ \A i, k \in 1..Len(jobs) : i < k => jobs[i].id < jobs[k].id
           /\ \A k \in 1..Len(finished) :
                /\ finished[k] \in DoneRecords /\ finished[k].id \in Nat
                /\ finished[k].restore \subseteq OwnMarkers(finished[k].owner)
                /\ finished[k].id <= lastJob
                /\ \A i \in 1..Len(jobs) : finished[k].id < jobs[i].id
           /\ \A o \in DOMAIN latest : latest[o] \in Nat
<1>1. jobs \in Seq(JobRecords) /\ finished \in Seq(DoneRecords)
  BY DEF QueueOrdered
<1>2. \A i \in 1..Len(jobs) : jobs[i] \in JobRecords
  BY <1>1
<1>3. \A k \in 1..Len(finished) : finished[k] \in DoneRecords
  BY <1>1
<1>4. \A job \in JobRecords : /\ job.id \in Nat /\ job.owner \in Owners /\ job.calls \in Seq(CallRecords)
                              /\ job.rollback \in SUBSET Markers /\ job.restore \in SUBSET Markers
  BY DEF JobRecords
<1>5. \A done \in DoneRecords : done.id \in Nat
  BY DEF DoneRecords
<1> QED
  BY <1>1, <1>2, <1>3, <1>4, <1>5 DEF QueueOrdered

LEMMA Enqueued ==
    ASSUME QueueOrdered, NEW owner \in Owners, NEW calls, CallsSound(calls, owner),
           NEW restore \in SUBSET Markers, restore \subseteq OwnMarkers(owner),
           Enqueue(owner, calls, restore), UNCHANGED finished
    PROVE  /\ QueueOrdered'
           /\ \A a : Brings(jobs, a)' => BringsIn(calls, a) \/ (Brings(jobs, a) /\ ~TouchedIn(calls, a))
<1> DEFINE n == Len(jobs)
           job == [id |-> lastJob + 1, owner |-> owner, calls |-> calls,
                   rollback |-> {}, restore |-> restore, failed |-> FALSE]
<1>1. /\ lastJob \in Nat /\ jobs \in Seq(JobRecords) /\ finished \in Seq(DoneRecords) /\ n \in Nat
      /\ lastJob' = lastJob + 1 /\ latest' = With(latest, owner, lastJob + 1)
      /\ jobs' = Append(jobs, job) /\ finished' = finished
  BY DEF QueueOrdered, Enqueue
<1>2. job \in JobRecords /\ JobSound(job) /\ job.id = lastJob + 1 /\ job.owner = owner /\ job.calls = calls
  BY <1>1 DEF JobRecords, JobSound, CallsSound
<1> HIDE DEF job
<1>3. /\ jobs' \in Seq(JobRecords) /\ Len(jobs') = n + 1 /\ jobs'[n + 1] = job
      /\ \A i \in 1..n : jobs'[i] = jobs[i]
  BY <1>1, <1>2
<1>4. \A o \in DOMAIN latest' : latest'[o] = IF o = owner THEN lastJob + 1 ELSE latest[o]
  BY <1>1 DEF With
<1>5. DOMAIN latest' = DOMAIN latest \cup {owner}
  BY <1>1 DEF With
<1>6. \A i \in 1..n + 1 : i \in 1..n \/ i = n + 1
  BY <1>1
<1>7. \A i \in 1..n + 1 :
         /\ JobSound(jobs'[i]) /\ jobs'[i].id <= lastJob'
         /\ jobs'[i].owner \in DOMAIN latest' /\ jobs'[i].id <= latest'[jobs'[i].owner]
  <2>1. ASSUME NEW i \in 1..n
        PROVE  /\ JobSound(jobs[i]) /\ jobs[i].id \in Nat /\ jobs[i].id <= lastJob
               /\ jobs[i].owner \in DOMAIN latest /\ jobs[i].id <= latest[jobs[i].owner]
    BY QueueTyped
  <2> QED
    BY <1>1, <1>2, <1>3, <1>4, <1>5, <1>6, <2>1
<1>8. \A i, k \in 1..n + 1 : i < k => jobs'[i].id < jobs'[k].id
  <2>1. \A i, k \in 1..n : i < k => jobs[i].id < jobs[k].id
    BY QueueTyped
  <2>2. \A i \in 1..n : jobs[i].id <= lastJob /\ jobs[i].id \in Nat
    BY QueueTyped
  <2> QED
    BY <1>1, <1>2, <1>3, <1>6, <2>1, <2>2
<1>9. \A k \in 1..Len(finished) :
         /\ finished[k].restore \subseteq OwnMarkers(finished[k].owner)
         /\ finished[k].id <= lastJob'
         /\ \A i \in 1..n + 1 : finished[k].id < jobs'[i].id
  <2>1. \A k \in 1..Len(finished) :
          /\ finished[k].restore \subseteq OwnMarkers(finished[k].owner)
          /\ finished[k].id \in Nat /\ finished[k].id <= lastJob
          /\ \A i \in 1..n : finished[k].id < jobs[i].id
    BY QueueTyped
  <2> QED
    BY <1>1, <1>2, <1>3, <1>6, <2>1
<1>10. QueueOrdered'
  <2>1. lastJob' \in Nat /\ \A o \in DOMAIN latest' : latest'[o] \in Nat
    BY <1>1, <1>4, <1>5, QueueTyped
  <2> QED
    BY <1>1, <1>3, <1>7, <1>8, <1>9, <2>1 DEF QueueOrdered
<1>11. ASSUME NEW a, Brings(jobs', a) PROVE BringsIn(calls, a) \/ (Brings(jobs, a) /\ ~TouchedIn(calls, a))
  <2>1. PICK i \in 1..n + 1 :
          /\ BringsIn(jobs'[i].calls, a)
          /\ \A k \in 1..n + 1 : k > i => ~TouchedIn(jobs'[k].calls, a)
    BY <1>3, <1>11 DEF Brings
  <2>2. CASE i = n + 1
    BY <1>2, <1>3, <2>1, <2>2
  <2>3. CASE i \in 1..n
    <3>1. ~TouchedIn(calls, a)
      BY <1>1, <1>2, <1>3, <2>1, <2>3
    <3>2. BringsIn(jobs[i].calls, a) /\ \A k \in 1..n : k > i => ~TouchedIn(jobs[k].calls, a)
      BY <1>1, <1>3, <2>1, <2>3
    <3> QED
      BY <2>3, <3>1, <3>2 DEF Brings
  <2> QED
    BY <1>6, <2>2, <2>3
<1>12. \A a : Brings(jobs, a)' = Brings(jobs', a)
  BY DEF Brings, BringsIn, TouchedIn, Touches
<1> QED
  BY <1>10, <1>11, <1>12

LEMMA NotEnqueued ==
    ASSUME QueueOrdered, NoJob, UNCHANGED finished
    PROVE  QueueOrdered' /\ BringsNoMore
  BY DEF NoJob, QueueOrdered, BringsNoMore, Brings

(* a call is taken off the front *)
HeadTaken ==
    /\ jobs' \in Seq(JobRecords) /\ Len(jobs') = Len(jobs)
    /\ \A i \in 1..Len(jobs) :
         /\ jobs'[i].id = jobs[i].id /\ jobs'[i].owner = jobs[i].owner /\ jobs'[i].restore = jobs[i].restore
         /\ jobs'[i].calls = IF i = 1 THEN Tail(jobs[i].calls) ELSE jobs[i].calls

LEMMA HeadTakes ==
    ASSUME QueueOrdered, jobs # <<>>, jobs[1].calls # <<>>, HeadTaken,
           UNCHANGED <<lastJob, latest, finished>>
    PROVE  QueueOrdered' /\ BringsNoMore
<1> DEFINE n == Len(jobs)
           calls == jobs[1].calls
<1>1. /\ jobs \in Seq(JobRecords) /\ n \in Nat /\ 1 \in 1..n
      /\ JobSound(jobs[1]) /\ calls \in Seq(CallRecords) /\ Len(calls) \in Nat
  <2>1. jobs \in Seq(JobRecords)
    BY DEF QueueOrdered
  <2> QED
    BY <2>1, QueueTyped
<1>2. /\ Tail(calls) \in Seq(CallRecords) /\ Len(Tail(calls)) = Len(calls) - 1
      /\ \A j \in 1..Len(calls) - 1 : Tail(calls)[j] = calls[j + 1] /\ j + 1 \in 1..Len(calls)
  BY <1>1
<1>3. ASSUME NEW i \in 1..n PROVE JobSound(jobs'[i])
  <2>1. JobSound(jobs[i])
    BY DEF QueueOrdered
  <2>2. CASE i = 1
    <3>1. jobs'[1].calls = Tail(calls) /\ jobs'[1].owner = jobs[1].owner /\ jobs'[1].restore = jobs[1].restore
      BY <1>1 DEF HeadTaken
    <3>2. Cardinality(Markers) \in Nat
      BY MarkersAssumption, FS_CardinalityType
    <3> QED
      BY <1>1, <1>2, <2>2, <3>1, <3>2 DEF JobSound, CallsSound
  <2>3. CASE i # 1
    BY <2>1, <2>3 DEF HeadTaken, JobSound
  <2> QED
    BY <2>2, <2>3
<1>4. QueueOrdered'
  <2>1. /\ \A i \in 1..n : jobs[i].id <= lastJob /\ jobs[i].owner \in DOMAIN latest /\ jobs[i].id <= latest[jobs[i].owner]
        /\ \A i, k \in 1..n : i < k => jobs[i].id < jobs[k].id
        /\ \A k \in 1..Len(finished) : \A i \in 1..n : finished[k].id < jobs[i].id
    BY DEF QueueOrdered
  <2>2. /\ Len(jobs') = n
        /\ \A i \in 1..n : jobs'[i].id = jobs[i].id /\ jobs'[i].owner = jobs[i].owner
    BY DEF HeadTaken
  <2> QED
    BY <1>3, <2>1, <2>2 DEF QueueOrdered, HeadTaken
<1>5. ASSUME NEW a, TouchedIn(Tail(calls), a) PROVE TouchedIn(calls, a)
  BY <1>2, <1>5 DEF TouchedIn
<1>6. ASSUME NEW a, BringsIn(Tail(calls), a) PROVE BringsIn(calls, a)
  <2>1. PICK j \in 1..Len(calls) - 1 :
          /\ Tail(calls)[j].op = "write" /\ Tail(calls)[j].to = a
          /\ \A k \in 1..Len(calls) - 1 : k > j => ~Touches(Tail(calls)[k], a)
    BY <1>2, <1>6 DEF BringsIn
  <2>2. PICK h : h = j + 1
    OBVIOUS
  <2>3. h \in 1..Len(calls) /\ calls[h].op = "write" /\ calls[h].to = a
    BY <1>2, <2>1, <2>2
  <2>4. ASSUME NEW k \in 1..Len(calls), k > h PROVE ~Touches(calls[k], a)
    <3>1. PICK l : l = k - 1
      OBVIOUS
    <3>2. l \in 1..Len(calls) - 1 /\ l > j /\ l + 1 = k
      BY <1>1, <2>2, <2>4, <3>1
    <3> QED
      BY <1>2, <2>1, <3>2
  <2> QED
    BY <2>3, <2>4 DEF BringsIn
<1>7. ASSUME NEW a, Brings(jobs', a) PROVE Brings(jobs, a)
  <2>1. PICK i \in 1..n :
          /\ BringsIn(jobs'[i].calls, a)
          /\ \A k \in 1..n : k > i => ~TouchedIn(jobs'[k].calls, a)
    BY <1>7 DEF Brings, HeadTaken
  <2>2. BringsIn(jobs[i].calls, a)
    BY <1>6, <2>1 DEF HeadTaken
  <2>3. \A k \in 1..n : k > i => jobs'[k].calls = jobs[k].calls
    BY DEF HeadTaken
  <2> QED
    BY <2>1, <2>2, <2>3 DEF Brings
<1>8. \A a : Brings(jobs, a)' = Brings(jobs', a)
  BY DEF Brings, BringsIn, TouchedIn, Touches
<1> QED
  BY <1>4, <1>7, <1>8 DEF BringsNoMore

LEMMA JobEndsOrdered ==
    ASSUME QueueOrdered, JobEnds
    PROVE  QueueOrdered' /\ BringsNoMore
<1> DEFINE n == Len(jobs)
           m == Len(finished)
           done == [id |-> jobs[1].id, owner |-> jobs[1].owner, rollback |-> jobs[1].rollback,
                    restore |-> IF jobs[1].failed THEN jobs[1].restore ELSE {}]
<1>1. /\ jobs \in Seq(JobRecords) /\ n \in Nat /\ 1 \in 1..n /\ jobs[1] \in JobRecords
      /\ finished \in Seq(DoneRecords) /\ m \in Nat
      /\ jobs' = Tail(jobs) /\ finished' = Append(finished, done)
      /\ lastJob' = lastJob /\ latest' = latest
  BY DEF QueueOrdered, JobEnds
<1>2. done \in DoneRecords /\ done.restore \subseteq OwnMarkers(done.owner) /\ done.id = jobs[1].id
  BY <1>1 DEF QueueOrdered, JobSound, JobRecords, DoneRecords
<1> HIDE DEF done
<1>3. /\ jobs' \in Seq(JobRecords) /\ Len(jobs') = n - 1
      /\ \A i \in 1..n - 1 : jobs'[i] = jobs[i + 1] /\ i + 1 \in 1..n
  BY <1>1
<1>4. /\ finished' \in Seq(DoneRecords) /\ Len(finished') = m + 1 /\ finished'[m + 1] = done
      /\ \A k \in 1..m : finished'[k] = finished[k]
  BY <1>1, <1>2
<1>5. /\ lastJob \in Nat
      /\ \A i \in 1..n : /\ JobSound(jobs[i]) /\ jobs[i].id <= lastJob
                         /\ jobs[i].owner \in DOMAIN latest /\ jobs[i].id <= latest[jobs[i].owner]
      /\ \A i, k \in 1..n : i < k => jobs[i].id < jobs[k].id
      /\ \A k \in 1..m : /\ finished[k].restore \subseteq OwnMarkers(finished[k].owner)
                         /\ finished[k].id <= lastJob
                         /\ \A i \in 1..n : finished[k].id < jobs[i].id
      /\ \A o \in DOMAIN latest : latest[o] \in Nat
  BY DEF QueueOrdered
<1>6. \A i \in 1..n - 1 : /\ JobSound(jobs'[i]) /\ jobs'[i].id <= lastJob
                          /\ jobs'[i].owner \in DOMAIN latest /\ jobs'[i].id <= latest[jobs'[i].owner]
  BY <1>3, <1>5
<1>7. ASSUME NEW i \in 1..n - 1, NEW k \in 1..n - 1, i < k PROVE jobs'[i].id < jobs'[k].id
  <2>1. i + 1 \in 1..n /\ k + 1 \in 1..n /\ i + 1 < k + 1
    BY <1>1, <1>7
  <2>2. jobs[i + 1].id < jobs[k + 1].id
    BY <1>5, <2>1
  <2> QED
    BY <1>3, <2>2
<1>8. ASSUME NEW k \in 1..m + 1
      PROVE  /\ finished'[k].restore \subseteq OwnMarkers(finished'[k].owner)
             /\ finished'[k].id <= lastJob
             /\ \A i \in 1..n - 1 : finished'[k].id < jobs'[i].id
  <2>1. CASE k \in 1..m
    BY <1>3, <1>4, <1>5, <2>1
  <2>2. CASE k = m + 1
    <3>1. ASSUME NEW i \in 1..n - 1 PROVE jobs[1].id < jobs'[i].id
      <4>1. PICK h : h = i + 1
        OBVIOUS
      <4>2. h \in 1..n /\ 1 < h
        BY <1>1, <4>1
      <4>3. jobs[1].id < jobs[h].id
        BY <1>1, <1>5, <4>2
      <4> QED
        BY <1>3, <4>1, <4>3
    <3> QED
      BY <1>1, <1>2, <1>4, <1>5, <2>2, <3>1
  <2> QED
    BY <1>1, <2>1, <2>2
<1>9. QueueOrdered'
  BY <1>1, <1>3, <1>4, <1>5, <1>6, <1>7, <1>8 DEF QueueOrdered
<1>10. ASSUME NEW a, Brings(jobs', a) PROVE Brings(jobs, a)
  <2>1. PICK i \in 1..n - 1 :
          /\ BringsIn(jobs'[i].calls, a)
          /\ \A k \in 1..n - 1 : k > i => ~TouchedIn(jobs'[k].calls, a)
    BY <1>3, <1>10 DEF Brings
  <2>2. PICK h : h = i + 1
    OBVIOUS
  <2>3. h \in 1..n /\ BringsIn(jobs[h].calls, a)
    BY <1>3, <2>1, <2>2
  <2>4. ASSUME NEW k \in 1..n, k > h PROVE ~TouchedIn(jobs[k].calls, a)
    <3>1. PICK l : l = k - 1
      OBVIOUS
    <3>2. l \in 1..n - 1 /\ l > i /\ l + 1 = k
      BY <1>1, <2>2, <2>4, <3>1
    <3> QED
      BY <1>3, <2>1, <3>2
  <2> QED
    BY <2>3, <2>4 DEF Brings
<1>11. \A a : Brings(jobs, a)' = Brings(jobs', a)
  BY DEF Brings, BringsIn, TouchedIn, Touches
<1> QED
  BY <1>9, <1>10, <1>11 DEF BringsNoMore

(* finish_keyring_job: the latest job of an owner is not queued any more   *)
LEMMA FinishOrdered ==
    ASSUME QueueOrdered, FinishJob
    PROVE  /\ QueueOrdered' /\ BringsNoMore /\ finished[1].restore \subseteq OwnMarkers(finished[1].owner)
           /\ finished[1] \in DoneRecords
           /\ finished[1].owner \in DOMAIN latest /\ latest[finished[1].owner] = finished[1].id =>
                \A i \in 1..Len(jobs) : jobs[i].owner # finished[1].owner
<1> DEFINE n == Len(jobs)
           m == Len(finished)
           done == finished[1]
           last == done.owner \in DOMAIN latest /\ latest[done.owner] = done.id
<1>1. /\ finished \in Seq(DoneRecords) /\ m \in Nat /\ 1 \in 1..m
      /\ jobs \in Seq(JobRecords) /\ n \in Nat
      /\ finished' = Tail(finished) /\ jobs' = jobs /\ lastJob' = lastJob
      /\ latest' = IF last THEN Without(latest, {done.owner}) ELSE latest
  <2>1. finished \in Seq(DoneRecords) /\ jobs \in Seq(JobRecords) /\ finished # <<>>
    BY DEF QueueOrdered, FinishJob
  <2>2. Head(finished) = finished[1] /\ 1 \in 1..m /\ m \in Nat /\ n \in Nat
    BY <2>1
  <2> QED
    BY <2>1, <2>2 DEF FinishJob
<1>2. /\ done \in DoneRecords /\ lastJob \in Nat
      /\ \A i \in 1..n : /\ JobSound(jobs[i]) /\ jobs[i].id <= lastJob /\ jobs[i].id \in Nat
                         /\ jobs[i].owner \in DOMAIN latest /\ jobs[i].id <= latest[jobs[i].owner]
      /\ \A k \in 1..m : /\ finished[k].restore \subseteq OwnMarkers(finished[k].owner)
                         /\ finished[k].id <= lastJob
                         /\ \A i \in 1..n : finished[k].id < jobs[i].id
      /\ \A o \in DOMAIN latest : latest[o] \in Nat
  BY <1>1, QueueTyped
<1>3. ASSUME last, NEW i \in 1..n PROVE jobs[i].owner # done.owner
  <2>1. done.id < jobs[i].id /\ done.id \in Nat
    BY <1>1, <1>2 DEF DoneRecords
  <2> QED
    BY <1>2, <1>3, <2>1
<1>4. /\ finished' \in Seq(DoneRecords) /\ Len(finished') = m - 1
      /\ \A k \in 1..m - 1 : finished'[k] = finished[k + 1] /\ k + 1 \in 1..m
  BY <1>1
<1>5. \A i \in 1..n : jobs[i].owner \in DOMAIN latest' /\ jobs[i].id <= latest'[jobs[i].owner]
  BY <1>1, <1>2, <1>3 DEF Without
<1>6. \A o \in DOMAIN latest' : latest'[o] \in Nat
  BY <1>1, <1>2 DEF Without
<1>7. \A k \in 1..m - 1 : /\ finished'[k].restore \subseteq OwnMarkers(finished'[k].owner)
                          /\ finished'[k].id <= lastJob
                          /\ \A i \in 1..n : finished'[k].id < jobs[i].id
  BY <1>2, <1>4
<1>8. QueueOrdered'
  BY <1>1, <1>2, <1>4, <1>5, <1>6, <1>7 DEF QueueOrdered
<1> QED
  BY <1>1, <1>2, <1>3, <1>8 DEF BringsNoMore, Brings

(***************************************************************************)
(* The steps                                                               *)
(***************************************************************************)
LEMMA AccountPairs ==
    ASSUME NEW a \in AllAccounts
    PROVE  a = <<a[1], a[2]>> /\ a[1] \in Owners /\ a[2] \in Markers
  BY DEF AllAccounts, Owners

(* sound markers, and m with those of one owner set *)
MarksSound(m) ==
    /\ DOMAIN m \subseteq Owners /\ Aliases \subseteq DOMAIN m
    /\ \A o \in DOMAIN m : m[o] \subseteq OwnMarkers(o)

MarksSet(r, m, owner, markers) ==
    /\ DOMAIN r = DOMAIN m \cup {owner}
    /\ r = [o \in DOMAIN r |-> r[o]]
    /\ r[owner] = markers /\ \A o \in DOMAIN m \ {owner} : r[o] = m[o]

LEMMA WithMarks ==
    ASSUME NEW m, MarksSound(m), NEW owner \in Owners, NEW markers, markers \subseteq OwnMarkers(owner)
    PROVE  MarksSound(With(m, owner, markers)) /\ MarksSet(With(m, owner, markers), m, owner, markers)
  BY DEF With, MarksSound, MarksSet

(* what is yet to be brought stays marked, if nobody takes markers away *)
LEMMA BringingStays ==
    ASSUME Bringing, BringsNoMore, strays \subseteq strays', Available' => Available,
           \A o \in DOMAIN marks : o \in DOMAIN marks' /\ marks[o] \subseteq marks'[o]
    PROVE  Bringing'
<1>1. AllAccounts' = AllAccounts
  BY DEF AllAccounts
<1> QED
  BY <1>1 DEF Bringing, BringsNoMore

LEMMA SameMarks ==
    ASSUME MarkersIInv, QueueOrdered', BringsNoMore, marks' = marks, typed' = typed,
           strays \subseteq strays', Available' => Available
    PROVE  MarkersIInv'
<1>1. Bringing'
  BY BringingStays DEF MarkersIInv
<1>2. MarksOK'
  BY DEF MarkersIInv, MarksOK
<1> QED
  BY <1>1, <1>2 DEF MarkersIInv

(* a job is queued: what it brings, and what it does not touch, is marked  *)
LEMMA EnqueuedKeeps ==
    ASSUME MarkersIInv, MarksOK', NEW owner \in Owners, NEW calls, CallsSound(calls, owner),
           NEW restore \in SUBSET Markers, restore \subseteq OwnMarkers(owner),
           Enqueue(owner, calls, restore), UNCHANGED <<finished, available>>, strays \subseteq strays',
           \A a \in AllAccounts \ strays' :
             /\ BringsIn(calls, a) => a[1] \in DOMAIN marks' /\ a[2] \in marks'[a[1]]
             /\ a[1] \in DOMAIN marks /\ a[2] \in marks[a[1]] /\ ~TouchedIn(calls, a)
                  => a[1] \in DOMAIN marks' /\ a[2] \in marks'[a[1]]
    PROVE  MarkersIInv'
<1>1. /\ QueueOrdered'
      /\ \A a : Brings(jobs, a)' => BringsIn(calls, a) \/ (Brings(jobs, a) /\ ~TouchedIn(calls, a))
  BY Enqueued DEF MarkersIInv
<1>2. AllAccounts' = AllAccounts /\ Available' = Available
  BY DEF AllAccounts, Available
<1>3. Bringing'
  BY <1>1, <1>2 DEF Bringing, MarkersIInv
<1> QED
  BY <1>1, <1>3 DEF MarkersIInv

(* no job is queued, when nobody asks for one: nothing that is to be       *)
(* brought loses its marker                                                *)
LEMMA NoJobKeeps ==
    ASSUME MarkersIInv, MarksOK', NoJob, UNCHANGED <<finished, available>>, strays \subseteq strays',
           Available => \A a \in AllAccounts \ strays' :
                          a[1] \in DOMAIN marks /\ a[2] \in marks[a[1]]
                            => a[1] \in DOMAIN marks' /\ a[2] \in marks'[a[1]]
    PROVE  MarkersIInv'
<1>1. QueueOrdered' /\ BringsNoMore
  BY NotEnqueued DEF MarkersIInv
<1>2. AllAccounts' = AllAccounts /\ Available' = Available
  BY DEF AllAccounts, Available
<1>3. Bringing'
  BY <1>1, <1>2 DEF Bringing, BringsNoMore, MarkersIInv
<1> QED
  BY <1>1, <1>3 DEF MarkersIInv

LEMMA OneCall ==
    ASSUME NEW call \in CallRecords, NEW owner, call.to[1] = owner,
           call.op = "write" => call.from = call.to
    PROVE  /\ CallsSound(<<call>>, owner)
           /\ \A a : TouchedIn(<<call>>, a) <=> Touches(call, a)
           /\ \A a : BringsIn(<<call>>, a) <=> call.op = "write" /\ call.to = a
<1>1. Cardinality(Markers) \in Nat /\ Cardinality(Markers) # 0
  BY MarkersAssumption, FS_CardinalityType, FS_EmptySet
<1>2. <<call>> \in Seq(CallRecords) /\ Len(<<call>>) = 1 /\ <<call>>[1] = call
  OBVIOUS
<1>3. 1 <= Cardinality(Markers) * 3
  BY <1>1
<1>4. \A j : j \in 1..1 <=> j = 1
  OBVIOUS
<1> HIDE DEF CallRecords
<1> QED
  BY <1>2, <1>3, <1>4 DEF CallsSound, TouchedIn, BringsIn

LEMMA SaveProfileKeeps ==
    ASSUME MarkersIInv, NEW original \in Profiles, NEW name \in Profiles,
           NEW edit \in [Markers -> {"Keep", "Clear", "Replace"}], SaveProfile(original, name, edit)
    PROVE  MarkersIInv'
<1> DEFINE before == MarkersOf(original)
           kept == Kept(before, edit)
           replaced == Replaced(edit)
           dropped == Dropped(before, kept, replaced)
           saved == With(Without(marks, {original}), name, kept)
           calls == ChangeCalls(name, original, before, replaced, dropped, typed + 1)
           queued == Available /\ ((original # name /\ before # {}) \/ replaced # {} \/ dropped # {})
<1>1. /\ MarksOK /\ typed \in Nat /\ original \in Owners /\ name \in Owners
      /\ OwnMarkers(original) = Markers /\ OwnMarkers(name) = Markers
  BY OwnersAssumption DEF MarkersIInv, MarksOK, Owners, OwnMarkers
<1>2. /\ before \in SUBSET Markers /\ kept \in SUBSET before /\ replaced \in SUBSET Markers
      /\ dropped \in SUBSET before /\ before \subseteq kept \cup replaced \cup dropped
  BY <1>1 DEF MarksOK, MarkersOf, Kept, Replaced, Dropped
<1>3. /\ name \in DOMAIN marks => name = original
      /\ typed' \in Nat /\ UNCHANGED <<finished, available, strays>>
      /\ IF queued THEN marks' = Marked(saved, name, kept \cup replaced) /\ Enqueue(name, calls, {})
                   ELSE marks' = saved /\ NoJob
  BY <1>1 DEF SaveProfile, ApplySecretChanges
<1> HIDE DEF before, kept, replaced, dropped, queued
<1>4. /\ DOMAIN Without(marks, {original}) = DOMAIN marks \ {original}
      /\ Aliases \subseteq DOMAIN Without(marks, {original})
      /\ \A o \in DOMAIN marks \ {original} : Without(marks, {original})[o] = marks[o]
  BY <1>1, OwnersAssumption DEF MarksOK, Without
<1>5. /\ DOMAIN saved = (DOMAIN marks \ {original}) \cup {name} /\ Aliases \subseteq DOMAIN saved
      /\ saved = [o \in DOMAIN saved |-> saved[o]]
      /\ saved[name] = kept /\ \A o \in DOMAIN marks \ {original, name} : saved[o] = marks[o]
      /\ \A o \in DOMAIN saved : saved[o] \subseteq OwnMarkers(o)
  <2> DEFINE others == Without(marks, {original})
  <2>1. MarksSound(others) /\ kept \subseteq OwnMarkers(name)
    BY <1>1, <1>2, <1>4 DEF MarksOK, MarksSound
  <2> HIDE DEF others
  <2>2. MarksSound(With(others, name, kept)) /\ MarksSet(With(others, name, kept), others, name, kept)
    BY <1>1, <2>1, WithMarks
  <2>3. MarksSound(saved) /\ MarksSet(saved, others, name, kept)
    BY <2>2 DEF others
  <2> QED
    BY <1>4, <2>3 DEF others, MarksSound, MarksSet
<1> HIDE DEF saved
<1>6. DOMAIN saved \subseteq Owners
  BY <1>1, <1>5 DEF MarksOK
<1>7. CASE queued
  <2>1. marks' = With(saved, name, kept \cup replaced)
    BY <1>3, <1>5, <1>7 DEF Marked
  <2>2. /\ DOMAIN marks' = DOMAIN saved /\ Aliases \subseteq DOMAIN marks'
        /\ marks' = [o \in DOMAIN marks' |-> marks'[o]]
        /\ marks'[name] = kept \cup replaced /\ \A o \in DOMAIN saved \ {name} : marks'[o] = saved[o]
        /\ \A o \in DOMAIN marks' : marks'[o] \subseteq OwnMarkers(o)
    <3>1. MarksSound(saved) /\ kept \cup replaced \subseteq OwnMarkers(name)
      BY <1>1, <1>2, <1>5, <1>6 DEF MarksSound
    <3>2. /\ MarksSound(With(saved, name, kept \cup replaced))
          /\ MarksSet(With(saved, name, kept \cup replaced), saved, name, kept \cup replaced)
      BY <1>1, <3>1, WithMarks
    <3> QED
      BY <1>5, <2>1, <3>2 DEF MarksSound, MarksSet
  <2>3. MarksOK'
    BY <1>3, <1>6, <2>2 DEF MarksOK, OwnMarkers
  <2>4. /\ CallsSound(calls, name)
        /\ \A a : BringsIn(calls, a) => a[1] = name /\ a[2] \in replaced
        /\ \A m \in replaced \cup dropped : TouchedIn(calls, <<name, m>>)
        /\ original # name => \A m \in before : TouchedIn(calls, <<original, m>>)
    <3>1. dropped \in SUBSET Markers /\ typed + 1 \in Nat
      BY <1>1, <1>2
    <3>2. PICK cs : cs = ChangeCalls(name, original, before, replaced, dropped, typed + 1)
      OBVIOUS
    <3>3. CallsSound(cs, name) /\ ChangesTouch(cs, name, original, before, replaced, dropped)
      BY ONLY <1>1, <1>2, <3>1, <3>2, ChangeCallsTouch
    <3> QED
      BY <3>2, <3>3 DEF ChangesTouch
  <2> HIDE DEF calls
  <2>5. ASSUME NEW a \in AllAccounts, a[1] \in DOMAIN marks, a[2] \in marks[a[1]], ~TouchedIn(calls, a)
        PROVE  a[1] \in DOMAIN marks' /\ a[2] \in marks'[a[1]]
    <3>1. a = <<a[1], a[2]>>
      BY AccountPairs
    <3>2. CASE a[1] = original
      <4>1. a[2] \in before
        BY <2>5, <3>2 DEF before, MarkersOf
      <4>2. original = name
        BY <2>4, <2>5, <3>1, <3>2, <4>1
      <4>3. a[2] \in kept
        BY <1>2, <2>4, <2>5, <3>1, <3>2, <4>1, <4>2
      <4> QED
        BY <1>5, <2>2, <3>2, <4>2, <4>3
    <3>3. CASE a[1] # original
      BY <1>3, <1>5, <2>2, <2>5, <3>3
    <3> QED
      BY <3>2, <3>3
  <2>6. \A a : BringsIn(calls, a) => a[1] \in DOMAIN marks' /\ a[2] \in marks'[a[1]]
    BY <1>5, <2>2, <2>4
  <2> QED
    BY <1>1, <1>3, <1>7, <2>3, <2>4, <2>5, <2>6, EnqueuedKeeps
<1>8. CASE ~queued
  <2>1. marks' = saved /\ NoJob
    BY <1>3, <1>8
  <2>2. MarksOK'
    BY <1>3, <1>5, <1>6, <2>1 DEF MarksOK, OwnMarkers
  <2>3. ASSUME Available, NEW a \in AllAccounts, a[1] \in DOMAIN marks, a[2] \in marks[a[1]]
        PROVE  a[1] \in DOMAIN marks' /\ a[2] \in marks'[a[1]]
    <3>1. CASE a[1] = original
      <4>1. a[2] \in before
        BY <2>3, <3>1 DEF before, MarkersOf
      <4>2. original = name /\ a[2] \in kept
        BY <1>2, <1>8, <2>3, <4>1 DEF queued
      <4> QED
        BY <1>5, <2>1, <3>1, <4>2
    <3>2. CASE a[1] # original
      BY <1>3, <1>5, <2>1, <2>3, <3>2
    <3> QED
      BY <3>1, <3>2
  <2> QED
    BY <1>3, <2>1, <2>2, <2>3, NoJobKeeps
<1> QED
  BY <1>7, <1>8

LEMMA SaveFailsKeeps ==
    ASSUME MarkersIInv, NEW original \in Profiles, NEW name \in Profiles, SaveFails(original, name)
    PROVE  MarkersIInv'
<1>1. /\ marks' = Without(marks, {original}) /\ strays' = strays \cup Accounts(original)
      /\ UNCHANGED <<jobs, lastJob, latest, finished, available, typed>>
  BY DEF SaveFails
<1>2. MarksOK'
  BY <1>1, OwnersAssumption DEF MarkersIInv, MarksOK, Without, OwnMarkers, Owners
<1>3. \A a \in AllAccounts \ strays' :
        a[1] \in DOMAIN marks /\ a[2] \in marks[a[1]] => a[1] \in DOMAIN marks' /\ a[2] \in marks'[a[1]]
  BY <1>1, AccountPairs DEF Without, Accounts
<1> QED
  BY <1>1, <1>2, <1>3, NoJobKeeps DEF NoJob

(* forget_profile_secrets erases what was marked *)
LEMMA ErasingsTouch ==
    ASSUME NEW name \in Owners, NEW saved \in SUBSET Markers, NEW calls,
           calls = [i \in DOMAIN SetToSeq(saved) |-> Erase(<<name, SetToSeq(saved)[i]>>)]
    PROVE  CallsSound(calls, name) /\ ChangesTouch(calls, name, name, {}, {}, saved)
<1> DEFINE n == Cardinality(saved)
<1>1. /\ n \in Nat /\ Cardinality(Markers) \in Nat /\ n <= Cardinality(Markers)
      /\ SetToSeq(saved) \in [1..n -> saved]
      /\ \A m \in saved : \E i \in 1..n : SetToSeq(saved)[i] = m
  BY MarkersListed
<1>2. \A i \in 1..n : SetToSeq(saved)[i] \in Markers
  BY <1>1
<1>3. \A i \in 1..n : Erase(<<name, SetToSeq(saved)[i]>>) \in CallRecords
  BY <1>2, CallsTyped
<1>4. \A i \in 1..n : calls[i] = Erase(<<name, SetToSeq(saved)[i]>>)
  BY <1>1
<1>5. calls \in [1..n -> CallRecords]
  BY <1>1, <1>3, <1>4
<1>6. calls \in Seq(CallRecords) /\ Len(calls) = n
  BY <1>1, <1>5, ListIsSeq
<1>7. ASSUME NEW i \in 1..n
      PROVE  calls[i].to = <<name, SetToSeq(saved)[i]>> /\ calls[i].op = "erase"
  <2>1. calls[i] = Erase(<<name, SetToSeq(saved)[i]>>)
    BY <1>4
  <2>2. Erase(<<name, SetToSeq(saved)[i]>>).to = <<name, SetToSeq(saved)[i]>> /\ Erase(<<name, SetToSeq(saved)[i]>>).op = "erase"
    BY ONLY DEF Erase
  <2> QED
    BY ONLY <2>1, <2>2
<1>8. CallsSound(calls, name)
  <2>1. \A i \in 1..n : calls[i].to[1] = name /\ calls[i].op # "write"
    BY <1>7
  <2>2. n <= Cardinality(Markers) * 3
    BY <1>1
  <2> QED
    BY <1>6, <2>1, <2>2 DEF CallsSound
<1>9. ASSUME NEW m \in saved PROVE TouchedIn(calls, <<name, m>>)
  BY <1>1, <1>6, <1>7 DEF TouchedIn, Touches
<1>10. \A a : ~BringsIn(calls, a)
  BY <1>6, <1>7 DEF BringsIn
<1> QED
  BY <1>8, <1>9, <1>10 DEF ChangesTouch

LEMMA DeleteProfileKeeps ==
    ASSUME MarkersIInv, NEW name \in Profiles, DeleteProfile(name)
    PROVE  MarkersIInv'
<1> DEFINE saved == marks[name]
           calls == [i \in DOMAIN SetToSeq(saved) |-> Erase(<<name, SetToSeq(saved)[i]>>)]
<1>1. /\ MarksOK /\ name \in DOMAIN marks /\ name \in Owners /\ name \notin Aliases
      /\ saved \in SUBSET Markers
  BY OwnersAssumption DEF DeleteProfile, MarkersIInv, MarksOK, Owners, OwnMarkers
<1>2. /\ marks' = Without(marks, {name}) /\ UNCHANGED <<finished, available, typed, strays>>
      /\ IF saved = {} \/ ~Available THEN NoJob ELSE Enqueue(name, calls, {})
  BY DEF DeleteProfile, ForgetProfileSecrets
<1>3. MarksOK'
  BY <1>1, <1>2 DEF MarksOK, Without
<1>4. \A o \in DOMAIN marks \ {name} : o \in DOMAIN marks' /\ marks'[o] = marks[o]
  BY <1>2 DEF Without
<1>5. CallsSound(calls, name) /\ ChangesTouch(calls, name, name, {}, {}, saved)
  BY <1>1, ErasingsTouch
<1> HIDE DEF calls
<1>6. CASE saved = {} \/ ~Available
  BY <1>1, <1>2, <1>3, <1>4, <1>6, NoJobKeeps
<1>7. CASE ~(saved = {} \/ ~Available)
  <2>1. ASSUME NEW a \in AllAccounts, a[1] \in DOMAIN marks, a[2] \in marks[a[1]], ~TouchedIn(calls, a)
        PROVE  a[1] \in DOMAIN marks' /\ a[2] \in marks'[a[1]]
    <3>1. a = <<a[1], a[2]>>
      BY AccountPairs
    <3>2. a[1] # name
      BY <1>5, <2>1, <3>1 DEF ChangesTouch
    <3> QED
      BY <1>4, <2>1, <3>2
  <2>2. \A a : ~BringsIn(calls, a)
    BY <1>5 DEF ChangesTouch
  <2> QED
    BY <1>1, <1>2, <1>3, <1>5, <1>7, <2>1, <2>2, EnqueuedKeeps
<1> QED
  BY <1>6, <1>7

LEMMA PasswordIs ==
    ASSUME NEW owner \in Owners
    PROVE  /\ Password(owner) \in AllAccounts /\ Password(owner)[1] = owner /\ Password(owner)[2] = "password"
           /\ \A a \in AllAccounts : a[1] = owner /\ a[2] = "password" => a = Password(owner)
  BY MarkersAssumption, AccountPairs DEF Password, AllAccounts, Owners

LEMMA MoveSshLabelsKeeps ==
    ASSUME MarkersIInv, NEW from \in Aliases, NEW to \in Aliases, MoveSshLabels(from, to)
    PROVE  MarkersIInv'
<1> DEFINE call == Move(Password(from), Password(to))
<1>1. /\ MarksOK /\ from \in Owners /\ to \in Owners /\ from # to
      /\ from \in DOMAIN marks /\ to \in DOMAIN marks
      /\ marks' = [marks EXCEPT ![from] = {}, ![to] = marks[from]]
      /\ UNCHANGED <<finished, available, typed>>
  BY DEF MoveSshLabels, MarkersIInv, MarksOK, Owners
<1>2. /\ DOMAIN marks' = DOMAIN marks /\ marks'[from] = {} /\ marks'[to] = marks[from]
      /\ \A o \in DOMAIN marks \ {from, to} : marks'[o] = marks[o]
  BY <1>1
<1>3. MarksOK'
  BY <1>1, <1>2 DEF MarksOK, OwnMarkers
<1>4. \A o \in {from, to} : marks[o] \subseteq {"password"}
  BY <1>1 DEF MarksOK, OwnMarkers
<1>5. \A a \in AllAccounts : a[1] \in {from, to} /\ a[2] \in marks[a[1]] => a = Password(from) \/ a = Password(to)
  BY <1>1, <1>4, PasswordIs
<1>6. CASE marks[from] = {}
  <2>1. NoJob /\ strays' = IF marks[to] # {} THEN strays \cup {Password(to)} ELSE strays
    BY <1>6 DEF MoveSshLabels
  <2>2. ASSUME NEW a \in AllAccounts \ strays', a[1] \in DOMAIN marks, a[2] \in marks[a[1]]
        PROVE  a[1] \in DOMAIN marks' /\ a[2] \in marks'[a[1]]
    <3>1. a[1] # from
      BY <1>6, <2>2
    <3>2. a[1] # to
      <4>1. SUFFICES ASSUME a[1] = to PROVE FALSE
        OBVIOUS
      <4>2. a[2] = "password" /\ a = Password(to)
        BY <1>1, <1>4, <2>2, <4>1, PasswordIs
      <4> QED
        BY <2>1, <2>2, <4>1, <4>2
    <3> QED
      BY <1>2, <2>2, <3>1, <3>2
  <2> QED
    BY <1>1, <1>3, <2>1, <2>2, NoJobKeeps
<1>7. CASE marks[from] # {}
  <2>1. strays' = strays /\ IF Available THEN Enqueue(to, <<call>>, {}) ELSE NoJob
    BY <1>7 DEF MoveSshLabels, MoveSshPassword
  <2>2. CASE ~Available
    BY <1>1, <1>3, <2>1, <2>2, NoJobKeeps
  <2>3. CASE Available
    <3>1. call \in CallRecords /\ call.to = Password(to) /\ call.from = Password(from) /\ call.op = "move"
      BY <1>1, PasswordIs DEF Move, CallRecords
    <3>2. call.to[1] = to
      BY <1>1, <3>1, PasswordIs
    <3> HIDE DEF call
    <3>3. /\ CallsSound(<<call>>, to)
          /\ \A a : TouchedIn(<<call>>, a) <=> Touches(call, a)
          /\ \A a : ~BringsIn(<<call>>, a)
      BY <3>1, <3>2, OneCall
    <3>4. ASSUME NEW a \in AllAccounts, a[1] \in DOMAIN marks, a[2] \in marks[a[1]], ~TouchedIn(<<call>>, a)
          PROVE  a[1] \in DOMAIN marks' /\ a[2] \in marks'[a[1]]
      <4>1. a[1] \notin {from, to}
        BY <1>5, <3>1, <3>3, <3>4 DEF Touches
      <4> QED
        BY <1>2, <3>4, <4>1
    <3> QED
      BY <1>1, <1>3, <2>1, <2>3, <3>3, <3>4, EnqueuedKeeps
  <2> QED
    BY <2>2, <2>3
<1> QED
  BY <1>6, <1>7

LEMMA DropKeeps ==
    ASSUME MarkersIInv, NEW alias \in Aliases, NEW left, left \in {marks, [marks EXCEPT ![alias] = {}]},
           NEW keepRecord \in BOOLEAN, DropSshPassword(alias, marks[alias], left, keepRecord)
    PROVE  MarkersIInv'
<1> DEFINE saved == marks[alias]
           call == Erase(Password(alias))
<1>1. /\ MarksOK /\ alias \in Owners /\ alias \in DOMAIN marks /\ saved \subseteq {"password"}
      /\ OwnMarkers(alias) = {"password"} /\ saved \in SUBSET Markers
      /\ UNCHANGED <<finished, available, typed, strays>>
  BY MarkersAssumption DEF DropSshPassword, MarkersIInv, MarksOK, Owners, OwnMarkers
<1>2. CASE saved = {} \/ ~Available
  <2>1. marks' = left /\ NoJob
    BY <1>2 DEF DropSshPassword
  <2>2. DOMAIN marks' = DOMAIN marks /\ \A o \in DOMAIN marks \ {alias} : marks'[o] = marks[o]
    BY <2>1
  <2>3. marks'[alias] \in {saved, {}}
    BY <1>1, <2>1
  <2>4. MarksOK'
    BY <1>1, <2>1, <2>2, <2>3 DEF MarksOK
  <2>5. Available => marks'[alias] = saved
    BY <1>2, <2>3
  <2> QED
    BY <1>1, <2>1, <2>2, <2>4, <2>5, NoJobKeeps
<1>3. CASE ~(saved = {} \/ ~Available)
  <2>1. /\ marks' = [left EXCEPT ![alias] = {}]
        /\ Enqueue(alias, <<call>>, IF keepRecord THEN saved ELSE {})
    BY <1>3 DEF DropSshPassword
  <2>2. /\ DOMAIN marks' = DOMAIN marks /\ \A o \in DOMAIN marks \ {alias} : marks'[o] = marks[o]
        /\ marks'[alias] = {}
    BY <1>1, <2>1
  <2>3. MarksOK'
    BY <1>1, <2>1, <2>2 DEF MarksOK
  <2>4. call \in CallRecords /\ call.to = Password(alias) /\ call.from = Password(alias) /\ call.op = "erase"
    BY <1>1, PasswordIs DEF Erase, CallRecords
  <2>5. call.to[1] = alias
    BY <1>1, <2>4, PasswordIs
  <2> HIDE DEF call
  <2>6. /\ CallsSound(<<call>>, alias)
        /\ \A a : TouchedIn(<<call>>, a) <=> Touches(call, a)
        /\ \A a : ~BringsIn(<<call>>, a)
    BY <2>4, <2>5, OneCall
  <2>7. ASSUME NEW a \in AllAccounts, a[1] \in DOMAIN marks, a[2] \in marks[a[1]], ~TouchedIn(<<call>>, a)
        PROVE  a[1] \in DOMAIN marks' /\ a[2] \in marks'[a[1]]
    <3>1. a[1] # alias
      BY <1>1, <2>4, <2>6, <2>7, PasswordIs DEF Touches
    <3> QED
      BY <2>2, <2>7, <3>1
  <2>8. PICK restore : restore = IF keepRecord THEN saved ELSE {}
    OBVIOUS
  <2>9. restore \in SUBSET Markers /\ restore \subseteq OwnMarkers(alias)
    BY <1>1, <2>8
  <2> QED
    BY <1>1, <2>1, <2>3, <2>6, <2>7, <2>8, <2>9, EnqueuedKeeps
<1> QED
  BY <1>2, <1>3

(* keep_typed_password: a profile that was deleted meanwhile gets no marker,*)
(* and its secret is a stray                                               *)
LEMMA EndConnectKeeps ==
    ASSUME MarkersIInv, NEW owner \in Owners, EndConnect(owner)
    PROVE  MarkersIInv'
<1> DEFINE call == Write(Password(owner), typed + 1)
<1>1. MarksOK /\ typed \in Nat /\ UNCHANGED <<finished, available>>
  BY DEF EndConnect, MarkersIInv, MarksOK
<1>2. CASE UNCHANGED <<marks, strays>> /\ NoJob /\ typed' \in {typed, typed + 1}
  <2>1. MarksOK'
    BY <1>1, <1>2 DEF MarksOK
  <2> QED
    BY <1>1, <1>2, <2>1, NoJobKeeps
<1>3. CASE /\ Available /\ typed' = typed + 1 /\ marks' = Added(owner, "password")
           /\ strays' = IF owner \in DOMAIN marks THEN strays ELSE strays \cup {Password(owner)}
           /\ Enqueue(owner, <<call>>, {})
  <2>1. /\ DOMAIN marks' = DOMAIN marks
        /\ \A o \in DOMAIN marks : marks'[o] = IF o = owner THEN marks[o] \cup {"password"} ELSE marks[o]
        /\ marks' = [o \in DOMAIN marks' |-> marks'[o]]
    <3>1. CASE owner \in DOMAIN marks
      BY <1>3, <3>1 DEF Added, Marked, MarkersOf, With
    <3>2. CASE owner \notin DOMAIN marks
      BY <1>1, <1>3, <3>2 DEF MarksOK, Added, Marked
    <3> QED
      BY <3>1, <3>2
  <2>2. MarksOK'
    <3>1. "password" \in OwnMarkers(owner)
      BY MarkersAssumption DEF OwnMarkers
    <3>2. \A o \in DOMAIN marks : marks'[o] \subseteq OwnMarkers(o)
      BY <1>1, <2>1, <3>1 DEF MarksOK
    <3>3. typed' \in Nat
      BY <1>1, <1>3
    <3> QED
      BY <1>1, <2>1, <3>2, <3>3 DEF MarksOK, OwnMarkers
  <2>3. /\ call \in CallRecords /\ call.op = "write" /\ call.to = Password(owner)
        /\ call.from = Password(owner) /\ call.to[1] = owner
    BY <1>1, PasswordIs DEF Write, CallRecords
  <2> HIDE DEF call
  <2>4. CallsSound(<<call>>, owner) /\ \A a : BringsIn(<<call>>, a) => a = Password(owner)
    BY <2>3, OneCall
  <2>5. ASSUME NEW a \in AllAccounts \ strays', a = Password(owner)
        PROVE  a[1] \in DOMAIN marks' /\ a[2] \in marks'[a[1]]
    <3>1. a[1] = owner /\ a[2] = "password" /\ owner \in DOMAIN marks
      BY <1>3, <2>5, PasswordIs
    <3> QED
      BY <2>1, <3>1
  <2>6. \A a \in AllAccounts :
          a[1] \in DOMAIN marks /\ a[2] \in marks[a[1]] => a[1] \in DOMAIN marks' /\ a[2] \in marks'[a[1]]
    BY <2>1
  <2>7. strays \subseteq strays'
    BY <1>3
  <2> QED
    BY <1>1, <1>3, <2>2, <2>4, <2>5, <2>6, <2>7, EnqueuedKeeps
<1>4. \/ UNCHANGED <<marks, strays>> /\ NoJob /\ typed' = typed
      \/ \E save \in BOOLEAN : KeepTypedPassword(owner, save)
  BY DEF EndConnect
<1> QED
  BY <1>2, <1>3, <1>4 DEF KeepTypedPassword, SaveTypedPassword

LEMMA RunCallTakes ==
    ASSUME QueueOrdered, RunCall
    PROVE  HeadTaken /\ jobs # <<>> /\ jobs[1].calls # <<>>
<1> DEFINE job == jobs[1]
           call == Head(job.calls)
           undone == IF call.op = "erase" THEN job.rollback ELSE job.rollback \cup {call.to[2]}
<1>1. jobs \in Seq(JobRecords) /\ jobs # <<>> /\ job.calls # <<>>
  BY DEF QueueOrdered, RunCall
<1>2. 1 \in 1..Len(jobs) /\ Len(jobs) \in Nat
  BY <1>1
<1>3. /\ job \in JobRecords /\ job.calls \in Seq(CallRecords) /\ job.rollback \in SUBSET Markers
      /\ job.failed \in BOOLEAN
  <2>1. job \in JobRecords
    BY <1>2, QueueTyped
  <2> QED
    BY <2>1 DEF JobRecords
<1>4. call \in CallRecords /\ Tail(job.calls) \in Seq(CallRecords)
  BY <1>1, <1>3
<1>5. undone \in SUBSET Markers
  <2>1. call.to \in AllAccounts
    BY <1>4 DEF CallRecords
  <2>2. call.to[2] \in Markers
    BY <2>1, AccountPairs
  <2> QED
    BY <1>3, <2>2
<1>6. ASSUME NEW failed \in BOOLEAN, NEW rollback \in SUBSET Markers, jobs' = CallTaken(failed, rollback)
      PROVE  HeadTaken
  <2>1. PICK j : j = [job EXCEPT !.calls = Tail(job.calls), !.failed = failed, !.rollback = rollback]
    OBVIOUS
  <2>2. /\ j \in JobRecords /\ j.id = job.id /\ j.owner = job.owner /\ j.restore = job.restore
        /\ j.calls = Tail(job.calls)
    BY <1>3, <1>4, <2>1 DEF JobRecords
  <2>3. jobs' = [jobs EXCEPT ![1] = j]
    BY <1>6, <2>1 DEF CallTaken
  <2>4. jobs' \in Seq(JobRecords) /\ Len(jobs') = Len(jobs)
    BY <1>1, <1>2, <2>2, <2>3
  <2>5. jobs'[1] = j /\ \A i \in 1..Len(jobs) : i # 1 => jobs'[i] = jobs[i]
    BY <1>1, <1>2, <2>3
  <2> QED
    BY <2>2, <2>4, <2>5 DEF HeadTaken
<1> HIDE DEF undone
<1>7. \E failed \in BOOLEAN, rollback \in {job.rollback, undone} : jobs' = CallTaken(failed, rollback)
  <2>1. \/ jobs' = CallTaken(job.failed, job.rollback)
        \/ jobs' = CallTaken(job.failed, IF call.op = "write" THEN undone ELSE job.rollback)
        \/ jobs' = CallTaken(TRUE, undone)
    BY DEF RunCall, undone
  <2> QED
    BY <1>3, <2>1
<1> QED
  BY <1>1, <1>3, <1>5, <1>6, <1>7

LEMMA RunCallKeeps ==
    ASSUME MarkersIInv, RunCall
    PROVE  MarkersIInv'
<1>1. QueueOrdered' /\ BringsNoMore
  BY RunCallTakes, HeadTakes DEF MarkersIInv, RunCall
<1>2. strays \subseteq strays' /\ marks' = marks /\ typed' = typed /\ (Available' => Available)
  BY DEF RunCall, Follows, Available
<1> QED
  BY <1>1, <1>2, SameMarks

LEMMA FinishKeeps ==
    ASSUME MarkersIInv, FinishJob
    PROVE  MarkersIInv'
<1> DEFINE done == finished[1]
           left == (marks[done.owner] \ done.rollback) \cup done.restore
<1>1. /\ MarksOK /\ QueueOrdered' /\ BringsNoMore
      /\ done.restore \subseteq OwnMarkers(done.owner) /\ done \in DoneRecords
      /\ done.owner \in DOMAIN latest /\ latest[done.owner] = done.id =>
           \A i \in 1..Len(jobs) : jobs[i].owner # done.owner
  BY FinishOrdered DEF MarkersIInv
<1>2. Head(finished) = done
  <2>1. finished \in Seq(DoneRecords) /\ finished # <<>>
    BY DEF MarkersIInv, QueueOrdered, FinishJob
  <2> QED
    BY <2>1
<1>3. /\ marks' = IF done.owner \in DOMAIN marks THEN Settled(done) ELSE marks
      /\ UNCHANGED <<strays, available, typed>>
  BY <1>2 DEF FinishJob
<1> HIDE DEF done
<1>4. Available' = Available
  BY <1>3 DEF Available
<1>5. CASE marks' = marks
  BY <1>1, <1>3, <1>4, <1>5, SameMarks
<1>6. CASE marks' # marks
  <2>1. /\ done.owner \in DOMAIN marks /\ done.owner \in DOMAIN latest /\ latest[done.owner] = done.id
        /\ marks' = With(marks, done.owner, left)
    BY <1>3, <1>6 DEF Settled, Marked
  <2>2. done.owner \in Owners /\ left \subseteq OwnMarkers(done.owner) /\ MarksSound(marks)
    BY <1>1, <2>1 DEF DoneRecords, MarksOK, MarksSound
  <2>3. MarksSound(marks') /\ MarksSet(marks', marks, done.owner, left)
    <3>1. MarksSound(With(marks, done.owner, left)) /\ MarksSet(With(marks, done.owner, left), marks, done.owner, left)
      BY <2>2, WithMarks
    <3> QED
      BY <2>1, <3>1
  <2>4. MarksOK'
    BY <1>1, <1>3, <2>3 DEF MarksOK, MarksSound, MarksSet, OwnMarkers
  <2>5. ASSUME NEW a, Brings(jobs, a) PROVE a[1] # done.owner
    <3>1. PICK i \in 1..Len(jobs) : BringsIn(jobs[i].calls, a)
      BY <2>5 DEF Brings
    <3>2. JobSound(jobs[i])
      <4>1. QueueOrdered
        BY DEF MarkersIInv
      <4> QED
        BY <4>1 DEF QueueOrdered
    <3>3. PICK calls : calls = jobs[i].calls
      OBVIOUS
    <3>4. BringsIn(calls, a) /\ CallsSound(calls, jobs[i].owner)
      BY <3>1, <3>2, <3>3 DEF JobSound
    <3>5. PICK j \in 1..Len(calls) : calls[j].to = a
      BY ONLY <3>4 DEF BringsIn
    <3>6. calls[j].to[1] = jobs[i].owner
      BY ONLY <3>4, <3>5 DEF CallsSound
    <3> QED
      BY <1>1, <2>1, <3>5, <3>6
  <2>6. AllAccounts' = AllAccounts
    BY DEF AllAccounts
  <2>7. \A o \in DOMAIN marks : o # done.owner => o \in DOMAIN marks' /\ marks'[o] = marks[o]
    BY <2>3 DEF MarksSet
  <2>8. Bringing'
    BY <1>1, <1>3, <1>4, <2>5, <2>6, <2>7 DEF MarkersIInv, Bringing, BringsNoMore
  <2> QED
    BY <1>1, <2>4, <2>8 DEF MarkersIInv
<1> QED
  BY <1>5, <1>6

LEMMA OthersKeepMarkers ==
    ASSUME MarkersIInv,
           \/ Probe \/ LateLands \/ UNCHANGED keyringVars
           \/ \E owner \in Owners : ConnectProfile(owner) \/ Lookup(owner)
    PROVE  MarkersIInv'
<1>1. NoJob /\ UNCHANGED <<marks, finished, typed, strays>> /\ (Available' => Available)
  BY DEF Probe, LateLands, ConnectProfile, Lookup, keyringVars, NoJob, Available
<1>2. QueueOrdered' /\ BringsNoMore
  BY <1>1, NotEnqueued DEF MarkersIInv
<1> QED
  BY <1>1, <1>2, SameMarks

LEMMA KeyringStep ==
    ASSUME MarkersIInv, [KeyringNext]_keyringVars
    PROVE  MarkersIInv'
<1>1. ASSUME JobEnds PROVE MarkersIInv'
  <2>1. QueueOrdered' /\ BringsNoMore
    BY <1>1, JobEndsOrdered DEF MarkersIInv
  <2>2. marks' = marks /\ typed' = typed /\ strays' = strays /\ Available' = Available
    BY <1>1 DEF JobEnds, Available
  <2> QED
    BY <2>1, <2>2, SameMarks
<1>2. ASSUME NEW alias \in Aliases, ForgetSshLabels(alias) \/ ForgetSshPassword(alias) PROVE MarkersIInv'
  <2>1. PICK left \in {marks, [marks EXCEPT ![alias] = {}]}, keepRecord \in BOOLEAN :
          DropSshPassword(alias, marks[alias], left, keepRecord)
    BY <1>2 DEF ForgetSshLabels, ForgetSshPassword
  <2> QED
    BY <2>1, DropKeeps
<1>3. ASSUME KeyringCommand PROVE MarkersIInv'
  BY <1>2, <1>3, SaveProfileKeeps, SaveFailsKeeps, DeleteProfileKeeps, MoveSshLabelsKeeps DEF KeyringCommand
<1> QED
  BY <1>1, <1>3, RunCallKeeps, FinishKeeps, EndConnectKeeps, OthersKeepMarkers DEF KeyringNext, Owners

LEMMA MarkersInit ==
    ASSUME KeyringInit
    PROVE  MarkersIInv
<1>1. /\ jobs = <<>> /\ finished = <<>> /\ lastJob = 0 /\ DOMAIN latest = {} /\ typed = 0
      /\ marks = [o \in Aliases |-> {}]
  BY DEF KeyringInit, Nothing
<1>2. MarksOK
  BY <1>1 DEF MarksOK, Owners
<1>3. QueueOrdered
  BY <1>1 DEF QueueOrdered
<1>4. Bringing
  BY <1>1 DEF Bringing, Brings
<1> QED
  BY <1>2, <1>3, <1>4 DEF MarkersIInv

LEMMA MarkersInductive == KeyringSpec => []MarkersIInv
<1>1. KeyringInit => MarkersIInv
  BY MarkersInit
<1>2. MarkersIInv /\ [KeyringNext]_keyringVars => MarkersIInv'
  BY KeyringStep
<1> QED
  BY <1>1, <1>2, PTL DEF KeyringSpec

(***************************************************************************)
(* MarkersAhead: the last queued call that touches a secret                *)
(***************************************************************************)
LEMMA GreatestNat ==
    ASSUME NEW n \in Nat, NEW T \in SUBSET (1..n), T # {}
    PROVE  \E m \in T : \A k \in T : k <= m
<1> DEFINE D == {d \in Nat : \E k \in T : d = n - k}
<1>1. PICK t \in T : TRUE
  OBVIOUS
<1>2. n - t \in D
  OBVIOUS
<1>3. IsWellFoundedOn(OpToRel(<, Nat), Nat)
  BY NatLessThanWellFounded
<1>4. PICK x \in D : \A y \in D : ~(<<y, x>> \in OpToRel(<, Nat))
  BY <1>2, <1>3, WFMin
<1>5. \A y \in D : ~(y < x)
  BY <1>4 DEF OpToRel
<1>6. PICK m \in T : x = n - m
  OBVIOUS
<1>7. ASSUME NEW k \in T PROVE k <= m
  <2>1. n - k \in D /\ n - k \in Nat
    OBVIOUS
  <2>2. ~(n - k < n - m)
    BY <1>5, <1>6, <2>1
  <2> QED
    BY <2>2
<1> QED
  BY <1>7

NoLater(x, y) == y[1] < x[1] \/ (y[1] = x[1] /\ y[2] <= x[2])

LEMMA LastPair ==
    ASSUME NEW n \in Nat, NEW m \in Nat, NEW T \in SUBSET ((1..n) \X (1..m)), T # {}
    PROVE  \E x \in T : \A y \in T : NoLater(x, y)
<1> DEFINE firsts == {x[1] : x \in T}
<1>1. \A x \in T : x[1] \in 1..n /\ x[2] \in 1..m /\ x = <<x[1], x[2]>>
  OBVIOUS
<1>2. PICK i \in firsts : \A k \in firsts : k <= i
  <2>1. firsts \in SUBSET (1..n) /\ firsts # {}
    BY <1>1
  <2> HIDE DEF firsts
  <2> QED
    BY <2>1, GreatestNat
<1> DEFINE seconds == {x[2] : x \in {y \in T : y[1] = i}}
<1>3. PICK j \in seconds : \A k \in seconds : k <= j
  <2>1. seconds \in SUBSET (1..m) /\ seconds # {}
    BY <1>1
  <2> HIDE DEF seconds
  <2> QED
    BY <2>1, GreatestNat
<1>4. PICK x \in T : x[1] = i /\ x[2] = j
  OBVIOUS
<1>5. ASSUME NEW y \in T PROVE NoLater(x, y)
  <2>1. y[1] \in 1..n /\ y[2] \in 1..m /\ x[1] \in 1..n /\ x[2] \in 1..m
    BY <1>1
  <2>2. y[1] <= i
    BY <1>2
  <2>3. y[1] = i => y[2] <= j
    BY <1>3
  <2> QED
    BY <1>4, <2>1, <2>2, <2>3 DEF NoLater
<1> QED
  BY <1>5

LEMMA LastIsBrought ==
    ASSUME QueueOrdered, NEW a, NEW x \in Touching(a), \A y \in Touching(a) : NoLater(x, y),
           jobs[x[1]].calls[x[2]].op = "write"
    PROVE  Brings(jobs, a)
<1> DEFINE i == x[1]
           j == x[2]
           calls == jobs[i].calls
           bound == Cardinality(Markers) * 3
<1>1. Len(jobs) \in Nat /\ bound \in Nat
  BY QueueTyped, MarkersAssumption, FS_CardinalityType
<1>2. \A k \in 1..Len(jobs) : CallsSound(jobs[k].calls, jobs[k].owner) /\ Len(jobs[k].calls) \in Nat
  BY QueueTyped DEF JobSound
<1>3. /\ i \in 1..Len(jobs) /\ j \in 1..bound /\ j <= Len(calls)
      /\ calls[j].to = a \/ calls[j].from = a
  BY DEF Touching
<1>4. j \in 1..Len(calls)
  BY <1>1, <1>2, <1>3
<1> HIDE DEF i, j
<1>5. ASSUME NEW k \in 1..Len(jobs), NEW l \in 1..Len(jobs[k].calls), Touches(jobs[k].calls[l], a)
      PROVE  k < i \/ (k = i /\ l <= j)
  <2>1. Len(jobs[k].calls) <= bound
    BY <1>2 DEF CallsSound
  <2>2. l \in 1..bound /\ l <= Len(jobs[k].calls)
    BY <1>1, <1>2, <2>1
  <2>3. <<k, l>> \in Touching(a)
    BY <1>5, <2>2 DEF Touching, Touches
  <2>4. NoLater(x, <<k, l>>)
    BY <2>3
  <2> QED
    BY <2>4 DEF NoLater, i, j
<1>6. calls[j].op = "write" /\ calls[j].to = a
  <2>1. calls[j].op = "write"
    BY DEF i, j
  <2>2. calls[j].from = calls[j].to
    BY <1>2, <1>3, <1>4, <2>1 DEF CallsSound
  <2> QED
    BY <1>3, <2>1, <2>2
<1>7. BringsIn(calls, a)
  <2>1. \A k \in 1..Len(calls) : k > j => ~Touches(calls[k], a)
    BY <1>1, <1>2, <1>3, <1>4, <1>5
  <2> QED
    BY <1>4, <1>6, <2>1 DEF BringsIn
<1>8. \A k \in 1..Len(jobs) : k > i => ~TouchedIn(jobs[k].calls, a)
  <2> SUFFICES ASSUME NEW k \in 1..Len(jobs), k > i, TouchedIn(jobs[k].calls, a)
               PROVE  FALSE
    OBVIOUS
  <2>1. PICK l \in 1..Len(jobs[k].calls) : Touches(jobs[k].calls[l], a)
    BY DEF TouchedIn
  <2>2. k < i \/ k = i
    BY <1>5, <2>1
  <2>3. k \in Nat /\ i \in Nat
    BY <1>1, <1>3
  <2> QED
    BY <2>2, <2>3
<1> QED
  BY <1>3, <1>7, <1>8 DEF Brings

(* finish_keyring_job takes the markers of a job that failed away only if  *)
(* no later job is queued for the owner: a secret that a queued job is yet *)
(* to bring into the keyring stays marked.  For any number of profiles,    *)
(* aliases, secret options and jobs.                                       *)
THEOREM MarkersAheadHolds == KeyringSpec => []MarkersAhead
<1>1. MarkersIInv => MarkersAhead
  <2> SUFFICES ASSUME MarkersIInv, NEW a \in AllAccounts \ strays, Touching(a) # {}, a[1] \in DOMAIN marks
               PROVE  LET last == CHOOSE x \in Touching(a) :
                                    \A y \in Touching(a) : y[1] < x[1] \/ (y[1] = x[1] /\ y[2] <= x[2])
                          call == jobs[last[1]].calls[last[2]]
                      IN  call.op = "write" /\ Available => a[2] \in marks[a[1]]
    BY DEF MarkersAhead
  <2> DEFINE last == CHOOSE x \in Touching(a) :
                       \A y \in Touching(a) : y[1] < x[1] \/ (y[1] = x[1] /\ y[2] <= x[2])
  <2>1. QueueOrdered /\ Bringing
    BY DEF MarkersIInv
  <2>2. \E x \in Touching(a) : \A y \in Touching(a) : NoLater(x, y)
    <3>1. Len(jobs) \in Nat /\ Cardinality(Markers) * 3 \in Nat
      BY <2>1, QueueTyped, MarkersAssumption, FS_CardinalityType
    <3>2. Touching(a) \in SUBSET ((1..Len(jobs)) \X (1..Cardinality(Markers) * 3))
      BY DEF Touching
    <3> QED
      BY <3>1, <3>2, LastPair
  <2>3. last \in Touching(a) /\ \A y \in Touching(a) : NoLater(last, y)
    BY <2>2 DEF NoLater
  <2> HIDE DEF last
  <2>4. ASSUME jobs[last[1]].calls[last[2]].op = "write", Available PROVE a[2] \in marks[a[1]]
    <3>1. Brings(jobs, a)
      BY <2>1, <2>3, <2>4, LastIsBrought
    <3> QED
      BY <2>1, <2>4, <3>1 DEF Bringing
  <2> QED
    BY <2>4 DEF last
<1> QED
  BY <1>1, MarkersInductive, PTL

(***************************************************************************)
(* KeyringAgrees: what the queue still has to bring                        *)
(***************************************************************************)
(* A view of the keyring: of each account the secret it has, if any, and   *)
(* the accounts of which nothing is claimed any more.                      *)
Views == [held : [AllAccounts -> SUBSET Nat], bad : SUBSET AllAccounts]

Val(f, a) == IF a \in DOMAIN f THEN {f[a]} ELSE {}

(* what the account holds after the call, by what they held before         *)
Due(call, held, a) ==
    IF call.op = "write" /\ a = call.to THEN {call.secret}
    ELSE IF call.op = "move" /\ a = call.to THEN held[call.from]
    ELSE IF Touches(call, a) THEN {} ELSE held[a]

(* a call that works takes one view to the next; a move has something to   *)
(* move, unless nothing is claimed of where it goes                        *)
Delivers(call, v, u) ==
    /\ v \in Views /\ u \in Views
    /\ u.bad \subseteq Follows(v.bad, call)
    /\ call.op = "move" => call.to \in u.bad \/ v.held[call.from] # {}
    /\ \A a \in AllAccounts \ u.bad : u.held[a] = Due(call, v.held, a)

CallsLead(calls, v, u) ==
    \E w : /\ w[0] = v /\ w[Len(calls)] = u /\ v \in Views /\ u \in Views
           /\ \A j \in 1..Len(calls) : Delivers(calls[j], w[j - 1], w[j])

QueueLeads(queue, v, u) ==
    \E w : /\ w[0] = v /\ w[Len(queue)] = u /\ v \in Views /\ u \in Views
           /\ \A i \in 1..Len(queue) : CallsLead(queue[i].calls, w[i - 1], w[i])

(* the same view, claiming less *)
Spoilt(v, T) == [held |-> v.held, bad |-> v.bad \cup (T \cap AllAccounts)]

LEMMA NoCallsLead ==
    ASSUME NEW v \in Views
    PROVE  /\ CallsLead(<<>>, v, v) /\ QueueLeads(<<>>, v, v)
           /\ \A u : CallsLead(<<>>, v, u) \/ QueueLeads(<<>>, v, u) => u = v
<1>1. Len(<<>>) = 0 /\ 1..0 = {}
  OBVIOUS
<1>2. PICK w : w = [i \in 0..0 |-> v]
  OBVIOUS
<1>3. w[0] = v
  BY <1>2
<1> HIDE DEF Views
<1> QED
  BY <1>1, <1>3 DEF CallsLead, QueueLeads

LEMMA FirstCallLeads ==
    ASSUME NEW calls \in Seq(CallRecords), calls # <<>>, NEW v, NEW u, CallsLead(calls, v, u)
    PROVE  \E x \in Views : Delivers(calls[1], v, x) /\ CallsLead(Tail(calls), x, u)
<1> DEFINE n == Len(calls)
<1>1. PICK w : /\ w[0] = v /\ w[n] = u /\ v \in Views /\ u \in Views
               /\ \A j \in 1..n : Delivers(calls[j], w[j - 1], w[j])
  BY DEF CallsLead
<1>2. /\ n \in Nat /\ 1 \in 1..n /\ Len(Tail(calls)) = n - 1 /\ n - 1 \in Nat
      /\ \A j \in 1..n - 1 : Tail(calls)[j] = calls[j + 1] /\ j + 1 \in 1..n
  OBVIOUS
<1>3. PICK y : y = [i \in 0..n - 1 |-> w[i + 1]]
  OBVIOUS
<1>4. \A i \in 0..n - 1 : y[i] = w[i + 1]
  BY <1>3
<1>5. 0 \in 0..n - 1 /\ n - 1 \in 0..n - 1 /\ 0 + 1 = 1 /\ (n - 1) + 1 = n /\ 1 - 1 = 0
  BY <1>2
<1>6. y[0] = w[1] /\ y[n - 1] = u
  BY <1>1, <1>4, <1>5
<1>7. Delivers(calls[1], v, w[1])
  BY <1>1, <1>2, <1>5
<1>8. w[1] \in Views
  BY <1>7 DEF Delivers
<1>9. ASSUME NEW j \in 1..n - 1 PROVE Delivers(Tail(calls)[j], y[j - 1], y[j])
  <2>1. j - 1 \in 0..n - 1 /\ j \in 0..n - 1 /\ (j - 1) + 1 = j /\ (j + 1) - 1 = j
    BY <1>2
  <2>2. y[j - 1] = w[j] /\ y[j] = w[j + 1]
    BY <1>4, <2>1
  <2>3. Delivers(calls[j + 1], w[(j + 1) - 1], w[j + 1])
    BY <1>1, <1>2
  <2> QED
    BY <1>2, <2>1, <2>2, <2>3
<1>10. CallsLead(Tail(calls), w[1], u)
  <2> HIDE DEF Views
  <2> QED
    BY <1>1, <1>2, <1>6, <1>8, <1>9 DEF CallsLead
<1> QED
  BY <1>7, <1>8, <1>10

LEMMA OneCallLeads ==
    ASSUME NEW call, NEW v, NEW u, Delivers(call, v, u)
    PROVE  CallsLead(<<call>>, v, u)
<1>1. PICK w : w = [i \in 0..1 |-> IF i = 0 THEN v ELSE u]
  OBVIOUS
<1>2. w[0] = v /\ w[1] = u
  BY <1>1
<1>3. Len(<<call>>) = 1 /\ <<call>>[1] = call /\ (\A j \in 1..1 : j = 1) /\ 1 - 1 = 0
  OBVIOUS
<1>4. v \in Views /\ u \in Views
  BY DEF Delivers
<1>5. \A j \in 1..Len(<<call>>) : Delivers(<<call>>[j], w[j - 1], w[j])
  BY <1>2, <1>3
<1> HIDE DEF Views
<1> QED
  BY <1>2, <1>3, <1>4, <1>5 DEF CallsLead

LEMMA LeadsOn ==
    ASSUME NEW c \in Seq(CallRecords), NEW d \in Seq(CallRecords), NEW v, NEW u, NEW x,
           CallsLead(c, v, u), CallsLead(d, u, x)
    PROVE  CallsLead(c \o d, v, x)
<1> DEFINE m == Len(c)
           n == Len(d)
<1>1. PICK w : /\ w[0] = v /\ w[m] = u /\ v \in Views /\ u \in Views
               /\ \A j \in 1..m : Delivers(c[j], w[j - 1], w[j])
  BY DEF CallsLead
<1>2. PICK y : /\ y[0] = u /\ y[n] = x /\ x \in Views
               /\ \A j \in 1..n : Delivers(d[j], y[j - 1], y[j])
  BY DEF CallsLead
<1>3. m \in Nat /\ n \in Nat
  OBVIOUS
<1>4. /\ Len(c \o d) = m + n
      /\ \A j \in 1..(m + n) : (c \o d)[j] = IF j <= m THEN c[j] ELSE d[j - m]
  BY Concatenated
<1> HIDE DEF m, n
<1>5. PICK z : z = [i \in 0..m + n |-> IF i <= m THEN w[i] ELSE y[i - m]]
  OBVIOUS
<1>6. \A i \in 0..m + n : z[i] = IF i <= m THEN w[i] ELSE y[i - m]
  BY <1>5
<1>7. z[0] = v
  BY <1>1, <1>3, <1>6
<1>8. z[m + n] = x
  <2>1. CASE n = 0
    <3>1. m + n = m /\ m \in 0..m + n
      BY <1>3, <2>1
    <3> QED
      BY <1>1, <1>2, <1>6, <2>1, <3>1
  <2>2. CASE n # 0
    <3>1. m + n \in 0..m + n /\ ~(m + n <= m) /\ (m + n) - m = n
      BY <1>3, <2>2
    <3> QED
      BY <1>2, <1>6, <3>1
  <2> QED
    BY <2>1, <2>2
<1>9. ASSUME NEW j \in 1..m + n PROVE Delivers((c \o d)[j], z[j - 1], z[j])
  <2>1. CASE j <= m
    <3>1. j \in 1..m /\ j - 1 \in 0..m + n /\ j \in 0..m + n /\ j - 1 <= m
      BY <1>3, <2>1
    <3> QED
      BY <1>1, <1>4, <1>6, <2>1, <3>1
  <2>2. CASE ~(j <= m)
    <3>1. PICK k : k = j - m
      OBVIOUS
    <3>2. k \in 1..n /\ j \in 0..m + n /\ j - 1 \in 0..m + n
      BY <1>3, <2>2, <3>1
    <3>3. z[j] = y[k] /\ (c \o d)[j] = d[k]
      BY <1>4, <1>6, <2>2, <3>1, <3>2
    <3>4. z[j - 1] = y[k - 1]
      <4>1. CASE k = 1
        <5>1. j - 1 = m /\ k - 1 = 0
          BY <1>3, <3>1, <4>1
        <5> QED
          BY <1>1, <1>2, <1>6, <3>2, <5>1
      <4>2. CASE k # 1
        <5>1. ~(j - 1 <= m) /\ (j - 1) - m = k - 1
          BY <1>3, <3>1, <3>2, <4>2
        <5> QED
          BY <1>6, <3>2, <5>1
      <4> QED
        BY <4>1, <4>2
    <3> QED
      BY <1>2, <3>2, <3>3, <3>4
  <2> QED
    BY <2>1, <2>2
<1> HIDE DEF Views
<1> QED
  BY <1>1, <1>2, <1>4, <1>7, <1>8, <1>9 DEF CallsLead

LEMMA SpoiltIs ==
    ASSUME NEW v \in Views, NEW T
    PROVE  /\ Spoilt(v, T) \in Views /\ Spoilt(v, T).held = v.held
           /\ Spoilt(v, T).bad = v.bad \cup (T \cap AllAccounts)
  BY DEF Spoilt, Views

LEMMA SpoiltDelivers ==
    ASSUME NEW call, NEW v, NEW u, NEW T, Delivers(call, v, u)
    PROVE  Delivers(call, Spoilt(v, T), Spoilt(u, T))
<1>1. v \in Views /\ u \in Views
  BY DEF Delivers
<1> HIDE DEF Views
<1>2. /\ Spoilt(v, T) \in Views /\ Spoilt(v, T).held = v.held
      /\ Spoilt(v, T).bad = v.bad \cup (T \cap AllAccounts)
  BY <1>1, SpoiltIs
<1>3. /\ Spoilt(u, T) \in Views /\ Spoilt(u, T).held = u.held
      /\ Spoilt(u, T).bad = u.bad \cup (T \cap AllAccounts)
  BY <1>1, SpoiltIs
<1>4. Spoilt(u, T).bad \subseteq Follows(Spoilt(v, T).bad, call)
  BY <1>2, <1>3 DEF Delivers, Follows
<1> QED
  BY <1>2, <1>3, <1>4 DEF Delivers

LEMMA SpoiltLeads ==
    ASSUME NEW calls \in Seq(CallRecords), NEW v, NEW u, NEW T, CallsLead(calls, v, u)
    PROVE  CallsLead(calls, Spoilt(v, T), Spoilt(u, T))
<1> DEFINE n == Len(calls)
<1>1. PICK w : /\ w[0] = v /\ w[n] = u /\ v \in Views /\ u \in Views
               /\ \A j \in 1..n : Delivers(calls[j], w[j - 1], w[j])
  BY DEF CallsLead
<1>2. n \in Nat /\ 0 \in 0..n /\ n \in 0..n
  OBVIOUS
<1>3. PICK y : y = [i \in 0..n |-> Spoilt(w[i], T)]
  OBVIOUS
<1>4. \A i \in 0..n : y[i] = Spoilt(w[i], T)
  BY <1>3
<1>5. ASSUME NEW j \in 1..n PROVE Delivers(calls[j], y[j - 1], y[j])
  <2>1. j - 1 \in 0..n /\ j \in 0..n
    BY <1>2
  <2> QED
    BY <1>1, <1>4, <2>1, SpoiltDelivers
<1>6. Spoilt(v, T) \in Views /\ Spoilt(u, T) \in Views
  BY <1>1, SpoiltIs
<1>7. y[0] = Spoilt(v, T) /\ y[n] = Spoilt(u, T)
  BY <1>1, <1>2, <1>4
<1> HIDE DEF Views
<1> QED
  BY <1>5, <1>6, <1>7 DEF CallsLead

LEMMA SpoiltQueueLeads ==
    ASSUME NEW queue, Len(queue) \in Nat, \A i \in 1..Len(queue) : queue[i].calls \in Seq(CallRecords),
           NEW v, NEW u, NEW T, QueueLeads(queue, v, u)
    PROVE  QueueLeads(queue, Spoilt(v, T), Spoilt(u, T))
<1> DEFINE n == Len(queue)
<1>1. PICK w : /\ w[0] = v /\ w[n] = u /\ v \in Views /\ u \in Views
               /\ \A i \in 1..n : CallsLead(queue[i].calls, w[i - 1], w[i])
  BY DEF QueueLeads
<1>2. n \in Nat /\ 0 \in 0..n /\ n \in 0..n
  OBVIOUS
<1>3. PICK y : y = [i \in 0..n |-> Spoilt(w[i], T)]
  OBVIOUS
<1>4. \A i \in 0..n : y[i] = Spoilt(w[i], T)
  BY <1>3
<1>5. ASSUME NEW i \in 1..n PROVE CallsLead(queue[i].calls, y[i - 1], y[i])
  <2>1. i - 1 \in 0..n /\ i \in 0..n
    BY <1>2
  <2>2. CallsLead(queue[i].calls, Spoilt(w[i - 1], T), Spoilt(w[i], T))
    BY <1>1, SpoiltLeads
  <2> QED
    BY <1>4, <2>1, <2>2
<1>6. Spoilt(v, T) \in Views /\ Spoilt(u, T) \in Views
  BY <1>1, SpoiltIs
<1>7. y[0] = Spoilt(v, T) /\ y[n] = Spoilt(u, T)
  BY <1>1, <1>2, <1>4
<1> HIDE DEF Views
<1> QED
  BY <1>5, <1>6, <1>7 DEF QueueLeads

(* a call is taken off the front of the queue *)
LEMMA TakenLeads ==
    ASSUME QueueOrdered, jobs # <<>>, jobs[1].calls # <<>>, HeadTaken,
           NEW v, NEW u, QueueLeads(jobs, v, u)
    PROVE  \E x \in Views : Delivers(Head(jobs[1].calls), v, x) /\ QueueLeads(jobs', x, u)
<1> DEFINE n == Len(jobs)
<1>1. PICK w : /\ w[0] = v /\ w[n] = u /\ v \in Views /\ u \in Views
               /\ \A i \in 1..n : CallsLead(jobs[i].calls, w[i - 1], w[i])
  BY DEF QueueLeads
<1>2. /\ n \in Nat /\ 1 \in 1..n /\ 1 - 1 = 0 /\ Len(jobs') = n
      /\ jobs[1].calls \in Seq(CallRecords) /\ Head(jobs[1].calls) = jobs[1].calls[1]
      /\ \A i \in 1..n : jobs'[i].calls = IF i = 1 THEN Tail(jobs[i].calls) ELSE jobs[i].calls
  <2>1. jobs \in Seq(JobRecords)
    BY DEF QueueOrdered
  <2>2. n \in Nat /\ 1 \in 1..n
    BY <2>1
  <2>3. jobs[1].calls \in Seq(CallRecords)
    BY <2>2, QueueTyped
  <2>4. Head(jobs[1].calls) = jobs[1].calls[1]
    BY <2>3
  <2> QED
    BY <2>2, <2>3, <2>4 DEF HeadTaken
<1>3. CallsLead(jobs[1].calls, v, w[1])
  <2>1. CallsLead(jobs[1].calls, w[1 - 1], w[1])
    BY <1>1, <1>2
  <2> QED
    BY <1>1, <1>2, <2>1
<1> HIDE DEF Views
<1>4. PICK x \in Views : Delivers(jobs[1].calls[1], v, x) /\ CallsLead(Tail(jobs[1].calls), x, w[1])
  BY <1>2, <1>3, FirstCallLeads
<1>5. PICK y : y = [i \in 0..n |-> IF i = 0 THEN x ELSE w[i]]
  OBVIOUS
<1>6. y[0] = x /\ \A i \in 1..n : y[i] = w[i]
  BY <1>2, <1>5
<1>7. ASSUME NEW i \in 1..n PROVE CallsLead(jobs'[i].calls, y[i - 1], y[i])
  <2>1. CASE i = 1
    BY <1>2, <1>4, <1>6, <2>1
  <2>2. CASE i # 1
    <3>1. i - 1 \in 1..n
      BY <1>2, <2>2
    <3> QED
      BY <1>1, <1>2, <1>6, <2>2, <3>1
  <2> QED
    BY <2>1, <2>2
<1>8. y[n] = u
  BY <1>1, <1>2, <1>6
<1>9. QueueLeads(jobs', x, u)
  BY <1>1, <1>2, <1>6, <1>7, <1>8 DEF QueueLeads
<1> QED
  BY <1>2, <1>4, <1>9

LEMMA EndedLeads ==
    ASSUME QueueOrdered, JobEnds, NEW v, NEW u, QueueLeads(jobs, v, u)
    PROVE  QueueLeads(jobs', v, u)
<1> DEFINE n == Len(jobs)
<1>1. PICK w : /\ w[0] = v /\ w[n] = u /\ v \in Views /\ u \in Views
               /\ \A i \in 1..n : CallsLead(jobs[i].calls, w[i - 1], w[i])
  BY DEF QueueLeads
<1>2. /\ n \in Nat /\ 1 \in 1..n /\ n - 1 \in Nat /\ 1 - 1 = 0 /\ jobs[1].calls = <<>> /\ Len(jobs') = n - 1
      /\ \A i \in 1..n - 1 : jobs'[i] = jobs[i + 1] /\ i + 1 \in 1..n
  <2>1. jobs \in Seq(JobRecords) /\ jobs # <<>> /\ jobs' = Tail(jobs) /\ jobs[1].calls = <<>>
    BY DEF QueueOrdered, JobEnds
  <2> QED
    BY <2>1
<1> HIDE DEF Views
<1>3. w[1] = v
  <2>1. CallsLead(<<>>, w[1 - 1], w[1])
    BY <1>1, <1>2
  <2> QED
    BY <1>1, <1>2, <2>1, NoCallsLead
<1>4. PICK y : y = [i \in 0..n - 1 |-> w[i + 1]]
  OBVIOUS
<1>5. \A i \in 0..n - 1 : y[i] = w[i + 1]
  BY <1>4
<1>6. y[0] = v /\ y[n - 1] = u
  <2>1. 0 \in 0..n - 1 /\ n - 1 \in 0..n - 1 /\ 0 + 1 = 1 /\ (n - 1) + 1 = n
    BY <1>2
  <2> QED
    BY <1>1, <1>3, <1>5, <2>1
<1>7. ASSUME NEW i \in 1..n - 1 PROVE CallsLead(jobs'[i].calls, y[i - 1], y[i])
  <2>1. i - 1 \in 0..n - 1 /\ i \in 0..n - 1 /\ (i - 1) + 1 = i /\ (i + 1) - 1 = i
    BY <1>2
  <2>2. y[i - 1] = w[i] /\ y[i] = w[i + 1]
    BY <1>5, <2>1
  <2>3. CallsLead(jobs[i + 1].calls, w[(i + 1) - 1], w[i + 1])
    BY <1>1, <1>2
  <2> QED
    BY <1>2, <2>1, <2>2, <2>3
<1> QED
  BY <1>1, <1>2, <1>6, <1>7 DEF QueueLeads

LEMMA EnqueuedLeads ==
    ASSUME QueueOrdered, NEW owner \in Owners, NEW calls, CallsSound(calls, owner),
           NEW restore \in SUBSET Markers, Enqueue(owner, calls, restore),
           NEW v, NEW u, NEW x, QueueLeads(jobs, v, u), CallsLead(calls, u, x)
    PROVE  QueueLeads(jobs', v, x)
<1> DEFINE n == Len(jobs)
           job == [id |-> lastJob + 1, owner |-> owner, calls |-> calls,
                   rollback |-> {}, restore |-> restore, failed |-> FALSE]
<1>1. PICK w : /\ w[0] = v /\ w[n] = u /\ v \in Views /\ u \in Views
               /\ \A i \in 1..n : CallsLead(jobs[i].calls, w[i - 1], w[i])
  BY DEF QueueLeads
<1>2. /\ lastJob \in Nat /\ jobs \in Seq(JobRecords) /\ n \in Nat
      /\ jobs' = Append(jobs, job)
  BY DEF QueueOrdered, Enqueue
<1>3. job \in JobRecords /\ job.calls = calls
  BY <1>2 DEF JobRecords, CallsSound
<1> HIDE DEF job, Views
<1>4. /\ Len(jobs') = n + 1 /\ jobs'[n + 1].calls = calls
      /\ \A i \in 1..n : jobs'[i] = jobs[i]
  BY <1>2, <1>3
<1>5. PICK y : y = [i \in 0..n + 1 |-> IF i <= n THEN w[i] ELSE x]
  OBVIOUS
<1>6. (\A i \in 0..n : y[i] = w[i]) /\ y[n + 1] = x
  BY <1>2, <1>5
<1>7. ASSUME NEW i \in 1..n + 1 PROVE CallsLead(jobs'[i].calls, y[i - 1], y[i])
  <2>1. CASE i = n + 1
    <3>1. i - 1 = n /\ n \in 0..n
      BY <1>2, <2>1
    <3> QED
      BY <1>1, <1>4, <1>6, <2>1, <3>1
  <2>2. CASE i # n + 1
    <3>1. i \in 1..n /\ i \in 0..n /\ i - 1 \in 0..n
      BY <1>2, <2>2
    <3> QED
      BY <1>1, <1>4, <1>6, <3>1
  <2> QED
    BY <2>1, <2>2
<1>8. y[0] = v /\ x \in Views
  <2>1. 0 \in 0..n
    BY <1>2
  <2> QED
    BY <1>1, <1>6, <2>1 DEF CallsLead
<1> QED
  BY <1>1, <1>4, <1>6, <1>7, <1>8 DEF QueueLeads

(* where nothing is claimed of any account, any calls lead on              *)
AllBad == [held |-> [a \in AllAccounts |-> {}], bad |-> AllAccounts]

LEMMA AllBadLeads ==
    ASSUME NEW queue, Len(queue) \in Nat,
           \A i \in 1..Len(queue) : queue[i].calls \in Seq(CallRecords)
    PROVE  AllBad \in Views /\ QueueLeads(queue, AllBad, AllBad)
<1>1. AllBad \in Views /\ AllBad.bad = AllAccounts
  BY DEF AllBad, Views
<1> HIDE DEF AllBad
<1>2. ASSUME NEW call \in CallRecords PROVE Delivers(call, AllBad, AllBad)
  <2>1. call.to \in AllAccounts
    BY DEF CallRecords
  <2> HIDE DEF Views
  <2> QED
    BY <1>1, <2>1 DEF Delivers, Follows
<1> HIDE DEF Views
<1>3. ASSUME NEW calls \in Seq(CallRecords) PROVE CallsLead(calls, AllBad, AllBad)
  <2>1. PICK w : w = [i \in 0..Len(calls) |-> AllBad]
    OBVIOUS
  <2>2. Len(calls) \in Nat /\ \A j \in 1..Len(calls) : calls[j] \in CallRecords
    OBVIOUS
  <2>3. w[0] = AllBad /\ w[Len(calls)] = AllBad
    BY <2>1, <2>2
  <2>4. \A j \in 1..Len(calls) : w[j - 1] = AllBad /\ w[j] = AllBad
    BY <2>1, <2>2
  <2> QED
    BY <1>1, <1>2, <2>2, <2>3, <2>4 DEF CallsLead
<1>4. PICK w : w = [i \in 0..Len(queue) |-> AllBad]
  OBVIOUS
<1>5. w[0] = AllBad /\ w[Len(queue)] = AllBad /\ \A i \in 1..Len(queue) : w[i - 1] = AllBad /\ w[i] = AllBad
  BY <1>4
<1> QED
  BY <1>1, <1>3, <1>5 DEF QueueLeads

(* the calls of a listing, if whatever of them was made before the call of *)
(* one marker leads on to the same with that marker                        *)
LEMMA ListedLead ==
    ASSUME NEW S \in SUBSET Markers, NEW call, NEW V, \A T \in SUBSET S : V[T] \in Views,
           \A T \in SUBSET S : \A m \in S \ T : Delivers(call[m], V[T], V[T \cup {m}])
    PROVE  CallsLead([i \in DOMAIN SetToSeq(S) |-> call[SetToSeq(S)[i]]], V[{}], V[S])
<1> DEFINE n == Cardinality(S)
<1>1. PICK ms : ms = SetToSeq(S)
  OBVIOUS
<1>2. /\ n \in Nat /\ ms \in [1..n -> S] /\ IsInjective(ms)
      /\ \A m \in S : \E i \in 1..n : ms[i] = m
  BY <1>1, MarkersListed
<1> HIDE DEF n
<1>3. PICK calls : calls = [i \in 1..n |-> call[ms[i]]]
  OBVIOUS
<1>4. Len(calls) = n /\ \A i \in 1..n : calls[i] = call[ms[i]]
  BY <1>2, <1>3
<1>5. PICK firsts : firsts = [i \in 0..n |-> {ms[j] : j \in 1..i}]
  OBVIOUS
<1>6. \A i \in 0..n : firsts[i] = {ms[j] : j \in 1..i}
  BY <1>5
<1>7. firsts[0] = {} /\ firsts[n] = S
  <2>1. 0 \in 0..n /\ n \in 0..n /\ 1..0 = {}
    BY <1>2
  <2>2. {ms[j] : j \in 1..n} = S
    BY <1>2
  <2> QED
    BY <1>6, <2>1, <2>2
<1>8. ASSUME NEW i \in 1..n
      PROVE  /\ firsts[i - 1] \in SUBSET S /\ ms[i] \in S \ firsts[i - 1]
             /\ firsts[i] = firsts[i - 1] \cup {ms[i]}
  <2>1. i - 1 \in 0..n /\ i \in 0..n /\ 1..i = (1..i - 1) \cup {i} /\ 1..i - 1 \subseteq 1..n /\ i \notin 1..i - 1
    BY <1>2
  <2>2. firsts[i - 1] = {ms[j] : j \in 1..i - 1} /\ firsts[i] = {ms[j] : j \in 1..i}
    BY <1>6, <2>1
  <2>3. \A j \in 1..i - 1 : ms[j] \in S /\ ms[j] # ms[i]
    BY <1>2, <2>1 DEF IsInjective
  <2>4. ms[i] \in S
    BY <1>2
  <2> QED
    BY <2>1, <2>2, <2>3, <2>4
<1>9. PICK w : w = [i \in 0..n |-> V[firsts[i]]]
  OBVIOUS
<1>10. \A i \in 0..n : w[i] = V[firsts[i]]
  BY <1>9
<1> HIDE DEF Views
<1>11. ASSUME NEW i \in 1..n PROVE Delivers(calls[i], w[i - 1], w[i])
  <2>1. i - 1 \in 0..n /\ i \in 0..n
    BY <1>2
  <2>2. Delivers(call[ms[i]], V[firsts[i - 1]], V[firsts[i - 1] \cup {ms[i]}])
    BY <1>8
  <2> QED
    BY <1>4, <1>8, <1>10, <2>1, <2>2
<1>12. w[0] = V[{}] /\ w[n] = V[S]
  <2>1. 0 \in 0..n /\ n \in 0..n
    BY <1>2
  <2> QED
    BY <1>7, <1>10, <2>1
<1>13. V[{}] \in Views /\ V[S] \in Views
  OBVIOUS
<1>14. CallsLead(calls, V[{}], V[S])
  BY <1>4, <1>11, <1>12, <1>13 DEF CallsLead
<1>15. DOMAIN SetToSeq(S) = 1..n
  BY <1>1, <1>2
<1> QED
  BY <1>1, <1>3, <1>14, <1>15

(***************************************************************************)
(* What the moves, the writes and the erasings of a job lead to            *)
(***************************************************************************)
AfterMoves(v, old, name, T) ==
    [held |-> [a \in AllAccounts |-> IF a \in {name} \X T THEN v.held[<<old, a[2]>>]
                                     ELSE IF a \in {old} \X T THEN {} ELSE v.held[a]],
     bad |-> v.bad \cup {a \in {name} \X T : <<old, a[2]>> \in v.bad}]

AfterWrites(v, name, T, secret) ==
    [held |-> [a \in AllAccounts |-> IF a \in {name} \X T THEN {secret} ELSE v.held[a]], bad |-> v.bad]

AfterErasings(v, name, T) ==
    [held |-> [a \in AllAccounts |-> IF a \in {name} \X T THEN {} ELSE v.held[a]], bad |-> v.bad]

LEMMA AfterNone ==
    ASSUME NEW v \in Views, NEW old, NEW name, NEW secret
    PROVE  AfterMoves(v, old, name, {}) = v /\ AfterWrites(v, name, {}, secret) = v /\ AfterErasings(v, name, {}) = v
<1>1. v = [held |-> v.held, bad |-> v.bad] /\ v.held \in [AllAccounts -> SUBSET Nat]
  BY DEF Views
<1>2. v.held = [a \in AllAccounts |-> v.held[a]]
  BY <1>1
<1>3. \A o : {o} \X {} = {}
  OBVIOUS
<1>4. [a \in AllAccounts |-> IF a \in {name} \X {} THEN v.held[<<old, a[2]>>]
                             ELSE IF a \in {old} \X {} THEN {} ELSE v.held[a]] = v.held
  BY <1>2, <1>3
<1>5. [a \in AllAccounts |-> IF a \in {name} \X {} THEN {secret} ELSE v.held[a]] = v.held
  BY <1>2, <1>3
<1>6. [a \in AllAccounts |-> IF a \in {name} \X {} THEN {} ELSE v.held[a]] = v.held
  BY <1>2, <1>3
<1>7. v.bad \cup {a \in {name} \X {} : <<old, a[2]>> \in v.bad} = v.bad
  BY <1>3
<1> QED
  BY <1>1, <1>4, <1>5, <1>6, <1>7 DEF AfterMoves, AfterWrites, AfterErasings

LEMMA PairsIn ==
    ASSUME NEW o \in Owners, NEW T \in SUBSET Markers
    PROVE  /\ {o} \X T \subseteq AllAccounts
           /\ \A m \in Markers : <<o, m>> \in AllAccounts
           /\ \A a \in AllAccounts : a \in {o} \X T <=> a[1] = o /\ a[2] \in T
           /\ \A m \in Markers : {o} \X (T \cup {m}) = ({o} \X T) \cup {<<o, m>>}
  BY DEF AllAccounts, Owners

LEMMA AfterTyped ==
    ASSUME NEW v \in Views, NEW old \in Owners, NEW name \in Owners, NEW T \in SUBSET Markers, NEW secret \in Nat
    PROVE  /\ AfterMoves(v, old, name, T) \in Views /\ AfterWrites(v, name, T, secret) \in Views
           /\ AfterErasings(v, name, T) \in Views
<1>1. v.held \in [AllAccounts -> SUBSET Nat] /\ v.bad \in SUBSET AllAccounts
  BY DEF Views
<1>2. {name} \X T \subseteq AllAccounts /\ \A a \in {name} \X T : <<old, a[2]>> \in AllAccounts
  BY PairsIn
<1>3. \A a \in {name} \X T : v.held[<<old, a[2]>>] \in SUBSET Nat
  BY <1>1, <1>2
<1>4. \A a \in AllAccounts : v.held[a] \in SUBSET Nat
  BY <1>1
<1>5. [a \in AllAccounts |-> IF a \in {name} \X T THEN v.held[<<old, a[2]>>]
                             ELSE IF a \in {old} \X T THEN {} ELSE v.held[a]] \in [AllAccounts -> SUBSET Nat]
  BY <1>3, <1>4
<1>6. [a \in AllAccounts |-> IF a \in {name} \X T THEN {secret} ELSE v.held[a]] \in [AllAccounts -> SUBSET Nat]
  BY <1>4
<1>7. [a \in AllAccounts |-> IF a \in {name} \X T THEN {} ELSE v.held[a]] \in [AllAccounts -> SUBSET Nat]
  BY <1>4
<1> QED
  BY <1>1, <1>2, <1>5, <1>6, <1>7 DEF Views, AfterMoves, AfterWrites, AfterErasings

LEMMA MovesLead ==
    ASSUME NEW v \in Views, NEW old \in Owners, NEW name \in Owners, old # name, NEW before \in SUBSET Markers,
           \A m \in before : <<old, m>> \in v.bad \/ v.held[<<old, m>>] # {}
    PROVE  CallsLead([i \in DOMAIN SetToSeq(before) |->
                        Move(<<old, SetToSeq(before)[i]>>, <<name, SetToSeq(before)[i]>>)],
                     v, AfterMoves(v, old, name, before))
<1>1. PICK call : call = [m \in before |-> Move(<<old, m>>, <<name, m>>)]
  OBVIOUS
<1>2. PICK V : V = [T \in SUBSET before |-> AfterMoves(v, old, name, T)]
  OBVIOUS
<1>3. ASSUME NEW T \in SUBSET before, NEW m \in before \ T
      PROVE  Delivers(Move(<<old, m>>, <<name, m>>), AfterMoves(v, old, name, T), AfterMoves(v, old, name, T \cup {m}))
  <2> DEFINE c == Move(<<old, m>>, <<name, m>>)
             R == T \cup {m}
  <2>1. PICK x : x = AfterMoves(v, old, name, T)
    OBVIOUS
  <2>2. PICK y : y = AfterMoves(v, old, name, R)
    OBVIOUS
  <2>3. /\ x \in Views /\ y \in Views
        /\ T \in SUBSET Markers /\ R \in SUBSET Markers /\ m \in Markers
    BY <2>1, <2>2, AfterTyped
  <2>4. c.op = "move" /\ c.from = <<old, m>> /\ c.to = <<name, m>>
    BY DEF Move
  <2>5. /\ \A a \in AllAccounts : x.held[a] = IF a \in {name} \X T THEN v.held[<<old, a[2]>>]
                                              ELSE IF a \in {old} \X T THEN {} ELSE v.held[a]
        /\ x.bad = v.bad \cup {a \in {name} \X T : <<old, a[2]>> \in v.bad}
    BY <2>1 DEF AfterMoves
  <2>6. /\ \A a \in AllAccounts : y.held[a] = IF a \in {name} \X R THEN v.held[<<old, a[2]>>]
                                              ELSE IF a \in {old} \X R THEN {} ELSE v.held[a]
        /\ y.bad = v.bad \cup {a \in {name} \X R : <<old, a[2]>> \in v.bad}
    BY <2>2 DEF AfterMoves
  <2>7. /\ {name} \X R = ({name} \X T) \cup {<<name, m>>} /\ {old} \X R = ({old} \X T) \cup {<<old, m>>}
        /\ <<old, m>> \in AllAccounts /\ <<name, m>> \in AllAccounts
        /\ <<old, m>> \notin {name} \X R /\ <<old, m>> \notin {old} \X T /\ <<name, m>> \notin {name} \X T
        /\ <<name, m>> \notin {old} \X R /\ <<old, m>> # <<name, m>> /\ <<name, m>>[2] = m
    BY <2>3, PairsIn
  <2> HIDE DEF c, R, Views
  <2>8. y.bad \subseteq Follows(x.bad, c)
    <3> SUFFICES ASSUME NEW a \in y.bad, a \notin x.bad PROVE c.to = a /\ c.from \in x.bad
      BY <2>4 DEF Follows
    <3>1. a = <<name, m>> /\ <<old, a[2]>> \in v.bad
      BY <2>5, <2>6, <2>7
    <3> QED
      BY <2>4, <2>5, <2>7, <3>1
  <2>9. c.to \in y.bad \/ x.held[c.from] # {}
    <3>1. x.held[<<old, m>>] = v.held[<<old, m>>]
      BY <2>5, <2>7
    <3>2. <<old, m>> \in v.bad => <<name, m>> \in y.bad
      BY <2>6, <2>7
    <3> QED
      BY <2>4, <3>1, <3>2
  <2>10. ASSUME NEW a \in AllAccounts PROVE y.held[a] = Due(c, x.held, a)
    <3>1. CASE a = <<name, m>>
      <4>1. y.held[a] = v.held[<<old, m>>]
        BY <2>6, <2>7, <3>1
      <4>2. x.held[<<old, m>>] = v.held[<<old, m>>]
        BY <2>5, <2>7
      <4> QED
        BY <2>4, <3>1, <4>1, <4>2 DEF Due
    <3>2. CASE a = <<old, m>>
      <4>1. y.held[a] = {}
        BY <2>6, <2>7, <3>2
      <4> QED
        BY <2>4, <2>7, <3>2, <4>1 DEF Due, Touches
    <3>3. CASE a # <<name, m>> /\ a # <<old, m>>
      <4>1. y.held[a] = x.held[a]
        BY <2>5, <2>6, <2>7, <3>3
      <4> QED
        BY <2>4, <3>3, <4>1 DEF Due, Touches
    <3> QED
      BY <3>1, <3>2, <3>3
  <2>11. Delivers(c, x, y)
    BY <2>3, <2>8, <2>9, <2>10 DEF Delivers
  <2> QED
    BY <2>1, <2>2, <2>11 DEF c, R
<1>4. \A T \in SUBSET before : V[T] = AfterMoves(v, old, name, T) /\ V[T] \in Views
  BY <1>2, AfterTyped
<1>5. \A m \in before : call[m] = Move(<<old, m>>, <<name, m>>)
  BY <1>1
<1> HIDE DEF Views
<1>6. \A T \in SUBSET before : \A m \in before \ T : Delivers(call[m], V[T], V[T \cup {m}])
  BY <1>3, <1>4, <1>5
<1>7. CallsLead([i \in DOMAIN SetToSeq(before) |-> call[SetToSeq(before)[i]]], V[{}], V[before])
  BY <1>4, <1>6, ListedLead
<1>8. V[{}] = v /\ V[before] = AfterMoves(v, old, name, before)
  BY <1>4, AfterNone
<1>9. \A i \in DOMAIN SetToSeq(before) : SetToSeq(before)[i] \in before
  BY MarkersListed
<1>10. [i \in DOMAIN SetToSeq(before) |-> call[SetToSeq(before)[i]]] =
       [i \in DOMAIN SetToSeq(before) |-> Move(<<old, SetToSeq(before)[i]>>, <<name, SetToSeq(before)[i]>>)]
  BY <1>5, <1>9
<1> QED
  BY <1>7, <1>8, <1>10

LEMMA WritesLead ==
    ASSUME NEW v \in Views, NEW name \in Owners, NEW replaced \in SUBSET Markers, NEW secret \in Nat
    PROVE  CallsLead([i \in DOMAIN SetToSeq(replaced) |-> Write(<<name, SetToSeq(replaced)[i]>>, secret)],
                     v, AfterWrites(v, name, replaced, secret))
<1>1. PICK call : call = [m \in replaced |-> Write(<<name, m>>, secret)]
  OBVIOUS
<1>2. PICK V : V = [T \in SUBSET replaced |-> AfterWrites(v, name, T, secret)]
  OBVIOUS
<1>3. ASSUME NEW T \in SUBSET replaced, NEW m \in replaced \ T
      PROVE  Delivers(Write(<<name, m>>, secret), AfterWrites(v, name, T, secret), AfterWrites(v, name, T \cup {m}, secret))
  <2> DEFINE c == Write(<<name, m>>, secret)
             R == T \cup {m}
  <2>1. PICK x : x = AfterWrites(v, name, T, secret)
    OBVIOUS
  <2>2. PICK y : y = AfterWrites(v, name, R, secret)
    OBVIOUS
  <2>3. /\ x \in Views /\ y \in Views
        /\ T \in SUBSET Markers /\ R \in SUBSET Markers /\ m \in Markers
    BY <2>1, <2>2, AfterTyped
  <2>4. c.op = "write" /\ c.from = <<name, m>> /\ c.to = <<name, m>> /\ c.secret = secret
    BY DEF Write
  <2>5. /\ \A a \in AllAccounts : x.held[a] = IF a \in {name} \X T THEN {secret} ELSE v.held[a]
        /\ \A a \in AllAccounts : y.held[a] = IF a \in {name} \X R THEN {secret} ELSE v.held[a]
        /\ x.bad = v.bad /\ y.bad = v.bad
    BY <2>1, <2>2 DEF AfterWrites
  <2>6. {name} \X R = ({name} \X T) \cup {<<name, m>>}
    BY <2>3, PairsIn
  <2> HIDE DEF c, R, Views
  <2>7. ASSUME NEW a \in AllAccounts PROVE y.held[a] = Due(c, x.held, a)
    BY <2>4, <2>5, <2>6 DEF Due, Touches
  <2>8. Delivers(c, x, y)
    BY <2>3, <2>4, <2>5, <2>7 DEF Delivers, Follows
  <2> QED
    BY <2>1, <2>2, <2>8 DEF c, R
<1>4. \A T \in SUBSET replaced : V[T] = AfterWrites(v, name, T, secret) /\ V[T] \in Views
  BY <1>2, AfterTyped
<1>5. \A m \in replaced : call[m] = Write(<<name, m>>, secret)
  BY <1>1
<1> HIDE DEF Views
<1>6. \A T \in SUBSET replaced : \A m \in replaced \ T : Delivers(call[m], V[T], V[T \cup {m}])
  BY <1>3, <1>4, <1>5
<1>7. CallsLead([i \in DOMAIN SetToSeq(replaced) |-> call[SetToSeq(replaced)[i]]], V[{}], V[replaced])
  BY <1>4, <1>6, ListedLead
<1>8. V[{}] = v /\ V[replaced] = AfterWrites(v, name, replaced, secret)
  BY <1>4, AfterNone
<1>9. \A i \in DOMAIN SetToSeq(replaced) : SetToSeq(replaced)[i] \in replaced
  BY MarkersListed
<1>10. [i \in DOMAIN SetToSeq(replaced) |-> call[SetToSeq(replaced)[i]]] =
       [i \in DOMAIN SetToSeq(replaced) |-> Write(<<name, SetToSeq(replaced)[i]>>, secret)]
  BY <1>5, <1>9
<1> QED
  BY <1>7, <1>8, <1>10

LEMMA ErasingsLead ==
    ASSUME NEW v \in Views, NEW name \in Owners, NEW dropped \in SUBSET Markers
    PROVE  CallsLead([i \in DOMAIN SetToSeq(dropped) |-> Erase(<<name, SetToSeq(dropped)[i]>>)],
                     v, AfterErasings(v, name, dropped))
<1>1. PICK call : call = [m \in dropped |-> Erase(<<name, m>>)]
  OBVIOUS
<1>2. PICK V : V = [T \in SUBSET dropped |-> AfterErasings(v, name, T)]
  OBVIOUS
<1>3. ASSUME NEW T \in SUBSET dropped, NEW m \in dropped \ T
      PROVE  Delivers(Erase(<<name, m>>), AfterErasings(v, name, T), AfterErasings(v, name, T \cup {m}))
  <2> DEFINE c == Erase(<<name, m>>)
             R == T \cup {m}
  <2>1. PICK x : x = AfterErasings(v, name, T)
    OBVIOUS
  <2>2. PICK y : y = AfterErasings(v, name, R)
    OBVIOUS
  <2>3. /\ x \in Views /\ y \in Views
        /\ T \in SUBSET Markers /\ R \in SUBSET Markers /\ m \in Markers
    BY <2>1, <2>2, AfterTyped, 0 \in Nat
  <2>4. c.op = "erase" /\ c.from = <<name, m>> /\ c.to = <<name, m>>
    BY DEF Erase
  <2>5. /\ \A a \in AllAccounts : x.held[a] = IF a \in {name} \X T THEN {} ELSE v.held[a]
        /\ \A a \in AllAccounts : y.held[a] = IF a \in {name} \X R THEN {} ELSE v.held[a]
        /\ x.bad = v.bad /\ y.bad = v.bad
    BY <2>1, <2>2 DEF AfterErasings
  <2>6. {name} \X R = ({name} \X T) \cup {<<name, m>>}
    BY <2>3, PairsIn
  <2> HIDE DEF c, R, Views
  <2>7. ASSUME NEW a \in AllAccounts PROVE y.held[a] = Due(c, x.held, a)
    BY <2>4, <2>5, <2>6 DEF Due, Touches
  <2>8. Delivers(c, x, y)
    BY <2>3, <2>4, <2>5, <2>7 DEF Delivers, Follows
  <2> QED
    BY <2>1, <2>2, <2>8 DEF c, R
<1>4. \A T \in SUBSET dropped : V[T] = AfterErasings(v, name, T) /\ V[T] \in Views
  BY <1>2, AfterTyped, 0 \in Nat
<1>5. \A m \in dropped : call[m] = Erase(<<name, m>>)
  BY <1>1
<1> HIDE DEF Views
<1>6. \A T \in SUBSET dropped : \A m \in dropped \ T : Delivers(call[m], V[T], V[T \cup {m}])
  BY <1>3, <1>4, <1>5
<1>7. CallsLead([i \in DOMAIN SetToSeq(dropped) |-> call[SetToSeq(dropped)[i]]], V[{}], V[dropped])
  BY <1>4, <1>6, ListedLead
<1>8. V[{}] = v /\ V[dropped] = AfterErasings(v, name, dropped)
  BY <1>4, AfterNone
<1>9. \A i \in DOMAIN SetToSeq(dropped) : SetToSeq(dropped)[i] \in dropped
  BY MarkersListed
<1>10. [i \in DOMAIN SetToSeq(dropped) |-> call[SetToSeq(dropped)[i]]] =
       [i \in DOMAIN SetToSeq(dropped) |-> Erase(<<name, SetToSeq(dropped)[i]>>)]
  BY <1>5, <1>9
<1> QED
  BY <1>7, <1>8, <1>10

LEMMA ListedCalls ==
    ASSUME NEW old \in Owners, NEW name \in Owners, NEW S \in SUBSET Markers, NEW secret \in Nat
    PROVE  /\ [i \in DOMAIN SetToSeq(S) |-> Move(<<old, SetToSeq(S)[i]>>, <<name, SetToSeq(S)[i]>>)] \in Seq(CallRecords)
           /\ [i \in DOMAIN SetToSeq(S) |-> Write(<<name, SetToSeq(S)[i]>>, secret)] \in Seq(CallRecords)
           /\ [i \in DOMAIN SetToSeq(S) |-> Erase(<<name, SetToSeq(S)[i]>>)] \in Seq(CallRecords)
<1>1. PICK n : n = Cardinality(S)
  OBVIOUS
<1>2. n \in Nat /\ DOMAIN SetToSeq(S) = 1..n /\ \A i \in 1..n : SetToSeq(S)[i] \in Markers
  BY <1>1, MarkersListed
<1>3. PICK ms : ms = SetToSeq(S)
  OBVIOUS
<1>4. \A i \in 1..n : /\ Move(<<old, ms[i]>>, <<name, ms[i]>>) \in CallRecords
                      /\ Write(<<name, ms[i]>>, secret) \in CallRecords
                      /\ Erase(<<name, ms[i]>>) \in CallRecords
  BY <1>2, <1>3, CallsTyped
<1> HIDE DEF CallRecords
<1>5. /\ [i \in 1..n |-> Move(<<old, ms[i]>>, <<name, ms[i]>>)] \in [1..n -> CallRecords]
      /\ [i \in 1..n |-> Write(<<name, ms[i]>>, secret)] \in [1..n -> CallRecords]
      /\ [i \in 1..n |-> Erase(<<name, ms[i]>>)] \in [1..n -> CallRecords]
  BY <1>4
<1>6. \A f \in [1..n -> CallRecords] : f \in Seq(CallRecords)
  BY <1>2, ListIsSeq
<1> QED
  BY <1>2, <1>3, <1>5, <1>6

(* what the accounts of `name` and `old` hold after a change, and of which *)
(* nothing is claimed after it                                             *)
Changes(v, u, name, old, before, replaced, dropped, secret) ==
    /\ \A m \in Markers :
         u.held[<<name, m>>] = IF m \in dropped THEN {} ELSE IF m \in replaced THEN {secret}
                               ELSE IF old # name /\ m \in before THEN v.held[<<old, m>>] ELSE v.held[<<name, m>>]
    /\ old # name => \A m \in Markers : u.held[<<old, m>>] = IF m \in before THEN {} ELSE v.held[<<old, m>>]
    /\ \A a \in AllAccounts : a[1] \notin {name, old} => u.held[a] = v.held[a]
    /\ v.bad \subseteq u.bad
    /\ old # name => \A m \in before : <<old, m>> \in v.bad => <<name, m>> \in u.bad

LEMMA ChangesLead ==
    ASSUME NEW v \in Views, NEW old \in Owners, NEW name \in Owners, NEW before \in SUBSET Markers,
           NEW replaced \in SUBSET Markers, NEW dropped \in SUBSET Markers, NEW secret \in Nat,
           old # name => \A m \in before : <<old, m>> \in v.bad \/ v.held[<<old, m>>] # {}
    PROVE  \E u \in Views : /\ CallsLead(ChangeCalls(name, old, before, replaced, dropped, secret), v, u)
                            /\ Changes(v, u, name, old, before, replaced, dropped, secret)
<1> DEFINE moves == [i \in DOMAIN SetToSeq(before) |-> Move(<<old, SetToSeq(before)[i]>>, <<name, SetToSeq(before)[i]>>)]
           p == IF old = name THEN <<>> ELSE moves
           q == [i \in DOMAIN SetToSeq(replaced) |-> Write(<<name, SetToSeq(replaced)[i]>>, secret)]
           r == [i \in DOMAIN SetToSeq(dropped) |-> Erase(<<name, SetToSeq(dropped)[i]>>)]
<1>1. p \in Seq(CallRecords) /\ q \in Seq(CallRecords) /\ r \in Seq(CallRecords)
  <2>1. moves \in Seq(CallRecords) /\ q \in Seq(CallRecords) /\ r \in Seq(CallRecords)
    BY ListedCalls
  <2>2. <<>> \in Seq(CallRecords)
    OBVIOUS
  <2> QED
    BY <2>1, <2>2
<1>2. PICK x : x = IF old = name THEN v ELSE AfterMoves(v, old, name, before)
  OBVIOUS
<1>3. PICK y : y = AfterWrites(x, name, replaced, secret)
  OBVIOUS
<1>4. PICK z : z = AfterErasings(y, name, dropped)
  OBVIOUS
<1>5. x \in Views /\ y \in Views /\ z \in Views
  <2>1. x \in Views
    BY <1>2, AfterTyped
  <2>2. y \in Views
    BY <1>3, <2>1, AfterTyped
  <2> QED
    BY <1>4, <2>1, <2>2, AfterTyped
<1>6. CallsLead(p, v, x)
  <2>1. CASE old = name
    BY <1>2, <2>1, NoCallsLead
  <2>2. CASE old # name
    <3>1. CallsLead(moves, v, AfterMoves(v, old, name, before))
      BY <2>2, MovesLead
    <3> QED
      BY <1>2, <2>2, <3>1
  <2> QED
    BY <2>1, <2>2
<1>7. CallsLead(q, x, y)
  <2>1. CallsLead(q, x, AfterWrites(x, name, replaced, secret))
    BY <1>5, WritesLead
  <2> QED
    BY <1>3, <2>1
<1>8. CallsLead(r, y, z)
  <2>1. CallsLead(r, y, AfterErasings(y, name, dropped))
    BY <1>5, ErasingsLead
  <2> QED
    BY <1>4, <2>1
<1>9. ChangeCalls(name, old, before, replaced, dropped, secret) = p \o q \o r
  BY DEF ChangeCalls
<1> HIDE DEF p, q, r, moves, Views, CallRecords
<1>10. CallsLead(p \o q, v, y)
  BY <1>1, <1>6, <1>7, LeadsOn
<1>11. p \o q \in Seq(CallRecords)
  BY <1>1
<1>12. CallsLead((p \o q) \o r, v, z)
  BY <1>1, <1>8, <1>10, <1>11, LeadsOn
<1>13. /\ \A a \in AllAccounts : y.held[a] = IF a \in {name} \X replaced THEN {secret} ELSE x.held[a]
       /\ \A a \in AllAccounts : z.held[a] = IF a \in {name} \X dropped THEN {} ELSE y.held[a]
       /\ z.bad = x.bad
  BY <1>3, <1>4 DEF AfterWrites, AfterErasings
<1>14. /\ \A a \in AllAccounts : a \in {name} \X replaced <=> a[1] = name /\ a[2] \in replaced
       /\ \A a \in AllAccounts : a \in {name} \X dropped <=> a[1] = name /\ a[2] \in dropped
       /\ \A a \in AllAccounts : a \in {name} \X before <=> a[1] = name /\ a[2] \in before
       /\ \A a \in AllAccounts : a \in {old} \X before <=> a[1] = old /\ a[2] \in before
       /\ \A m \in Markers : <<name, m>> \in AllAccounts /\ <<old, m>> \in AllAccounts
       /\ \A o, m : <<o, m>>[1] = o /\ <<o, m>>[2] = m
  BY PairsIn
<1>15. \A a \in AllAccounts : z.held[a] = IF a[1] = name /\ a[2] \in dropped THEN {}
                                          ELSE IF a[1] = name /\ a[2] \in replaced THEN {secret} ELSE x.held[a]
  BY <1>13, <1>14
<1>16. CASE old = name
  <2>1. x = v
    BY <1>2, <1>16
  <2>2. \A m \in Markers : z.held[<<name, m>>] = IF m \in dropped THEN {} ELSE IF m \in replaced THEN {secret} ELSE v.held[<<name, m>>]
    BY <1>14, <1>15, <2>1
  <2>3. \A a \in AllAccounts : a[1] \notin {name, old} => z.held[a] = v.held[a]
    BY <1>15, <2>1
  <2>4. Changes(v, z, name, old, before, replaced, dropped, secret)
    BY <1>13, <1>16, <2>1, <2>2, <2>3 DEF Changes
  <2> QED
    BY <1>5, <1>9, <1>12, <2>4
<1>17. CASE old # name
  <2>1. /\ \A a \in AllAccounts : x.held[a] = IF a[1] = name /\ a[2] \in before THEN v.held[<<old, a[2]>>]
                                              ELSE IF a[1] = old /\ a[2] \in before THEN {} ELSE v.held[a]
        /\ x.bad = v.bad \cup {a \in {name} \X before : <<old, a[2]>> \in v.bad}
    BY <1>2, <1>14, <1>17 DEF AfterMoves
  <2>2. \A m \in Markers : z.held[<<name, m>>] = IF m \in dropped THEN {} ELSE IF m \in replaced THEN {secret}
                               ELSE IF m \in before THEN v.held[<<old, m>>] ELSE v.held[<<name, m>>]
    <3> SUFFICES ASSUME NEW m \in Markers
                 PROVE  z.held[<<name, m>>] = IF m \in dropped THEN {} ELSE IF m \in replaced THEN {secret}
                               ELSE IF m \in before THEN v.held[<<old, m>>] ELSE v.held[<<name, m>>]
      OBVIOUS
    <3>1. PICK a : a = <<name, m>>
      OBVIOUS
    <3>2. a \in AllAccounts /\ a[1] = name /\ a[2] = m
      BY <1>14, <3>1
    <3>3. x.held[a] = IF m \in before THEN v.held[<<old, m>>] ELSE v.held[a]
      BY <1>17, <2>1, <3>2
    <3> QED
      BY <1>15, <3>1, <3>2, <3>3
  <2>3. \A m \in Markers : z.held[<<old, m>>] = IF m \in before THEN {} ELSE v.held[<<old, m>>]
    <3> SUFFICES ASSUME NEW m \in Markers
                 PROVE  z.held[<<old, m>>] = IF m \in before THEN {} ELSE v.held[<<old, m>>]
      OBVIOUS
    <3>1. PICK a : a = <<old, m>>
      OBVIOUS
    <3>2. a \in AllAccounts /\ a[1] = old /\ a[2] = m
      BY <1>14, <3>1
    <3> QED
      BY <1>15, <1>17, <2>1, <3>1, <3>2
  <2>4. \A a \in AllAccounts : a[1] \notin {name, old} => z.held[a] = v.held[a]
    BY <1>15, <2>1
  <2>5. \A m \in before : <<old, m>> \in v.bad => <<name, m>> \in z.bad
    BY <1>13, <1>14, <2>1
  <2>6. Changes(v, z, name, old, before, replaced, dropped, secret)
    BY <1>13, <1>17, <2>1, <2>2, <2>3, <2>4, <2>5 DEF Changes
  <2> QED
    BY <1>5, <1>9, <1>12, <2>6
<1> QED
  BY <1>16, <1>17

(***************************************************************************)
(* The invariant                                                           *)
(***************************************************************************)
Shown(m, a) == a[1] \in DOMAIN m /\ a[2] \in m[a[1]]

Lost == told \cup strays

(* the view has what the user wants saved, and that is what is marked      *)
Right(u, g, m) ==
    \A a \in AllAccounts \ u.bad : Val(g, a) = u.held[a] /\ (Val(g, a) # {} <=> Shown(m, a))

(* from what the keyring holds the queued calls lead to what is wanted, as *)
(* far as no error was reported and no owner was lost                      *)
Owed ==
    \E v \in Views, u \in Views :
      /\ v.bad \subseteq Lost /\ Lost \cap AllAccounts \subseteq u.bad
      /\ \A a \in AllAccounts \ Lost : Val(keyring, a) = v.held[a]
      /\ QueueLeads(jobs, v, u)
      /\ Right(u, given, marks)

(* the calls of a job that erases a password and would put its marker back *)
Meant(calls, owner, restore) ==
    /\ \A j \in 1..Len(calls) : calls[j].op = "erase" => calls[j].from = calls[j].to
    /\ restore # {} => owner \in Aliases /\ \A j \in 1..Len(calls) : calls[j].to = Password(owner)

(* what a job takes back or puts back an error was reported of             *)
Excused(owner, taken) == \A m \in taken : <<owner, m>> \in told

Accounted ==
    /\ \A call \in late : call \in CallRecords /\ call.from \in told /\ call.to \in told
    /\ \A i \in 1..Len(jobs) :
         /\ Meant(jobs[i].calls, jobs[i].owner, jobs[i].restore)
         /\ Excused(jobs[i].owner, jobs[i].rollback)
         /\ jobs[i].failed => Excused(jobs[i].owner, jobs[i].restore)
    /\ \A k \in 1..Len(finished) : Excused(finished[k].owner, finished[k].rollback \cup finished[k].restore)
    /\ ~Available => AllAccounts \subseteq told

AgreeIInv == MarkersIInv /\ Accounted /\ Owed

LEMMA AllLostOwes ==
    ASSUME QueueOrdered, AllAccounts \subseteq Lost
    PROVE  Owed
<1>1. Len(jobs) \in Nat /\ \A i \in 1..Len(jobs) : jobs[i].calls \in Seq(CallRecords)
  BY QueueTyped
<1>2. AllBad \in Views /\ QueueLeads(jobs, AllBad, AllBad)
  BY <1>1, AllBadLeads
<1>3. AllBad.bad = AllAccounts
  BY DEF AllBad
<1> HIDE DEF Views, AllBad
<1>4. Right(AllBad, given, marks)
  BY <1>3 DEF Right
<1> QED
  BY <1>2, <1>3, <1>4 DEF Owed

(* nothing is queued or run: what the user wants changes as the markers do *)
LEMMA OwedKept ==
    ASSUME QueueOrdered, Owed, jobs' = jobs, Lost \subseteq Lost',
           \A a \in AllAccounts \ Lost' : Val(keyring', a) = Val(keyring, a),
           \A a \in AllAccounts \ Lost' : (Val(given, a) # {} <=> Shown(marks, a)) =>
             Val(given', a) = Val(given, a) /\ (Val(given', a) # {} <=> Shown(marks', a))
    PROVE  Owed'
<1>1. PICK v \in Views, u \in Views :
        /\ v.bad \subseteq Lost /\ Lost \cap AllAccounts \subseteq u.bad
        /\ \A a \in AllAccounts \ Lost : Val(keyring, a) = v.held[a]
        /\ QueueLeads(jobs, v, u)
        /\ Right(u, given, marks)
  BY DEF Owed
<1>2. PICK T : T = Lost'
  OBVIOUS
<1>3. PICK y : y = Spoilt(v, T)
  OBVIOUS
<1>4. PICK z : z = Spoilt(u, T)
  OBVIOUS
<1>5. /\ y \in Views /\ y.held = v.held /\ y.bad = v.bad \cup (T \cap AllAccounts)
      /\ z \in Views /\ z.held = u.held /\ z.bad = u.bad \cup (T \cap AllAccounts)
  BY <1>3, <1>4, SpoiltIs
<1>6. QueueLeads(jobs, y, z)
  <2>1. Len(jobs) \in Nat /\ \A i \in 1..Len(jobs) : jobs[i].calls \in Seq(CallRecords)
    BY QueueTyped
  <2>2. QueueLeads(jobs, Spoilt(v, T), Spoilt(u, T))
    BY <1>1, <2>1, SpoiltQueueLeads
  <2> QED
    BY <1>3, <1>4, <2>2
<1>7. Views' = Views /\ AllAccounts' = AllAccounts /\ Lost \subseteq T
  BY <1>2 DEF Views, AllAccounts
<1> HIDE DEF Views, Lost
<1>8. \A a \in AllAccounts \ T : Val(keyring', a) = y.held[a]
  BY <1>1, <1>2, <1>5, <1>7
<1>9. Right(z, given', marks')
  <2> SUFFICES ASSUME NEW a \in AllAccounts \ z.bad
               PROVE  Val(given', a) = z.held[a] /\ (Val(given', a) # {} <=> Shown(marks', a))
    BY DEF Right
  <2>1. a \in AllAccounts \ T /\ a \in AllAccounts \ u.bad
    BY <1>5
  <2>2. Val(given, a) = u.held[a] /\ (Val(given, a) # {} <=> Shown(marks, a))
    BY <1>1, <2>1 DEF Right
  <2> QED
    BY <1>2, <1>5, <2>1, <2>2
<1>10. QueueLeads(jobs', y, z)
  BY <1>6
<1>11. y.bad \subseteq T /\ T \cap AllAccounts \subseteq z.bad
  BY <1>1, <1>5, <1>7
<1>12. \E v1 \in Views, u1 \in Views :
         /\ v1.bad \subseteq Lost' /\ Lost' \cap AllAccounts \subseteq u1.bad
         /\ \A a \in AllAccounts \ Lost' : Val(keyring', a) = v1.held[a]
         /\ QueueLeads(jobs', v1, u1)
         /\ Right(u1, given', marks')
  BY <1>2, <1>5, <1>8, <1>9, <1>10, <1>11
<1> QED
  BY <1>7, <1>12 DEF Owed, QueueLeads, CallsLead, Delivers, Due, Follows, Touches, Right, Val, Shown

(* a job is queued that leads, from all that may be promised by now, to    *)
(* what the user wants after it                                            *)
LEMMA OwedEnqueued ==
    ASSUME QueueOrdered, Owed, keyring' = keyring, Lost \subseteq Lost',
           NEW owner \in Owners, NEW calls, CallsSound(calls, owner),
           NEW restore \in SUBSET Markers, Enqueue(owner, calls, restore),
           \A u \in Views : Lost' \cap AllAccounts \subseteq u.bad /\ Right(u, given, marks) =>
             \E x \in Views : CallsLead(calls, u, x) /\ u.bad \subseteq x.bad /\ Right(x, given', marks')
    PROVE  Owed'
<1>1. PICK v \in Views, u \in Views :
        /\ v.bad \subseteq Lost /\ Lost \cap AllAccounts \subseteq u.bad
        /\ \A a \in AllAccounts \ Lost : Val(keyring, a) = v.held[a]
        /\ QueueLeads(jobs, v, u)
        /\ Right(u, given, marks)
  BY DEF Owed
<1>2. PICK T : T = Lost'
  OBVIOUS
<1>3. PICK y : y = Spoilt(v, T)
  OBVIOUS
<1>4. PICK z : z = Spoilt(u, T)
  OBVIOUS
<1>5. /\ y \in Views /\ y.held = v.held /\ y.bad = v.bad \cup (T \cap AllAccounts)
      /\ z \in Views /\ z.held = u.held /\ z.bad = u.bad \cup (T \cap AllAccounts)
  BY <1>3, <1>4, SpoiltIs
<1>6. QueueLeads(jobs, y, z)
  <2>1. Len(jobs) \in Nat /\ \A i \in 1..Len(jobs) : jobs[i].calls \in Seq(CallRecords)
    BY QueueTyped
  <2>2. QueueLeads(jobs, Spoilt(v, T), Spoilt(u, T))
    BY <1>1, <2>1, SpoiltQueueLeads
  <2> QED
    BY <1>3, <1>4, <2>2
<1>7. Views' = Views /\ AllAccounts' = AllAccounts /\ Lost \subseteq T
  BY <1>2 DEF Views, AllAccounts
<1> HIDE DEF Views, Lost
<1>8. \A a \in AllAccounts \ T : Val(keyring', a) = y.held[a]
  BY <1>1, <1>5, <1>7
<1>9. Right(z, given, marks)
  BY <1>1, <1>5 DEF Right
<1>10. PICK x \in Views : CallsLead(calls, z, x) /\ z.bad \subseteq x.bad /\ Right(x, given', marks')
  <2>1. Lost' \cap AllAccounts \subseteq z.bad
    BY <1>2, <1>5
  <2> QED
    BY <1>5, <1>9, <2>1
<1>11. QueueLeads(jobs', y, x)
  BY <1>6, <1>10, EnqueuedLeads
<1>12. y.bad \subseteq T /\ T \cap AllAccounts \subseteq x.bad
  BY <1>1, <1>5, <1>7, <1>10
<1>13. \E v1 \in Views, u1 \in Views :
         /\ v1.bad \subseteq Lost' /\ Lost' \cap AllAccounts \subseteq u1.bad
         /\ \A a \in AllAccounts \ Lost' : Val(keyring', a) = v1.held[a]
         /\ QueueLeads(jobs', v1, u1)
         /\ Right(u1, given', marks')
  BY <1>2, <1>5, <1>8, <1>10, <1>11, <1>12
<1> QED
  BY <1>7, <1>13 DEF Owed, QueueLeads, CallsLead, Delivers, Due, Follows, Touches, Right, Val, Shown

(* the first call is made, or given up                                     *)
LEMMA OwedTaken ==
    ASSUME QueueOrdered, Owed, jobs # <<>>, jobs[1].calls # <<>>, HeadTaken,
           given' = given, marks' = marks, Lost \subseteq Lost',
           NEW call \in CallRecords, call = Head(jobs[1].calls), Follows(Lost, call) \subseteq Lost',
           NEW held, \A a \in AllAccounts : held[a] = Val(keyring, a),
           \A a \in AllAccounts \ Lost' : (call.op = "move" /\ a = call.to => held[call.from] # {}) =>
             Val(keyring', a) = Due(call, held, a)
    PROVE  Owed'
<1>1. PICK v \in Views, u \in Views :
        /\ v.bad \subseteq Lost /\ Lost \cap AllAccounts \subseteq u.bad
        /\ \A a \in AllAccounts \ Lost : Val(keyring, a) = v.held[a]
        /\ QueueLeads(jobs, v, u)
        /\ Right(u, given, marks)
  BY DEF Owed
<1>2. PICK x \in Views : Delivers(call, v, x) /\ QueueLeads(jobs', x, u)
  BY <1>1, TakenLeads
<1>3. PICK T : T = Lost'
  OBVIOUS
<1>4. PICK y : y = Spoilt(x, T)
  OBVIOUS
<1>5. PICK z : z = Spoilt(u, T)
  OBVIOUS
<1>6. /\ y \in Views /\ y.held = x.held /\ y.bad = x.bad \cup (T \cap AllAccounts)
      /\ z \in Views /\ z.held = u.held /\ z.bad = u.bad \cup (T \cap AllAccounts)
  BY <1>4, <1>5, SpoiltIs
<1>7. QueueLeads(jobs', y, z)
  <2>1. Len(jobs') \in Nat /\ \A i \in 1..Len(jobs') : jobs'[i].calls \in Seq(CallRecords)
    <3>1. /\ jobs' \in Seq(JobRecords) /\ Len(jobs') = Len(jobs) /\ Len(jobs) \in Nat
          /\ \A i \in 1..Len(jobs) : jobs'[i].calls = IF i = 1 THEN Tail(jobs[i].calls) ELSE jobs[i].calls
      BY QueueTyped DEF HeadTaken
    <3>2. \A i \in 1..Len(jobs) : jobs[i].calls \in Seq(CallRecords)
      BY QueueTyped
    <3> HIDE DEF CallRecords
    <3>3. Tail(jobs[1].calls) \in Seq(CallRecords)
      <4>1. 1 \in 1..Len(jobs)
        <5>1. jobs \in Seq(JobRecords)
          BY DEF QueueOrdered
        <5> QED
          BY <5>1
      <4> QED
        BY <3>2, <4>1
    <3> QED
      BY <3>1, <3>2, <3>3
  <2>2. QueueLeads(jobs', Spoilt(x, T), Spoilt(u, T))
    BY <1>2, <2>1, SpoiltQueueLeads
  <2> QED
    BY <1>4, <1>5, <2>2
<1>8. Views' = Views /\ AllAccounts' = AllAccounts /\ Lost \subseteq T
  BY <1>3 DEF Views, AllAccounts
<1>9. call.from \in AllAccounts /\ call.to \in AllAccounts
  BY DEF CallRecords
<1> HIDE DEF Views, Lost, CallRecords
<1>10. x.bad \subseteq T
  BY <1>1, <1>2, <1>3 DEF Delivers, Follows
<1>11. ASSUME NEW a \in AllAccounts \ T PROVE Val(keyring', a) = y.held[a]
  <2>1. a \notin x.bad /\ a \notin Lost
    BY <1>8, <1>10, <1>11
  <2>2. x.held[a] = Due(call, v.held, a)
    BY <1>2, <2>1 DEF Delivers
  <2>3. held[a] = v.held[a]
    BY <1>1, <2>1
  <2>4. CASE call.op = "move" /\ a = call.to
    <3>1. call.from \notin Lost
      BY <1>3, <1>11, <2>4 DEF Follows
    <3>2. v.held[call.from] # {} /\ held[call.from] = v.held[call.from]
      BY <1>1, <1>2, <1>9, <2>1, <2>4, <3>1 DEF Delivers
    <3>3. Val(keyring', a) = Due(call, held, a)
      BY <1>3, <1>11, <3>2
    <3> QED
      BY <1>6, <2>2, <2>4, <3>2, <3>3 DEF Due
  <2>5. CASE ~(call.op = "move" /\ a = call.to)
    <3>1. Val(keyring', a) = Due(call, held, a)
      BY <1>3, <1>11, <2>5
    <3> QED
      BY <1>6, <2>2, <2>3, <2>5, <3>1 DEF Due
  <2> QED
    BY <2>4, <2>5
<1>12. Right(z, given, marks)
  BY <1>1, <1>6 DEF Right
<1>13. y.bad \subseteq T /\ T \cap AllAccounts \subseteq z.bad
  BY <1>6, <1>10
<1>14. \E v1 \in Views, u1 \in Views :
         /\ v1.bad \subseteq Lost' /\ Lost' \cap AllAccounts \subseteq u1.bad
         /\ \A a \in AllAccounts \ Lost' : Val(keyring', a) = v1.held[a]
         /\ QueueLeads(jobs', v1, u1)
         /\ Right(u1, given', marks')
  BY <1>3, <1>6, <1>7, <1>11, <1>12, <1>13
<1> QED
  BY <1>8, <1>14 DEF Owed, QueueLeads, CallsLead, Delivers, Due, Follows, Touches, Right, Val, Shown

LEMMA OwedEnded ==
    ASSUME QueueOrdered, Owed, JobEnds
    PROVE  Owed'
<1>1. PICK v \in Views, u \in Views :
        /\ v.bad \subseteq Lost /\ Lost \cap AllAccounts \subseteq u.bad
        /\ \A a \in AllAccounts \ Lost : Val(keyring, a) = v.held[a]
        /\ QueueLeads(jobs, v, u)
        /\ Right(u, given, marks)
  BY DEF Owed
<1>2. Views' = Views /\ AllAccounts' = AllAccounts /\ Lost' = Lost /\ keyring' = keyring
      /\ given' = given /\ marks' = marks
  BY DEF JobEnds, Views, AllAccounts, Lost
<1>3. QueueLeads(jobs', v, u)
  BY <1>1, EndedLeads
<1> HIDE DEF Views, Lost
<1>4. \E v1 \in Views, u1 \in Views :
         /\ v1.bad \subseteq Lost' /\ Lost' \cap AllAccounts \subseteq u1.bad
         /\ \A a \in AllAccounts \ Lost' : Val(keyring', a) = v1.held[a]
         /\ QueueLeads(jobs', v1, u1)
         /\ Right(u1, given', marks')
  BY <1>1, <1>2, <1>3
<1> QED
  BY <1>2, <1>4 DEF Owed, QueueLeads, CallsLead, Delivers, Due, Follows, Touches, Right, Val, Shown

(***************************************************************************)
(* What an error was reported of                                           *)
(***************************************************************************)
LEMMA AccountedKept ==
    ASSUME Accounted, UNCHANGED <<jobs, finished>>, late' \subseteq late, told \subseteq told',
           Available' => Available, ~Available' => AllAccounts \subseteq told'
    PROVE  Accounted'
<1>1. AllAccounts' = AllAccounts /\ CallRecords' = CallRecords
  BY DEF AllAccounts, CallRecords
<1>2. \A owner, taken : Excused(owner, taken) => Excused(owner, taken)'
  BY DEF Excused
<1>3. \A i \in 1..Len(jobs) :
        /\ Meant(jobs[i].calls, jobs[i].owner, jobs[i].restore)
        /\ Excused(jobs[i].owner, jobs[i].rollback)'
        /\ jobs[i].failed => Excused(jobs[i].owner, jobs[i].restore)'
  BY <1>2 DEF Accounted
<1>4. \A k \in 1..Len(finished) : Excused(finished[k].owner, finished[k].rollback \cup finished[k].restore)'
  BY <1>2 DEF Accounted
<1> QED
  BY <1>1, <1>3, <1>4 DEF Accounted, Meant, Excused, Password

LEMMA AccountedEnqueued ==
    ASSUME QueueOrdered, Accounted, UNCHANGED <<finished, late, available, told>>,
           NEW owner \in Owners, NEW calls, CallsSound(calls, owner), NEW restore \in SUBSET Markers,
           Enqueue(owner, calls, restore), Meant(calls, owner, restore)
    PROVE  Accounted'
<1> DEFINE n == Len(jobs)
           job == [id |-> lastJob + 1, owner |-> owner, calls |-> calls,
                   rollback |-> {}, restore |-> restore, failed |-> FALSE]
<1>1. /\ lastJob \in Nat /\ jobs \in Seq(JobRecords) /\ n \in Nat /\ jobs' = Append(jobs, job)
  BY DEF QueueOrdered, Enqueue
<1>2. /\ job \in JobRecords /\ job.calls = calls /\ job.owner = owner /\ job.restore = restore
      /\ job.rollback = {} /\ job.failed = FALSE
  BY <1>1 DEF JobRecords, CallsSound
<1> HIDE DEF job
<1>3. /\ Len(jobs') = n + 1 /\ jobs'[n + 1] = job
      /\ \A i \in 1..n : jobs'[i] = jobs[i]
  BY <1>1, <1>2
<1>4. ASSUME NEW i \in 1..n + 1
      PROVE  /\ Meant(jobs'[i].calls, jobs'[i].owner, jobs'[i].restore)
             /\ Excused(jobs'[i].owner, jobs'[i].rollback)
             /\ jobs'[i].failed => Excused(jobs'[i].owner, jobs'[i].restore)
  <2>1. CASE i = n + 1
    BY <1>2, <1>3, <2>1 DEF Excused
  <2>2. CASE i # n + 1
    <3>1. i \in 1..n
      BY <1>1, <2>2
    <3> QED
      BY <1>3, <3>1 DEF Accounted
  <2> QED
    BY <2>1, <2>2
<1>5. Available' = Available /\ AllAccounts' = AllAccounts
  BY DEF Available, AllAccounts
<1>6. \A i \in 1..Len(jobs') :
        /\ Meant(jobs'[i].calls, jobs'[i].owner, jobs'[i].restore)
        /\ Excused(jobs'[i].owner, jobs'[i].rollback)
        /\ jobs'[i].failed => Excused(jobs'[i].owner, jobs'[i].restore)
  BY <1>3, <1>4
<1>7. \A i \in 1..Len(jobs') :
        /\ Meant(jobs[i].calls, jobs[i].owner, jobs[i].restore)'
        /\ Excused(jobs[i].owner, jobs[i].rollback)'
        /\ (jobs[i].failed => Excused(jobs[i].owner, jobs[i].restore))'
  BY <1>6 DEF Meant, Excused, Password
<1>8. \A k \in 1..Len(finished) : Excused(finished[k].owner, finished[k].rollback \cup finished[k].restore)'
  BY DEF Accounted, Excused
<1> QED
  BY <1>5, <1>7, <1>8 DEF Accounted

(* the first job after its next call: what it takes back since then, and   *)
(* what it puts back if the call failed, is in what was reported           *)
LEMMA RunCallCases ==
    ASSUME QueueOrdered, RunCall, NEW call, call = Head(jobs[1].calls)
    PROVE  /\ call \in CallRecords /\ 1 \in 1..Len(jobs) /\ call = jobs[1].calls[1] /\ Len(jobs[1].calls) >= 1
           /\ jobs[1].calls \in Seq(CallRecords)
           /\ \E failed \in BOOLEAN, rollback \in SUBSET Markers :
                /\ jobs'[1].failed = failed /\ jobs'[1].rollback = rollback
                /\ \A i \in 1..Len(jobs) : i # 1 => jobs'[i] = jobs[i]
                /\ rollback \subseteq jobs[1].rollback \cup {call.to[2]}
                /\ \/ /\ Available /\ keyring' = Performed(call) /\ late' = late
                      /\ told' = Follows(told, call) /\ strays' = Follows(strays, call)
                      /\ failed = jobs[1].failed /\ rollback = jobs[1].rollback
                   \/ /\ ~Available /\ failed = jobs[1].failed /\ told' = told /\ strays' = strays /\ late' = late
                   \/ /\ Available /\ keyring' \in Attempted(call)
                      /\ told' = told \cup {call.from, call.to} /\ strays' = strays
                      /\ late' \subseteq late \cup {call}
<1> DEFINE job == jobs[1]
           undone == IF call.op = "erase" THEN job.rollback ELSE job.rollback \cup {call.to[2]}
<1>1. jobs \in Seq(JobRecords) /\ jobs # <<>> /\ job.calls # <<>>
  BY DEF QueueOrdered, RunCall
<1>2. 1 \in 1..Len(jobs) /\ Len(jobs) \in Nat
  BY <1>1
<1>3. /\ job \in JobRecords /\ job.calls \in Seq(CallRecords) /\ job.rollback \in SUBSET Markers
      /\ job.failed \in BOOLEAN
  <2>1. job \in JobRecords
    BY <1>2, QueueTyped
  <2> QED
    BY <2>1 DEF JobRecords
<1>4. /\ call \in CallRecords /\ Tail(job.calls) \in Seq(CallRecords)
      /\ call = job.calls[1] /\ Len(job.calls) >= 1
  BY <1>1, <1>3
<1>5. undone \in SUBSET Markers /\ undone \subseteq job.rollback \cup {call.to[2]}
  <2>1. call.to \in AllAccounts
    BY <1>4 DEF CallRecords
  <2>2. call.to[2] \in Markers
    BY <2>1, AccountPairs
  <2> QED
    BY <1>3, <2>2
<1>6. ASSUME NEW failed \in BOOLEAN, NEW rollback \in SUBSET Markers, jobs' = CallTaken(failed, rollback)
      PROVE  /\ jobs'[1].failed = failed /\ jobs'[1].rollback = rollback
             /\ \A i \in 1..Len(jobs) : i # 1 => jobs'[i] = jobs[i]
  <2>1. PICK j : j = [job EXCEPT !.calls = Tail(job.calls), !.failed = failed, !.rollback = rollback]
    OBVIOUS
  <2>2. j.failed = failed /\ j.rollback = rollback
    BY <1>3, <1>4, <2>1 DEF JobRecords
  <2>3. jobs' = [jobs EXCEPT ![1] = j]
    BY <1>6, <2>1 DEF CallTaken
  <2>4. jobs'[1] = j /\ \A i \in 1..Len(jobs) : i # 1 => jobs'[i] = jobs[i]
    BY <1>1, <1>2, <2>3
  <2> QED
    BY <2>2, <2>4
<1> HIDE DEF undone
<1>7. \/ /\ Available /\ keyring' = Performed(call) /\ jobs' = CallTaken(job.failed, job.rollback)
         /\ told' = Follows(told, call) /\ strays' = Follows(strays, call) /\ late' = late
      \/ /\ ~Available /\ jobs' = CallTaken(job.failed, IF call.op = "write" THEN undone ELSE job.rollback)
         /\ told' = told /\ strays' = strays /\ late' = late
      \/ /\ Available /\ keyring' \in Attempted(call) /\ jobs' = CallTaken(TRUE, undone)
         /\ told' = told \cup {call.from, call.to} /\ strays' = strays /\ late' \subseteq late \cup {call}
  <2>1. keyring \in Attempted(call)
    BY DEF Attempted
  <2> QED
    BY <2>1 DEF RunCall, undone
<1>8. CASE /\ Available /\ keyring' = Performed(call) /\ jobs' = CallTaken(job.failed, job.rollback)
           /\ told' = Follows(told, call) /\ strays' = Follows(strays, call) /\ late' = late
  BY <1>2, <1>3, <1>4, <1>6, <1>8
<1>9. CASE /\ ~Available /\ jobs' = CallTaken(job.failed, IF call.op = "write" THEN undone ELSE job.rollback)
           /\ told' = told /\ strays' = strays /\ late' = late
  <2>1. PICK rollback : rollback = IF call.op = "write" THEN undone ELSE job.rollback
    OBVIOUS
  <2>2. rollback \in SUBSET Markers /\ rollback \subseteq job.rollback \cup {call.to[2]}
    BY <1>3, <1>5, <2>1
  <2>3. jobs' = CallTaken(job.failed, rollback)
    BY <1>9, <2>1
  <2>4. /\ jobs'[1].failed = job.failed /\ jobs'[1].rollback = rollback
        /\ \A i \in 1..Len(jobs) : i # 1 => jobs'[i] = jobs[i]
    BY <1>3, <1>6, <2>2, <2>3
  <2> QED
    BY <1>2, <1>3, <1>4, <1>9, <2>2, <2>4
<1>10. CASE /\ Available /\ keyring' \in Attempted(call) /\ jobs' = CallTaken(TRUE, undone)
            /\ told' = told \cup {call.from, call.to} /\ strays' = strays /\ late' \subseteq late \cup {call}
  BY <1>2, <1>3, <1>4, <1>5, <1>6, <1>10
<1> QED
  BY <1>7, <1>8, <1>9, <1>10

LEMMA RunCallAccounted ==
    ASSUME QueueOrdered, Accounted, RunCall
    PROVE  Accounted'
<1>1. PICK call : call = Head(jobs[1].calls)
  OBVIOUS
<1>2. /\ call \in CallRecords /\ 1 \in 1..Len(jobs) /\ call = jobs[1].calls[1] /\ Len(jobs[1].calls) >= 1
      /\ jobs[1].calls \in Seq(CallRecords)
  BY <1>1, RunCallCases
<1>3. PICK failed \in BOOLEAN, rollback \in SUBSET Markers :
        /\ jobs'[1].failed = failed /\ jobs'[1].rollback = rollback
        /\ \A i \in 1..Len(jobs) : i # 1 => jobs'[i] = jobs[i]
        /\ rollback \subseteq jobs[1].rollback \cup {call.to[2]}
        /\ \/ /\ Available /\ keyring' = Performed(call) /\ late' = late
              /\ told' = Follows(told, call) /\ strays' = Follows(strays, call)
              /\ failed = jobs[1].failed /\ rollback = jobs[1].rollback
           \/ /\ ~Available /\ failed = jobs[1].failed /\ told' = told /\ strays' = strays /\ late' = late
           \/ /\ Available /\ keyring' \in Attempted(call)
              /\ told' = told \cup {call.from, call.to} /\ strays' = strays
              /\ late' \subseteq late \cup {call}
  BY <1>1, RunCallCases
<1>4. /\ Len(jobs') = Len(jobs)
      /\ \A i \in 1..Len(jobs) :
           /\ jobs'[i].owner = jobs[i].owner /\ jobs'[i].restore = jobs[i].restore
           /\ jobs'[i].calls = IF i = 1 THEN Tail(jobs[i].calls) ELSE jobs[i].calls
      /\ UNCHANGED <<finished, available>>
  BY RunCallTakes DEF HeadTaken, RunCall
<1>5. told \subseteq told' /\ Available' = Available
  BY <1>3, <1>4 DEF Follows, Available
<1>6. \A owner, taken : Excused(owner, taken) => Excused(owner, taken)'
  BY <1>5 DEF Excused
<1>7. call.to \in AllAccounts /\ call.to[1] = jobs[1].owner /\ call.to = <<jobs[1].owner, call.to[2]>>
  <2>1. call.to \in AllAccounts
    BY <1>2 DEF CallRecords
  <2>2. JobSound(jobs[1])
    BY <1>2, QueueTyped
  <2>3. call.to[1] = jobs[1].owner
    <3>1. 1 \in 1..Len(jobs[1].calls)
      BY <1>2
    <3> QED
      BY <1>2, <2>2, <3>1 DEF JobSound, CallsSound
  <2> QED
    BY <2>1, <2>3, AccountPairs
<1>8. Meant(jobs[1].calls, jobs[1].owner, jobs[1].restore) /\ Excused(jobs[1].owner, jobs[1].rollback)
      /\ (jobs[1].failed => Excused(jobs[1].owner, jobs[1].restore))
  BY <1>2 DEF Accounted
<1>9. Meant(Tail(jobs[1].calls), jobs[1].owner, jobs[1].restore)
  <2>1. PICK calls : calls = jobs[1].calls
    OBVIOUS
  <2>2. /\ Len(Tail(calls)) = Len(calls) - 1 /\ \A j \in 1..Len(calls) - 1 : Tail(calls)[j] = calls[j + 1] /\ j + 1 \in 1..Len(calls)
    BY <1>2, <2>1
  <2>3. Meant(calls, jobs[1].owner, jobs[1].restore)
    BY <1>8, <2>1
  <2>4. Meant(Tail(calls), jobs[1].owner, jobs[1].restore)
    BY ONLY <2>2, <2>3 DEF Meant
  <2> QED
    BY <2>1, <2>4
<1>10. call.to \in told' \/ rollback = jobs[1].rollback
  BY <1>3, <1>7 DEF Accounted
<1>11. Excused(jobs[1].owner, rollback)'
  <2> SUFFICES ASSUME NEW m \in rollback PROVE <<jobs[1].owner, m>> \in told'
    <3>1. \A m \in rollback : <<jobs[1].owner, m>> \in told'
      OBVIOUS
    <3>2. jobs'[1].owner = jobs[1].owner
      BY <1>2, <1>4
    <3> QED
      BY <3>1, <3>2 DEF Excused
  <2>1. CASE m \in jobs[1].rollback
    BY <1>5, <1>8, <2>1 DEF Excused
  <2>2. CASE m \notin jobs[1].rollback
    <3>1. m = call.to[2] /\ call.to \in told'
      BY <1>3, <1>10, <2>2
    <3> QED
      BY <1>7, <3>1
  <2> QED
    BY <2>1, <2>2
<1>12. failed => \A m \in jobs[1].restore : <<jobs[1].owner, m>> \in told'
  <2> SUFFICES ASSUME failed, NEW m \in jobs[1].restore PROVE <<jobs[1].owner, m>> \in told'
    OBVIOUS
  <2>1. CASE jobs[1].failed
    BY <1>5, <1>8, <2>1 DEF Excused
  <2>2. CASE ~jobs[1].failed
    <3>1. call.to \in told'
      BY <1>3, <2>2
    <3>2. jobs[1].owner \in Aliases /\ call.to = Password(jobs[1].owner)
      <4>1. 1 \in 1..Len(jobs[1].calls)
        BY <1>2
      <4> QED
        BY <1>2, <1>8, <4>1 DEF Meant
    <3>3. JobSound(jobs[1])
      BY <1>2, QueueTyped
    <3>4. m = "password"
      BY <3>2, <3>3 DEF JobSound, OwnMarkers
    <3> QED
      BY <3>1, <3>2, <3>4 DEF Password
  <2> QED
    BY <2>1, <2>2
<1>13. ASSUME NEW i \in 1..Len(jobs)
       PROVE  /\ Meant(jobs[i].calls, jobs[i].owner, jobs[i].restore)'
              /\ Excused(jobs[i].owner, jobs[i].rollback)'
              /\ (jobs[i].failed => Excused(jobs[i].owner, jobs[i].restore))'
  <2>1. CASE i = 1
    <3>1. Meant(jobs'[1].calls, jobs'[1].owner, jobs'[1].restore)
      BY <1>2, <1>4, <1>9
    <3>2. \A m \in jobs'[1].rollback : <<jobs'[1].owner, m>> \in told'
      BY <1>2, <1>3, <1>4, <1>11 DEF Excused
    <3>3. jobs'[1].failed => \A m \in jobs'[1].restore : <<jobs'[1].owner, m>> \in told'
      BY <1>2, <1>3, <1>4, <1>12
    <3> QED
      BY <2>1, <3>1, <3>2, <3>3 DEF Meant, Excused, Password
  <2>2. CASE i # 1
    <3>1. jobs'[i] = jobs[i]
      BY <1>3, <2>2
    <3>2. /\ Meant(jobs[i].calls, jobs[i].owner, jobs[i].restore) /\ Excused(jobs[i].owner, jobs[i].rollback)
          /\ (jobs[i].failed => Excused(jobs[i].owner, jobs[i].restore))
      BY DEF Accounted
    <3> QED
      BY <1>5, <3>1, <3>2 DEF Meant, Excused, Password
  <2> QED
    BY <2>1, <2>2
<1>14. \A c \in late' : c \in CallRecords /\ c.from \in told' /\ c.to \in told'
  BY <1>2, <1>3, <1>5 DEF Accounted
<1>15. \A k \in 1..Len(finished) : Excused(finished[k].owner, finished[k].rollback \cup finished[k].restore)'
  BY <1>4, <1>5 DEF Accounted, Excused
<1>16. ~Available => AllAccounts \subseteq told'
  BY <1>5 DEF Accounted
<1>17. AllAccounts' = AllAccounts /\ CallRecords' = CallRecords
  BY DEF AllAccounts, CallRecords
<1> HIDE DEF CallRecords
<1> QED
  BY <1>4, <1>5, <1>13, <1>14, <1>15, <1>16, <1>17 DEF Accounted

LEMMA JobEndsAccounted ==
    ASSUME QueueOrdered, Accounted, JobEnds
    PROVE  Accounted'
<1> DEFINE n == Len(jobs)
           m == Len(finished)
           done == [id |-> jobs[1].id, owner |-> jobs[1].owner, rollback |-> jobs[1].rollback,
                    restore |-> IF jobs[1].failed THEN jobs[1].restore ELSE {}]
<1>1. /\ jobs \in Seq(JobRecords) /\ n \in Nat /\ 1 \in 1..n /\ jobs[1] \in JobRecords
      /\ finished \in Seq(DoneRecords) /\ m \in Nat
      /\ jobs' = Tail(jobs) /\ finished' = Append(finished, done)
      /\ UNCHANGED <<late, told, available>>
  BY DEF QueueOrdered, JobEnds
<1>2. /\ done \in DoneRecords /\ done.owner = jobs[1].owner /\ done.rollback = jobs[1].rollback
      /\ done.restore = IF jobs[1].failed THEN jobs[1].restore ELSE {}
  BY <1>1 DEF JobRecords, DoneRecords
<1> HIDE DEF done
<1>3. Len(jobs') = n - 1 /\ \A i \in 1..n - 1 : jobs'[i] = jobs[i + 1] /\ i + 1 \in 1..n
  BY <1>1
<1>4. /\ Len(finished') = m + 1 /\ finished'[m + 1] = done
      /\ \A k \in 1..m : finished'[k] = finished[k]
  BY <1>1, <1>2
<1>5. \A i \in 1..n - 1 :
        /\ Meant(jobs'[i].calls, jobs'[i].owner, jobs'[i].restore)
        /\ Excused(jobs'[i].owner, jobs'[i].rollback)
        /\ jobs'[i].failed => Excused(jobs'[i].owner, jobs'[i].restore)
  BY <1>3 DEF Accounted
<1>6. ASSUME NEW k \in 1..m + 1 PROVE Excused(finished'[k].owner, finished'[k].rollback \cup finished'[k].restore)
  <2>1. CASE k = m + 1
    <3>1. /\ Excused(jobs[1].owner, jobs[1].rollback)
          /\ jobs[1].failed => Excused(jobs[1].owner, jobs[1].restore)
      BY <1>1 DEF Accounted
    <3> QED
      BY <1>2, <1>4, <2>1, <3>1 DEF Excused
  <2>2. CASE k # m + 1
    <3>1. k \in 1..m
      BY <1>1, <2>2
    <3> QED
      BY <1>4, <3>1 DEF Accounted
  <2> QED
    BY <2>1, <2>2
<1>7. /\ \A i \in 1..Len(jobs') :
           /\ Meant(jobs[i].calls, jobs[i].owner, jobs[i].restore)'
           /\ Excused(jobs[i].owner, jobs[i].rollback)'
           /\ (jobs[i].failed => Excused(jobs[i].owner, jobs[i].restore))'
      /\ \A k \in 1..Len(finished') : Excused(finished[k].owner, finished[k].rollback \cup finished[k].restore)'
  BY <1>1, <1>3, <1>4, <1>5, <1>6 DEF Meant, Excused, Password
<1>8. Available' = Available /\ AllAccounts' = AllAccounts
  BY <1>1 DEF Available, AllAccounts
<1> QED
  BY <1>1, <1>7, <1>8 DEF Accounted

LEMMA FinishAccounted ==
    ASSUME QueueOrdered, Accounted, FinishJob
    PROVE  /\ Accounted'
           /\ Excused(finished[1].owner, finished[1].rollback \cup finished[1].restore)
           /\ Head(finished) = finished[1]
<1>1. finished \in Seq(DoneRecords) /\ finished # <<>> /\ finished' = Tail(finished)
  BY DEF QueueOrdered, FinishJob
<1>2. /\ 1 \in 1..Len(finished) /\ Len(finished) \in Nat /\ Head(finished) = finished[1]
      /\ Len(finished') = Len(finished) - 1
      /\ \A k \in 1..Len(finished) - 1 : finished'[k] = finished[k + 1] /\ k + 1 \in 1..Len(finished)
  BY <1>1
<1>3. UNCHANGED <<jobs, late, told, available>>
  BY DEF FinishJob
<1>4. \A k \in 1..Len(finished') : Excused(finished'[k].owner, finished'[k].rollback \cup finished'[k].restore)
  BY <1>2 DEF Accounted
<1>5. /\ \A k \in 1..Len(finished') : Excused(finished[k].owner, finished[k].rollback \cup finished[k].restore)'
      /\ \A i \in 1..Len(jobs) :
           /\ Meant(jobs[i].calls, jobs[i].owner, jobs[i].restore)'
           /\ Excused(jobs[i].owner, jobs[i].rollback)'
           /\ (jobs[i].failed => Excused(jobs[i].owner, jobs[i].restore))'
  BY <1>3, <1>4 DEF Meant, Excused, Password, Accounted
<1>6. Available' = Available /\ AllAccounts' = AllAccounts
  BY <1>3 DEF Available, AllAccounts
<1>7. Accounted'
  BY <1>3, <1>5, <1>6 DEF Accounted
<1> QED
  BY <1>2, <1>7 DEF Accounted

(***************************************************************************)
(* What is owed after the steps of the queue                               *)
(***************************************************************************)
LEMMA PerformedIs ==
    ASSUME NEW call \in CallRecords, call.op \in {"write", "erase"} => call.from = call.to,
           NEW held, \A a \in AllAccounts : held[a] = Val(keyring, a), NEW a \in AllAccounts,
           call.op = "move" /\ a = call.to => held[call.from] # {}
    PROVE  Val(Performed(call), a) = Due(call, held, a)
<1>1. call.op \in {"write", "erase", "move"} /\ call.from \in AllAccounts
  BY DEF CallRecords
<1> HIDE DEF CallRecords
<1>2. CASE call.op = "write"
  BY <1>2 DEF Performed, With, Val, Due, Touches
<1>3. CASE call.op = "erase"
  BY <1>3 DEF Performed, Without, Val, Due, Touches
<1>4. CASE call.op = "move"
  <2>1. CASE call.from \in DOMAIN keyring
    <3>1. PICK k : k = With(Without(keyring, {call.from}), call.to, keyring[call.from])
      OBVIOUS
    <3>2. Performed(call) = k
      BY <1>4, <2>1, <3>1 DEF Performed
    <3>3. /\ DOMAIN k = (DOMAIN keyring \ {call.from}) \cup {call.to}
          /\ \A b \in DOMAIN k : k[b] = IF b = call.to THEN keyring[call.from] ELSE keyring[b]
      BY <3>1 DEF With, Without
    <3>4. CASE a = call.to
      BY <1>1, <1>4, <2>1, <3>2, <3>3, <3>4 DEF Val, Due
    <3>5. CASE a # call.to
      BY <1>4, <2>1, <3>2, <3>3, <3>5 DEF Val, Due, Touches
    <3> QED
      BY <3>4, <3>5
  <2>2. CASE call.from \notin DOMAIN keyring
    <3>1. Performed(call) = keyring
      BY <1>4, <2>2 DEF Performed
    <3>2. held[call.from] = {}
      BY <1>1, <2>2 DEF Val
    <3>3. a # call.to
      BY <1>4, <3>2
    <3> QED
      BY <1>4, <2>2, <3>1, <3>3 DEF Val, Due, Touches
  <2> QED
    BY <2>1, <2>2
<1> QED
  BY <1>1, <1>2, <1>3, <1>4

LEMMA OthersUntouched ==
    ASSUME NEW call, NEW k \in {Performed(call)} \cup Attempted(call), NEW a, ~Touches(call, a),
           call.op \in {"write", "erase", "move"}
    PROVE  Val(k, a) = Val(keyring, a)
<1>1. CASE k = keyring
  BY <1>1
<1>2. CASE k = With(keyring, call.to, keyring[call.from])
  BY <1>2 DEF With, Val, Touches
<1>3. CASE k = Performed(call)
  <2>1. CASE call.op = "write"
    BY <1>3, <2>1 DEF Performed, With, Val, Touches
  <2>2. CASE call.op = "erase"
    BY <1>3, <2>2 DEF Performed, Without, Val, Touches
  <2>3. CASE call.op = "move"
    <3>1. CASE call.from \in DOMAIN keyring
      <4>1. k = With(Without(keyring, {call.from}), call.to, keyring[call.from])
        BY <1>3, <2>3, <3>1 DEF Performed
      <4> QED
        BY <4>1 DEF With, Without, Val, Touches
    <3>2. CASE call.from \notin DOMAIN keyring
      <4>1. k = keyring
        BY <1>3, <2>3, <3>2 DEF Performed
      <4> QED
        BY <4>1
    <3> QED
      BY <3>1, <3>2
  <2> QED
    BY <2>1, <2>2, <2>3
<1> QED
  BY <1>1, <1>2, <1>3 DEF Attempted

LEMMA RunCallOwed ==
    ASSUME QueueOrdered, QueueOrdered', Accounted, Accounted', Owed, RunCall
    PROVE  Owed'
<1>1. PICK call : call = Head(jobs[1].calls)
  OBVIOUS
<1>2. /\ call \in CallRecords /\ 1 \in 1..Len(jobs) /\ call = jobs[1].calls[1] /\ Len(jobs[1].calls) >= 1
      /\ jobs[1].calls \in Seq(CallRecords)
  BY <1>1, RunCallCases
<1>3. \/ /\ Available /\ keyring' = Performed(call)
         /\ told' = Follows(told, call) /\ strays' = Follows(strays, call)
      \/ ~Available /\ told' = told
      \/ /\ Available /\ keyring' \in Attempted(call)
         /\ told' = told \cup {call.from, call.to} /\ strays' = strays
  BY <1>1, RunCallCases
<1>4. HeadTaken /\ jobs # <<>> /\ jobs[1].calls # <<>>
  BY RunCallTakes
<1>5. given' = given /\ marks' = marks
  BY DEF RunCall
<1>6. call.op \in {"write", "erase"} => call.from = call.to
  <2>1. 1 \in 1..Len(jobs[1].calls) /\ JobSound(jobs[1]) /\ Meant(jobs[1].calls, jobs[1].owner, jobs[1].restore)
    BY <1>2, QueueTyped DEF Accounted
  <2> QED
    BY <1>2, <2>1 DEF JobSound, CallsSound, Meant
<1>7. PICK held : held = [a \in AllAccounts |-> Val(keyring, a)]
  OBVIOUS
<1>8. \A a \in AllAccounts : held[a] = Val(keyring, a)
  BY <1>7
<1>9. call.op \in {"write", "erase", "move"}
  BY <1>2 DEF CallRecords
<1>10. AllAccounts' = AllAccounts
  BY DEF AllAccounts
<1>11. CASE Available /\ keyring' = Performed(call) /\ told' = Follows(told, call) /\ strays' = Follows(strays, call)
  <2>1. Lost \subseteq Lost' /\ Follows(Lost, call) \subseteq Lost'
    BY <1>11 DEF Lost, Follows
  <2>2. \A a \in AllAccounts \ Lost' : (call.op = "move" /\ a = call.to => held[call.from] # {}) =>
          Val(keyring', a) = Due(call, held, a)
    BY <1>2, <1>6, <1>8, <1>11, PerformedIs
  <2> QED
    BY <1>1, <1>2, <1>4, <1>5, <1>8, <2>1, <2>2, OwedTaken
<1>12. CASE ~Available /\ told' = told
  <2>1. AllAccounts' \subseteq Lost'
    BY <1>10, <1>12 DEF Accounted, Lost
  <2>2. QueueOrdered' /\ (AllAccounts \subseteq Lost)'
    BY <2>1
  <2> QED
    BY <2>2, AllLostOwes, PTL
<1>13. CASE Available /\ keyring' \in Attempted(call) /\ told' = told \cup {call.from, call.to} /\ strays' = strays
  <2>1. Lost \subseteq Lost' /\ Follows(Lost, call) \subseteq Lost' /\ {call.from, call.to} \subseteq Lost'
    BY <1>13 DEF Lost, Follows
  <2>2. ASSUME NEW a \in AllAccounts \ Lost' PROVE Val(keyring', a) = Due(call, held, a)
    <3>1. ~Touches(call, a)
      BY <2>1, <2>2 DEF Touches
    <3>2. Val(keyring', a) = Val(keyring, a)
      BY <1>9, <1>13, <3>1, OthersUntouched
    <3> QED
      BY <1>8, <3>1, <3>2 DEF Due, Touches
  <2> QED
    BY <1>1, <1>2, <1>4, <1>5, <1>8, <2>1, <2>2, OwedTaken
<1> QED
  BY <1>3, <1>11, <1>12, <1>13

(* marks and what the user wants stay; what else happens to the keyring is *)
(* told of                                                                 *)
LEMMA UndisturbedOwed ==
    ASSUME QueueOrdered, Owed, jobs' = jobs, given' = given, marks' = marks, Lost \subseteq Lost',
           \A a \in AllAccounts \ Lost' : Val(keyring', a) = Val(keyring, a)
    PROVE  Owed'
  BY OwedKept

LEMMA LateLandsOwed ==
    ASSUME QueueOrdered, Accounted, Owed, LateLands
    PROVE  Owed'
<1>1. PICK call \in late : keyring' \in {Performed(call)} \cup Attempted(call)
  BY DEF LateLands
<1>2. call.from \in told /\ call.to \in told /\ call.op \in {"write", "erase", "move"}
  BY DEF Accounted, CallRecords
<1>3. UNCHANGED <<jobs, given, marks, told, strays>>
  BY DEF LateLands
<1>4. Lost' = Lost
  BY <1>3 DEF Lost
<1>5. \A a \in AllAccounts \ Lost' : ~Touches(call, a)
  BY <1>2, <1>4 DEF Lost, Touches
<1>6. \A a \in AllAccounts \ Lost' : Val(keyring', a) = Val(keyring, a)
  BY <1>1, <1>2, <1>5, OthersUntouched
<1> QED
  BY <1>3, <1>4, <1>6, UndisturbedOwed

(* finish_keyring_job: only markers change of which an error was reported  *)
LEMMA FinishOwed ==
    ASSUME QueueOrdered, Accounted, Owed, FinishJob
    PROVE  Owed'
<1> DEFINE done == finished[1]
<1>1. Excused(done.owner, done.rollback \cup done.restore) /\ Head(finished) = done
  BY FinishAccounted
<1>2. /\ UNCHANGED <<jobs, given, keyring, told, strays>>
      /\ marks' = IF done.owner \in DOMAIN marks THEN Settled(done) ELSE marks
  BY <1>1 DEF FinishJob
<1> HIDE DEF done
<1>3. Lost' = Lost
  BY <1>2 DEF Lost
<1>4. CASE marks' = marks
  BY <1>2, <1>3, <1>4, UndisturbedOwed
<1>5. CASE marks' # marks
  <2>1. /\ done.owner \in DOMAIN marks
        /\ marks' = With(marks, done.owner, (marks[done.owner] \ done.rollback) \cup done.restore)
    BY <1>2, <1>5 DEF Settled, Marked
  <2>2. ASSUME NEW a \in AllAccounts \ Lost' PROVE Shown(marks', a) <=> Shown(marks, a)
    <3>1. CASE a[1] = done.owner
      <4>1. a = <<done.owner, a[2]>> /\ a \notin told
        BY <1>3, <2>2, <3>1, AccountPairs DEF Lost
      <4>2. a[2] \notin done.rollback \cup done.restore
        BY <1>1, <4>1 DEF Excused
      <4>3. done.owner \in DOMAIN marks' /\ marks'[done.owner] = (marks[done.owner] \ done.rollback) \cup done.restore
        BY <2>1 DEF With
      <4> QED
        BY <2>1, <3>1, <4>2, <4>3 DEF Shown
    <3>2. CASE a[1] # done.owner
      BY <2>1, <3>2 DEF With, Shown
    <3> QED
      BY <3>1, <3>2
  <2> QED
    BY <1>2, <1>3, <2>2, OwedKept
<1> QED
  BY <1>4, <1>5

(***************************************************************************)
(* What is owed after the commands                                         *)
(***************************************************************************)
LEMMA ValWith ==
    ASSUME NEW f, NEW x, NEW y, NEW a
    PROVE  Val(With(f, x, y), a) = IF a = x THEN {y} ELSE Val(f, a)
  BY DEF With, Val

LEMMA ValWithout ==
    ASSUME NEW f, NEW S, NEW a
    PROVE  Val(Without(f, S), a) = IF a \in S THEN {} ELSE Val(f, a)
  BY DEF Without, Val

LEMMA ValOver ==
    ASSUME NEW f, NEW g, NEW a
    PROVE  Val(Over(f, g), a) = IF a \in DOMAIN g THEN Val(g, a) ELSE Val(f, a)
  BY DEF Over, Val

(* while the keyring is not to be had, an error is reported of every       *)
(* secret                                                                  *)
LEMMA UnavailableOwed ==
    ASSUME QueueOrdered', Accounted, ~Available, told \subseteq told'
    PROVE  Owed'
<1>1. AllAccounts' = AllAccounts
  BY DEF AllAccounts
<1>2. (AllAccounts \subseteq Lost)'
  BY <1>1 DEF Accounted, Lost
<1> QED
  BY <1>2, AllLostOwes, PTL

(* what the user wants saved once a profile was edited, and maybe renamed  *)
GivenAnew(original, name, kept, replaced, secret) ==
    Over(Without(given, Accounts(original) \cup Accounts(name)),
         Over([a \in {name} \X {m \in kept : <<original, m>> \in DOMAIN given} |-> given[<<original, a[2]>>]],
              [a \in {name} \X replaced |-> secret]))

LEMMA WantedIs ==
    ASSUME NEW original \in Profiles, NEW name \in Profiles, NEW kept \in SUBSET Markers,
           NEW replaced \in SUBSET Markers, NEW secret, NEW a \in AllAccounts
    PROVE  Val(GivenAnew(original, name, kept, replaced, secret), a) =
             IF a[1] = name
             THEN IF a[2] \in replaced THEN {secret}
                  ELSE IF a[2] \in kept THEN Val(given, <<original, a[2]>>) ELSE {}
             ELSE IF a[1] = original THEN {} ELSE Val(given, a)
<1> DEFINE g == GivenAnew(original, name, kept, replaced, secret)
           ours == {name} \X {m \in kept : <<original, m>> \in DOMAIN given}
           others == Without(given, Accounts(original) \cup Accounts(name))
           moved == [b \in ours |-> given[<<original, b[2]>>]]
           new == [b \in {name} \X replaced |-> secret]
<1>1. PICK w : w = Over(moved, new)
  OBVIOUS
<1>2. a = <<a[1], a[2]>> /\ a[2] \in Markers
  BY AccountPairs
<1>3. a \in ours <=> a[1] = name /\ a[2] \in kept /\ <<original, a[2]>> \in DOMAIN given
  BY <1>2
<1>4. a \in {name} \X replaced <=> a[1] = name /\ a[2] \in replaced
  BY <1>2
<1>5. a \in Accounts(original) \cup Accounts(name) <=> a[1] \in {original, name}
  BY <1>2 DEF Accounts
<1>6. DOMAIN w = ours \cup ({name} \X replaced)
  BY <1>1 DEF Over
<1>7. Val(w, a) = IF a \in {name} \X replaced THEN {secret} ELSE Val(moved, a)
  <2>1. DOMAIN new = {name} \X replaced
    OBVIOUS
  <2>2. a \in {name} \X replaced => Val(new, a) = {secret}
    BY DEF Val
  <2> HIDE DEF moved, new, ours
  <2> QED
    BY <1>1, <2>1, <2>2, ValOver
<1>8. Val(moved, a) = IF a \in ours THEN Val(given, <<original, a[2]>>) ELSE {}
  BY <1>3 DEF Val
<1>9. Val(others, a) = IF a[1] \in {original, name} THEN {} ELSE Val(given, a)
  BY <1>5, ValWithout
<1>10. g = Over(others, w)
  BY <1>1 DEF GivenAnew
<1> HIDE DEF ours, others, moved, new, g
<1>11. Val(g, a) = IF a \in DOMAIN w THEN Val(w, a) ELSE Val(others, a)
  BY <1>10, ValOver
<1>12. a[1] = name /\ a[2] \in kept /\ <<original, a[2]>> \notin DOMAIN given => Val(given, <<original, a[2]>>) = {}
  BY DEF Val
<1> QED
  BY <1>3, <1>4, <1>6, <1>7, <1>8, <1>9, <1>11, <1>12 DEF g

LEMMA SaveProfileOwed ==
    ASSUME MarkersIInv, MarkersIInv', Accounted, Owed, NEW original \in Profiles, NEW name \in Profiles,
           NEW edit \in [Markers -> {"Keep", "Clear", "Replace"}], SaveProfile(original, name, edit)
    PROVE  Accounted' /\ Owed'
<1> DEFINE before == MarkersOf(original)
           kept == Kept(before, edit)
           replaced == Replaced(edit)
           dropped == Dropped(before, kept, replaced)
           saved == With(Without(marks, {original}), name, kept)
           calls == ChangeCalls(name, original, before, replaced, dropped, typed + 1)
           queued == Available /\ ((original # name /\ before # {}) \/ replaced # {} \/ dropped # {})
<1>1. /\ MarksOK /\ QueueOrdered /\ QueueOrdered' /\ typed \in Nat /\ original \in Owners /\ name \in Owners
      /\ original \notin Aliases /\ OwnMarkers(original) = Markers
  BY OwnersAssumption DEF MarkersIInv, MarksOK, Owners, OwnMarkers
<1>2. /\ before \in SUBSET Markers /\ kept \in SUBSET before /\ replaced \in SUBSET Markers
      /\ dropped = before \ (kept \cup replaced) /\ kept \cap replaced = {} /\ dropped \in SUBSET Markers
      /\ \A m \in before : Shown(marks, <<original, m>>)
      /\ \A m \in Markers \ before : ~Shown(marks, <<original, m>>)
  <2>1. before \in SUBSET Markers
    BY <1>1 DEF MarksOK, MarkersOf
  <2>2. /\ \A m \in before : Shown(marks, <<original, m>>)
        /\ \A m \in Markers \ before : ~Shown(marks, <<original, m>>)
    BY DEF MarkersOf, Shown
  <2> HIDE DEF before
  <2>3. kept \in SUBSET before /\ replaced \in SUBSET Markers /\ kept \cap replaced = {}
    BY DEF Kept, Replaced
  <2> HIDE DEF kept, replaced
  <2>4. dropped = before \ (kept \cup replaced)
    BY DEF Dropped
  <2> QED
    BY <2>1, <2>2, <2>3, <2>4
<1>3. /\ name \in DOMAIN marks => name = original
      /\ UNCHANGED <<keyring, finished, available, strays, told, late>>
      /\ IF queued THEN marks' = Marked(saved, name, kept \cup replaced) /\ Enqueue(name, calls, {})
                   ELSE marks' = saved /\ NoJob
      /\ Available => given' = GivenAnew(original, name, kept, replaced, typed + 1)
  BY <1>1 DEF SaveProfile, ApplySecretChanges, GivenAnew
<1> HIDE DEF before, kept, replaced, dropped
<1>4. /\ DOMAIN saved = (DOMAIN marks \ {original}) \cup {name}
      /\ saved[name] = kept /\ \A o \in DOMAIN marks \ {original, name} : saved[o] = marks[o]
  BY DEF With, Without
<1>5. /\ DOMAIN marks' = (DOMAIN marks \ {original}) \cup {name}
      /\ marks'[name] = IF queued THEN kept \cup replaced ELSE kept
      /\ \A o \in DOMAIN marks \ {original, name} : marks'[o] = marks[o]
  <2> HIDE DEF saved, queued
  <2>1. CASE queued
    <3>1. marks' = With(saved, name, kept \cup replaced)
      BY <1>3, <1>4, <2>1 DEF Marked
    <3> QED
      BY <1>4, <2>1, <3>1 DEF With
  <2>2. CASE ~queued
    BY <1>3, <1>4, <2>2
  <2> QED
    BY <2>1, <2>2
<1>6. Lost' = Lost /\ AllAccounts' = AllAccounts /\ Available' = Available
  BY <1>3 DEF Lost, AllAccounts, Available
<1>7. ASSUME Available, NEW a \in AllAccounts
      PROVE  Val(given', a) = IF a[1] = name
                              THEN IF a[2] \in replaced THEN {typed + 1}
                                   ELSE IF a[2] \in kept THEN Val(given, <<original, a[2]>>) ELSE {}
                              ELSE IF a[1] = original THEN {} ELSE Val(given, a)
  <2>1. kept \in SUBSET Markers
    BY <1>2
  <2>2. PICK secret : secret = typed + 1
    OBVIOUS
  <2>3. given' = GivenAnew(original, name, kept, replaced, secret)
    BY <1>3, <1>7, <2>2
  <2>4. Val(GivenAnew(original, name, kept, replaced, secret), a) =
          IF a[1] = name
          THEN IF a[2] \in replaced THEN {secret}
               ELSE IF a[2] \in kept THEN Val(given, <<original, a[2]>>) ELSE {}
          ELSE IF a[1] = original THEN {} ELSE Val(given, a)
    BY <1>2, <1>7, <2>1, WantedIs
  <2> QED
    BY <2>2, <2>3, <2>4
<1>8. CASE ~Available
  <2>1. NoJob /\ UNCHANGED <<finished, late, told>>
    BY <1>3, <1>8
  <2>2. Accounted'
    BY <1>6, <1>8, <2>1, AccountedKept DEF NoJob, Accounted
  <2> QED
    BY <1>1, <1>3, <1>8, <2>2, UnavailableOwed
<1>9. CASE Available /\ ~queued
  <2>1. /\ original = name \/ before = {}
        /\ replaced = {} /\ dropped = {} /\ NoJob /\ marks'[name] = kept /\ kept = before
    BY <1>2, <1>3, <1>5, <1>9
  <2>2. Accounted'
    BY <1>3, <1>6, <1>9, <2>1, AccountedKept DEF NoJob
  <2>3. ASSUME NEW a \in AllAccounts \ Lost', Val(given, a) # {} <=> Shown(marks, a)
        PROVE  Val(given', a) = Val(given, a) /\ (Val(given', a) # {} <=> Shown(marks', a))
    <3>1. a = <<a[1], a[2]>> /\ a[2] \in Markers
      BY AccountPairs
    <3>2. CASE a[1] = name
      <4>1. Shown(marks', a) <=> a[2] \in kept
        BY <1>5, <2>1, <3>2 DEF Shown
      <4>2. Val(given', a) = IF a[2] \in kept THEN Val(given, <<original, a[2]>>) ELSE {}
        BY <1>7, <1>9, <2>1, <3>2
      <4>3. CASE original = name
        <5>1. a[2] \in kept <=> Shown(marks, a)
          BY <1>2, <2>1, <3>1, <3>2, <4>3
        <5> QED
          BY <2>3, <3>1, <3>2, <4>1, <4>2, <4>3, <5>1
      <4>4. CASE original # name
        <5>1. kept = {} /\ ~Shown(marks, a)
          BY <1>3, <2>1, <3>2, <4>4 DEF Shown
        <5> QED
          BY <2>3, <4>1, <4>2, <5>1
      <4> QED
        BY <4>3, <4>4
    <3>3. CASE a[1] # name /\ a[1] = original
      <4>1. ~Shown(marks, a) /\ ~Shown(marks', a)
        BY <1>2, <1>5, <2>1, <3>1, <3>3 DEF Shown
      <4> QED
        BY <1>7, <1>9, <2>3, <3>3, <4>1
    <3>4. CASE a[1] # name /\ a[1] # original
      <4>1. Shown(marks', a) <=> Shown(marks, a)
        BY <1>5, <3>4 DEF Shown
      <4> QED
        BY <1>7, <1>9, <2>3, <3>4, <4>1
    <3> QED
      BY <3>2, <3>3, <3>4
  <2>4. jobs' = jobs /\ keyring' = keyring
    BY <1>3, <2>1 DEF NoJob
  <2>5. Owed'
    BY <1>1, <1>6, <2>3, <2>4, OwedKept
  <2> QED
    BY <2>2, <2>5
<1>10. CASE queued
  <2>1. PICK cs : cs = calls
    OBVIOUS
  <2>2. Enqueue(name, cs, {}) /\ Available
    BY <1>3, <1>10, <2>1
  <2>3. CallsSound(cs, name) /\ ListsChanges(cs, name, original, before, replaced, dropped, typed + 1)
    BY <1>1, <1>2, <2>1, ChangeCallsTouch, ChangeCallsAre
  <2>4. Meant(cs, name, {})
    <3> DEFINE moves == MovesIn(name, original, before)
               writes == Cardinality(replaced)
               erasings == Cardinality(dropped)
               ms == SetToSeq(before)
               rs == SetToSeq(replaced)
               ds == SetToSeq(dropped)
    <3>0. /\ moves \in Nat /\ writes \in Nat /\ erasings \in Nat /\ Len(cs) = moves + writes + erasings
          /\ \A j \in 1..moves : cs[j] = Move(<<original, ms[j]>>, <<name, ms[j]>>)
          /\ \A j \in 1..writes : cs[moves + j] = Write(<<name, rs[j]>>, typed + 1)
          /\ \A j \in 1..erasings : cs[moves + writes + j] = Erase(<<name, ds[j]>>)
      BY <2>3 DEF ListsChanges
    <3> HIDE DEF moves, writes, erasings, ms, rs, ds
    <3>1. /\ moves \in Nat /\ writes \in Nat /\ erasings \in Nat /\ Len(cs) = moves + writes + erasings
          /\ \A j \in 1..moves : cs[j].op = "move"
          /\ \A j \in 1..writes : cs[moves + j].op = "write"
          /\ \A j \in 1..erasings : cs[moves + writes + j].from = cs[moves + writes + j].to
      <4>2. ASSUME NEW j \in 1..moves PROVE cs[j].op = "move"
        <5>1. cs[j] = Move(<<original, ms[j]>>, <<name, ms[j]>>)
          BY <3>0
        <5> QED
          BY <5>1 DEF Move
      <4>3. ASSUME NEW j \in 1..writes PROVE cs[moves + j].op = "write"
        <5>1. cs[moves + j] = Write(<<name, rs[j]>>, typed + 1)
          BY <3>0
        <5> QED
          BY <5>1 DEF Write
      <4>4. ASSUME NEW j \in 1..erasings PROVE cs[moves + writes + j].from = cs[moves + writes + j].to
        <5>1. cs[moves + writes + j] = Erase(<<name, ds[j]>>)
          BY <3>0
        <5> QED
          BY <5>1 DEF Erase
      <4> QED
        BY <3>0, <4>2, <4>3, <4>4
    <3>2. ASSUME NEW j \in 1..Len(cs), cs[j].op = "erase" PROVE cs[j].from = cs[j].to
      <4>1. CASE j <= moves
        <5>1. j \in 1..moves
          BY <3>1, <4>1
        <5> QED
          BY <3>1, <3>2, <5>1
      <4>2. CASE j > moves /\ j <= moves + writes
        <5>1. PICK k : k = j - moves
          OBVIOUS
        <5>2. k \in 1..writes /\ j = moves + k
          BY <3>1, <4>2, <5>1
        <5> QED
          BY <3>1, <3>2, <5>2
      <4>3. CASE j > moves + writes
        <5>1. PICK k : k = j - (moves + writes)
          OBVIOUS
        <5>2. k \in 1..erasings /\ j = moves + writes + k
          BY <3>1, <4>3, <5>1
        <5> QED
          BY <3>1, <3>2, <5>2
      <4> QED
        BY <3>1, <4>1, <4>2, <4>3
    <3> QED
      BY <3>2 DEF Meant
  <2>5. Accounted'
    BY <1>1, <1>3, <2>2, <2>3, <2>4, AccountedEnqueued
  <2>6. ASSUME NEW u \in Views, Lost' \cap AllAccounts \subseteq u.bad, Right(u, given, marks)
        PROVE  \E x \in Views : CallsLead(cs, u, x) /\ u.bad \subseteq x.bad /\ Right(x, given', marks')
    <3> HIDE DEF Views, queued, calls
    <3>1. \A m \in Markers : <<original, m>> \in AllAccounts /\ <<name, m>> \in AllAccounts
      BY <1>1, PairsIn
    <3>2. \A m \in before : <<original, m>> \in u.bad \/ u.held[<<original, m>>] # {}
      BY <1>2, <2>6, <3>1 DEF Right
    <3>3. PICK x \in Views : CallsLead(cs, u, x) /\ Changes(u, x, name, original, before, replaced, dropped, typed + 1)
      <4>1. typed + 1 \in Nat
        BY <1>1
      <4>2. cs = ChangeCalls(name, original, before, replaced, dropped, typed + 1)
        BY <2>1 DEF calls
      <4> QED
        BY <1>1, <1>2, <3>2, <4>1, <4>2, ChangesLead
    <3>4. ASSUME NEW a \in AllAccounts \ x.bad
          PROVE  Val(given', a) = x.held[a] /\ (Val(given', a) # {} <=> Shown(marks', a))
      <4>1. a = <<a[1], a[2]>> /\ a[2] \in Markers /\ a \notin u.bad
        BY <3>3, AccountPairs DEF Changes
      <4>2. Val(given, a) = u.held[a] /\ (Val(given, a) # {} <=> Shown(marks, a))
        BY <2>6, <4>1 DEF Right
      <4>3. CASE a[1] = name
        <5>1. Shown(marks', a) <=> a[2] \in kept \cup replaced
          BY <1>5, <1>10, <4>3 DEF Shown
        <5>2. Val(given', a) = IF a[2] \in replaced THEN {typed + 1}
                               ELSE IF a[2] \in kept THEN Val(given, <<original, a[2]>>) ELSE {}
          BY <1>7, <2>2, <4>3
        <5>3. x.held[a] = IF a[2] \in dropped THEN {} ELSE IF a[2] \in replaced THEN {typed + 1}
                          ELSE IF original # name /\ a[2] \in before THEN u.held[<<original, a[2]>>] ELSE u.held[a]
          BY <3>3, <4>1, <4>3 DEF Changes
        <5>4. CASE original = name
          <6>1. a[2] \in before <=> Shown(marks, a)
            BY <1>2, <4>1, <4>3, <5>4
          <6>2. Val(given, <<original, a[2]>>) = Val(given, a)
            BY <4>1, <4>3, <5>4
          <6> QED
            BY <1>2, <4>2, <5>1, <5>2, <5>3, <5>4, <6>1, <6>2
        <5>5. CASE original # name
          <6>1. ~Shown(marks, a)
            BY <1>3, <4>3, <5>5 DEF Shown
          <6>2. CASE a[2] \in before
            <7>1. PICK b : b = <<original, a[2]>>
              OBVIOUS
            <7>2. b \in AllAccounts \ u.bad
              BY <3>1, <3>3, <4>1, <4>3, <5>5, <6>2, <7>1 DEF Changes
            <7>3. Val(given, b) = u.held[b] /\ Val(given, b) # {}
              BY <1>2, <2>6, <6>2, <7>1, <7>2 DEF Right
            <7> QED
              BY <1>2, <5>1, <5>2, <5>3, <5>5, <6>2, <7>1, <7>3
          <6>3. CASE a[2] \notin before
            BY <1>2, <4>2, <5>1, <5>2, <5>3, <5>5, <6>1, <6>3
          <6> QED
            BY <6>2, <6>3
        <5> QED
          BY <5>4, <5>5
      <4>4. CASE a[1] # name /\ a[1] = original
        <5>1. ~Shown(marks', a) /\ Val(given', a) = {}
          BY <1>5, <1>7, <2>2, <4>4 DEF Shown
        <5>2. x.held[a] = IF a[2] \in before THEN {} ELSE u.held[a]
          BY <3>3, <4>1, <4>4 DEF Changes
        <5>3. a[2] \notin before => u.held[a] = {}
          BY <1>2, <4>1, <4>2, <4>4
        <5> QED
          BY <5>1, <5>2, <5>3
      <4>5. CASE a[1] # name /\ a[1] # original
        <5>1. (Shown(marks', a) <=> Shown(marks, a)) /\ Val(given', a) = Val(given, a)
          BY <1>5, <1>7, <2>2, <4>5 DEF Shown
        <5>2. x.held[a] = u.held[a]
          BY <3>3, <4>5 DEF Changes
        <5> QED
          BY <4>2, <5>1, <5>2
      <4> QED
        BY <4>3, <4>4, <4>5
    <3>5. Right(x, given', marks')
      BY <3>4 DEF Right
    <3>6. u.bad \subseteq x.bad
      BY <3>3 DEF Changes
    <3> QED
      BY <3>3, <3>5, <3>6
  <2>7. Owed'
    <3> HIDE DEF Views
    <3>1. keyring' = keyring /\ Lost \subseteq Lost' /\ {} \in SUBSET Markers
      BY <1>3, <1>6
    <3> QED
      BY <1>1, <2>2, <2>3, <2>6, <3>1, OwedEnqueued
  <2> QED
    BY <2>5, <2>7
<1> QED
  BY <1>8, <1>9, <1>10

(* one call, whatever it is *)
LEMMA CallLeads ==
    ASSUME NEW u \in Views, NEW call \in CallRecords,
           call.op = "move" => call.from \in u.bad \/ u.held[call.from] # {}
    PROVE  \E x \in Views :
             /\ CallsLead(<<call>>, u, x) /\ u.bad \subseteq x.bad
             /\ call.op = "move" /\ call.from \in u.bad => call.to \in x.bad
             /\ \A a \in AllAccounts : x.held[a] = Due(call, u.held, a)
<1>1. /\ u.held \in [AllAccounts -> SUBSET Nat] /\ u.bad \in SUBSET AllAccounts
      /\ call.to \in AllAccounts /\ call.from \in AllAccounts /\ call.secret \in Nat
  BY DEF Views, CallRecords
<1>2. PICK held : held = [a \in AllAccounts |-> Due(call, u.held, a)]
  OBVIOUS
<1>3. PICK bad : bad = Follows(u.bad, call)
  OBVIOUS
<1>4. \A a \in AllAccounts : Due(call, u.held, a) \in SUBSET Nat
  BY <1>1 DEF Due
<1>5. held \in [AllAccounts -> SUBSET Nat] /\ \A a \in AllAccounts : held[a] = Due(call, u.held, a)
  BY <1>2, <1>4
<1>6. bad \in SUBSET AllAccounts /\ u.bad \subseteq bad
  BY <1>1, <1>3 DEF Follows
<1>7. PICK x : x = [held |-> held, bad |-> bad]
  OBVIOUS
<1>8. x \in Views /\ x.held = held /\ x.bad = bad
  BY <1>5, <1>6, <1>7 DEF Views
<1> HIDE DEF Views, CallRecords
<1>9. call.op = "move" /\ call.from \in u.bad => call.to \in bad
  BY <1>3 DEF Follows
<1>10. Delivers(call, u, x)
  BY <1>3, <1>5, <1>8, <1>9 DEF Delivers
<1>11. CallsLead(<<call>>, u, x)
  BY <1>10, OneCallLeads
<1> QED
  BY <1>5, <1>6, <1>8, <1>9, <1>11

(* what a job of one call owes *)
LEMMA OneCallOwed ==
    ASSUME QueueOrdered, Accounted, Owed, UNCHANGED <<keyring, finished, late, available, told>>, strays \subseteq strays',
           NEW owner \in Owners, NEW call \in CallRecords, CallsSound(<<call>>, owner),
           NEW restore \in SUBSET Markers, Enqueue(owner, <<call>>, restore), Meant(<<call>>, owner, restore),
           call.op = "move" => Shown(marks, call.from),
           \A u \in Views, x \in Views :
             /\ Lost' \cap AllAccounts \subseteq u.bad /\ Right(u, given, marks)
             /\ u.bad \subseteq x.bad
             /\ call.op = "move" /\ call.from \in u.bad => call.to \in x.bad
             /\ \A a \in AllAccounts : x.held[a] = Due(call, u.held, a)
             => Right(x, given', marks')
    PROVE  Accounted' /\ Owed'
<1>1. Lost \subseteq Lost'
  BY DEF Lost
<1>2. ASSUME NEW u \in Views, Lost' \cap AllAccounts \subseteq u.bad, Right(u, given, marks)
      PROVE  \E x \in Views : CallsLead(<<call>>, u, x) /\ u.bad \subseteq x.bad /\ Right(x, given', marks')
  <2>1. call.op = "move" => call.from \in u.bad \/ u.held[call.from] # {}
    <3>1. call.from \in AllAccounts
      BY DEF CallRecords
    <3> HIDE DEF Views, CallRecords
    <3> QED
      BY <1>2, <3>1 DEF Right
  <2> HIDE DEF Views, CallRecords
  <2>2. PICK x \in Views :
          /\ CallsLead(<<call>>, u, x) /\ u.bad \subseteq x.bad
          /\ call.op = "move" /\ call.from \in u.bad => call.to \in x.bad
          /\ \A a \in AllAccounts : x.held[a] = Due(call, u.held, a)
    BY <2>1, CallLeads
  <2>3. Right(x, given', marks')
    BY <1>2, <2>2
  <2> QED
    BY <2>2, <2>3
<1> HIDE DEF Views, CallRecords
<1>3. Owed'
  BY <1>1, <1>2, OwedEnqueued
<1>4. Accounted'
  BY AccountedEnqueued
<1> QED
  BY <1>3, <1>4

LEMMA NothingQueued ==
    ASSUME QueueOrdered, QueueOrdered', Accounted, Owed, NoJob,
           UNCHANGED <<keyring, finished, late, available>>, told \subseteq told', strays \subseteq strays',
           Available => \A a \in AllAccounts \ Lost' : (Val(given, a) # {} <=> Shown(marks, a)) =>
             Val(given', a) = Val(given, a) /\ (Val(given', a) # {} <=> Shown(marks', a))
    PROVE  Accounted' /\ Owed'
<1>1. Available' = Available /\ AllAccounts' = AllAccounts /\ Lost \subseteq Lost' /\ jobs' = jobs
  BY DEF Available, AllAccounts, Lost, NoJob
<1>2. ~Available' => AllAccounts \subseteq told'
  BY <1>1 DEF Accounted
<1>3. Accounted'
  BY <1>1, <1>2, AccountedKept
<1>4. ASSUME Available PROVE Owed'
  BY <1>1, <1>4, OwedKept
<1>5. ASSUME ~Available PROVE Owed'
  BY <1>5, UnavailableOwed
<1> QED
  BY <1>3, <1>4, <1>5

LEMMA SaveFailsOwed ==
    ASSUME MarkersIInv, MarkersIInv', Accounted, Owed, NEW original \in Profiles, NEW name \in Profiles,
           SaveFails(original, name)
    PROVE  Accounted' /\ Owed'
<1>1. /\ marks' = Without(marks, {original})
      /\ told' = told \cup Accounts(original) /\ strays' = strays \cup Accounts(original)
      /\ NoJob /\ UNCHANGED <<finished, late, available, keyring, given>>
  BY DEF SaveFails, NoJob
<1>2. QueueOrdered /\ QueueOrdered'
  BY DEF MarkersIInv
<1>3. ASSUME NEW a \in AllAccounts \ Lost' PROVE Shown(marks', a) <=> Shown(marks, a)
  <2>1. a[1] # original
    BY <1>1, AccountPairs DEF Lost, Accounts
  <2> QED
    BY <1>1, <2>1 DEF Shown, Without
<1> QED
  BY <1>1, <1>2, <1>3, NothingQueued

LEMMA DeleteProfileOwed ==
    ASSUME MarkersIInv, MarkersIInv', Accounted, Owed, NEW name \in Profiles, DeleteProfile(name)
    PROVE  Accounted' /\ Owed'
<1> DEFINE saved == marks[name]
           calls == [i \in DOMAIN SetToSeq(saved) |-> Erase(<<name, SetToSeq(saved)[i]>>)]
<1>1. /\ QueueOrdered /\ QueueOrdered' /\ name \in DOMAIN marks /\ name \in Owners
      /\ saved \in SUBSET Markers
  BY OwnersAssumption DEF DeleteProfile, MarkersIInv, MarksOK, Owners, OwnMarkers
<1>2. /\ marks' = Without(marks, {name}) /\ given' = Without(given, Accounts(name))
      /\ UNCHANGED <<finished, available, strays, told, late, keyring>>
      /\ IF saved = {} \/ ~Available THEN NoJob ELSE Enqueue(name, calls, {})
  BY DEF DeleteProfile, ForgetProfileSecrets
<1>3. \A a : Shown(marks', a) <=> a[1] # name /\ Shown(marks, a)
  BY <1>2 DEF Without, Shown
<1>4. ASSUME NEW a \in AllAccounts PROVE Val(given', a) = IF a[1] = name THEN {} ELSE Val(given, a)
  <2>1. a \in Accounts(name) <=> a[1] = name
    BY <1>4, AccountPairs DEF Accounts
  <2> QED
    BY <1>2, <2>1, ValWithout
<1>5. \A a : a[1] = name => (Shown(marks, a) <=> a[2] \in saved)
  BY <1>1 DEF Shown
<1>6. CASE saved = {} \/ ~Available
  <2>1. \A a \in AllAccounts : Available /\ a[1] = name => ~Shown(marks, a)
    BY <1>5, <1>6
  <2> HIDE DEF saved
  <2>2. NoJob
    BY <1>2, <1>6
  <2>3. Available => \A a \in AllAccounts \ Lost' : (Val(given, a) # {} <=> Shown(marks, a)) =>
          Val(given', a) = Val(given, a) /\ (Val(given', a) # {} <=> Shown(marks', a))
    BY <1>3, <1>4, <2>1
  <2> QED
    BY <1>1, <1>2, <2>2, <2>3, NothingQueued
<1>7. CASE ~(saved = {} \/ ~Available)
  <2>1. PICK cs : cs = calls
    OBVIOUS
  <2>2. CallsSound(cs, name) /\ Enqueue(name, cs, {})
    BY <1>1, <1>2, <1>7, <2>1, ErasingsTouch
  <2>3. Meant(cs, name, {})
    <3>1. \A j \in DOMAIN cs : cs[j].from = cs[j].to
      BY <2>1 DEF Erase
    <3>2. \A j \in 1..Len(cs) : j \in DOMAIN cs
      BY <2>2 DEF CallsSound
    <3> QED
      BY <3>1, <3>2 DEF Meant
  <2>4. Accounted'
    BY <1>1, <1>2, <2>2, <2>3, AccountedEnqueued
  <2>5. ASSUME NEW u \in Views, Lost' \cap AllAccounts \subseteq u.bad, Right(u, given, marks)
        PROVE  \E x \in Views : CallsLead(cs, u, x) /\ u.bad \subseteq x.bad /\ Right(x, given', marks')
    <3>1. PICK x : x = AfterErasings(u, name, saved)
      OBVIOUS
    <3>2. x \in Views /\ CallsLead(cs, u, x)
      BY <1>1, <2>1, <3>1, AfterTyped, ErasingsLead, 0 \in Nat
    <3>3. /\ \A a \in AllAccounts : x.held[a] = IF a \in {name} \X saved THEN {} ELSE u.held[a]
          /\ x.bad = u.bad
      BY <3>1 DEF AfterErasings
    <3> HIDE DEF Views, saved, calls
    <3>4. ASSUME NEW a \in AllAccounts \ x.bad
          PROVE  Val(given', a) = x.held[a] /\ (Val(given', a) # {} <=> Shown(marks', a))
      <4>1. a \in AllAccounts /\ (a \in {name} \X saved <=> a[1] = name /\ a[2] \in saved)
        BY <1>1, PairsIn
      <4>2. Val(given, a) = u.held[a] /\ (Val(given, a) # {} <=> Shown(marks, a))
        BY <2>5, <3>3 DEF Right
      <4> QED
        BY <1>3, <1>4, <1>5, <3>3, <4>1, <4>2
    <3> QED
      BY <3>2, <3>3, <3>4 DEF Right
  <2>6. keyring' = keyring /\ Lost \subseteq Lost' /\ {} \in SUBSET Markers
    BY <1>2 DEF Lost
  <2>7. Owed'
    <3> HIDE DEF Views
    <3> QED
      BY <1>1, <2>2, <2>5, <2>6, OwedEnqueued
  <2> QED
    BY <2>4, <2>7
<1> QED
  BY <1>6, <1>7

(* an alias has a password, or nothing *)
LEMMA AliasShown ==
    ASSUME MarksOK, NEW alias \in Aliases, NEW a \in AllAccounts, a[1] = alias
    PROVE  Shown(marks, a) <=> a = Password(alias) /\ marks[alias] # {}
<1>1. alias \in DOMAIN marks /\ marks[alias] \subseteq {"password"}
  BY DEF MarksOK, OwnMarkers
<1>2. alias \in Owners
  BY DEF Owners
<1> QED
  BY <1>1, <1>2, PasswordIs DEF Shown

LEMMA MoveSshLabelsOwed ==
    ASSUME MarkersIInv, MarkersIInv', Accounted, Owed, NEW from \in Aliases, NEW to \in Aliases, MoveSshLabels(from, to)
    PROVE  Accounted' /\ Owed'
<1> DEFINE call == Move(Password(from), Password(to))
<1>1. /\ MarksOK /\ QueueOrdered /\ QueueOrdered' /\ from \in Owners /\ to \in Owners /\ from # to
      /\ from \in DOMAIN marks /\ to \in DOMAIN marks
      /\ marks' = [marks EXCEPT ![from] = {}, ![to] = marks[from]]
      /\ UNCHANGED <<finished, late, available, keyring, told>>
  BY DEF MoveSshLabels, MarkersIInv, MarksOK, Owners
<1>2. /\ DOMAIN marks' = DOMAIN marks /\ marks'[from] = {} /\ marks'[to] = marks[from]
      /\ \A o \in DOMAIN marks \ {from, to} : marks'[o] = marks[o]
  BY <1>1
<1>3. PICK p : p = Password(from)
  OBVIOUS
<1>4. PICK q : q = Password(to)
  OBVIOUS
<1>5. p # q /\ p \in AllAccounts /\ q \in AllAccounts /\ p[1] = from /\ q[1] = to /\ p[2] = "password" /\ q[2] = "password"
  BY <1>1, <1>3, <1>4, PasswordIs
<1>6. ASSUME NEW a \in AllAccounts
      PROVE  /\ a[1] = from => (Shown(marks, a) <=> a = p /\ marks[from] # {})
             /\ a[1] = to => (Shown(marks, a) <=> a = q /\ marks[to] # {})
  BY <1>1, <1>3, <1>4, AliasShown
<1>7. ASSUME NEW a \in AllAccounts
      PROVE  Shown(marks', a) <=> IF a[1] = from THEN FALSE ELSE IF a[1] = to THEN a = q /\ marks[from] # {}
                                  ELSE Shown(marks, a)
  <2>1. CASE a[1] = to
    <3>1. marks[from] \subseteq {"password"}
      BY <1>1 DEF MarksOK, OwnMarkers
    <3>2. a[2] = "password" => a = q
      BY <1>1, <1>4, <2>1, PasswordIs
    <3> QED
      BY <1>1, <1>2, <1>5, <2>1, <3>1, <3>2 DEF Shown
  <2>2. CASE a[1] = from
    BY <1>1, <1>2, <2>2 DEF Shown
  <2>3. CASE a[1] \notin {from, to}
    BY <1>2, <2>3 DEF Shown
  <2> QED
    BY <1>1, <2>1, <2>2, <2>3
<1>8. CASE marks[from] = {}
  <2>1. /\ NoJob /\ strays' = IF marks[to] # {} THEN strays \cup {q} ELSE strays
        /\ given' = Without(given, {p, q})
    BY <1>3, <1>4, <1>8 DEF MoveSshLabels
  <2>2. ASSUME NEW a \in AllAccounts \ Lost', Val(given, a) # {} <=> Shown(marks, a)
        PROVE  Val(given', a) = Val(given, a) /\ (Val(given', a) # {} <=> Shown(marks', a))
    <3>1. marks[to] # {} => a # q
      BY <2>1 DEF Lost
    <3>2. Val(given', a) = IF a \in {p, q} THEN {} ELSE Val(given, a)
      BY <2>1, ValWithout
    <3>3. Shown(marks', a) <=> Shown(marks, a)
      BY <1>6, <1>7, <1>8, <3>1
    <3>4. a \in {p, q} => ~Shown(marks, a)
      BY <1>5, <1>6, <1>8, <3>1
    <3> QED
      BY <2>2, <3>2, <3>3, <3>4
  <2>3. strays \subseteq strays'
    BY <2>1
  <2> QED
    BY <1>1, <2>1, <2>2, <2>3, NothingQueued
<1>9. CASE marks[from] # {}
  <2>1. /\ strays' = strays /\ IF Available THEN Enqueue(to, <<call>>, {}) ELSE NoJob
        /\ given' = IF p \in DOMAIN given
                    THEN With(Without(given, {p}), q, given[p]) ELSE Without(given, {q})
    BY <1>3, <1>4, <1>9 DEF MoveSshLabels, MoveSshPassword
  <2>2. CASE ~Available
    BY <1>1, <2>1, <2>2, NothingQueued
  <2>3. CASE Available
    <3>1. call \in CallRecords /\ call.to = q /\ call.from = p /\ call.op = "move"
      BY <1>3, <1>4, <1>5 DEF Move, CallRecords
    <3> HIDE DEF call
    <3>2. CallsSound(<<call>>, to)
      BY <1>5, <3>1, OneCall
    <3>3. Meant(<<call>>, to, {})
      <4>1. Len(<<call>>) = 1 /\ <<call>>[1] = call /\ \A j \in 1..1 : j = 1
        OBVIOUS
      <4> QED
        BY <3>1, <4>1 DEF Meant
    <3>4. Shown(marks, call.from)
      BY <1>5, <1>6, <1>9, <3>1
    <3>5. ASSUME NEW u \in Views, NEW x \in Views, Right(u, given, marks), u.bad \subseteq x.bad,
                 call.from \in u.bad => call.to \in x.bad,
                 \A a \in AllAccounts : x.held[a] = Due(call, u.held, a)
          PROVE  Right(x, given', marks')
      <4> HIDE DEF Views
      <4> SUFFICES ASSUME NEW a \in AllAccounts \ x.bad
                   PROVE  Val(given', a) = x.held[a] /\ (Val(given', a) # {} <=> Shown(marks', a))
        BY DEF Right
      <4>1. /\ a \in AllAccounts \ u.bad /\ Val(given, a) = u.held[a] /\ (Val(given, a) # {} <=> Shown(marks, a))
        BY <3>5 DEF Right
      <4>2. x.held[a] = IF a = q THEN u.held[p] ELSE IF a = p THEN {} ELSE u.held[a]
        BY <3>1, <3>5 DEF Due, Touches
      <4>3. CASE a = q
        <5>1. p \in AllAccounts \ u.bad
          BY <1>5, <3>1, <3>5, <4>3
        <5>2. Val(given, p) = u.held[p] /\ Val(given, p) # {}
          BY <3>1, <3>4, <3>5, <5>1 DEF Right
        <5>3. p \in DOMAIN given /\ Val(given, p) = {given[p]}
          BY <5>2 DEF Val
        <5>4. Val(given', a) = {given[p]}
          BY <2>1, <4>3, <5>3, ValWith
        <5>5. Shown(marks', a)
          BY <1>1, <1>5, <1>7, <1>9, <4>3
        <5> QED
          BY <4>2, <4>3, <5>2, <5>3, <5>4, <5>5
      <4>4. CASE a # q
        <5>1. Val(given', a) = IF a = p THEN {} ELSE Val(given, a)
          <6>1. CASE p \in DOMAIN given
            <7>1. given' = With(Without(given, {p}), q, given[p])
              BY <2>1, <6>1
            <7>2. Val(given', a) = Val(Without(given, {p}), a)
              BY <4>4, <7>1, ValWith
            <7> QED
              BY <7>2, ValWithout
          <6>2. CASE p \notin DOMAIN given
            <7>1. given' = Without(given, {q}) /\ Val(given, p) = {}
              BY <2>1, <6>2 DEF Val
            <7> QED
              BY <4>4, <7>1, ValWithout
          <6> QED
            BY <6>1, <6>2
        <5>2. Shown(marks', a) <=> a # p /\ Shown(marks, a)
          BY <1>1, <1>5, <1>6, <1>7, <4>4
        <5> QED
          BY <4>1, <4>2, <4>4, <5>1, <5>2
      <4> QED
        BY <4>3, <4>4
    <3>6. \A u \in Views, x \in Views :
             /\ Lost' \cap AllAccounts \subseteq u.bad /\ Right(u, given, marks)
             /\ u.bad \subseteq x.bad
             /\ call.op = "move" /\ call.from \in u.bad => call.to \in x.bad
             /\ \A a \in AllAccounts : x.held[a] = Due(call, u.held, a)
             => Right(x, given', marks')
      BY <3>1, <3>5
    <3>7. {} \in SUBSET Markers /\ Enqueue(to, <<call>>, {}) /\ strays \subseteq strays'
      BY <2>1, <2>3
    <3> HIDE DEF Views, CallRecords
    <3> QED
      BY <1>1, <3>1, <3>2, <3>3, <3>4, <3>6, <3>7, OneCallOwed
  <2> QED
    BY <2>2, <2>3
<1> QED
  BY <1>8, <1>9

LEMMA DropOwed ==
    ASSUME MarkersIInv, MarkersIInv', Accounted, Owed, NEW alias \in Aliases,
           NEW left, left \in {marks, [marks EXCEPT ![alias] = {}]},
           NEW keepRecord \in BOOLEAN, DropSshPassword(alias, marks[alias], left, keepRecord)
    PROVE  Accounted' /\ Owed'
<1> DEFINE saved == marks[alias]
           call == Erase(Password(alias))
<1>1. /\ MarksOK /\ QueueOrdered /\ QueueOrdered' /\ alias \in Owners /\ alias \in DOMAIN marks
      /\ saved \in SUBSET Markers
      /\ UNCHANGED <<finished, late, available, keyring, told, strays>>
      /\ given' = Without(given, {Password(alias)})
  BY MarkersAssumption DEF DropSshPassword, MarkersIInv, MarksOK, Owners, OwnMarkers
<1>2. PICK p : p = Password(alias)
  OBVIOUS
<1>3. p \in AllAccounts /\ p[1] = alias
  BY <1>1, <1>2, PasswordIs
<1>4. \A a \in AllAccounts : a[1] = alias => (Shown(marks, a) <=> a = p /\ saved # {})
  BY <1>1, <1>2, AliasShown
<1>5. \A a : Val(given', a) = IF a = p THEN {} ELSE Val(given, a)
  BY <1>1, <1>2, ValWithout
<1>6. CASE saved = {} \/ ~Available
  <2>1. marks' = left /\ NoJob
    BY <1>6 DEF DropSshPassword
  <2>2. DOMAIN marks' = DOMAIN marks /\ \A o \in DOMAIN marks \ {alias} : marks'[o] = marks[o]
    BY <2>1
  <2>3. Available => marks'[alias] = saved /\ saved = {}
    BY <1>1, <1>6, <2>1
  <2>4. Available => \A a : Shown(marks', a) <=> Shown(marks, a)
    BY <2>2, <2>3 DEF Shown
  <2>5. Available => ~Shown(marks, p)
    BY <1>3, <1>4, <2>3
  <2>6. Available => \A a \in AllAccounts \ Lost' : (Val(given, a) # {} <=> Shown(marks, a)) =>
          Val(given', a) = Val(given, a) /\ (Val(given', a) # {} <=> Shown(marks', a))
    BY <1>5, <2>4, <2>5
  <2> QED
    BY <1>1, <2>1, <2>6, NothingQueued
<1>7. CASE ~(saved = {} \/ ~Available)
  <2>1. PICK restore : restore = IF keepRecord THEN saved ELSE {}
    OBVIOUS
  <2>2. /\ marks' = [left EXCEPT ![alias] = {}]
        /\ Enqueue(alias, <<call>>, restore) /\ restore \in SUBSET Markers
    BY <1>1, <1>7, <2>1 DEF DropSshPassword
  <2>3. /\ DOMAIN marks' = DOMAIN marks /\ \A o \in DOMAIN marks \ {alias} : marks'[o] = marks[o]
        /\ marks'[alias] = {}
    BY <1>1, <2>2
  <2>4. \A a : Shown(marks', a) <=> a[1] # alias /\ Shown(marks, a)
    BY <2>3 DEF Shown
  <2>5. call \in CallRecords /\ call.to = p /\ call.from = p /\ call.op = "erase"
    BY <1>2, <1>3 DEF Erase, CallRecords
  <2> HIDE DEF call
  <2>6. CallsSound(<<call>>, alias)
    BY <1>3, <2>5, OneCall
  <2>7. Meant(<<call>>, alias, restore)
    <3>1. Len(<<call>>) = 1 /\ <<call>>[1] = call /\ \A j \in 1..1 : j = 1
      OBVIOUS
    <3> QED
      BY <1>2, <2>5, <3>1 DEF Meant
  <2>8. ASSUME NEW u \in Views, NEW x \in Views, Right(u, given, marks), u.bad \subseteq x.bad,
               \A a \in AllAccounts : x.held[a] = Due(call, u.held, a)
        PROVE  Right(x, given', marks')
    <3> HIDE DEF Views, saved
    <3> SUFFICES ASSUME NEW a \in AllAccounts \ x.bad
                 PROVE  Val(given', a) = x.held[a] /\ (Val(given', a) # {} <=> Shown(marks', a))
      BY DEF Right
    <3>1. Val(given, a) = u.held[a] /\ (Val(given, a) # {} <=> Shown(marks, a))
      BY <2>8 DEF Right
    <3>2. x.held[a] = IF a = p THEN {} ELSE u.held[a]
      BY <2>5, <2>8 DEF Due, Touches
    <3> QED
      BY <1>3, <1>4, <1>5, <2>4, <3>1, <3>2
  <2>9. \A u \in Views, x \in Views :
           /\ Lost' \cap AllAccounts \subseteq u.bad /\ Right(u, given, marks)
           /\ u.bad \subseteq x.bad
           /\ call.op = "move" /\ call.from \in u.bad => call.to \in x.bad
           /\ \A a \in AllAccounts : x.held[a] = Due(call, u.held, a)
           => Right(x, given', marks')
    BY <2>8
  <2>10. call.op # "move"
    BY <2>5
  <2> HIDE DEF Views, CallRecords
  <2> QED
    BY <1>1, <2>2, <2>5, <2>6, <2>7, <2>9, <2>10, OneCallOwed
<1> QED
  BY <1>6, <1>7

(* save_typed_password *)
LEMMA TypedSavedOwed ==
    ASSUME MarkersIInv, MarkersIInv', Accounted, Owed, Available, NEW owner \in Owners, NEW secret \in Nat,
           SaveTypedPassword(owner, secret), UNCHANGED <<finished, late, available, keyring, told>>
    PROVE  Accounted' /\ Owed'
<1> DEFINE call == Write(Password(owner), secret)
<1>1. /\ MarksOK /\ QueueOrdered /\ QueueOrdered'
      /\ marks' = Added(owner, "password") /\ Enqueue(owner, <<call>>, {})
      /\ given' = IF owner \in DOMAIN marks THEN With(given, Password(owner), secret) ELSE given
      /\ strays' = IF owner \in DOMAIN marks THEN strays ELSE strays \cup {Password(owner)}
  BY DEF MarkersIInv, SaveTypedPassword
<1>2. PICK p : p = Password(owner)
  OBVIOUS
<1>3. /\ p \in AllAccounts /\ p[1] = owner /\ p[2] = "password"
      /\ \A a \in AllAccounts : a[1] = owner /\ a[2] = "password" => a = p
  BY <1>2, PasswordIs
<1>4. ASSUME NEW a \in AllAccounts
      PROVE  Shown(marks', a) <=> (a = p /\ owner \in DOMAIN marks) \/ Shown(marks, a)
  <2>1. CASE owner \in DOMAIN marks
    <3>1. marks' = With(marks, owner, marks[owner] \cup {"password"})
      BY <1>1, <2>1 DEF Added, Marked, MarkersOf
    <3> QED
      BY <1>3, <2>1, <3>1 DEF With, Shown
  <2>2. CASE owner \notin DOMAIN marks
    <3>1. marks' = marks
      BY <1>1, <2>2 DEF Added, Marked
    <3> QED
      BY <1>3, <2>2, <3>1
  <2> QED
    BY <2>1, <2>2
<1>5. call \in CallRecords /\ call.to = p /\ call.from = p /\ call.op = "write" /\ call.secret = secret
  BY <1>2, <1>3 DEF Write, CallRecords
<1> HIDE DEF call
<1>6. CallsSound(<<call>>, owner)
  BY <1>3, <1>5, OneCall
<1>7. Meant(<<call>>, owner, {})
  <2>1. Len(<<call>>) = 1 /\ <<call>>[1] = call /\ \A j \in 1..1 : j = 1
    OBVIOUS
  <2> QED
    BY <1>5, <2>1 DEF Meant
<1>8. ASSUME NEW u \in Views, NEW x \in Views, Lost' \cap AllAccounts \subseteq u.bad, Right(u, given, marks),
             u.bad \subseteq x.bad, \A a \in AllAccounts : x.held[a] = Due(call, u.held, a)
      PROVE  Right(x, given', marks')
  <2> HIDE DEF Views
  <2> SUFFICES ASSUME NEW a \in AllAccounts \ x.bad
               PROVE  Val(given', a) = x.held[a] /\ (Val(given', a) # {} <=> Shown(marks', a))
    BY DEF Right
  <2>1. Val(given, a) = u.held[a] /\ (Val(given, a) # {} <=> Shown(marks, a))
    BY <1>8 DEF Right
  <2>2. x.held[a] = IF a = p THEN {secret} ELSE u.held[a]
    BY <1>5, <1>8 DEF Due, Touches
  <2>3. CASE owner \in DOMAIN marks
    <3>1. Val(given', a) = IF a = p THEN {secret} ELSE Val(given, a)
      BY <1>1, <1>2, <2>3, ValWith
    <3> QED
      BY <1>4, <2>1, <2>2, <2>3, <3>1
  <2>4. CASE owner \notin DOMAIN marks
    <3>1. a # p
      BY <1>1, <1>2, <1>3, <1>8, <2>4 DEF Lost
    <3> QED
      BY <1>1, <1>4, <2>1, <2>2, <2>4, <3>1
  <2> QED
    BY <2>3, <2>4
<1>9. \A u \in Views, x \in Views :
         /\ Lost' \cap AllAccounts \subseteq u.bad /\ Right(u, given, marks)
         /\ u.bad \subseteq x.bad
         /\ call.op = "move" /\ call.from \in u.bad => call.to \in x.bad
         /\ \A a \in AllAccounts : x.held[a] = Due(call, u.held, a)
         => Right(x, given', marks')
  BY <1>8
<1>10. call.op # "move" /\ {} \in SUBSET Markers /\ strays \subseteq strays'
  BY <1>1, <1>5
<1> HIDE DEF Views, CallRecords
<1> QED
  BY <1>1, <1>5, <1>6, <1>7, <1>9, <1>10, OneCallOwed

LEMMA EndConnectOwed ==
    ASSUME MarkersIInv, MarkersIInv', Accounted, Owed, NEW owner \in Owners, EndConnect(owner)
    PROVE  Accounted' /\ Owed'
<1>1. QueueOrdered /\ QueueOrdered' /\ typed + 1 \in Nat /\ UNCHANGED <<finished, late, available, keyring, told>>
  BY DEF MarkersIInv, MarksOK, EndConnect
<1>2. CASE UNCHANGED <<marks, given, strays>> /\ NoJob
  BY <1>1, <1>2, NothingQueued
<1>3. CASE Available /\ SaveTypedPassword(owner, typed + 1)
  BY <1>1, <1>3, TypedSavedOwed
<1>4. \/ UNCHANGED <<marks, given, strays>> /\ NoJob
      \/ \E save \in BOOLEAN : KeepTypedPassword(owner, save)
  BY DEF EndConnect
<1>5. ASSUME NEW save \in BOOLEAN, KeepTypedPassword(owner, save)
      PROVE  \/ UNCHANGED <<marks, given, strays>> /\ NoJob
             \/ Available /\ SaveTypedPassword(owner, typed + 1)
  BY <1>5 DEF KeepTypedPassword, SaveTypedPassword
<1> QED
  BY <1>2, <1>3, <1>4, <1>5

(* the probe may end with an error about every secret *)
LEMMA ProbeOwed ==
    ASSUME MarkersIInv, MarkersIInv', Accounted, Owed, Probe
    PROVE  Accounted' /\ Owed'
<1>1. QueueOrdered /\ QueueOrdered' /\ UNCHANGED <<jobs, finished, late, keyring, marks, given, strays>>
  BY DEF MarkersIInv, Probe
<1>2. AllAccounts' = AllAccounts /\ CallRecords' = CallRecords
  BY DEF AllAccounts, CallRecords
<1>3. CASE available' = "yes" /\ told' = told
  <2>1. Available /\ Available' /\ Lost' = Lost
    BY <1>1, <1>3 DEF Available, Lost, Probe
  <2>2. Accounted'
    BY <1>1, <1>3, <2>1, AccountedKept
  <2> QED
    BY <1>1, <2>1, <2>2, UndisturbedOwed
<1>4. CASE told' = AllAccounts
  <2>1. ASSUME NEW o \in Owners, NEW S \in SUBSET Markers PROVE Excused(o, S)'
    BY <1>4, <2>1, PairsIn DEF Excused
  <2>2. \A i \in 1..Len(jobs) : /\ Meant(jobs[i].calls, jobs[i].owner, jobs[i].restore)
                                /\ jobs[i].owner \in Owners
                                /\ jobs[i].rollback \in SUBSET Markers /\ jobs[i].restore \in SUBSET Markers
    BY <1>1, QueueTyped DEF Accounted
  <2>3. \A k \in 1..Len(finished) :
          finished[k].owner \in Owners /\ finished[k].rollback \cup finished[k].restore \in SUBSET Markers
    BY <1>1, QueueTyped DEF DoneRecords
  <2>4. /\ \A i \in 1..Len(jobs) : /\ Excused(jobs[i].owner, jobs[i].rollback)'
                                   /\ (jobs[i].failed => Excused(jobs[i].owner, jobs[i].restore))'
        /\ \A k \in 1..Len(finished) : Excused(finished[k].owner, finished[k].rollback \cup finished[k].restore)'
    BY <1>1, <2>1, <2>2, <2>3 DEF Excused
  <2>5. \A i \in 1..Len(jobs) : Meant(jobs[i].calls, jobs[i].owner, jobs[i].restore)'
    BY <1>1, <2>2 DEF Meant, Password
  <2>6. \A call \in late : call \in CallRecords /\ call.from \in told' /\ call.to \in told'
    BY <1>4 DEF Accounted, CallRecords
  <2>7. Accounted'
    BY <1>1, <1>2, <1>4, <2>4, <2>5, <2>6 DEF Accounted
  <2>8. (AllAccounts \subseteq Lost)'
    BY <1>2, <1>4 DEF Lost
  <2>9. Owed'
    BY <1>1, <2>8, AllLostOwes, PTL
  <2> QED
    BY <2>7, <2>9
<1> QED
  BY <1>3, <1>4 DEF Probe

LEMMA AgreeStep ==
    ASSUME AgreeIInv, [KeyringNext]_keyringVars
    PROVE  AgreeIInv'
<1>1. MarkersIInv /\ Accounted /\ Owed /\ MarkersIInv'
  BY KeyringStep DEF AgreeIInv
<1>2. QueueOrdered /\ QueueOrdered'
  BY <1>1 DEF MarkersIInv
<1>3. ASSUME NEW alias \in Aliases, ForgetSshLabels(alias) \/ ForgetSshPassword(alias) PROVE Accounted' /\ Owed'
  <2>1. PICK left \in {marks, [marks EXCEPT ![alias] = {}]}, keepRecord \in BOOLEAN :
          DropSshPassword(alias, marks[alias], left, keepRecord)
    BY <1>3 DEF ForgetSshLabels, ForgetSshPassword
  <2> QED
    BY <1>1, <2>1, DropOwed
<1>4. ASSUME KeyringCommand PROVE Accounted' /\ Owed'
  BY <1>1, <1>3, <1>4, SaveProfileOwed, SaveFailsOwed, DeleteProfileOwed, MoveSshLabelsOwed DEF KeyringCommand
<1>5. ASSUME RunCall PROVE Accounted' /\ Owed'
  <2>1. Accounted'
    BY <1>1, <1>2, <1>5, RunCallAccounted
  <2> QED
    BY <1>1, <1>2, <1>5, <2>1, RunCallOwed
<1>6. ASSUME LateLands PROVE Accounted' /\ Owed'
  <2>1. /\ UNCHANGED <<jobs, finished>> /\ late' \subseteq late /\ told' = told /\ Available' = Available
        /\ AllAccounts' = AllAccounts
    BY <1>6 DEF LateLands, Available, AllAccounts
  <2>2. ~Available' => AllAccounts \subseteq told'
    BY <1>1, <2>1 DEF Accounted
  <2>3. Accounted'
    BY <1>1, <2>1, <2>2, AccountedKept
  <2> QED
    BY <1>1, <1>2, <1>6, <2>3, LateLandsOwed
<1>7. ASSUME JobEnds PROVE Accounted' /\ Owed'
  BY <1>1, <1>2, <1>7, JobEndsAccounted, OwedEnded
<1>8. ASSUME FinishJob PROVE Accounted' /\ Owed'
  BY <1>1, <1>2, <1>8, FinishAccounted, FinishOwed
<1>9. ASSUME \/ UNCHANGED keyringVars
             \/ \E owner \in Owners : ConnectProfile(owner) \/ Lookup(owner)
      PROVE  Accounted' /\ Owed'
  <2>1. NoJob /\ UNCHANGED <<keyring, finished, late, available, told, strays, given, marks>>
    BY <1>9 DEF ConnectProfile, Lookup, keyringVars, NoJob
  <2> QED
    BY <1>1, <1>2, <2>1, NothingQueued
<1>10. Accounted' /\ Owed'
  BY <1>1, <1>4, <1>5, <1>6, <1>7, <1>8, <1>9, ProbeOwed, EndConnectOwed DEF KeyringNext, Owners
<1> QED
  BY <1>1, <1>10 DEF AgreeIInv

LEMMA AgreeInductive == KeyringSpec => []AgreeIInv
<1>1. KeyringInit => AgreeIInv
  <2> SUFFICES ASSUME KeyringInit PROVE AgreeIInv
    OBVIOUS
  <2>1. /\ jobs = <<>> /\ finished = <<>> /\ late = {} /\ told = {} /\ strays = {} /\ available = "unknown"
        /\ keyring = Nothing /\ given = Nothing /\ marks = [o \in Aliases |-> {}]
    BY DEF KeyringInit
  <2>2. MarkersIInv
    BY MarkersInit
  <2>3. Accounted
    BY <2>1 DEF Accounted, Available
  <2>4. PICK v : v = [held |-> [a \in AllAccounts |-> {}], bad |-> {}]
    OBVIOUS
  <2>5. v \in Views /\ v.bad = {} /\ \A a \in AllAccounts : v.held[a] = {}
    BY <2>4 DEF Views
  <2> HIDE DEF Views
  <2>6. QueueLeads(jobs, v, v)
    BY <2>1, <2>5, NoCallsLead
  <2>7. \A a : Val(keyring, a) = {} /\ Val(given, a) = {} /\ ~Shown(marks, a)
    BY <2>1 DEF Val, Nothing, Shown
  <2>8. Right(v, given, marks)
    BY <2>5, <2>7 DEF Right
  <2>9. Owed
    BY <2>1, <2>5, <2>6, <2>7, <2>8 DEF Owed, Lost
  <2> QED
    BY <2>2, <2>3, <2>9 DEF AgreeIInv
<1>2. AgreeIInv /\ [KeyringNext]_keyringVars => AgreeIInv'
  BY AgreeStep
<1> QED
  BY <1>1, <1>2, PTL DEF KeyringSpec

(* secrets/mod.rs and apply_secret_changes: when no job is queued, no      *)
(* call is late and nobody connects, the keyring holds exactly the secrets *)
(* that are marked, each the one the user gave last; but for those of      *)
(* which an error was reported or whose owner was lost.  For any number of *)
(* profiles, aliases, secret options, jobs and connections.                *)
THEOREM KeyringAgreesHolds == KeyringSpec => []KeyringAgrees
<1>1. AgreeIInv => KeyringAgrees
  <2> SUFFICES ASSUME AgreeIInv, Quiet, NEW a \in AllAccounts \ (told \cup strays)
               PROVE  /\ a \in DOMAIN keyring <=> (a[1] \in DOMAIN marks /\ a[2] \in marks[a[1]])
                      /\ a \in DOMAIN keyring <=> a \in DOMAIN given
                      /\ a \in DOMAIN keyring => keyring[a] = given[a]
    BY DEF KeyringAgrees
  <2>1. jobs = <<>> /\ a \in AllAccounts \ Lost
    BY DEF Quiet, Lost
  <2>2. PICK v \in Views, u \in Views :
          /\ v.bad \subseteq Lost /\ Lost \cap AllAccounts \subseteq u.bad
          /\ \A b \in AllAccounts \ Lost : Val(keyring, b) = v.held[b]
          /\ QueueLeads(jobs, v, u)
          /\ Right(u, given, marks)
    BY DEF AgreeIInv, Owed
  <2> HIDE DEF Views
  <2>3. u = v
    BY <2>1, <2>2, NoCallsLead
  <2>4. Val(keyring, a) = v.held[a] /\ a \in AllAccounts \ u.bad
    BY <2>1, <2>2, <2>3
  <2>5. Val(given, a) = Val(keyring, a) /\ (Val(given, a) # {} <=> Shown(marks, a))
    BY <2>2, <2>3, <2>4 DEF Right
  <2> QED
    BY <2>5 DEF Val, Shown
<1> QED
  BY <1>1, AgreeInductive, PTL
=================================================================================
