------------------------------- MODULE CopyProofs ------------------------------
(***************************************************************************)
(* Theorems about copies: what the plan of a copy makes of the answers,    *)
(* for any selection, any contents of the destination and any number of    *)
(* files; what the content of one file is in the end, for any lengths and  *)
(* any number of attempts; what a sync leaves behind, for any folders; and *)
(* what a search shows, for any folders and any typing.                    *)
(***************************************************************************)
EXTENDS CopyPlan, ResumedCopies, SyncRuns, Searches, FiniteSetTheorems, WellFoundedInduction, TLAPS

Places == {Top, TreeFolder}
PathNames == Seq(Nat)
Contents == {"old", "dir"}
Parts == {"short", "full"}
Listings(S) == {l \in UNION {[D -> S] : D \in SUBSET PathNames} : IsFiniteSet(DOMAIN l)}

(* what a selection is, and what the destination may hold: every file is   *)
(* selected once, and a folder holds finitely many names                   *)
SelectionSound ==
    /\ Selected \in Seq(Places \X PathNames)
    /\ \A n, m \in Numbers : Selected[n] = Selected[m] => n = m
    /\ \A held \in Tops \cup Trees : held.old \in Listings(Contents) /\ held.part \in Listings(Parts)

PlannedFiles ==
    [at : Places \X PathNames, existing : Contents \cup {None},
     partial : Parts \cup {None}, resume : BOOLEAN]

Answers == {"Skip", "Resume", "Overwrite", "Rename", None}

---------------------------------------------------------------------------
(* Names: there is always a free one, and it is the name with one more     *)
(* number                                                                  *)
LEMMA LeastNumber ==
  ASSUME NEW T \in SUBSET Nat, T # {}
  PROVE  \E m \in T : \A k \in T : m <= k
<1>1. IsWellFoundedOn(OpToRel(<, Nat), Nat)
  BY NatLessThanWellFounded
<1>2. PICK x \in T : \A y \in T : ~(<<y, x>> \in OpToRel(<, Nat))
  BY <1>1, WFMin
<1>3. \A y \in T : ~(y < x)
  BY <1>2 DEF OpToRel
<1> QED BY <1>3

LEMMA SomeFree ==
  ASSUME NEW name \in PathNames, NEW others, IsFiniteSet(others)
  PROVE  \E k \in 1..(Cardinality(others) + 1) : Append(name, k) \notin others
<1> DEFINE c == Cardinality(others)
           f == [k \in 1..(c + 1) |-> Append(name, k)]
<1>1. c \in Nat
  BY FS_CardinalityType
<1> HIDE DEF c
<1>2. IsFiniteSet(1..(c + 1)) /\ Cardinality(1..(c + 1)) = c + 1
  BY <1>1, FS_Interval
<1> SUFFICES ASSUME \A k \in 1..(c + 1) : Append(name, k) \in others PROVE FALSE
  BY DEF c
<1>3. f \in [1..(c + 1) -> others]
  OBVIOUS
<1>4. Cardinality(others) < Cardinality(1..(c + 1))
  BY <1>1, <1>2 DEF c
<1> HIDE DEF f
<1>5. PICK x, y \in 1..(c + 1) : x # y /\ f[x] = f[y]
  BY <1>2, <1>3, <1>4, FS_PigeonHole
<1>6. Append(name, x) = Append(name, y) /\ x \in Nat /\ y \in Nat
  BY <1>1, <1>5 DEF f
<1>7. Append(name, x)[Len(name) + 1] = x /\ Append(name, y)[Len(name) + 1] = y
  BY <1>6 DEF PathNames
<1> QED BY <1>5, <1>6, <1>7

(* unique_name: no other name, and no name of the folder                   *)
LEMMA UniqueIsFree ==
  ASSUME NEW name \in PathNames, NEW others, IsFiniteSet(others)
  PROVE  UniqueName(name, others) \in PathNames \ others
<1> DEFINE K == 1..(Cardinality(others) + 1)
           T == {k \in K : Append(name, k) \notin others}
           Fits(k) == /\ Append(name, k) \notin others
                      /\ \A j \in 1..(k - 1) : Append(name, j) \in others
<1>1. K \in SUBSET Nat /\ \A k \in K : \A j \in 1..(k - 1) : j \in K /\ ~(k <= j)
  BY FS_CardinalityType
<1>2. T # {}
  BY SomeFree
<1> HIDE DEF K
<1>3. PICK k \in T : \A j \in T : k <= j
  <2>1. T \in SUBSET Nat
    BY <1>1
  <2> HIDE DEF T
  <2> QED BY <1>2, <2>1, LeastNumber
<1>4. k \in K /\ Fits(k)
  BY <1>1, <1>3
<1>5. UniqueName(name, others) = Append(name, CHOOSE i \in K : Fits(i))
  BY DEF UniqueName, K
<1> HIDE DEF Fits
<1>6. PICK i : i = (CHOOSE x \in K : Fits(x))
  OBVIOUS
<1>7. i \in K /\ Fits(i)
  BY <1>4, <1>6
<1>8. Append(name, i) \in PathNames
  BY <1>1, <1>7 DEF PathNames
<1> QED BY <1>5, <1>6, <1>7, <1>8 DEF Fits

(* the names of the selection in one folder are finitely many              *)
LEMMA PlannedFinite ==
  ASSUME SelectionSound, NEW folder
  PROVE  IsFiniteSet(PlannedNames(folder)) /\ PlannedNames(folder) \subseteq PathNames
<1> DEFINE S == {m \in Numbers : Selected[m][1] = folder}
           T == PlannedNames(folder)
           f == [n \in S |-> Selected[n][2]]
<1>1. IsFiniteSet(S)
  <2>1. Len(Selected) \in Nat
    BY DEF SelectionSound
  <2>2. IsFiniteSet(Numbers)
    BY <2>1, FS_Interval DEF Numbers
  <2> QED BY <2>2, FS_Subset
<1>2. T \subseteq PathNames
  BY DEF PlannedNames, SelectionSound, Numbers
<1>3. f \in Surjection(S, T)
  <2>1. T = {Selected[n][2] : n \in S}
    BY DEF PlannedNames
  <2>2. f \in [S -> T] /\ \A t \in T : \E s \in S : f[s] = t
    BY <2>1
  <2> QED BY <2>2 DEF Surjection
<1> HIDE DEF S, T, f
<1>4. IsFiniteSet(T)
  BY <1>1, <1>3, FS_Surjection
<1> QED BY <1>2, <1>4 DEF T

---------------------------------------------------------------------------
(* resolve: the files one after the other.  The recursive function of      *)
(* ResolvedUpTo exists, which the proof has from the least number below    *)
(* which there were none, and what holds after every turn holds of the     *)
(* result.                                                                 *)
Turn(plan, given, before, n) ==
    LET file == plan[n]
        new == IF IsConflict(file) /\ ~IsDropped(file, given[n])
               THEN Answered(file, given[n], before.taken[file.at[1]]) ELSE file
    IN  [files |-> Append(before.files, new),
         taken |-> [before.taken EXCEPT ![new.at[1]] = @ \cup {new.at[2]}]]

IsUpTo(plan, names, given, k, f) ==
    f = [n \in 0..k |-> IF n = 0 THEN [files |-> <<>>, taken |-> names] ELSE Turn(plan, given, f[n - 1], n)]

(* what the plan and the names are when the answers are applied *)
PlanOK(plan, names) ==
    /\ plan \in [Numbers -> PlannedFiles]
    /\ \A n \in Numbers : plan[n].at = Selected[n] /\ Selected[n][1] \in DOMAIN names
    /\ \A folder \in DOMAIN names :
         IsFiniteSet(names[folder]) /\ PlannedNames(folder) \subseteq names[folder]

(* a file keeps its name or has one that nobody has *)
Became(plan, names, given, file, n) ==
    /\ file.at[1] = Selected[n][1]
    /\ \/ file.at = Selected[n] /\ (given[n] = "Rename" => plan[n].existing = None)
       \/ file.at[2] \notin names[Selected[n][1]]

ResolvedOK(plan, names, given, r, k) ==
    /\ r.files \in Seq(PlannedFiles) /\ Len(r.files) = k
    /\ DOMAIN r.taken = DOMAIN names
    /\ \A folder \in DOMAIN names :
         IsFiniteSet(r.taken[folder]) /\ names[folder] \subseteq r.taken[folder]
    /\ \A i \in 1..k :
         /\ Became(plan, names, given, r.files[i], i)
         /\ r.files[i].at[2] \in r.taken[Selected[i][1]]
    /\ \A i, j \in 1..k : r.files[i].at = r.files[j].at => i = j

LEMMA UpToExists ==
  ASSUME NEW plan, NEW names, NEW given, NEW n \in Nat
  PROVE  \E f : IsUpTo(plan, names, given, n, f)
<1> DEFINE Begin == [files |-> <<>>, taken |-> names]
           Goes(x, j) == Turn(plan, given, x, j)
           Upto(k) == \E f : f = [j \in 0..k |-> IF j = 0 THEN Begin ELSE Goes(f[j - 1], j)]
           D == {k \in Nat : ~Upto(k)}
<1>1. ASSUME NEW k \in Nat, k # 0 => Upto(k - 1) PROVE Upto(k)
  <2> HIDE DEF Begin, Goes
  <2>1. PICK g : k # 0 => g = [j \in 0..(k - 1) |-> IF j = 0 THEN Begin ELSE Goes(g[j - 1], j)]
    BY <1>1
  <2> DEFINE f == [j \in 0..k |-> IF j = 0 THEN Begin ELSE Goes(g[j - 1], j)]
  <2>2. ASSUME NEW j \in 0..k, j # 0 PROVE f[j - 1] = g[j - 1]
    <3>1. PICK i : i = j - 1
      OBVIOUS
    <3>2. i \in 0..k /\ i \in 0..(k - 1) /\ k # 0
      BY <2>2, <3>1
    <3>3. f[i] = g[i]
      BY <2>1, <3>2
    <3> QED BY <3>1, <3>3
  <2>3. f = [j \in 0..k |-> IF j = 0 THEN Begin ELSE Goes(f[j - 1], j)]
    BY <2>2
  <2> QED BY <2>3
<1>2. D = {}
  <2> SUFFICES ASSUME D # {} PROVE FALSE
    OBVIOUS
  <2> HIDE DEF Upto
  <2>1. PICK m \in D : \A k \in D : m <= k
    <3>1. D \in SUBSET Nat
      OBVIOUS
    <3> HIDE DEF D
    <3> QED BY <3>1, LeastNumber
  <2>2. m \in Nat /\ ~Upto(m) /\ (m # 0 => Upto(m - 1))
    <3>1. m # 0 => m - 1 \in Nat /\ ~(m <= m - 1)
      OBVIOUS
    <3> QED BY <2>1, <3>1
  <2> QED BY <1>1, <2>2
<1>3. Upto(n)
  BY <1>2
<1> QED BY <1>3 DEF IsUpTo

(* the turn of one file: what it is, and that its new name is free         *)
LEMMA NewIsFree ==
  ASSUME SelectionSound, NEW plan, NEW names, NEW given, PlanOK(plan, names),
         NEW n \in Numbers, NEW others, IsFiniteSet(others), names[Selected[n][1]] \subseteq others,
         NEW new, new = IF IsConflict(plan[n]) /\ ~IsDropped(plan[n], given[n])
                        THEN Answered(plan[n], given[n], others) ELSE plan[n]
  PROVE  /\ new \in PlannedFiles
         /\ Became(plan, names, given, new, n)
         /\ new.at = Selected[n] \/ new.at[2] \notin others
<1> DEFINE file == plan[n]
<1>1. /\ file \in PlannedFiles /\ file.at = Selected[n]
      /\ Selected[n] \in Places \X PathNames
  BY DEF PlanOK, SelectionSound, Numbers
<1>2. PICK folder, name : Selected[n] = <<folder, name>> /\ folder \in Places /\ name \in PathNames
  BY <1>1
<1>3. CASE IsConflict(file) /\ ~IsDropped(file, given[n])
  <2>1. PICK fresh : fresh = UniqueName(name, others)
    OBVIOUS
  <2>2. fresh \in PathNames /\ fresh \notin others
    BY <1>2, <2>1, UniqueIsFree
  <2>3. CASE given[n] = "Rename" /\ file.existing # None
    <3>1. file.at[1] = folder /\ file.at[2] = name
      BY <1>1, <1>2
    <3>2. PICK b \in BOOLEAN : new = [file EXCEPT !.at = <<folder, fresh>>, !.resume = b]
      BY <1>3, <2>1, <2>3, <3>1 DEF Answered
    <3>3. PICK to : to = <<folder, fresh>>
      OBVIOUS
    <3>4. to \in Places \X PathNames
      BY <1>2, <2>2, <3>3
    <3>5. new = [file EXCEPT !.at = to, !.resume = b]
      BY <3>2, <3>3
    <3>6. new \in PlannedFiles /\ new.at = to
      BY <1>1, <3>4, <3>5 DEF PlannedFiles
    <3> QED BY <1>2, <2>2, <3>3, <3>6 DEF Became
  <2>4. CASE ~(given[n] = "Rename" /\ file.existing # None)
    <3>1. PICK b \in BOOLEAN : new = [file EXCEPT !.at = file.at, !.resume = b]
      BY <1>3, <2>4 DEF Answered
    <3>2. new \in PlannedFiles /\ new.at = Selected[n]
      BY <1>1, <3>1 DEF PlannedFiles
    <3> QED BY <2>4, <3>2 DEF Became
  <2> QED BY <2>3, <2>4
<1>4. CASE ~(IsConflict(file) /\ ~IsDropped(file, given[n]))
  <2>1. new = file
    BY <1>4
  <2>2. given[n] = "Rename" => file.existing = None
    BY <1>4 DEF IsConflict, IsDropped
  <2> QED BY <1>1, <2>1, <2>2 DEF Became
<1> QED BY <1>3, <1>4

LEMMA TurnResolves ==
  ASSUME SelectionSound, NEW plan, NEW names, NEW given, PlanOK(plan, names),
         NEW k \in Nat, NEW n, n = k + 1, n \in Numbers,
         NEW r, ResolvedOK(plan, names, given, r, k)
  PROVE  ResolvedOK(plan, names, given, Turn(plan, given, r, n), n)
<1>1. /\ plan[n] \in PlannedFiles /\ plan[n].at = Selected[n]
      /\ Selected[n] \in Places \X PathNames /\ Selected[n][1] \in DOMAIN names
  BY DEF PlanOK, SelectionSound, Numbers
<1>2. PICK folder, name : Selected[n] = <<folder, name>> /\ folder \in DOMAIN names
  BY <1>1
<1>3. PICK others : others = r.taken[folder]
  OBVIOUS
<1>4. /\ IsFiniteSet(others) /\ names[folder] \subseteq others
      /\ names[Selected[n][1]] \subseteq others
  BY <1>2, <1>3 DEF ResolvedOK
<1>5. PICK new : new = IF IsConflict(plan[n]) /\ ~IsDropped(plan[n], given[n])
                       THEN Answered(plan[n], given[n], others) ELSE plan[n]
  OBVIOUS
<1>6. /\ new \in PlannedFiles
      /\ Became(plan, names, given, new, n)
      /\ new.at = Selected[n] \/ new.at[2] \notin others
  BY ONLY SelectionSound, PlanOK(plan, names), n \in Numbers, <1>4, <1>5, NewIsFree
<1>7. PICK own : new.at = <<folder, own>>
  BY <1>2, <1>6 DEF PlannedFiles, Became
<1>8. PICK after : after = [r.taken EXCEPT ![folder] = @ \cup {own}]
  OBVIOUS
<1>9. Turn(plan, given, r, n) = [files |-> Append(r.files, new), taken |-> after]
  <2>1. plan[n].at[1] = folder
    BY <1>1, <1>2
  <2>2. new.at[1] = folder /\ new.at[2] = own
    BY <1>7
  <2>3. new = IF IsConflict(plan[n]) /\ ~IsDropped(plan[n], given[n])
              THEN Answered(plan[n], given[n], r.taken[plan[n].at[1]]) ELSE plan[n]
    BY <1>3, <1>5, <2>1
  <2> QED BY <1>8, <2>2, <2>3 DEF Turn
<1>10. PICK all : all = Append(r.files, new)
  OBVIOUS
<1>11. /\ all \in Seq(PlannedFiles) /\ Len(all) = n /\ all[n] = new
       /\ \A i \in 1..k : all[i] = r.files[i]
  BY <1>6, <1>10 DEF ResolvedOK
<1>12. /\ DOMAIN after = DOMAIN names /\ after[folder] = others \cup {own}
       /\ \A f \in DOMAIN names : f # folder => after[f] = r.taken[f]
  BY <1>2, <1>3, <1>8 DEF ResolvedOK
<1>13. IsFiniteSet(others \cup {own})
  BY <1>4, FS_AddElement
<1>14. \A f \in DOMAIN names : IsFiniteSet(after[f]) /\ names[f] \subseteq after[f] /\ r.taken[f] \subseteq after[f]
  BY <1>3, <1>4, <1>12, <1>13 DEF ResolvedOK
<1>15. ASSUME NEW i \in 1..n
       PROVE  Became(plan, names, given, all[i], i) /\ all[i].at[2] \in after[Selected[i][1]]
  <2>1. CASE i = n
    BY <1>2, <1>6, <1>7, <1>11, <1>12, <2>1
  <2>2. CASE i # n
    <3>1. i \in 1..k /\ i \in Numbers
      BY <2>2 DEF Numbers
    <3>2. /\ Became(plan, names, given, r.files[i], i)
          /\ r.files[i].at[2] \in r.taken[Selected[i][1]]
      BY <3>1 DEF ResolvedOK
    <3>3. Selected[i][1] \in DOMAIN names
      BY <3>1 DEF PlanOK
    <3> QED BY <1>11, <1>14, <3>1, <3>2, <3>3
  <2> QED BY <2>1, <2>2
<1>16. ASSUME NEW i \in 1..k PROVE all[i].at # all[n].at
  <2> SUFFICES ASSUME all[i].at = new.at PROVE FALSE
    BY <1>11
  <2>1. i \in Numbers /\ i # n
    BY DEF Numbers
  <2>2. PICK file : file = r.files[i]
    OBVIOUS
  <2>3. /\ Became(plan, names, given, file, i) /\ file.at = new.at
        /\ file.at[2] \in r.taken[Selected[i][1]]
    BY <1>11, <2>2 DEF ResolvedOK
  <2>4. file.at[1] = folder /\ file.at[2] = own /\ Selected[i][1] = folder
    BY <1>7, <2>3 DEF Became
  <2>5. own \in others
    BY <1>3, <2>3, <2>4
  <2>6. new.at = Selected[n]
    BY <1>6, <1>7, <2>5
  <2>7. file.at # Selected[i]
    BY <2>1, <2>3, <2>6 DEF SelectionSound
  <2>8. own \notin names[folder]
    BY <2>3, <2>4, <2>7 DEF Became
  <2>9. own = Selected[n][2] /\ Selected[n][1] = folder
    BY <1>2, <1>7, <2>6
  <2>10. own \in PlannedNames(folder)
    BY <2>9 DEF PlannedNames
  <2>11. PlannedNames(folder) \subseteq names[folder]
    BY <1>2 DEF PlanOK
  <2> QED BY <2>8, <2>10, <2>11
<1>17. ASSUME NEW i \in 1..n, NEW j \in 1..n, all[i].at = all[j].at PROVE i = j
  <2>1. CASE i = n \/ j = n
    BY <1>16, <1>17, <2>1
  <2>2. CASE i # n /\ j # n
    <3>1. i \in 1..k /\ j \in 1..k
      BY <2>2
    <3> QED BY <1>11, <1>17, <3>1 DEF ResolvedOK
  <2> QED BY <2>1, <2>2
<1>18. PICK t : t = Turn(plan, given, r, n)
  OBVIOUS
<1>19. t.files = all /\ t.taken = after
  BY <1>9, <1>10, <1>18
<1>20. ResolvedOK(plan, names, given, t, n)
  BY <1>11, <1>12, <1>14, <1>15, <1>17, <1>19 DEF ResolvedOK
<1> QED BY <1>18, <1>20

(* what the answers make of the whole plan                                 *)
LEMMA Resolves ==
  ASSUME SelectionSound, NEW plan, NEW names, NEW given, PlanOK(plan, names)
  PROVE  ResolvedOK(plan, names, given, ResolvedUpTo(plan, names, given), Len(Selected))
<1> DEFINE l == Len(Selected)
<1>1. l \in Nat
  BY DEF SelectionSound
<1>2. PICK f : IsUpTo(plan, names, given, l, f) /\ ResolvedUpTo(plan, names, given) = f[l]
  <2>1. \E f : IsUpTo(plan, names, given, l, f)
    BY <1>1, UpToExists
  <2>2. ResolvedUpTo(plan, names, given) = (CHOOSE f : IsUpTo(plan, names, given, l, f))[l]
    BY DEF ResolvedUpTo, IsUpTo, Turn
  <2> HIDE DEF l
  <2> QED BY <2>1, <2>2
<1> DEFINE Fine(k) == ResolvedOK(plan, names, given, f[k], k)
           D == {k \in Nat : k <= l /\ ~Fine(k)}
<1> HIDE DEF l
<1>3. Fine(0)
  <2>1. f[0] = [files |-> <<>>, taken |-> names]
    BY <1>1, <1>2 DEF IsUpTo
  <2> QED BY <2>1 DEF ResolvedOK, PlanOK
<1>4. ASSUME NEW k \in Nat, k # 0, k <= l, Fine(k - 1) PROVE Fine(k)
  <2>1. PICK i : i = k - 1
    OBVIOUS
  <2>2. i \in Nat /\ k = i + 1 /\ k \in Numbers /\ k \in 0..l
    BY <1>1, <1>4, <2>1 DEF Numbers, l
  <2>3. f[k] = Turn(plan, given, f[i], k)
    BY <1>2, <1>4, <2>1, <2>2 DEF IsUpTo
  <2>4. ResolvedOK(plan, names, given, f[i], i)
    BY <1>4, <2>1
  <2> QED BY <2>2, <2>3, <2>4, TurnResolves
<1>5. D = {}
  <2> SUFFICES ASSUME D # {} PROVE FALSE
    OBVIOUS
  <2> HIDE DEF Fine
  <2>1. PICK m \in D : \A k \in D : m <= k
    <3>1. D \in SUBSET Nat
      OBVIOUS
    <3> HIDE DEF D
    <3> QED BY <3>1, LeastNumber
  <2>2. m \in Nat /\ m <= l /\ ~Fine(m) /\ (m # 0 => Fine(m - 1))
    <3>1. m # 0 => m - 1 \in Nat /\ ~(m <= m - 1) /\ m - 1 <= l
      BY <1>1
    <3> QED BY <2>1, <3>1
  <2> QED BY <1>3, <1>4, <2>2
<1>6. Fine(l)
  BY <1>1, <1>5
<1> QED BY <1>2, <1>6 DEF l

---------------------------------------------------------------------------
(* The inductive invariant                                                 *)
Policies == {"Ask", "Overwrite", "Skip", "Rename"}

(* before the plan: what PlanInit lets the destination hold                *)
Untouched ==
    /\ Top \in DOMAIN there /\ DOMAIN there \subseteq Places /\ DOMAIN parts = DOMAIN there
    /\ \A folder \in DOMAIN there : there[folder] \in Listings(Contents) /\ parts[folder] \in Listings(Parts)

(* a plan that answers are given for: it says what is there, and its names *)
(* leave none out, but for what the look overlooked; and who replaces was  *)
(* asked, or replaces nothing                                              *)
Asked(plan, names, given, by, held) ==
    /\ PlanOK(plan, names)
    /\ DOMAIN names = DOMAIN held
    /\ \A n \in Numbers : plan[n].existing = None =>
         \/ InListing(held[Selected[n][1]], Selected[n][2]) = None
         \/ Overlooked(Selected[n][1], Selected[n][2])
    /\ \A folder \in DOMAIN held : \A name \in DOMAIN held[folder] :
         name \in names[folder] \/ Overlooked(folder, name)
    /\ given \in [Numbers -> Answers]
    /\ \A n \in Numbers : given[n] \in {"Overwrite", "Resume"} => n \in by \/ plan[n].existing = None

(* the copies that are left find what NothingReplacedUnasked says          *)
Finds(n, folder, name, by, held) ==
    /\ folder \in DOMAIN held
    /\ \/ n \in by /\ name = Selected[n][2]
       \/ InListing(held[folder], name) = None
       \/ Overlooked(folder, name)

CopiesGood(plan, copies, by, held) ==
    /\ copies \subseteq Numbers
    /\ \A n \in copies :
         /\ plan[n].at \in Places \X PathNames
         /\ Finds(n, plan[n].at[1], plan[n].at[2], by, held)
    /\ \A n, m \in copies : plan[n].at = plan[m].at => n = m

PlanIInv ==
    /\ policy \in Policies
    /\ phase = "plan" => Untouched
    /\ phase = "ask" => Asked(files, taken, answers, agreed, there)
    /\ phase \in {"copies", "over"} => CopiesGood(files, left, agreed, there)

(* apply_plan_ready, when every conflict has its answer                    *)
LEMMA AnswersApply ==
  ASSUME SelectionSound, NEW plan, NEW names, NEW given, NEW by, NEW held,
         Asked(plan, names, given, by, held),
         \A n \in Conflicts(plan) : given[n] # None,
         NEW r, r = ResolvedUpTo(plan, names, given),
         NEW copies, copies = {n \in Numbers : ~(IsConflict(plan[n]) /\ IsDropped(plan[n], given[n]))}
  PROVE  CopiesGood(r.files, copies, by, held)
<1>1. ResolvedOK(plan, names, given, r, Len(Selected))
  BY Resolves DEF Asked
<1>2. \A n \in Numbers : r.files[n] \in PlannedFiles /\ Became(plan, names, given, r.files[n], n)
  BY <1>1, Resolves DEF ResolvedOK, Numbers
<1>3. \A n, m \in Numbers : r.files[n].at = r.files[m].at => n = m
  BY <1>1 DEF ResolvedOK, Numbers
<1>4. ASSUME NEW n \in copies
      PROVE  /\ r.files[n].at \in Places \X PathNames
             /\ Finds(n, r.files[n].at[1], r.files[n].at[2], by, held)
  <2>1. PICK file : file = r.files[n]
    OBVIOUS
  <2>2. n \in Numbers /\ file \in PlannedFiles /\ Became(plan, names, given, file, n)
    BY <1>2, <2>1
  <2>3. file.at \in Places \X PathNames
    BY <2>2 DEF PlannedFiles
  <2>4. PICK folder, name : file.at = <<folder, name>>
    BY <2>3
  <2>5. PICK own : Selected[n] = <<folder, own>>
    <3>1. Selected[n] \in Places \X PathNames
      BY <2>2 DEF SelectionSound, Numbers
    <3>2. Selected[n][1] = folder
      BY <2>2, <2>4 DEF Became
    <3> QED BY <3>1, <3>2
  <2>6. folder \in DOMAIN names /\ folder \in DOMAIN held
    BY <2>2, <2>5 DEF Asked, PlanOK
  <2>7. own \in names[folder]
    <3>1. own \in PlannedNames(folder)
      BY <2>2, <2>5 DEF PlannedNames
    <3> QED BY <2>6, <3>1 DEF Asked, PlanOK
  <2>8. CASE name \notin names[folder]
    <3>1. Overlooked(folder, name) \/ name \notin DOMAIN held[folder]
      BY <2>6, <2>8 DEF Asked
    <3>2. Finds(n, folder, name, by, held)
      BY <2>6, <3>1 DEF Finds, InListing
    <3> QED BY <2>1, <2>3, <2>4, <3>2
  <2>9. CASE name \in names[folder]
    <3>1. file.at = Selected[n] /\ (given[n] = "Rename" => plan[n].existing = None)
      BY <2>2, <2>4, <2>5, <2>9 DEF Became
    <3>2. name = own
      BY <2>4, <2>5, <3>1
    <3>3. given[n] \in Answers /\ (IsConflict(plan[n]) => given[n] # None)
      BY <2>2 DEF Asked, Conflicts
    <3>4. n \in by \/ plan[n].existing = None
      <4>1. CASE ~IsConflict(plan[n])
        BY <4>1 DEF IsConflict
      <4>2. CASE IsConflict(plan[n])
        <5>1. given[n] # "Skip"
          BY <4>2 DEF IsDropped
        <5>2. given[n] \in {"Overwrite", "Resume"} \/ given[n] = "Rename"
          BY <3>3, <4>2, <5>1 DEF Answers
        <5> QED BY <2>2, <3>1, <5>2 DEF Asked
      <4> QED BY <4>1, <4>2
    <3>5. plan[n].existing = None => InListing(held[folder], own) = None \/ Overlooked(folder, own)
      BY <2>2, <2>5 DEF Asked
    <3>6. Finds(n, folder, name, by, held)
      BY <2>5, <2>6, <3>2, <3>4, <3>5 DEF Finds
    <3> QED BY <2>1, <2>3, <2>4, <3>6
  <2> QED BY <2>8, <2>9
<1> QED BY <1>3, <1>4 DEF CopiesGood

LEMMA ApplyKeeps ==
  ASSUME SelectionSound, NEW plan, NEW names, NEW given,
         Asked(plan, names, given, agreed', there'),
         \A n \in Conflicts(plan) : given[n] # None,
         Apply(plan, names, given), UNCHANGED <<policy, looks>>, policy \in Policies
  PROVE  PlanIInv'
<1>1. PICK r : r = ResolvedUpTo(plan, names, given)
  OBVIOUS
<1>2. PICK copies : copies = {n \in Numbers : ~(IsConflict(plan[n]) /\ IsDropped(plan[n], given[n]))}
  OBVIOUS
<1>3. PICK by, held : by = agreed' /\ held = there'
  OBVIOUS
<1>4. Asked(plan, names, given, by, held)
  BY <1>3
<1>5. CopiesGood(r.files, copies, by, held)
  BY <1>1, <1>2, <1>4, AnswersApply
<1>6. files' = r.files /\ left' = copies /\ phase' \in {"copies", "over"}
  BY <1>1, <1>2 DEF Apply
<1>7. CopiesGood(files, left, agreed, there)'
  BY <1>3, <1>5, <1>6 DEF CopiesGood, Finds, Overlooked
<1> QED BY <1>6, <1>7 DEF PlanIInv

---------------------------------------------------------------------------
(* Every action keeps it                                                   *)
LEMMA EmptyListing == ASSUME NEW S PROVE <<>> \in Listings(S) /\ DOMAIN <<>> = {}
<1>1. <<>> \in [{} -> S] /\ DOMAIN <<>> = {}
  OBVIOUS
<1>2. {} \in SUBSET PathNames /\ IsFiniteSet({})
  BY FS_EmptySet
<1> QED BY <1>1, <1>2 DEF Listings

LEMMA PlanStarts == SelectionSound /\ PlanInit => PlanIInv
<1> SUFFICES ASSUME SelectionSound, PlanInit PROVE PlanIInv
  OBVIOUS
<1> DEFINE In(top, sub) == {Top} \cup (IF sub.there THEN {TreeFolder} ELSE {})
           Of(top, sub) == [folder \in In(top, sub) |-> IF folder = Top THEN top ELSE sub]
<1>1. PICK top \in Tops, sub \in Trees :
        /\ there = [folder \in In(top, sub) |-> Of(top, sub)[folder].old]
        /\ parts = [folder \in In(top, sub) |-> Of(top, sub)[folder].part]
  BY DEF PlanInit
<1>2. PICK folders, held :
        folders = In(top, sub) /\ held = [folder \in folders |-> IF folder = Top THEN top ELSE sub]
  OBVIOUS
<1>3. /\ top.old \in Listings(Contents) /\ sub.old \in Listings(Contents)
      /\ top.part \in Listings(Parts) /\ sub.part \in Listings(Parts)
  BY DEF SelectionSound
<1>4. \A folder \in folders : held[folder] = top \/ held[folder] = sub
  BY <1>2
<1>5. /\ DOMAIN there = folders /\ DOMAIN parts = folders
      /\ \A folder \in folders : there[folder] = held[folder].old /\ parts[folder] = held[folder].part
  BY <1>1, <1>2
<1>6. Untouched
  BY <1>2, <1>3, <1>4, <1>5 DEF Untouched, Places
<1> QED BY <1>6 DEF PlanInit, PlanIInv, Policies

(* what mark_conflicts says of a file                                      *)
LEMMA Marked ==
  ASSUME SelectionSound, Untouched, NEW n \in Numbers, NEW folder, NEW name,
         Selected[n] = <<folder, name>>
  PROVE  /\ folder \in DOMAIN WithMissing(there)
         /\ MarkConflicts(folder, name) \in PlannedFiles
         /\ MarkConflicts(folder, name).at = Selected[n]
         /\ \/ MarkConflicts(folder, name).existing = InListing(WithMissing(there)[folder], name)
            \/ Overlooked(folder, name) /\ MarkConflicts(folder, name).existing = None
<1> DEFINE file == MarkConflicts(folder, name)
           made == WithMissing(there)
<1>1. folder \in Places /\ name \in PathNames /\ name \in PlannedNames(folder)
  <2>1. Selected[n] \in Places \X PathNames
    BY DEF SelectionSound, Numbers
  <2>2. Selected[n][1] = folder /\ Selected[n][2] = name
    OBVIOUS
  <2> QED BY <2>1, <2>2 DEF PlannedNames
<1>2. folder \in DOMAIN there \cup Missing
  BY <1>1 DEF Missing, Places, Untouched
<1>3. DOMAIN made = DOMAIN there \cup Missing
  BY DEF WithMissing
<1>4. CASE folder \in Missing
  <2>1. made[folder] = <<>>
    BY <1>2, <1>4 DEF WithMissing
  <2>2. InListing(made[folder], name) = None
    BY <2>1, EmptyListing DEF InListing
  <2>3. file = [at |-> <<folder, name>>, resume |-> FALSE, existing |-> None, partial |-> None]
    BY <1>4 DEF MarkConflicts, Made, Missing
  <2> QED BY <1>1, <1>2, <1>3, <2>2, <2>3 DEF PlannedFiles
<1>5. CASE folder \notin Missing
  <2>1. folder \in DOMAIN there /\ made[folder] = there[folder]
    BY <1>2, <1>5 DEF WithMissing
  <2>2. PICK listing, partials : listing = there[folder] /\ partials = ListedParts(folder)
    OBVIOUS
  <2>3. listing \in Listings(Contents) /\ partials \in Listings(Parts)
    BY <2>1, <2>2, EmptyListing DEF Untouched, ListedParts
  <2>4. PICK told : told = IF folder \in Made THEN None ELSE InListing(ListDestination(folder), name)
    OBVIOUS
  <2>5. InListing(listing, name) \in Contents \cup {None}
    BY <2>3 DEF Listings, InListing
  <2>a. told = InListing(listing, name) \/ (Overlooked(folder, name) /\ told = None)
    <3>1. CASE folder \in Made
      BY <1>5, <2>1, <2>4, <3>1 DEF Made, Missing, Overlooked
    <3>2. CASE folder \notin Made
      BY <2>2, <2>4, <3>2 DEF ListDestination, InListing
    <3> QED BY <3>1, <3>2
  <2>b. PICK partly : partly = IF folder \in Made THEN None ELSE InListing(partials, name)
    OBVIOUS
  <2>6. partly \in Parts \cup {None}
    BY <2>3, <2>b DEF Listings, InListing
  <2>7. file = [at |-> <<folder, name>>, resume |-> FALSE, existing |-> told, partial |-> partly]
    BY <2>2, <2>4, <2>b DEF MarkConflicts
  <2>8. told \in Contents \cup {None}
    BY <2>5, <2>a
  <2> QED BY <1>1, <1>2, <1>3, <2>1, <2>2, <2>a, <2>6, <2>7, <2>8 DEF PlannedFiles
<1> QED BY <1>4, <1>5

(* the taken names of a folder are those it has and those it shall have    *)
LEMMA Taken ==
  ASSUME SelectionSound, Untouched, NEW folder \in DOMAIN WithMissing(there)
  PROVE  /\ IsFiniteSet(TakenNames(folder)) /\ PlannedNames(folder) \subseteq TakenNames(folder)
         /\ \A name \in DOMAIN (WithMissing(there)[folder]) :
              name \in TakenNames(folder) \/ Overlooked(folder, name)
<1>1. folder \in DOMAIN there \cup Missing
  BY DEF WithMissing
<1>2. IsFiniteSet(PlannedNames(folder))
  BY PlannedFinite
<1>3. CASE folder \in Missing
  <2>1. DOMAIN (WithMissing(there)[folder]) = {}
    BY <1>1, <1>3, EmptyListing DEF WithMissing
  <2>2. TakenNames(folder) = PlannedNames(folder)
    BY <1>3 DEF TakenNames, Made, Missing
  <2> QED BY <1>2, <2>1, <2>2
<1>4. CASE folder \notin Missing
  <2>1. folder \in DOMAIN there /\ WithMissing(there)[folder] = there[folder]
    BY <1>1, <1>4 DEF WithMissing
  <2>2. PICK listed, held : listed = DOMAIN ListDestination(folder) /\ held = DOMAIN there[folder]
    OBVIOUS
  <2>3. IsFiniteSet(held)
    BY <2>1, <2>2 DEF Untouched, Listings
  <2>4. listed \subseteq held /\ \A name \in held : name \in listed \/ Overlooked(folder, name)
    BY <2>2 DEF ListDestination
  <2>5. PICK planned : planned = PlannedNames(folder)
    OBVIOUS
  <2>a. folder \in Made => TakenNames(folder) = planned /\ \A name \in held : Overlooked(folder, name)
    BY <1>4, <2>1, <2>5 DEF TakenNames, Made, Missing, Overlooked
  <2>6. folder \notin Made => TakenNames(folder) = planned \cup listed
    BY <2>2, <2>5 DEF TakenNames
  <2>7. IsFiniteSet(planned \cup listed)
    <3>1. IsFiniteSet(listed)
      BY <2>3, <2>4, FS_Subset
    <3> QED BY <1>2, <2>5, <3>1, FS_Union
  <2> QED BY <1>2, <2>1, <2>2, <2>4, <2>5, <2>6, <2>7, <2>a
<1> QED BY <1>3, <1>4

LEMMA PlanKeeps ==
  ASSUME SelectionSound, PlanIInv, Plan
  PROVE  PlanIInv'
<1> DEFINE P == [n \in Numbers |-> MarkConflicts(Selected[n][1], Selected[n][2])]
           A == [n \in Numbers |-> IF IsConflict(P[n]) THEN ResolutionFor(P[n]) ELSE None]
<1>1. Untouched /\ policy \in Policies /\ there' = WithMissing(there)
  BY DEF PlanIInv, Plan, EnsureDirectories
<1>2. PICK plan, names, given :
        /\ plan = P
        /\ names = [folder \in DOMAIN there' |-> TakenNames(folder)]
        /\ given = A
  OBVIOUS
<1>3. ASSUME NEW n \in Numbers
      PROVE  /\ plan[n] \in PlannedFiles /\ plan[n].at = Selected[n]
             /\ Selected[n][1] \in DOMAIN there'
             /\ \/ plan[n].existing = InListing(there'[Selected[n][1]], Selected[n][2])
                \/ Overlooked(Selected[n][1], Selected[n][2]) /\ plan[n].existing = None
  <2>1. Selected[n] \in Places \X PathNames
    BY DEF SelectionSound, Numbers
  <2>2. PICK folder, name : Selected[n] = <<folder, name>>
    BY <2>1
  <2>3. plan[n] = MarkConflicts(folder, name)
    BY <1>2, <2>2
  <2> QED BY <1>1, <2>2, <2>3, Marked
<1>4. PlanOK(plan, names)
  <2>1. plan \in [Numbers -> PlannedFiles]
    BY <1>2, <1>3
  <2>2. \A folder \in DOMAIN names : IsFiniteSet(names[folder]) /\ PlannedNames(folder) \subseteq names[folder]
    BY <1>1, <1>2, Taken
  <2> QED BY <1>2, <1>3, <2>1, <2>2 DEF PlanOK
<1>5. /\ answers' = given
      /\ agreed' = {n \in Numbers : given[n] \in {"Overwrite", "Resume"}}
      /\ IF policy = "Ask" /\ Conflicts(plan) # {}
         THEN files' = plan /\ taken' = names /\ phase' = "ask" /\ UNCHANGED left
         ELSE Apply(plan, names, given)
      /\ UNCHANGED <<looks, policy, rest>>
  BY <1>2, Zenon DEF Plan
<1>6. ASSUME NEW n \in Numbers
      PROVE  /\ given[n] \in Answers
             /\ policy = "Ask" => given[n] = None
             /\ policy # "Ask" /\ IsConflict(plan[n]) => given[n] # None
  <2>1. given[n] = IF IsConflict(plan[n]) THEN ResolutionFor(plan[n]) ELSE None
    BY <1>2
  <2> QED BY <1>1, <2>1 DEF ResolutionFor, Answers, Policies, None
<1>7. Asked(plan, names, given, agreed', there')
  <2>1. given \in [Numbers -> Answers]
    BY <1>2, <1>6
  <2>2. \A folder \in DOMAIN there' : \A name \in DOMAIN there'[folder] :
          name \in names[folder] \/ Overlooked(folder, name)
    BY <1>1, <1>2, Taken
  <2>3. \A n \in Numbers : given[n] \in {"Overwrite", "Resume"} => n \in agreed'
    BY <1>5
  <2> QED BY <1>2, <1>3, <1>4, <2>1, <2>2, <2>3 DEF Asked
<1>8. CASE policy = "Ask" /\ Conflicts(plan) # {}
  <2>1. files' = plan /\ taken' = names /\ phase' = "ask" /\ looks' = looks /\ policy' = policy
    BY <1>5, <1>8
  <2>2. Asked(files, taken, answers, agreed, there)'
    BY <1>5, <1>7, <2>1 DEF Asked, Overlooked
  <2> QED BY <1>1, <2>1, <2>2 DEF PlanIInv
<1>9. CASE ~(policy = "Ask" /\ Conflicts(plan) # {})
  <2>1. \A n \in Conflicts(plan) : given[n] # None
    BY <1>6, <1>9 DEF Conflicts
  <2>2. Apply(plan, names, given) /\ UNCHANGED <<policy, looks>>
    BY <1>5, <1>9
  <2> QED BY <1>1, <1>7, <2>1, <2>2, ApplyKeeps
<1> QED BY <1>8, <1>9

(* answer_conflict: an answer to one dialog replaces the file it showed; a *)
(* "same for the rest" reaches the files of which the dialog said the same *)
LEMMA AnswerKeeps ==
  ASSUME SelectionSound, PlanIInv, AnswerConflict
  PROVE  PlanIInv'
<1>1. Asked(files, taken, answers, agreed, there) /\ policy \in Policies
  BY DEF PlanIInv, AnswerConflict
<1> DEFINE Same(a) == IF rest THEN {n \in Open : FitsTheRest(a, files[Current], files[n])} \cup {Current}
                      ELSE {Current}
           Given(a) == [n \in Numbers |-> IF n \in Same(a) THEN a ELSE answers[n]]
           Shown(a) == IF a = "Resume" \/ (a = "Overwrite" /\ files[Current].existing # None)
                       THEN Same(a) ELSE {}
<1>2. PICK answer \in Offered(files[Current]) :
        /\ answers' = Given(answer)
        /\ agreed' = agreed \cup Shown(answer)
        /\ IF Open = Same(answer) THEN Apply(files, taken, Given(answer))
           ELSE UNCHANGED <<files, taken, left, phase>>
  BY DEF AnswerConflict
<1>3. PICK first, same, given, shown :
         first = files[Current] /\ same = Same(answer) /\ given = Given(answer) /\ shown = Shown(answer)
  OBVIOUS
<1>4. same = IF rest THEN {n \in Open : FitsTheRest(answer, first, files[n])} \cup {Current} ELSE {Current}
  BY <1>3
<1>5. given = [n \in Numbers |-> IF n \in same THEN answer ELSE answers[n]]
  <2> HIDE DEF Same
  <2> QED BY <1>3
<1>6. shown = IF answer = "Resume" \/ (answer = "Overwrite" /\ first.existing # None) THEN same ELSE {}
  <2> HIDE DEF Same
  <2> QED BY <1>3
<1> HIDE DEF Same, Given, Shown
<1>7. /\ answers' = given /\ agreed' = agreed \cup shown
       /\ IF Open = same THEN Apply(files, taken, given) ELSE UNCHANGED <<files, taken, left, phase>>
  BY <1>2, <1>3
<1>8. answer \in Offered(first) /\ first = files[Current]
  BY <1>2, <1>3
<1>9. phase = "ask" /\ UNCHANGED <<there, parts, looks, policy>>
  BY DEF AnswerConflict
<1>10. answer \in {"Skip", "Resume", "Overwrite", "Rename"}
  BY <1>8 DEF Offered
<1>11. given \in [Numbers -> Answers]
  BY <1>1, <1>10, <1>5 DEF Asked, Answers
<1>12. ASSUME NEW n \in Numbers, given[n] \in {"Overwrite", "Resume"}
      PROVE  n \in agreed' \/ files[n].existing = None
  <2>1. CASE n \notin same
    <3>1. given[n] = answers[n]
      BY <1>5, <2>1
    <3> QED BY <1>1, <1>12, <1>7, <3>1 DEF Asked
  <2>2. CASE n \in same /\ answer = "Resume"
    BY <1>6, <1>7, <2>2
  <2>3. CASE n \in same /\ answer = "Overwrite"
    <3>1. n = Current \/ FitsTheRest(answer, first, files[n])
      BY <1>4, <2>3
    <3>2. first.existing = None => files[n].existing = None
      BY <1>8, <2>3, <3>1 DEF FitsTheRest
    <3> QED BY <1>6, <1>7, <2>3, <3>2
  <2>4. n \in same => given[n] = answer
    BY <1>5
  <2> QED BY <1>12, <2>1, <2>2, <2>3, <2>4
<1>13. Asked(files, taken, given, agreed', there')
  BY <1>1, <1>9, <1>11, <1>12 DEF Asked
<1>14. CASE Open = same
  <2>1. ASSUME NEW n \in Conflicts(files) PROVE given[n] # None
    <3>1. n \in Numbers /\ (n \notin Open => answers[n] # None)
      BY DEF Conflicts, Open
    <3>2. given[n] = IF n \in same THEN answer ELSE answers[n]
      BY <1>5, <3>1
    <3> QED BY <1>10, <1>14, <3>1, <3>2 DEF None
  <2>2. Apply(files, taken, given) /\ UNCHANGED <<policy, looks>>
    BY <1>9, <1>14, <1>7
  <2> QED BY <1>1, <1>13, <2>1, <2>2, ApplyKeeps
<1>15. CASE Open # same
  <2>1. UNCHANGED <<files, taken, left, phase>>
    BY <1>15, <1>7
  <2>2. Asked(files, taken, answers, agreed, there)'
    BY <1>9, <1>13, <1>7, <2>1 DEF Asked, Overlooked
  <2> QED BY <1>1, <1>9, <2>1, <2>2 DEF PlanIInv
<1> QED BY <1>14, <1>15

(* execute, and a job that fails: what a copy puts into a folder has a     *)
(* name that no other copy has                                             *)
LEMMA CopyKeeps ==
  ASSUME PlanIInv, CopyFile \/ FileFails
  PROVE  PlanIInv'
<1>1. CopiesGood(files, left, agreed, there) /\ policy \in Policies
  BY DEF PlanIInv, CopyFile, FileFails
<1>2. UNCHANGED <<looks, policy, files, agreed>> /\ phase' \in {"copies", "over"}
  BY DEF CopyFile, FileFails
<1>3. CASE CopyFile
  <2>1. PICK n \in left :
          /\ there' = [there EXCEPT ![files[n].at[1]] = With(@, files[n].at[2], n)]
          /\ left' = left \ {n}
    BY <1>3 DEF CopyFile
  <2>2. PICK folder, name : folder = files[n].at[1] /\ name = files[n].at[2]
    OBVIOUS
  <2>3. /\ folder = files[n].at[1] /\ name = files[n].at[2]
        /\ there' = [there EXCEPT ![folder] = With(@, name, n)]
        /\ left' = left \ {n}
    BY <2>1, <2>2
  <2>4. ASSUME NEW m \in left'
        PROVE  Finds(m, files[m].at[1], files[m].at[2], agreed, there')
    <3>1. PICK f, o : files[m].at = <<f, o>>
      BY <1>1, <2>3 DEF CopiesGood
    <3>2. f # folder \/ o # name
      BY <1>1, <2>3, <3>1 DEF CopiesGood
    <3>3. Finds(m, f, o, agreed, there)
      BY <1>1, <2>3, <3>1 DEF CopiesGood
    <3>4. DOMAIN there' = DOMAIN there
      BY <2>3
    <3>5. InListing(there'[f], o) = InListing(there[f], o)
      <4>1. CASE f # folder
        <5>1. there'[f] = there[f]
          BY <2>3, <3>3, <4>1 DEF Finds
        <5> QED BY <5>1
      <4>2. CASE f = folder
        <5>1. there'[f] = With(there[f], name, n)
          BY <2>3, <3>3, <4>2 DEF Finds
        <5>2. o # name
          BY <3>2, <4>2
        <5> QED BY <5>1, <5>2 DEF With, InListing
      <4> QED BY <4>1, <4>2
    <3>6. Finds(m, f, o, agreed, there')
      BY <3>3, <3>4, <3>5 DEF Finds
    <3> QED BY <3>1, <3>6
  <2>5. CopiesGood(files, left, agreed, there)'
    BY <1>1, <1>2, <2>3, <2>4 DEF CopiesGood, Finds, Overlooked
  <2> QED BY <1>1, <1>2, <2>5 DEF PlanIInv
<1>4. CASE FileFails
  <2>1. left' \subseteq left /\ there' = there
    BY <1>4 DEF FileFails
  <2>2. CopiesGood(files, left, agreed, there)'
    BY <1>1, <1>2, <2>1 DEF CopiesGood, Finds, Overlooked
  <2> QED BY <1>1, <1>2, <2>2 DEF PlanIInv
<1> QED BY <1>3, <1>4

LEMMA PlanNextKeeps ==
  ASSUME SelectionSound, PlanIInv, [PlanNext]_planVars
  PROVE  PlanIInv'
<1>1. CASE Plan
  BY <1>1, PlanKeeps
<1>2. CASE PlanFails
  BY <1>2 DEF PlanFails, PlanIInv
<1>3. CASE AnswerConflict
  BY <1>3, AnswerKeeps
<1>4. CASE ToggleRest
  BY <1>4 DEF ToggleRest, PlanIInv, Asked, Overlooked
<1>5. CASE CancelCopy
  BY <1>5 DEF CancelCopy, PlanIInv
<1>6. CASE CopyFile \/ FileFails
  BY <1>6, CopyKeeps
<1>7. CASE UNCHANGED planVars
  <2>1. /\ Untouched => Untouched'
        /\ Asked(files, taken, answers, agreed, there) => Asked(files, taken, answers, agreed, there)'
        /\ CopiesGood(files, left, agreed, there) => CopiesGood(files, left, agreed, there)'
    BY <1>7 DEF planVars, Untouched, Asked, CopiesGood, Finds, Overlooked
  <2> QED BY <1>7, <2>1 DEF planVars, PlanIInv
<1> QED BY <1>1, <1>2, <1>3, <1>4, <1>5, <1>6, <1>7 DEF PlanNext

LEMMA PlanReplaces == PlanIInv => NothingReplacedUnasked
  BY DEF PlanIInv, CopiesGood, Finds, NothingReplacedUnasked

PlanSpec == PlanInit /\ [][PlanNext]_planVars

(* list_destination, mark_conflicts, resolve, unique_name, the conflict    *)
(* dialog and execute: for any selection of different files, any settings, *)
(* any contents of the destination and any failures of the look at it, a   *)
(* copy replaces a file only where somebody was asked about that file, or  *)
(* where the look overlooked it; what it renames finds a free name, unless *)
(* the look overlooked that one; and no two of its files share one.        *)
THEOREM ReplacesOnlyAsked ==
    ASSUME SelectionSound
    PROVE  PlanSpec => []NothingReplacedUnasked
<1>1. PlanInit => PlanIInv
  BY PlanStarts
<1>2. PlanIInv /\ [PlanNext]_planVars => PlanIInv'
  BY PlanNextKeeps
<1>3. PlanIInv => NothingReplacedUnasked
  BY PlanReplaces
<1> QED BY <1>1, <1>2, <1>3, PTL DEF PlanSpec

(***************************************************************************)
(* The content of one file: any lengths, any number of versions, attempts  *)
(* and failures                                                            *)
(***************************************************************************)
Units == Nat \X Nat

(* what the versions of a source are                                       *)
CopySound == Lengths \subseteq Nat /\ MaxVersions \in Nat \ {0} /\ Tolerance \in Nat

CopyTypeOK ==
    /\ reader \in Kinds /\ writer \in Kinds /\ "local" \in {reader, writer}
    /\ source \in [version : 1..MaxVersions, length : Lengths, modified : Nat, lengths : Seq(Lengths)]
    /\ Len(source.lengths) = source.version /\ source.lengths[source.version] = source.length
    /\ now \in Nat /\ partTime \in Nat /\ untold \in BOOLEAN
    /\ writer # "s3" =>
         /\ part \in Seq(Units) /\ pipe \in Seq(Units) /\ read \in Nat /\ Len(pipe) <= read
         /\ resumed \in {"placed", "appended", "put"}

(* the units from the first to the n-th are those of version v             *)
RightTo(s, n, v) == \A i \in 1..n : s[i] = <<v, i>>

(* the parts of an upload that stand for the first units, the last short   *)
GoodParts(s, v, l) ==
    /\ s \in Seq(Seq(Units))
    /\ \A n \in 1..Len(s) :
         /\ Len(s[n]) \in 1..PartUnits /\ (n < Len(s) => Len(s[n]) = PartUnits)
         /\ \A i \in 1..Len(s[n]) : s[n][i] = <<v, PartUnits * (n - 1) + i>>
         /\ PartUnits * (n - 1) + Len(s[n]) <= l

(* a partial file that an attempt may go on with: of SFTP's, whose writes  *)
(* are concurrent, but for its last units                                  *)
Good(s, v, l) ==
    IF writer = "s3" THEN GoodParts(s, v, l)
    ELSE /\ s \in Seq(Units)
         /\ IF writer = "sftp" THEN \A i \in 1..Len(s) : i + PipeUnits <= Len(s) => s[i] = <<v, i>>
            ELSE RightTo(s, Len(s), v)

(* or one that no attempt goes on with, for the source is newer            *)
LeftFine == Good(part, source.version, source.length) \/ source.modified > partTime + Tolerance

(* what a writer has stored when it stands at `at`                         *)
Goes(s, how, at, v, l) ==
    \/ /\ how \in {"placed", "appended"} /\ writer # "s3" /\ s \in Seq(Units)
       /\ at <= Len(s) /\ RightTo(s, at, v)
       /\ IF writer = "sftp" THEN Len(s) <= at + PipeUnits /\ Len(s) <= l ELSE Len(s) = at
       /\ how = "appended" => writer # "sftp"
    \/ how = "put" /\ writer = "webdav" /\ at = 0
    \/ /\ how = "parts" /\ writer = "s3" /\ GoodParts(s, v, l)
       /\ \E k \in 0..Len(s) : at = PartUnits * k /\ Len(s) <= k + 1 /\ \A n \in 1..k : Len(s[n]) = PartUnits

InCopy ==
    /\ offset \in Nat /\ read \in Nat /\ pipe \in Seq(Units)
    /\ Len(pipe) <= read /\ read <= source.length /\ size = source.length
    /\ \A i \in 1..Len(pipe) : pipe[i] = <<source.version, read - Len(pipe) + i>>
    /\ Goes(part, resumed, read - Len(pipe), source.version, source.length)
    /\ IF resumed = "put" THEN offset = 0 /\ LeftFine ELSE Len(pipe) <= PipeUnits

Whole(s) == s = Version(source.version, source.length)

(* one of the versions there were                                          *)
OneWhole(s) == \E v \in 1..source.version : s = Version(v, source.lengths[v])

(* the destination is right, and so is what it will be                     *)
CopyIInv ==
    /\ CopyTypeOK
    /\ ~untold =>
         /\ stage = "idle" => LeftFine
         /\ stage = "copying" => InCopy
         /\ stage = "renaming" => Good(part, source.version, source.length) /\ Whole(Content)
         /\ stage = "done" => OneWhole(final)

---------------------------------------------------------------------------
(* Sequences                                                               *)
LEMMA IsVersion ==
  ASSUME NEW S, NEW s \in Seq(S), NEW v, NEW n, n = Len(s), RightTo(s, n, v)
  PROVE  s = Version(v, n)
<1>1. s \in [1..n -> S] /\ n \in Nat
  OBVIOUS
<1>2. s = [i \in 1..n |-> s[i]]
  BY <1>1
<1> QED BY <1>2 DEF Version, RightTo

LEMMA VersionIs ==
  ASSUME NEW v \in Nat, NEW n \in Nat
  PROVE  Version(v, n) \in Seq(Units) /\ Len(Version(v, n)) = n /\ RightTo(Version(v, n), n, v)
BY DEF Version, Units, RightTo

LEMMA Joined ==
  ASSUME NEW S, NEW a \in Seq(S), NEW b \in Seq(S)
  PROVE  /\ a \o b \in Seq(S) /\ Len(a \o b) = Len(a) + Len(b)
         /\ \A i \in 1..Len(a) : (a \o b)[i] = a[i]
         /\ \A i \in 1..Len(b) : (a \o b)[Len(a) + i] = b[i]
OBVIOUS

LEMMA OneMore ==
  ASSUME NEW S, NEW s \in Seq(S), NEW e \in S
  PROVE  /\ Append(s, e) \in Seq(S) /\ Len(Append(s, e)) = Len(s) + 1 /\ Append(s, e)[Len(s) + 1] = e
         /\ \A i \in 1..Len(s) : Append(s, e)[i] = s[i]
OBVIOUS

LEMMA CutIs ==
  ASSUME NEW S, NEW s \in Seq(S), NEW n \in 0..Len(s)
  PROVE  Cut(s, n) \in Seq(S) /\ Len(Cut(s, n)) = n /\ \A i \in 1..n : Cut(s, n)[i] = s[i]
BY DEF Cut

(* one sequence of right units after another                               *)
LEMMA JoinedRight ==
  ASSUME NEW v, NEW a \in Seq(Units), NEW b \in Seq(Units), RightTo(a, Len(a), v),
         \A i \in 1..Len(b) : b[i] = <<v, Len(a) + i>>
  PROVE  a \o b \in Seq(Units) /\ Len(a \o b) = Len(a) + Len(b) /\ RightTo(a \o b, Len(a) + Len(b), v)
<1>1. Len(a) \in Nat /\ Len(b) \in Nat
  OBVIOUS
<1>2. ASSUME NEW i \in 1..(Len(a) + Len(b)) PROVE (a \o b)[i] = <<v, i>>
  <2>1. CASE i <= Len(a)
    <3>1. i \in 1..Len(a)
      BY <1>1, <2>1
    <3> QED BY <3>1, Joined DEF RightTo
  <2>2. CASE ~(i <= Len(a))
    <3>1. PICK d : d = i - Len(a)
      OBVIOUS
    <3>2. d \in 1..Len(b) /\ i = Len(a) + d
      BY <1>1, <2>2, <3>1
    <3> QED BY <3>2, Joined
  <2> QED BY <2>1, <2>2
<1> QED BY <1>2, Joined DEF RightTo

(* the greatest of some places                                             *)
LEMMA GreatestNumber ==
  ASSUME NEW n \in Nat, NEW S \in SUBSET (1..n), S # {}
  PROVE  \E m \in S : \A j \in S : j <= m
<1> DEFINE B == {b \in Nat : \A j \in S : j <= b}
<1>1. B \in SUBSET Nat /\ B # {}
  <2>1. n \in B
    OBVIOUS
  <2> QED BY <2>1
<1>2. PICK m \in B : \A b \in B : m <= b
  <2> HIDE DEF B
  <2> QED BY <1>1, LeastNumber
<1>3. m \in S
  <2> SUFFICES ASSUME m \notin S PROVE FALSE
    OBVIOUS
  <2>1. m \in Nat /\ \A j \in S : j <= m
    OBVIOUS
  <2>2. m # 0
    <3>1. PICK j \in S : TRUE
      OBVIOUS
    <3> QED BY <2>1, <3>1
  <2>3. m - 1 \in Nat
    BY <2>1, <2>2
  <2>4. ASSUME NEW j \in S PROVE j <= m - 1
    BY <2>1
  <2>5. m - 1 \in B
    BY <2>3, <2>4
  <2> QED BY <1>2, <2>1, <2>5
<1> QED BY <1>3

---------------------------------------------------------------------------
(* S3: the parts one after the other are the content                       *)
(* FlattenSeq's function                                                   *)
IsFlat(s, k, f) == f = [i \in 1..k |-> IF i = 1 THEN s[i] ELSE f[i - 1] \o s[i]]

LEMMA FlatExists ==
  ASSUME NEW s, NEW n \in Nat
  PROVE  \E f : IsFlat(s, n, f)
<1> DEFINE Upto(k) == \E f : f = [i \in 1..k |-> IF i = 1 THEN s[i] ELSE f[i - 1] \o s[i]]
           D == {k \in Nat : ~Upto(k)}
<1>1. ASSUME NEW k \in Nat, k # 0 => Upto(k - 1) PROVE Upto(k)
  <2>1. PICK g : k # 0 => g = [i \in 1..(k - 1) |-> IF i = 1 THEN s[i] ELSE g[i - 1] \o s[i]]
    BY <1>1
  <2> DEFINE f == [i \in 1..k |-> IF i = 1 THEN s[i] ELSE g[i - 1] \o s[i]]
  <2>2. ASSUME NEW j \in 1..k, j # 1 PROVE f[j - 1] = g[j - 1]
    <3>1. PICK i : i = j - 1
      OBVIOUS
    <3>2. i \in 1..k /\ i \in 1..(k - 1) /\ k # 0
      BY <2>2, <3>1
    <3>3. f[i] = g[i]
      BY <2>1, <3>2
    <3> QED BY <3>1, <3>3
  <2>3. f = [i \in 1..k |-> IF i = 1 THEN s[i] ELSE f[i - 1] \o s[i]]
    BY <2>2
  <2> QED BY <2>3
<1>2. D = {}
  <2> SUFFICES ASSUME D # {} PROVE FALSE
    OBVIOUS
  <2> HIDE DEF Upto
  <2>1. PICK m \in D : \A k \in D : m <= k
    <3>1. D \in SUBSET Nat
      OBVIOUS
    <3> HIDE DEF D
    <3> QED BY <3>1, LeastNumber
  <2>2. m \in Nat /\ ~Upto(m) /\ (m # 0 => Upto(m - 1))
    <3>1. m # 0 => m - 1 \in Nat /\ ~(m <= m - 1)
      OBVIOUS
    <3> QED BY <2>1, <3>1
  <2> QED BY <1>1, <2>2
<1>3. Upto(n)
  BY <1>2
<1> QED BY <1>3 DEF IsFlat

(* how far the k-th part goes                                              *)
PartEnd(s, k) == PartUnits * (k - 1) + Len(s[k])

(* one part                                                                *)
PartOK(s, v, l, k) ==
    /\ s[k] \in Seq(Units) /\ Len(s[k]) \in 1..2 /\ Len(s[k]) \in Nat
    /\ \A i \in 1..Len(s[k]) : s[k][i] = <<v, 2 * (k - 1) + i>>
    /\ k < Len(s) => Len(s[k]) = 2
    /\ PartEnd(s, k) = 2 * (k - 1) + Len(s[k])
    /\ PartEnd(s, k) <= l

LEMMA PartIs ==
  ASSUME NEW v, NEW l, NEW s, GoodParts(s, v, l), NEW k \in 1..Len(s)
  PROVE  PartOK(s, v, l, k)
<1>1. PartUnits = 2 /\ PartEnd(s, k) = PartUnits * (k - 1) + Len(s[k])
  BY DEF PartUnits, PartEnd
<1>2. s \in Seq(Seq(Units))
  BY DEF GoodParts
<1>3. s[k] \in Seq(Units) /\ Len(s) \in Nat
  BY <1>2
<1>4. /\ Len(s[k]) \in 1..PartUnits /\ (k < Len(s) => Len(s[k]) = PartUnits)
      /\ \A i \in 1..Len(s[k]) : s[k][i] = <<v, PartUnits * (k - 1) + i>>
      /\ PartUnits * (k - 1) + Len(s[k]) <= l
  BY DEF GoodParts
<1>5. Len(s[k]) \in 1..2 /\ Len(s[k]) \in Nat
  BY ONLY <1>1, <1>4
<1> QED BY ONLY <1>1, <1>3, <1>4, <1>5 DEF PartOK

LEMMA FlatIsVersion ==
  ASSUME NEW v \in Nat, NEW l \in Nat, NEW s, GoodParts(s, v, l), s # <<>>
  PROVE  FlattenSeq(s) = Version(v, PartEnd(s, Len(s)))
<1> DEFINE m == Len(s)
<1>1. m \in Nat /\ m # 0
  BY DEF GoodParts
<1>2. PICK f : IsFlat(s, m, f) /\ FlattenSeq(s) = f[m]
  <2>1. \E f : IsFlat(s, m, f)
    BY <1>1, FlatExists
  <2>2. FlattenSeq(s) = (CHOOSE f : IsFlat(s, m, f))[m]
    BY <1>1 DEF FlattenSeq, IsFlat
  <2> HIDE DEF m
  <2> QED BY <2>1, <2>2
<1> DEFINE Fine(k) == f[k] = Version(v, PartEnd(s, k))
           D == {k \in Nat : k # 0 /\ k <= m /\ ~Fine(k)}
<1>3. ASSUME NEW k \in 1..m
      PROVE  /\ s[k] \in Seq(Units) /\ Len(s[k]) \in Nat
             /\ \A i \in 1..Len(s[k]) : s[k][i] = <<v, 2 * (k - 1) + i>>
             /\ k < m => Len(s[k]) = 2
             /\ PartEnd(s, k) = 2 * (k - 1) + Len(s[k])
  <2>1. PartOK(s, v, l, k)
    BY PartIs
  <2> QED BY ONLY <2>1, Zenon DEF PartOK
<1> HIDE DEF m
<1>4. Fine(1)
  <2>1. f[1] = s[1]
    BY <1>1, <1>2 DEF IsFlat
  <2>2. /\ s[1] \in Seq(Units) /\ Len(s[1]) \in Nat /\ PartEnd(s, 1) = Len(s[1])
        /\ \A i \in 1..Len(s[1]) : s[1][i] = <<v, i>>
    <3>1. 1 \in 1..m
      BY <1>1
    <3>2. /\ s[1] \in Seq(Units) /\ Len(s[1]) \in Nat
          /\ \A i \in 1..Len(s[1]) : s[1][i] = <<v, 2 * (1 - 1) + i>>
          /\ PartEnd(s, 1) = 2 * (1 - 1) + Len(s[1])
      BY <1>3, <3>1
    <3>3. \A i \in 1..Len(s[1]) : 2 * (1 - 1) + i = i
      BY <3>2
    <3> QED BY <3>2, <3>3
  <2>3. s[1] = Version(v, Len(s[1]))
    BY <2>2, IsVersion DEF RightTo
  <2> QED BY <2>1, <2>2, <2>3
<1>5. ASSUME NEW k \in Nat, k # 0, k # 1, k <= m, Fine(k - 1) PROVE Fine(k)
  <2>1. PICK j : j = k - 1
    OBVIOUS
  <2>2. j \in 1..m /\ k \in 1..m /\ j < m /\ k = j + 1
    BY <1>1, <1>5, <2>1
  <2>3. f[k] = f[j] \o s[k]
    <3>1. f[k] = f[k - 1] \o s[k]
      BY <1>2, <1>5, <2>2 DEF IsFlat
    <3> QED BY <2>1, <3>1
  <2>4. PICK b, c : b = s[k] /\ c = 2 * j
    OBVIOUS
  <2>5. c \in Nat /\ c = 2 * (k - 1) /\ PartEnd(s, j) = c
    <3>1. Len(s[j]) = 2 /\ PartEnd(s, j) = 2 * (j - 1) + Len(s[j])
      BY <1>3, <2>2
    <3> QED BY <2>2, <2>4, <3>1
  <2>6. f[j] = Version(v, c)
    BY <1>5, <2>1, <2>5
  <2>7. b \in Seq(Units) /\ (\A i \in 1..Len(b) : b[i] = <<v, c + i>>) /\ PartEnd(s, k) = c + Len(b)
    BY <1>3, <2>2, <2>4, <2>5
  <2>8. f[j] \in Seq(Units) /\ Len(f[j]) = c /\ RightTo(f[j], c, v)
    BY <2>5, <2>6, VersionIs
  <2>9. f[j] \o b \in Seq(Units) /\ Len(f[j] \o b) = c + Len(b) /\ RightTo(f[j] \o b, c + Len(b), v)
    <3>1. PICK a : a = f[j]
      OBVIOUS
    <3>2. a \in Seq(Units) /\ RightTo(a, Len(a), v) /\ \A i \in 1..Len(b) : b[i] = <<v, Len(a) + i>>
      BY <2>7, <2>8, <3>1
    <3>3. a \o b \in Seq(Units) /\ Len(a \o b) = Len(a) + Len(b) /\ RightTo(a \o b, Len(a) + Len(b), v)
      BY ONLY <2>7, <3>2, JoinedRight
    <3> QED BY <2>8, <3>1, <3>3
  <2>10. f[j] \o b = Version(v, c + Len(b))
    BY <2>9, IsVersion
  <2> QED BY <2>3, <2>4, <2>7, <2>10
<1>6. D = {}
  <2> SUFFICES ASSUME D # {} PROVE FALSE
    OBVIOUS
  <2> HIDE DEF Fine
  <2>1. PICK i \in D : \A k \in D : i <= k
    <3>1. D \in SUBSET Nat
      OBVIOUS
    <3> HIDE DEF D
    <3> QED BY <3>1, LeastNumber
  <2>2. i \in Nat /\ i # 0 /\ i <= m /\ ~Fine(i) /\ (i # 1 => Fine(i - 1))
    <3>1. i \in Nat /\ i # 0 /\ i <= m
      BY <2>1
    <3>2. i # 1 => i - 1 \in Nat /\ i - 1 # 0 /\ ~(i <= i - 1) /\ i - 1 <= m
      BY <1>1, <3>1
    <3> QED BY <2>1, <3>2
  <2> QED BY <1>4, <1>5, <2>2
<1>7. Fine(m)
  BY <1>1, <1>6
<1> QED BY <1>2, <1>7 DEF m

---------------------------------------------------------------------------
(* What the server stores                                                  *)
LEMMA GoesGood ==
  ASSUME NEW s, NEW how, NEW at \in Nat, NEW v, NEW l \in Nat, Goes(s, how, at, v, l), how # "put"
  PROVE  Good(s, v, l)
<1>1. CASE how \in {"placed", "appended"}
  <2>1. /\ writer # "s3" /\ s \in Seq(Units) /\ at <= Len(s) /\ RightTo(s, at, v)
        /\ IF writer = "sftp" THEN Len(s) <= at + 2 ELSE Len(s) = at
    BY <1>1 DEF Goes, PipeUnits
  <2>2. CASE writer = "sftp"
    <3>1. ASSUME NEW i \in 1..Len(s), i + PipeUnits <= Len(s) PROVE s[i] = <<v, i>>
      <4>1. i \in 1..at
        BY <2>1, <2>2, <3>1 DEF PipeUnits
      <4> QED BY <2>1, <4>1 DEF RightTo
    <3> QED BY <2>1, <2>2, <3>1 DEF Good
  <2>3. CASE writer # "sftp"
    BY <2>1, <2>3 DEF Good
  <2> QED BY <2>2, <2>3
<1>2. CASE how = "parts"
  BY <1>2 DEF Goes, Good
<1> QED BY <1>1, <1>2 DEF Goes

(* units put at their places, those of `out` not: k is the last that was  *)
PlacedTo(new, units, out, k) ==
    LET at == read - Len(units)
        stored == (1..Len(units)) \ out
    IN  /\ k \in 0..Len(units) /\ stored \subseteq 1..k /\ (k = 0 \/ k \in stored)
        /\ new \in Seq(Units)
        /\ Len(new) = IF k # 0 /\ at + k > Len(part) THEN at + k ELSE Len(part)
        /\ \A i \in 1..Len(new) : new[i] = IF i - at \in stored THEN units[i - at]
                                           ELSE IF i <= Len(part) THEN part[i] ELSE Hole

LEMMA PlacedIs ==
  ASSUME part \in Seq(Units), read \in Nat, NEW units \in Seq(Units), Len(units) <= read, NEW out
  PROVE  \E k : PlacedTo(Placed(units, out), units, out, k)
<1>1. PICK at, stored, len : at = read - Len(units) /\ stored = (DOMAIN units) \ out /\ len = Len(part)
  OBVIOUS
<1>2. at \in Nat /\ len \in Nat /\ Len(units) \in Nat /\ stored \in SUBSET (1..Len(units)) /\ DOMAIN units = 1..Len(units)
  BY <1>1
<1>3. PICK k : /\ k \in 0..Len(units) /\ stored \subseteq 1..k /\ (k = 0 <=> stored = {}) /\ (k = 0 \/ k \in stored)
               /\ stored # {} => k = CHOOSE i \in stored : \A j \in stored : j <= i
  <2>1. CASE stored = {}
    <3>1. 0 \in 0..Len(units)
      BY <1>2
    <3> QED BY <2>1, <3>1
  <2>2. CASE stored # {}
    <3>1. \E i \in stored : \A j \in stored : j <= i
      BY <1>2, <2>2, GreatestNumber
    <3>2. PICK i : i = CHOOSE h \in stored : \A j \in stored : j <= h
      OBVIOUS
    <3>3. i \in stored /\ \A j \in stored : j <= i
      BY <3>1, <3>2
    <3>4. i \in 1..Len(units)
      BY <1>2, <3>3
    <3>5. stored \subseteq 1..i
      BY <1>2, <3>3, <3>4
    <3>6. i \in 0..Len(units) /\ i # 0
      BY <1>2, <3>4
    <3> QED BY <2>2, <3>2, <3>3, <3>5, <3>6
  <2> QED BY <2>1, <2>2
<1>4. PICK length : length = IF k # 0 /\ at + k > len THEN at + k ELSE len
  OBVIOUS
<1>5. length \in Nat
  BY <1>2, <1>3, <1>4
<1>6. PICK new : new = Placed(units, out)
  OBVIOUS
<1>7. new = [p \in 1..length |-> IF p - at \in stored THEN units[p - at] ELSE IF p <= len THEN part[p] ELSE Hole]
  <2> DEFINE last == IF stored = {} THEN 0 ELSE at + CHOOSE i \in stored : \A j \in stored : j <= i
  <2>2. length = IF last > len THEN last ELSE len
    <3>1. CASE stored = {}
      BY <1>2, <1>3, <1>4, <3>1
    <3>2. CASE stored # {}
      BY <1>2, <1>3, <1>4, <3>2
    <3> QED BY <3>1, <3>2
  <2> QED BY <1>1, <1>6, <2>2 DEF Placed
<1>8. ASSUME NEW p \in 1..length
      PROVE  (IF p - at \in stored THEN units[p - at] ELSE IF p <= len THEN part[p] ELSE Hole) \in Units
  <2>1. Hole \in Units
    BY DEF Hole, Units
  <2>2. CASE p - at \in stored
    <3>1. p - at \in 1..Len(units)
      BY <1>2, <2>2
    <3> QED BY <2>2, <3>1
  <2>3. CASE p - at \notin stored
    BY <1>1, <1>2, <1>5, <2>1, <2>3
  <2> QED BY <2>2, <2>3
<1>9. new \in Seq(Units) /\ Len(new) = length
  BY <1>5, <1>7, <1>8
<1> QED BY <1>1, <1>2, <1>3, <1>4, <1>6, <1>7, <1>9 DEF PlacedTo

(* what every step may use of an attempt                                   *)
Facts ==
    /\ CopySound /\ CopyTypeOK /\ InCopy

LEMMA CopyFacts ==
  ASSUME Facts
  PROVE  /\ source.version \in Nat /\ source.length \in Nat /\ Len(pipe) \in Nat /\ read - Len(pipe) \in Nat
         /\ writer # "s3" => part \in Seq(Units)
         /\ read \in Nat /\ pipe \in Seq(Units) /\ Len(pipe) <= read /\ read <= source.length
         /\ \A i \in 1..Len(pipe) : pipe[i] = <<source.version, read - Len(pipe) + i>>
         /\ Goes(part, resumed, read - Len(pipe), source.version, source.length)
<1>1. source.version \in Nat /\ source.length \in Nat /\ (writer # "s3" => part \in Seq(Units))
  <2>1. source.version \in 1..MaxVersions /\ source.length \in Lengths /\ (writer # "s3" => part \in Seq(Units))
    BY DEF Facts, CopyTypeOK
  <2>2. Lengths \subseteq Nat /\ MaxVersions \in Nat
    BY DEF Facts, CopySound
  <2>3. source.length \in Nat
    BY <2>1, <2>2
  <2>4. source.version \in Nat
    BY <2>1, <2>2
  <2> QED BY <2>1, <2>3, <2>4
<1>2. pipe \in Seq(Units) /\ read \in Nat /\ Len(pipe) <= read /\ read <= source.length
  BY DEF Facts, InCopy
<1>3. Len(pipe) \in Nat /\ read - Len(pipe) \in Nat
  BY <1>2
<1> QED BY <1>1, <1>2, <1>3 DEF Facts, InCopy

(* the first n units at their places                                       *)
LEMMA PlacedGoes ==
  ASSUME Facts, resumed = "placed", NEW n \in 0..Len(pipe)
  PROVE  Goes(Placed(pipe, (n + 1)..Len(pipe)), "placed", read - Len(pipe) + n, source.version, source.length)
<1>1. PICK v, l, at, m : v = source.version /\ l = source.length /\ at = read - Len(pipe) /\ m = Len(pipe)
  OBVIOUS
<1>2. /\ v \in Nat /\ l \in Nat /\ at \in Nat /\ m \in Nat /\ read = at + m /\ read <= l
      /\ pipe \in Seq(Units) /\ Len(pipe) <= read /\ n \in 0..m
      /\ \A i \in 1..m : pipe[i] = <<v, at + i>>
  BY <1>1, CopyFacts
<1>3. /\ writer # "s3" /\ part \in Seq(Units) /\ at <= Len(part) /\ RightTo(part, at, v)
      /\ IF writer = "sftp" THEN Len(part) <= at + 2 /\ Len(part) <= l ELSE Len(part) = at
  <2>1. Goes(part, "placed", at, v, l)
    BY <1>1, CopyFacts
  <2> QED BY <2>1 DEF Goes, PipeUnits
<1>4. PICK new : new = Placed(pipe, (n + 1)..Len(pipe))
  OBVIOUS
<1>5. PICK k : PlacedTo(new, pipe, (n + 1)..Len(pipe), k)
  BY <1>2, <1>3, <1>4, PlacedIs
<1>6. (1..m) \ ((n + 1)..m) = 1..n
  BY <1>2
<1>7. /\ k \in 0..m /\ 1..n \subseteq 1..k /\ (k = 0 \/ k \in 1..n) /\ new \in Seq(Units)
      /\ Len(new) = IF k # 0 /\ at + k > Len(part) THEN at + k ELSE Len(part)
      /\ \A i \in 1..Len(new) : new[i] = IF i - at \in 1..n THEN pipe[i - at]
                                         ELSE IF i <= Len(part) THEN part[i] ELSE Hole
  BY <1>1, <1>5, <1>6 DEF PlacedTo
<1>8. k = n
  <2>1. ASSUME n # 0 PROVE n \in 1..k
    <3>1. n \in 1..n
      BY <1>2, <2>1
    <3> QED BY <1>7, <3>1
  <2> QED BY <1>2, <1>7, <2>1
<1>9. /\ Len(new) \in Nat /\ Len(part) \in Nat /\ at + n <= Len(new)
      /\ IF writer = "sftp" THEN Len(new) <= at + n + 2 /\ Len(new) <= l ELSE Len(new) = at + n
  <2>1. Len(new) \in Nat /\ Len(part) \in Nat
    BY <1>3, <1>7
  <2>2. Len(new) = IF n # 0 /\ at + n > Len(part) THEN at + n ELSE Len(part)
    BY <1>7, <1>8
  <2> QED BY <1>2, <1>3, <2>1, <2>2
<1>10. RightTo(new, at + n, v)
  <2>1. ASSUME NEW i \in 1..(at + n) PROVE new[i] = <<v, i>>
    <3>1. i \in 1..Len(new) /\ i \in Nat
      BY <1>2, <1>9
    <3>2. CASE i <= at
      <4>1. i - at \notin 1..n /\ i \in 1..at /\ i <= Len(part)
        BY <1>2, <1>3, <3>1, <3>2
      <4>2. new[i] = part[i]
        BY <1>7, <3>1, <4>1
      <4> QED BY <1>3, <4>1, <4>2 DEF RightTo
    <3>3. CASE ~(i <= at)
      <4>1. PICK d : d = i - at
        OBVIOUS
      <4>2. d \in 1..n /\ d \in 1..m /\ i = at + d
        BY <1>2, <3>1, <3>3, <4>1
      <4>3. new[i] = pipe[d]
        BY <1>7, <3>1, <4>1, <4>2
      <4> QED BY <1>2, <4>2, <4>3
    <3> QED BY <3>2, <3>3
  <2> QED BY <2>1 DEF RightTo
<1>11. Goes(new, "placed", at + n, v, l)
  <2>1. PipeUnits = 2
    BY DEF PipeUnits
  <2> QED BY <1>3, <1>7, <1>9, <1>10, <2>1 DEF Goes
<1> QED BY <1>1, <1>4, <1>11

(* SFTP: any of the units                                                  *)
LEMMA PlacedGood ==
  ASSUME Facts, writer = "sftp", NEW out
  PROVE  Good(Placed(pipe, out), source.version, source.length)
<1>1. PICK v, l, at, m : v = source.version /\ l = source.length /\ at = read - Len(pipe) /\ m = Len(pipe)
  OBVIOUS
<1>2. /\ at \in Nat /\ m \in Nat /\ pipe \in Seq(Units) /\ Len(pipe) <= read /\ read \in Nat /\ part \in Seq(Units)
      /\ Goes(part, resumed, at, v, l)
  BY <1>1, CopyFacts
<1>3. /\ resumed = "placed" /\ at <= Len(part) /\ RightTo(part, at, v) /\ Len(part) <= at + 2
  BY <1>2 DEF Goes, PipeUnits
<1>4. m <= 2
  BY <1>1, <1>3 DEF Facts, InCopy, PipeUnits
<1>5. PICK new : new = Placed(pipe, out)
  OBVIOUS
<1>6. PICK k : PlacedTo(new, pipe, out, k)
  BY <1>2, <1>5, PlacedIs
<1>7. PICK stored : stored = (1..Len(pipe)) \ out
  OBVIOUS
<1>8. /\ k \in 0..m /\ stored \subseteq 1..m /\ new \in Seq(Units)
      /\ Len(new) = IF k # 0 /\ at + k > Len(part) THEN at + k ELSE Len(part)
      /\ \A i \in 1..Len(new) : new[i] = IF i - at \in stored THEN pipe[i - at]
                                         ELSE IF i <= Len(part) THEN part[i] ELSE Hole
  BY <1>1, <1>6, <1>7 DEF PlacedTo
<1>9. Len(new) <= at + 2 /\ Len(part) \in Nat
  BY <1>2, <1>3, <1>4, <1>8
<1>10. ASSUME NEW i \in 1..Len(new), i + PipeUnits <= Len(new) PROVE new[i] = <<v, i>>
  <2>1. i \in 1..at /\ i - at \notin 1..m /\ i <= Len(part)
    BY <1>2, <1>3, <1>8, <1>9, <1>10 DEF PipeUnits
  <2>2. new[i] = part[i]
    BY <1>8, <2>1
  <2> QED BY <1>3, <2>1, <2>2 DEF RightTo
<1> QED BY <1>1, <1>5, <1>8, <1>10 DEF Good

(* after what is there                                                     *)
LEMMA AppendedGoes ==
  ASSUME Facts, resumed = "appended", NEW n \in 0..Len(pipe)
  PROVE  Goes(part \o Cut(pipe, n), "appended", read - Len(pipe) + n, source.version, source.length)
<1>1. PICK v, l, at, m : v = source.version /\ l = source.length /\ at = read - Len(pipe) /\ m = Len(pipe)
  OBVIOUS
<1>2. /\ v \in Nat /\ at \in Nat /\ m \in Nat /\ pipe \in Seq(Units) /\ n \in 0..m
      /\ \A i \in 1..m : pipe[i] = <<v, at + i>>
  BY <1>1, CopyFacts
<1>3. writer \notin {"s3", "sftp"} /\ part \in Seq(Units) /\ Len(part) = at /\ RightTo(part, at, v)
  <2>1. Goes(part, "appended", at, v, l)
    BY <1>1, CopyFacts
  <2> QED BY <2>1 DEF Goes
<1>4. PICK b : b = Cut(pipe, n)
  OBVIOUS
<1>5. b \in Seq(Units) /\ Len(b) = n /\ \A i \in 1..n : b[i] = pipe[i]
  BY <1>1, <1>2, <1>4, CutIs
<1>6. \A i \in 1..Len(b) : b[i] = <<v, Len(part) + i>>
  <2>1. \A i \in 1..n : i \in 1..m
    BY <1>2
  <2>2. \A i \in 1..n : b[i] = <<v, at + i>>
    BY ONLY <1>2, <1>5, <2>1, Zenon
  <2>3. Len(b) = n /\ Len(part) = at
    BY <1>3, <1>5
  <2> QED BY ONLY <2>2, <2>3, Zenon
<1>7. part \o b \in Seq(Units) /\ Len(part \o b) = at + n /\ RightTo(part \o b, at + n, v)
  <2>1. RightTo(part, Len(part), v)
    BY <1>3
  <2>2. part \o b \in Seq(Units) /\ Len(part \o b) = Len(part) + Len(b) /\ RightTo(part \o b, Len(part) + Len(b), v)
    BY ONLY <1>3, <1>5, <1>6, <2>1, JoinedRight
  <2> QED BY <1>3, <1>5, <2>2
<1>8. Goes(part \o b, "appended", at + n, v, l)
  BY <1>2, <1>3, <1>7 DEF Goes
<1> QED BY <1>1, <1>4, <1>8

(* S3: one more part                                                       *)
LEMMA PartPutGoes ==
  ASSUME Facts, resumed = "parts", pipe # <<>>
  PROVE  /\ GoodParts(PartPut(pipe), source.version, source.length) /\ PartPut(pipe) # <<>>
         /\ PartEnd(PartPut(pipe), Len(PartPut(pipe))) = read
         /\ Len(pipe) = PartUnits => Goes(PartPut(pipe), "parts", read, source.version, source.length)
<1>1. PICK v, l, m : v = source.version /\ l = source.length /\ m = Len(pipe)
  OBVIOUS
<1>2. /\ v \in Nat /\ l \in Nat /\ m \in Nat /\ pipe \in Seq(Units) /\ read \in Nat /\ read <= l /\ m <= read
      /\ \A i \in 1..m : pipe[i] = <<v, read - m + i>>
      /\ Goes(part, "parts", read - m, v, l)
  BY <1>1, CopyFacts
<1>3. m \in 1..2
  <2>1. m # 0
    BY <1>1, <1>2
  <2>2. m <= 2
    BY <1>1 DEF Facts, InCopy, PipeUnits
  <2> QED BY <1>2, <2>1, <2>2
<1>4. writer = "s3" /\ GoodParts(part, v, l)
  BY <1>2 DEF Goes
<1>5. PICK k \in 0..Len(part) : read - m = 2 * k /\ Len(part) <= k + 1 /\ \A n \in 1..k : Len(part[n]) = 2
  BY <1>2 DEF Goes, PartUnits
<1>6. part \in Seq(Seq(Units)) /\ Len(part) \in Nat
  BY <1>4 DEF GoodParts
<1>7. k \in Nat /\ read = 2 * k + m
  BY <1>2, <1>5, <1>6
<1>8. PICK new : new = PartPut(pipe)
  OBVIOUS
<1>9. new = [n \in 1..(k + 1) |-> IF n = k + 1 THEN pipe ELSE part[n]]
  <2>1. PICK number : number = (read - Len(pipe)) \div PartUnits + 1
    OBVIOUS
  <2>2. number = k + 1
    BY <1>1, <1>5, <1>7, <2>1 DEF PartUnits
  <2>3. (IF number > Len(part) THEN number ELSE Len(part)) = k + 1
    BY <1>5, <1>6, <1>7, <2>2
  <2>4. new = [n \in 1..(IF number > Len(part) THEN number ELSE Len(part)) |-> IF n = number THEN pipe ELSE part[n]]
    BY <1>8, <2>1 DEF PartPut
  <2> QED BY <2>2, <2>3, <2>4
<1>10. ASSUME NEW n \in 1..(k + 1)
       PROVE  /\ new[n] \in Seq(Units) /\ Len(new[n]) \in 1..2 /\ (n < k + 1 => Len(new[n]) = 2)
              /\ \A i \in 1..Len(new[n]) : new[n][i] = <<v, 2 * (n - 1) + i>>
              /\ 2 * (n - 1) + Len(new[n]) <= l
  <2>1. CASE n = k + 1
    <3>1. new[n] = pipe
      BY <1>9, <2>1
    <3>2. 2 * (n - 1) = read - m
      BY <1>7, <1>2, <2>1
    <3> QED BY <1>1, <1>2, <1>3, <1>7, <2>1, <3>1, <3>2
  <2>2. CASE n # k + 1
    <3>1. n \in 1..Len(part) /\ n \in 1..k
      BY <1>5, <1>6, <1>7, <2>2
    <3>2. new[n] = part[n]
      BY <1>9, <2>2
    <3>3. PartOK(part, v, l, n)
      BY <1>4, <3>1, PartIs
    <3>4. Len(part[n]) = 2
      BY <1>5, <3>1
    <3> QED BY <3>2, <3>3, <3>4 DEF PartOK
  <2> QED BY <2>1, <2>2
<1>11. new \in Seq(Seq(Units)) /\ Len(new) = k + 1 /\ new # <<>>
  <2>1. new \in [1..(k + 1) -> Seq(Units)] /\ k + 1 \in Nat
    <3>1. \A n \in 1..(k + 1) : new[n] \in Seq(Units)
      BY <1>10
    <3>2. new = [n \in 1..(k + 1) |-> new[n]]
      BY <1>9
    <3> QED BY <1>7, <3>1, <3>2
  <2>2. new \in Seq(Seq(Units)) /\ Len(new) = k + 1
    BY <2>1
  <2> QED BY <1>7, <2>2
<1>12. GoodParts(new, v, l)
  BY <1>10, <1>11 DEF GoodParts, PartUnits
<1>13. PartEnd(new, Len(new)) = read
  <2>1. new[k + 1] = pipe
    BY <1>7, <1>9
  <2> QED BY <1>1, <1>7, <1>11, <2>1 DEF PartEnd, PartUnits
<1>14. ASSUME m = 2 PROVE Goes(new, "parts", read, v, l)
  <2>1. \A n \in 1..(k + 1) : Len(new[n]) = 2
    <3>1. ASSUME NEW n \in 1..(k + 1) PROVE Len(new[n]) = 2
      <4>1. CASE n = k + 1
        BY <1>1, <1>9, <1>14, <4>1
      <4>2. CASE n # k + 1
        <5>1. n < k + 1
          BY <1>7, <4>2
        <5> QED BY <1>10, <5>1
      <4> QED BY <4>1, <4>2
    <3> QED BY <3>1
  <2>2. k + 1 \in 0..Len(new) /\ read = 2 * (k + 1) /\ Len(new) <= (k + 1) + 1
    BY <1>7, <1>11, <1>14
  <2>3. \E j \in 0..Len(new) : read = PartUnits * j /\ Len(new) <= j + 1 /\ \A n \in 1..j : Len(new[n]) = PartUnits
    BY <2>1, <2>2 DEF PartUnits
  <2> QED BY <1>4, <1>12, <2>3 DEF Goes
<1> QED BY <1>1, <1>8, <1>11, <1>12, <1>13, <1>14 DEF PartUnits

(* the units are stored one after the other, but by SFTP and by parts      *)
LEMMA StoredGoes ==
  ASSUME Facts, resumed \in {"placed", "appended"}, NEW n \in 0..Len(pipe)
  PROVE  Goes(Stored(n), resumed, read - Len(pipe) + n, source.version, source.length)
<1>1. CASE resumed = "placed"
  <2>1. Stored(n) = Placed(pipe, (n + 1)..Len(pipe))
    BY <1>1 DEF Stored
  <2> QED BY <1>1, <2>1, PlacedGoes
<1>2. CASE resumed = "appended"
  <2>1. Stored(n) = part \o Cut(pipe, n)
    BY <1>2 DEF Stored
  <2> QED BY <1>2, <2>1, AppendedGoes
<1> QED BY <1>1, <1>2

(* all of what is under way is stored                                      *)
LEMMA StoreGoes ==
  ASSUME Facts, resumed # "put", Len(pipe) = PipeUnits
  PROVE  Goes(Stored(Len(pipe)), resumed, read, source.version, source.length)
<1>1. resumed \in {"placed", "appended", "parts"} /\ Len(pipe) \in Nat /\ read \in Nat
  BY CopyFacts DEF Goes
<1>2. CASE resumed = "parts"
  <2>1. pipe # <<>> /\ Len(pipe) = PartUnits
    BY CopyFacts DEF PipeUnits, PartUnits
  <2>2. Stored(Len(pipe)) = PartPut(pipe)
    BY <1>2 DEF Stored
  <2> QED BY <1>2, <2>1, <2>2, PartPutGoes
<1>3. CASE resumed \in {"placed", "appended"}
  <2>1. Goes(Stored(Len(pipe)), resumed, read - Len(pipe) + Len(pipe), source.version, source.length)
    BY <1>1, <1>3, StoredGoes
  <2>2. read - Len(pipe) + Len(pipe) = read
    BY <1>1
  <2> QED BY <2>1, <2>2
<1> QED BY <1>1, <1>2, <1>3

(* whatever the server has stored of an attempt that failed                *)
LEMMA LeftGood ==
  ASSUME Facts, NEW new \in Left
  PROVE  Good(new, source.version, source.length) \/ (new = part /\ LeftFine)
<1>1. CASE writer = "sftp"
  <2>1. PICK out \in SUBSET DOMAIN pipe : new = Placed(pipe, out)
    BY <1>1 DEF Left
  <2>2. Good(Placed(pipe, out), source.version, source.length)
    BY <1>1, PlacedGood
  <2> QED BY <2>1, <2>2
<1>2. CASE writer # "sftp"
  <2>1. PICK n \in 0..Len(pipe) : new = Stored(n)
    BY <1>2 DEF Left
  <2>2. resumed \in {"placed", "appended", "parts", "put"} /\ Len(pipe) \in Nat /\ read - Len(pipe) \in Nat /\ source.length \in Nat
    BY CopyFacts DEF Goes
  <2>3. CASE resumed \in {"placed", "appended"}
    <3>1. PICK at : at = read - Len(pipe) + n
      OBVIOUS
    <3>2. at \in Nat /\ Goes(new, resumed, at, source.version, source.length)
      BY <2>1, <2>2, <2>3, <3>1, StoredGoes
    <3>3. source.length \in Nat /\ resumed # "put"
      BY <2>2, <2>3
    <3>4. Good(new, source.version, source.length)
      BY <3>2, <3>3, GoesGood
    <3> QED BY <3>4
  <2>4. CASE resumed = "put"
    <3>1. writer = "webdav" /\ read - Len(pipe) = 0 /\ LeftFine
      BY <2>4, CopyFacts DEF Goes, Facts, InCopy
    <3>2. pipe \in Seq(Units) /\ \A i \in 1..Len(pipe) : pipe[i] = <<source.version, i>>
      <4>1. pipe \in Seq(Units) /\ \A i \in 1..Len(pipe) : pipe[i] = <<source.version, read - Len(pipe) + i>>
        BY CopyFacts
      <4> QED BY <2>2, <3>1, <4>1
    <3>3. Good(pipe, source.version, source.length)
      BY <3>1, <3>2 DEF Good, RightTo
    <3> QED BY <2>1, <2>4, <3>1, <3>3 DEF Stored
  <2>5. CASE resumed = "parts"
    <3>1. writer = "s3" /\ GoodParts(part, source.version, source.length)
      BY <2>5, CopyFacts DEF Goes
    <3>2. Good(part, source.version, source.length) /\ LeftFine
      BY <3>1 DEF Good, LeftFine
    <3>3. CASE new = part
      BY <3>2, <3>3
    <3>4. CASE new # part
      <4>1. new = PartPut(pipe) /\ pipe # <<>>
        BY <2>1, <2>5, <3>4 DEF Stored, PartPut
      <4>2. GoodParts(PartPut(pipe), source.version, source.length)
        BY <2>5, <4>1, PartPutGoes
      <4> QED BY <3>1, <4>1, <4>2 DEF Good
    <3> QED BY <3>3, <3>4
  <2> QED BY <2>2, <2>3, <2>4, <2>5
<1> QED BY <1>1, <1>2

---------------------------------------------------------------------------
(* Where an attempt goes on                                                *)
LEMMA ContiguousIs ==
  ASSUME NEW v, NEW l, GoodParts(part, v, l)
  PROVE  /\ Contiguous \in 0..Len(part) /\ Len(part) \in Nat /\ Len(part) <= Contiguous + 1
         /\ \A n \in 1..Contiguous : Len(part[n]) = PartUnits
<1>1. /\ Len(part) \in Nat /\ DOMAIN part = 1..Len(part)
      /\ \A n \in 1..Len(part) : n < Len(part) => Len(part[n]) = PartUnits
  BY DEF GoodParts
<1>2. CASE \E i \in DOMAIN part : Len(part[i]) # PartUnits
  <2> DEFINE P(n) == (\A i \in 1..n : Len(part[i]) = PartUnits) /\ Len(part[n + 1]) # PartUnits
  <2>1. PICK j \in 1..Len(part) : Len(part[j]) # PartUnits
    BY <1>1, <1>2
  <2>2. j = Len(part)
    <3>1. ~(j < Len(part))
      BY <1>1, <2>1
    <3>2. j \in 1..Len(part) /\ Len(part) \in Nat
      BY <1>1
    <3> QED BY <3>1, <3>2
  <2>3. PICK e : e = j - 1
    OBVIOUS
  <2>4. e \in 0..Len(part) /\ e + 1 = j /\ \A i \in 1..e : i \in 1..Len(part) /\ i < Len(part)
    BY <1>1, <2>1, <2>2, <2>3
  <2>5. P(e)
    BY <1>1, <2>1, <2>4
  <2>6. Contiguous = CHOOSE n \in 0..Len(part) : P(n)
    BY <1>2 DEF Contiguous
  <2> HIDE DEF P
  <2>7. Contiguous \in 0..Len(part) /\ P(Contiguous)
    BY <2>4, <2>5, <2>6
  <2> USE DEF P
  <2>8. PICK c : c = Contiguous
    OBVIOUS
  <2>9. c \in 0..Len(part) /\ (\A i \in 1..c : Len(part[i]) = PartUnits) /\ Len(part[c + 1]) # PartUnits
    BY <2>7, <2>8
  <2>10. Len(part) <= c + 1
    <3>1. CASE c + 1 < Len(part)
      <4>1. c + 1 \in 1..Len(part)
        BY <1>1, <2>9, <3>1
      <4> QED BY <1>1, <2>9, <3>1, <4>1
    <3>2. CASE ~(c + 1 < Len(part))
      BY <1>1, <2>9, <3>2
    <3> QED BY <3>1, <3>2
  <2> QED BY <1>1, <2>8, <2>9, <2>10
<1>3. CASE ~(\E i \in DOMAIN part : Len(part[i]) # PartUnits)
  <2>1. Contiguous = Len(part)
    BY <1>3 DEF Contiguous
  <2>2. \A i \in 1..Len(part) : Len(part[i]) = PartUnits
    BY <1>1, <1>3
  <2> QED BY <1>1, <2>1, <2>2
<1> QED BY <1>2, <1>3

(* a writer of any kind but S3's                                           *)
LEMMA OpensPlain ==
  ASSUME CopySound, CopyTypeOK, writer # "s3", NEW from \in {0, ResumeOffset}, NEW o \in Opens(from)
  PROVE  /\ from \in 0..Len(part) /\ o.part \in Seq(Units) /\ o.offset \in {0, from}
         /\ o.how \in {"placed", "appended", "put"}
         /\ o.part = <<>> => o.offset = 0
         /\ \/ o.part = <<>> /\ o.offset = 0 /\ o.how = "placed"
            \/ o.part = part /\ o.offset = 0 /\ o.how = "put" /\ writer = "webdav"
            \/ from > 0 /\ o.offset = from /\ o.part = Cut(part, from) /\ o.how = "placed"
            \/ from > 0 /\ o.offset = from /\ o.part = part /\ o.how = "placed" /\ writer \in {"sftp", "ftp", "webdav"}
            \/ from > 0 /\ o.offset = from /\ o.part = part /\ o.how = "appended" /\ writer \in {"ftp", "scp"}
<1>1. part \in Seq(Units) /\ Len(part) \in Nat
  BY DEF CopyTypeOK
<1>2. from \in 0..Len(part)
  <2>1. PartLen = Len(part) /\ ResumeBackoff \in {0, 2}
    BY DEF PartLen, ResumeBackoff, PipeUnits
  <2>2. ResumeOffset = 0 \/ (ResumeOffset = Len(part) - ResumeBackoff /\ Len(part) > ResumeBackoff)
    BY <2>1 DEF ResumeOffset
  <2> QED BY <1>1, <2>1, <2>2
<1>3. \/ o = Opened(<<>>, 0, "placed")
      \/ o = Opened(part, 0, "put") /\ writer = "webdav"
      \/ o = Opened(Cut(part, from), from, "placed") /\ (from > 0 \/ writer = "local")
      \/ from > 0 /\ o = Opened(part, from, "placed") /\ writer \in {"sftp", "ftp", "webdav"}
      \/ from > 0 /\ o = Opened(part, from, "appended") /\ writer \in {"ftp", "scp"}
  <2>1. CASE writer = "local"
    BY <2>1 DEF Opens, LocalOpens
  <2>2. CASE writer = "sftp"
    BY <2>2 DEF Opens, SftpOpens
  <2>3. CASE writer = "ftp"
    BY <2>3 DEF Opens, FtpOpens
  <2>4. CASE writer = "scp"
    BY <2>4 DEF Opens, ScpOpens
  <2>5. CASE writer = "webdav"
    BY <2>5 DEF Opens, DavOpens
  <2> QED BY <2>1, <2>2, <2>3, <2>4, <2>5 DEF CopyTypeOK, Kinds
<1>4. Cut(part, from) \in Seq(Units) /\ Len(Cut(part, from)) = from
  BY <1>1, <1>2, CutIs
<1>5. Cut(part, 0) = <<>>
  <2>1. 0 \in 0..Len(part)
    BY <1>1
  <2>2. Cut(part, 0) \in Seq(Units) /\ Len(Cut(part, 0)) = 0
    BY <1>1, <2>1, CutIs
  <2> QED BY <2>2
<1>6. <<>> \in Seq(Units) /\ (from > 0 => part # <<>> /\ Cut(part, from) # <<>>)
  BY <1>1, <1>2, <1>4
<1>7. from \in Nat
  BY <1>1, <1>2
<1>8. CASE o = Opened(<<>>, 0, "placed")
  BY <1>2, <1>6, <1>8 DEF Opened
<1>9. CASE o = Opened(part, 0, "put") /\ writer = "webdav"
  BY <1>1, <1>2, <1>9 DEF Opened
<1>10. CASE o = Opened(Cut(part, from), from, "placed") /\ (from > 0 \/ writer = "local")
  <2>1. CASE from = 0
    BY <1>2, <1>5, <1>6, <1>10, <2>1 DEF Opened
  <2>2. CASE from > 0
    BY <1>2, <1>4, <1>6, <1>10, <2>2 DEF Opened
  <2> QED BY <1>7, <2>1, <2>2
<1>11. CASE from > 0 /\ o = Opened(part, from, "placed") /\ writer \in {"sftp", "ftp", "webdav"}
  BY <1>1, <1>2, <1>6, <1>11 DEF Opened
<1>12. CASE from > 0 /\ o = Opened(part, from, "appended") /\ writer \in {"ftp", "scp"}
  BY <1>1, <1>2, <1>6, <1>12 DEF Opened
<1> QED BY <1>3, <1>8, <1>9, <1>10, <1>11, <1>12

(* open_write: the writer stands where what is stored is right             *)
LEMMA OpensGood ==
  ASSUME CopySound, CopyTypeOK, NEW from \in {0, ResumeOffset}, NEW o \in Opens(from),
         o.part = <<>> \/ LeftFine
  PROVE  /\ o.offset \in Nat /\ o.offset <= source.length
         /\ Goes(o.part, o.how, o.offset, source.version, source.length)
         /\ o.how = "put" => o.offset = 0 /\ o.part = part
<1>1. PICK v, l : v = source.version /\ l = source.length
  OBVIOUS
<1>2. v \in Nat /\ l \in Nat
  <2>1. source.version \in 1..MaxVersions /\ source.length \in Lengths
    BY DEF CopyTypeOK
  <2>2. Lengths \subseteq Nat /\ MaxVersions \in Nat
    BY DEF CopySound
  <2>3. l \in Nat
    BY <1>1, <2>1, <2>2
  <2>4. v \in Nat
    BY <1>1, <2>1, <2>2
  <2> QED BY <2>3, <2>4
<1>3. ASSUME from # 0 PROVE ~(PartLen > l) /\ ~(source.modified > partTime + Tolerance) /\ from = PartLen - ResumeBackoff
  <2>1. from = ResumeOffset
    BY <1>3
  <2> QED BY <1>1, <1>3, <2>1 DEF ResumeOffset
<1>4. CASE writer # "s3"
  <2>1. /\ from \in 0..Len(part) /\ o.part \in Seq(Units)
        /\ \/ o.part = <<>> /\ o.offset = 0 /\ o.how = "placed"
           \/ o.part = part /\ o.offset = 0 /\ o.how = "put" /\ writer = "webdav"
           \/ from > 0 /\ o.offset = from /\ o.part = Cut(part, from) /\ o.how = "placed"
           \/ from > 0 /\ o.offset = from /\ o.part = part /\ o.how = "placed" /\ writer \in {"sftp", "ftp", "webdav"}
           \/ from > 0 /\ o.offset = from /\ o.part = part /\ o.how = "appended" /\ writer \in {"ftp", "scp"}
    BY <1>4, OpensPlain
  <2>2. part \in Seq(Units) /\ Len(part) \in Nat
    BY <1>4 DEF CopyTypeOK
  <2>3. CASE o.part = <<>> /\ o.offset = 0 /\ o.how = "placed"
    <3>1. Len(o.part) = 0 /\ RightTo(o.part, 0, v)
      BY <2>3 DEF RightTo
    <3>2. Goes(o.part, "placed", 0, v, l)
      BY <1>2, <1>4, <2>1, <3>1 DEF Goes, PipeUnits
    <3> QED BY <1>1, <1>2, <2>3, <3>2
  <2>4. CASE o.part = part /\ o.offset = 0 /\ o.how = "put" /\ writer = "webdav"
    <3>1. Goes(o.part, "put", 0, v, l)
      BY <2>4 DEF Goes
    <3> QED BY <1>1, <1>2, <2>4, <3>1
  <2>5. CASE /\ from > 0 /\ o.offset = from /\ o.part \in {part, Cut(part, from)} /\ o.how \in {"placed", "appended"}
             /\ o.part = Cut(part, from) \/ writer \in {"sftp", "ftp", "webdav", "scp"}
             /\ o.how = "appended" => writer # "sftp"
    <3>1. from # 0 /\ from \in Nat
      BY <2>1, <2>2, <2>5
    <3>2. ~(Len(part) > l) /\ ~(source.modified > partTime + Tolerance) /\ from = Len(part) - ResumeBackoff
      BY <1>3, <1>4, <3>1 DEF PartLen
    <3>3. Len(Cut(part, from)) = from /\ \A i \in 1..from : Cut(part, from)[i] = part[i]
      BY <2>1, <2>2, CutIs
    <3>4. o.part # <<>>
      <4>1. CASE o.part = part
        BY <2>1, <2>2, <3>1, <4>1
      <4>2. CASE o.part = Cut(part, from)
        BY <3>1, <3>3, <4>2
      <4> QED BY <2>5, <4>1, <4>2
    <3>5. Good(part, v, l)
      BY <1>1, <3>2, <3>4 DEF LeftFine
    <3>6. writer = "sftp" => ResumeBackoff = 2
      BY DEF ResumeBackoff, PipeUnits
    <3>7. writer \in {"ftp", "webdav", "scp"} => ResumeBackoff = 0
      BY DEF ResumeBackoff, CopyTypeOK
    <3>8. ASSUME NEW i \in 1..from PROVE part[i] = <<v, i>>
      <4>1. CASE writer = "sftp"
        <5>1. i \in 1..Len(part) /\ i + 2 <= Len(part)
          BY <2>2, <3>1, <3>2, <3>6, <4>1
        <5> QED BY <1>4, <3>5, <4>1, <5>1 DEF Good, PipeUnits
      <4>2. CASE writer # "sftp"
        <5>1. i \in 1..Len(part)
          BY <2>1, <2>2
        <5> QED BY <1>4, <3>5, <4>2, <5>1 DEF Good, RightTo
      <4> QED BY <4>1, <4>2
    <3>9. RightTo(o.part, from, v)
      BY <2>5, <3>3, <3>8 DEF RightTo
    <3>10. /\ from <= Len(o.part) /\ Len(o.part) \in Nat
           /\ IF writer = "sftp" THEN Len(o.part) <= from + 2 /\ Len(o.part) <= l ELSE Len(o.part) = from
      <4>1. CASE o.part = Cut(part, from)
        BY <1>2, <2>1, <2>2, <3>1, <3>2, <3>3, <4>1
      <4>2. CASE o.part = part /\ writer \in {"sftp", "ftp", "webdav", "scp"}
        BY <1>2, <2>1, <2>2, <3>1, <3>2, <3>6, <3>7, <4>2
      <4> QED BY <2>5, <4>1, <4>2
    <3>11. Goes(o.part, o.how, from, v, l)
      BY <1>4, <2>1, <2>5, <3>9, <3>10 DEF Goes, PipeUnits
    <3>12. from <= l
      BY <1>2, <2>1, <2>2, <3>2
    <3> QED BY <1>1, <2>5, <3>1, <3>11, <3>12
  <2> QED BY <2>1, <2>3, <2>4, <2>5
<1>5. CASE writer = "s3"
  <2>1. \/ o = Opened(<<>>, 0, "parts")
        \/ from > 0 /\ from = PartLen /\ o = Opened(part, from, "parts")
    BY <1>5 DEF Opens, S3Opens
  <2>2. CASE o = Opened(<<>>, 0, "parts")
    <3>1. o.part = <<>> /\ o.offset = 0 /\ o.how = "parts"
      BY <2>2 DEF Opened
    <3>2. <<>> \in Seq(Seq(Units)) /\ Len(<<>>) = 0
      OBVIOUS
    <3>3. GoodParts(<<>>, v, l)
      BY <3>2 DEF GoodParts
    <3>4. \E k \in 0..Len(<<>>) : 0 = PartUnits * k /\ Len(<<>>) <= k + 1 /\ \A n \in 1..k : Len(<<>>[n]) = PartUnits
      <4>1. 0 \in 0..Len(<<>>) /\ 0 = PartUnits * 0 /\ Len(<<>>) <= 0 + 1 /\ \A n \in 1..0 : Len(<<>>[n]) = PartUnits
        BY <3>2 DEF PartUnits
      <4> QED BY <4>1
    <3>5. Goes(<<>>, "parts", 0, v, l)
      BY <1>5, <3>3, <3>4 DEF Goes
    <3> QED BY <1>1, <1>2, <3>1, <3>5
  <2>3. CASE from > 0 /\ from = PartLen /\ o = Opened(part, from, "parts")
    <3>1. o.part = part /\ o.offset = from /\ o.how = "parts" /\ from # 0
      BY <2>3 DEF Opened
    <3>2. part # <<>>
      <4> SUFFICES ASSUME part = <<>> PROVE FALSE
        OBVIOUS
      <4>1. Len(part) = 0 /\ DOMAIN part = {}
        OBVIOUS
      <4>2. Contiguous = 0
        BY <4>1 DEF Contiguous
      <4> QED BY <1>5, <2>3, <3>1, <4>2 DEF PartLen, PartUnits
    <3>3. GoodParts(part, v, l)
      BY <1>1, <1>3, <1>5, <3>1, <3>2 DEF LeftFine, Good
    <3>4. PICK k : k = Contiguous
      OBVIOUS
    <3>5. k \in 0..Len(part) /\ Len(part) \in Nat /\ Len(part) <= k + 1 /\ \A n \in 1..k : Len(part[n]) = PartUnits
      BY <3>3, <3>4, ContiguousIs
    <3>6. from = PartUnits * k /\ from \in Nat
      BY <1>5, <2>3, <3>4, <3>5 DEF PartLen, PartUnits
    <3>7. Goes(part, "parts", from, v, l)
      BY <1>5, <3>3, <3>5, <3>6 DEF Goes
    <3>8. from <= l
      BY <1>2, <1>3, <2>3, <3>1, <3>6
    <3> QED BY <1>1, <3>1, <3>6, <3>7, <3>8
  <2> QED BY <2>1, <2>2, <2>3
<1> QED BY <1>4, <1>5

LEMMA ReadsIs ==
  ASSUME NEW n \in Nat
  PROVE  ReadsFrom(n) = {n}
<1>1. ScpReadsFrom(n) = n
  BY DEF ScpReadsFrom, TailFrom
<1>2. HttpReadsFrom(n) = {n}
  <2>1. n + 0 = n /\ 0 + n = n
    OBVIOUS
  <2> QED BY <2>1 DEF HttpReadsFrom
<1> QED BY <1>1, <1>2 DEF ReadsFrom

---------------------------------------------------------------------------
(* The steps                                                               *)
(* what a step may use                                                     *)
Going == CopySound /\ CopyIInv

LEMMA ChangeKeeps ==
  ASSUME Going, Change
  PROVE  CopyIInv'
<1>1. PICK later \in {0, Tolerance + 1}, n \in Lengths :
        /\ now' = now + later
        /\ \E dated \in 0..(now + later) :
              source' = [version |-> source.version + 1, length |-> n, modified |-> dated,
                         lengths |-> Append(source.lengths, n)]
  BY DEF Change
<1>2. /\ source.version < MaxVersions
      /\ untold' = \/ untold
                   \/ stage \in {"copying", "renaming"}
                   \/ stage = "idle" /\ source'.modified <= partTime + Tolerance
      /\ UNCHANGED <<ends, part, partTime, final, stage, resumed, size, offset, read, pipe, attempts>>
  BY DEF Change
<1>3. CopyTypeOK /\ MaxVersions \in Nat /\ Tolerance \in Nat
  BY DEF Going, CopyIInv, CopySound
<1>4. now' \in Nat
  BY <1>1, <1>3 DEF CopyTypeOK
<1>a. PICK dated \in 0..(now + later) :
        source' = [version |-> source.version + 1, length |-> n, modified |-> dated, lengths |-> Append(source.lengths, n)]
  BY <1>1
<1>b. PICK v, all : v = source.version /\ all = source.lengths
  OBVIOUS
<1>c. v \in 1..MaxVersions /\ all \in Seq(Lengths) /\ Len(all) = v /\ dated \in Nat /\ n \in Lengths
  <2>1. now + later \in Nat
    BY <1>1, <1>4
  <2>2. dated \in Nat
    BY <2>1
  <2> QED BY <1>3, <1>b, <2>2 DEF CopyTypeOK
<1>d. /\ Append(all, n) \in Seq(Lengths) /\ Len(Append(all, n)) = v + 1 /\ Append(all, n)[v + 1] = n
      /\ \A i \in 1..v : Append(all, n)[i] = all[i]
  BY <1>c
<1>5. /\ source' \in [version : 1..MaxVersions, length : Lengths, modified : Nat, lengths : Seq(Lengths)]
      /\ Len(source'.lengths) = source'.version /\ source'.lengths[source'.version] = source'.length
  <2>1. v + 1 \in 1..MaxVersions
    BY <1>2, <1>3, <1>b, <1>c
  <2>2. source' = [version |-> v + 1, length |-> n, modified |-> dated, lengths |-> Append(all, n)]
    BY <1>a, <1>b
  <2> QED BY <1>c, <1>d, <2>1, <2>2
<1>e. OneWhole(final) => OneWhole(final)'
  <2> SUFFICES ASSUME NEW i \in 1..v, final = Version(i, all[i]) PROVE OneWhole(final)'
    BY <1>b DEF OneWhole
  <2>1. i \in 1..(v + 1) /\ Append(all, n)[i] = all[i]
    BY <1>c, <1>d
  <2>2. source'.version = v + 1 /\ source'.lengths = Append(all, n) /\ final' = final
    BY <1>2, <1>a, <1>b
  <2>3. final' = Version(i, source'.lengths[i]) /\ i \in 1..source'.version
    BY <2>1, <2>2
  <2> QED BY <2>3 DEF OneWhole, Version
<1>6. CopyTypeOK'
  <2>1. untold' \in BOOLEAN
    BY <1>2
  <2> QED BY <1>2, <1>3, <1>4, <1>5, <2>1 DEF CopyTypeOK, ends
<1>7. ASSUME ~untold', stage' = "idle" PROVE LeftFine'
  <2>1. ~(source'.modified <= partTime + Tolerance)
    BY <1>2, <1>7
  <2>2. source'.modified = dated /\ dated \in Nat /\ partTime + Tolerance \in Nat
    BY <1>3, <1>a, <1>c DEF CopyTypeOK
  <2>3. source'.modified > partTime' + Tolerance
    BY <1>2, <2>1, <2>2
  <2> QED BY <2>3 DEF LeftFine
<1>8. ASSUME ~untold' PROVE ~untold /\ stage' \notin {"copying", "renaming"} /\ stage' = stage
  BY <1>2, <1>8
<1>9. ASSUME ~untold', stage' = "done" PROVE OneWhole(final)'
  BY <1>8, <1>9, <1>e DEF Going, CopyIInv
<1> QED BY <1>6, <1>7, <1>8, <1>9 DEF CopyIInv

LEMMA StartKeeps ==
  ASSUME Going, Start
  PROVE  CopyIInv'
<1>1. PICK resume \in BOOLEAN : \E opened \in Opens(IF resume THEN ResumeOffset ELSE 0) :
          /\ part' = opened.part /\ offset' = opened.offset /\ resumed' = opened.how
          /\ read' \in ReadsFrom(opened.offset)
          /\ partTime' = IF opened.part # part THEN now ELSE partTime
          /\ untold' = (untold /\ opened.part # <<>>)
  BY DEF Start
<1>2. PICK from : from = IF resume THEN ResumeOffset ELSE 0
  OBVIOUS
<1>3. PICK o \in Opens(from) :
          /\ part' = o.part /\ offset' = o.offset /\ resumed' = o.how
          /\ read' \in ReadsFrom(o.offset)
          /\ partTime' = IF o.part # part THEN now ELSE partTime
          /\ untold' = (untold /\ o.part # <<>>)
  BY <1>1, <1>2
<1>4. /\ stage = "idle" /\ stage' \in {"copying", "idle"} /\ size' = source.length /\ pipe' = <<>>
      /\ reader' = reader /\ writer' = writer /\ source' = source /\ final' = final /\ now' = now
  BY DEF Start, ends
<1>5. CopySound /\ CopyTypeOK /\ (~untold => LeftFine) /\ from \in {0, ResumeOffset}
  BY <1>2, <1>4 DEF Going, CopyIInv
<1>6. pipe' \in Seq(Units) /\ Len(pipe') = 0
  BY <1>4
<1>7. CopyTypeOK'
  <2>1. partTime' \in Nat /\ untold' \in BOOLEAN
    BY <1>3, <1>5 DEF CopyTypeOK
  <2>2. ASSUME writer # "s3"
        PROVE  part' \in Seq(Units) /\ read' \in Nat /\ resumed' \in {"placed", "appended", "put"}
    <3>1. from \in 0..Len(part) /\ o.part \in Seq(Units) /\ o.offset \in {0, from} /\ o.how \in {"placed", "appended", "put"}
      BY <1>5, <2>2, OpensPlain
    <3>2. part \in Seq(Units)
      BY <1>5, <2>2 DEF CopyTypeOK
    <3>3. o.offset \in Nat
      BY <3>1, <3>2
    <3>4. read' = o.offset
      BY <1>3, <3>3, ReadsIs
    <3> QED BY <1>3, <3>1, <3>3, <3>4
  <2> QED BY <1>4, <1>5, <1>6, <2>1, <2>2 DEF CopyTypeOK
<1>8. ASSUME ~untold' PROVE InCopy' /\ LeftFine'
  <2>1. o.part = <<>> \/ LeftFine
    BY <1>3, <1>5, <1>8
  <2>2. PICK v, l : v = source.version /\ l = source.length
    OBVIOUS
  <2>3. /\ o.offset \in Nat /\ o.offset <= l /\ Goes(o.part, o.how, o.offset, v, l)
        /\ o.how = "put" => o.offset = 0 /\ o.part = part
    BY <1>5, <2>1, <2>2, OpensGood
  <2>4. l \in Nat
    BY <1>5, <2>2 DEF CopyTypeOK, CopySound
  <2>5. read' = o.offset
    BY <1>3, <2>3, ReadsIs
  <2>6. LeftFine'
    <3>1. CASE o.how # "put"
      <4>2. Good(o.part, v, l)
        BY <2>3, <2>4, <3>1, GoesGood
      <4>3. Good(part, v, l)'
        BY <1>3, <1>4, <4>2 DEF Good, GoodParts, RightTo
      <4> QED BY <1>4, <2>2, <4>3 DEF LeftFine
    <3>2. CASE o.how = "put"
      <4>1. part' = part /\ partTime' = partTime
        BY <1>3, <2>3, <3>2
      <4>2. CASE LeftFine
        BY <1>4, <4>1, <4>2 DEF LeftFine, Good, GoodParts, RightTo
      <4>3. CASE part = <<>>
        <5>1. writer = "webdav"
          BY <2>3, <3>2 DEF Goes
        <5>2. part' \in Seq(Units) /\ Len(part') = 0
          BY <4>1, <4>3
        <5> QED BY <1>4, <5>1, <5>2 DEF LeftFine, Good, RightTo
      <4> QED BY <2>1, <2>3, <3>2, <4>2, <4>3
    <3> QED BY <3>1, <3>2
  <2>7. read' - Len(pipe') = o.offset /\ read' \in Nat /\ offset' \in Nat /\ Len(pipe') <= read' /\ read' <= l
    BY <1>3, <1>6, <2>3, <2>4, <2>5
  <2>8. Goes(part, resumed, read - Len(pipe), source.version, source.length)'
    <3>1. Goes(part', resumed', o.offset, v, l)
      BY <1>3, <2>3
    <3>2. Goes(part', resumed', read' - Len(pipe'), source'.version, source'.length)
      BY <1>4, <2>2, <2>7, <3>1
    <3> QED BY <1>4, <3>2 DEF Goes
  <2>9. \A i \in 1..Len(pipe') : pipe'[i] = <<source'.version, read' - Len(pipe') + i>>
    BY <1>6
  <2>10. IF resumed' = "put" THEN offset' = 0 /\ LeftFine' ELSE Len(pipe') <= PipeUnits
    BY <1>3, <1>6, <2>3, <2>6 DEF PipeUnits
  <2> QED BY <1>4, <1>6, <2>2, <2>6, <2>7, <2>8, <2>9, <2>10 DEF InCopy
<1> QED BY <1>4, <1>7, <1>8 DEF CopyIInv

LEMMA ReadKeeps ==
  ASSUME Going, Copy
  PROVE  CopyIInv'
<1>1. /\ stage = "copying" /\ read < source.length /\ (resumed = "put" \/ Len(pipe) < PipeUnits)
      /\ pipe' = Append(pipe, <<source.version, read + 1>>) /\ read' = read + 1
      /\ UNCHANGED <<ends, source, part, partTime, final, stage, resumed, size, offset, now, attempts, untold>>
  BY DEF Copy
<1>2. CopySound /\ CopyTypeOK /\ (~untold => InCopy)
  BY <1>1 DEF Going, CopyIInv
<1>3. PICK v, l : v = source.version /\ l = source.length
  OBVIOUS
<1>4. v \in Nat /\ l \in Nat
  <2>1. v \in 1..MaxVersions /\ l \in Lengths
    BY <1>2, <1>3 DEF CopyTypeOK
  <2>2. Lengths \subseteq Nat /\ MaxVersions \in Nat
    BY <1>2 DEF CopySound
  <2>3. l \in Nat
    BY <2>1, <2>2
  <2>4. v \in Nat
    BY <2>1, <2>2
  <2> QED BY <2>3, <2>4
<1>5. ASSUME read \in Nat, pipe \in Seq(Units), Len(pipe) <= read
      PROVE  /\ read' \in Nat /\ pipe' \in Seq(Units) /\ Len(pipe') = Len(pipe) + 1 /\ Len(pipe') <= read'
             /\ \A i \in 1..Len(pipe) : pipe'[i] = pipe[i]
             /\ pipe'[Len(pipe) + 1] = <<v, read + 1>>
  <2>1. <<v, read + 1>> \in Units
    BY <1>4, <1>5 DEF Units
  <2>2. PICK u : u = <<v, read + 1>>
    OBVIOUS
  <2>3. u \in Units /\ pipe' = Append(pipe, u)
    BY <1>1, <1>3, <2>1, <2>2
  <2>4. /\ pipe' \in Seq(Units) /\ Len(pipe') = Len(pipe) + 1 /\ pipe'[Len(pipe) + 1] = u
        /\ \A i \in 1..Len(pipe) : pipe'[i] = pipe[i]
    BY <1>5, <2>3, OneMore
  <2>5. Len(pipe) \in Nat
    BY <1>5
  <2> QED BY <1>1, <1>5, <2>2, <2>4, <2>5
<1>6. CopyTypeOK'
  <2>1. ASSUME writer # "s3" PROVE pipe' \in Seq(Units) /\ read' \in Nat /\ Len(pipe') <= read'
    BY <1>2, <1>5, <2>1 DEF CopyTypeOK
  <2> QED BY <1>1, <1>2, <2>1 DEF CopyTypeOK, ends
<1>7. ASSUME ~untold PROVE InCopy'
  <2>1. /\ InCopy /\ offset \in Nat /\ read \in Nat /\ pipe \in Seq(Units) /\ Len(pipe) <= read /\ size = l
        /\ \A i \in 1..Len(pipe) : pipe[i] = <<v, read - Len(pipe) + i>>
        /\ Goes(part, resumed, read - Len(pipe), v, l)
        /\ IF resumed = "put" THEN offset = 0 /\ LeftFine ELSE Len(pipe) <= PipeUnits
    BY <1>2, <1>3, <1>7 DEF InCopy
  <2>2. /\ read' \in Nat /\ pipe' \in Seq(Units) /\ Len(pipe') = Len(pipe) + 1 /\ Len(pipe') <= read'
        /\ \A i \in 1..Len(pipe) : pipe'[i] = pipe[i]
        /\ pipe'[Len(pipe) + 1] = <<v, read + 1>>
    BY <1>5, <2>1
  <2>3. Len(pipe) \in Nat /\ read' - Len(pipe') = read - Len(pipe) /\ read' <= l
    BY <1>1, <1>3, <1>4, <2>1, <2>2
  <2>4. ASSUME NEW i \in 1..Len(pipe') PROVE pipe'[i] = <<v, read' - Len(pipe') + i>>
    <3>1. CASE i <= Len(pipe)
      <4>1. i \in 1..Len(pipe)
        BY <2>2, <2>3, <3>1
      <4> QED BY <2>1, <2>2, <2>3, <4>1
    <3>2. CASE ~(i <= Len(pipe))
      <4>1. i = Len(pipe) + 1
        BY <2>2, <2>3, <3>2
      <4>2. read + 1 = read' - Len(pipe') + i
        BY <1>1, <2>1, <2>2, <2>3, <4>1
      <4> QED BY <2>2, <4>1, <4>2
    <3> QED BY <3>1, <3>2
  <2>5. Goes(part, resumed, read - Len(pipe), source.version, source.length)'
    <3>1. Goes(part', resumed', read' - Len(pipe'), source'.version, source'.length)
      BY <1>1, <1>3, <2>1, <2>3
    <3> QED BY <1>1, <3>1 DEF Goes, ends
  <2>6. IF resumed' = "put" THEN offset' = 0 /\ LeftFine' ELSE Len(pipe') <= PipeUnits
    <3>1. CASE resumed = "put"
      BY <1>1, <2>1, <3>1 DEF LeftFine, Good, GoodParts, RightTo, ends
    <3>2. CASE resumed # "put"
      BY <1>1, <2>1, <2>2, <2>3, <3>2 DEF PipeUnits
    <3> QED BY <3>1, <3>2
  <2> QED BY <1>1, <1>3, <2>1, <2>2, <2>3, <2>4, <2>5, <2>6 DEF InCopy
<1> QED BY <1>1, <1>6, <1>7 DEF CopyIInv

(* the partial file is a sequence of units                                 *)
LEMMA StoredType ==
  ASSUME CopyTypeOK, writer # "s3"
  PROVE  /\ \A n \in 0..Len(pipe) : Stored(n) \in Seq(Units)
         /\ \A out : Placed(pipe, out) \in Seq(Units)
<1>1. part \in Seq(Units) /\ pipe \in Seq(Units) /\ read \in Nat /\ Len(pipe) <= read /\ resumed \in {"placed", "appended", "put"}
  BY DEF CopyTypeOK
<1>2. ASSUME NEW out PROVE Placed(pipe, out) \in Seq(Units)
  <2>1. PICK k : PlacedTo(Placed(pipe, out), pipe, out, k)
    BY <1>1, PlacedIs
  <2> QED BY <2>1 DEF PlacedTo
<1>3. ASSUME NEW n \in 0..Len(pipe) PROVE Stored(n) \in Seq(Units)
  <2>1. CASE resumed = "placed"
    <3>1. Stored(n) = Placed(pipe, (n + 1)..Len(pipe))
      BY <2>1 DEF Stored
    <3> QED BY <1>2, <3>1
  <2>2. CASE resumed = "appended"
    <3>1. Stored(n) = part \o Cut(pipe, n)
      BY <2>2 DEF Stored
    <3>2. Cut(pipe, n) \in Seq(Units)
      BY <1>1, CutIs
    <3> QED BY <1>1, <3>1, <3>2
  <2>3. CASE resumed = "put"
    BY <1>1, <2>3 DEF Stored
  <2> QED BY <1>1, <2>1, <2>2, <2>3
<1> QED BY <1>2, <1>3

LEMMA StoreKeeps ==
  ASSUME Going, Store
  PROVE  CopyIInv'
<1>1. /\ stage = "copying" /\ resumed # "put" /\ Len(pipe) = PipeUnits
      /\ part' = Stored(Len(pipe)) /\ partTime' = now /\ pipe' = <<>>
      /\ UNCHANGED <<ends, source, final, stage, resumed, size, offset, read, now, attempts, untold>>
  BY DEF Store
<1>2. CopySound /\ CopyTypeOK /\ (~untold => InCopy)
  BY <1>1 DEF Going, CopyIInv
<1>3. pipe' \in Seq(Units) /\ Len(pipe') = 0 /\ Len(pipe) \in 0..Len(pipe)
  BY <1>1 DEF PipeUnits
<1>4. CopyTypeOK'
  <2>1. ASSUME writer # "s3" PROVE part' \in Seq(Units) /\ read \in Nat
    BY <1>1, <1>2, <1>3, <2>1, StoredType DEF CopyTypeOK
  <2> QED BY <1>1, <1>2, <1>3, <2>1 DEF CopyTypeOK, ends
<1>5. ASSUME ~untold PROVE InCopy'
  <2>1. Facts
    BY <1>2, <1>5 DEF Facts
  <2>2. Goes(part', resumed, read, source.version, source.length)
    BY <1>1, <2>1, StoreGoes
  <2>3. read \in Nat /\ read' - Len(pipe') = read
    <3>1. read \in Nat
      BY <2>1 DEF Facts, InCopy
    <3> QED BY <1>1, <1>3, <3>1
  <2>4. Goes(part, resumed, read - Len(pipe), source.version, source.length)'
    <3>1. Goes(part', resumed', read' - Len(pipe'), source'.version, source'.length)
      BY <1>1, <2>2, <2>3
    <3> QED BY <1>1, <3>1 DEF Goes, ends
  <2>5. Len(pipe') <= read' /\ \A i \in 1..Len(pipe') : pipe'[i] = <<source'.version, read' - Len(pipe') + i>>
    BY <1>1, <1>3, <2>3
  <2> QED BY <1>1, <1>3, <2>1, <2>3, <2>4, <2>5 DEF Facts, InCopy, PipeUnits
<1> QED BY <1>1, <1>4, <1>5 DEF CopyIInv

LEMMA FailKeeps ==
  ASSUME Going, Fail
  PROVE  CopyIInv'
<1>1. PICK new \in Left : part' = new /\ partTime' = IF new # part THEN now ELSE partTime
  BY DEF Fail
<1>2. /\ stage = "copying" /\ stage' = "idle" /\ pipe' = <<>>
      /\ UNCHANGED <<ends, source, final, resumed, size, offset, read, now, attempts, untold>>
  BY DEF Fail
<1>3. CopySound /\ CopyTypeOK /\ (~untold => InCopy)
  BY <1>2 DEF Going, CopyIInv
<1>4. pipe' \in Seq(Units) /\ Len(pipe') = 0
  BY <1>2
<1>5. CopyTypeOK'
  <2>1. ASSUME writer # "s3" PROVE new \in Seq(Units)
    <3>1. CASE writer = "sftp"
      <4>1. PICK out \in SUBSET DOMAIN pipe : new = Placed(pipe, out)
        BY <3>1 DEF Left
      <4> QED BY <1>3, <2>1, <4>1, StoredType
    <3>2. CASE writer # "sftp"
      <4>1. PICK n \in 0..Len(pipe) : new = Stored(n)
        BY <3>2 DEF Left
      <4> QED BY <1>3, <2>1, <4>1, StoredType
    <3> QED BY <3>1, <3>2
  <2>2. partTime' \in Nat
    BY <1>1, <1>3 DEF CopyTypeOK
  <2> QED BY <1>1, <1>2, <1>3, <1>4, <2>1, <2>2 DEF CopyTypeOK, ends
<1>6. ASSUME ~untold PROVE LeftFine'
  <2>1. Facts
    BY <1>3, <1>6 DEF Facts
  <2>2. Good(new, source.version, source.length) \/ (new = part /\ LeftFine)
    BY <2>1, LeftGood
  <2>3. CASE Good(new, source.version, source.length)
    BY <1>1, <1>2, <2>3 DEF LeftFine, Good, GoodParts, RightTo, ends
  <2>4. CASE new = part /\ LeftFine
    BY <1>1, <1>2, <2>4 DEF LeftFine, Good, GoodParts, RightTo, ends
  <2> QED BY <2>2, <2>3, <2>4
<1> QED BY <1>2, <1>5, <1>6 DEF CopyIInv

LEMMA RenameKeeps ==
  ASSUME Going, Rename
  PROVE  CopyIInv'
<1>1. /\ stage = "renaming"
      /\ UNCHANGED <<ends, source, partTime, resumed, size, offset, read, pipe, now, attempts, untold>>
      /\ \/ final' = Content /\ part' = <<>> /\ stage' = "done"
         \/ stage' = "idle" /\ UNCHANGED <<final, part>>
  BY DEF Rename
<1>2. CopyTypeOK /\ (~untold => Good(part, source.version, source.length) /\ Whole(Content))
  BY <1>1 DEF Going, CopyIInv
<1>3. CopyTypeOK'
  <2>1. ASSUME writer # "s3" PROVE part' \in Seq(Units)
    <3>1. part \in Seq(Units) /\ <<>> \in Seq(Units)
      BY <1>2, <2>1 DEF CopyTypeOK
    <3> QED BY <1>1, <3>1
  <2> QED BY <1>1, <1>2, <2>1 DEF CopyTypeOK, ends
<1>4. CASE final' = Content /\ part' = <<>> /\ stage' = "done"
  <2>1. source.version \in 1..source.version /\ source.lengths[source.version] = source.length
    <3>1. source.version \in 1..MaxVersions
      BY <1>2 DEF CopyTypeOK
    <3>2. source.version \in 1..source.version
      BY <3>1
    <3> QED BY <1>2, <3>2 DEF CopyTypeOK
  <2>2. ~untold => final' = Version(source.version, source.lengths[source.version])
    BY <1>2, <1>4, <2>1 DEF Whole
  <2>3. ~untold => \E v \in 1..source.version : final' = Version(v, source.lengths[v])
    BY <2>1, <2>2
  <2>4. OneWhole(final)' <=> \E v \in 1..source.version : final' = Version(v, source.lengths[v])
    BY <1>1 DEF OneWhole, Version
  <2> QED BY <1>1, <1>3, <1>4, <2>3, <2>4 DEF CopyIInv
<1>5. CASE stage' = "idle" /\ UNCHANGED <<final, part>>
  <2>1. ~untold => LeftFine'
    BY <1>1, <1>2, <1>5 DEF LeftFine, Good, GoodParts, RightTo, ends
  <2> QED BY <1>1, <1>3, <1>5, <2>1 DEF CopyIInv
<1> QED BY <1>1, <1>4, <1>5

(* the source has ended, and all of it is stored or the attempt has failed *)
LEMMA ShutdownKeeps ==
  ASSUME Going, Shutdown
  PROVE  CopyIInv'
<1>1. PICK n \in 0..Len(pipe) :
          /\ n = Len(pipe) \/ writer = "webdav"
          /\ part' = IF resumed = "put" THEN Cut(pipe, n) ELSE Stored(n)
          /\ stage' = IF \/ writer = "webdav" /\ offset = 0 /\ Len(part') # read
                         \/ writer = "webdav" /\ offset > 0 /\ n # Len(pipe)
                         \/ writer = "scp" /\ offset = 0 /\ read # size
                      THEN "idle" ELSE "renaming"
  BY DEF Shutdown
<1>2. /\ stage = "copying" /\ read >= DataEnd /\ partTime' = now /\ pipe' = <<>>
      /\ UNCHANGED <<ends, source, final, resumed, size, offset, read, now, attempts, untold>>
  BY DEF Shutdown
<1>3. CopySound /\ CopyTypeOK /\ (~untold => InCopy)
  BY <1>2 DEF Going, CopyIInv
<1>4. pipe' \in Seq(Units) /\ Len(pipe') = 0
  BY <1>2
<1>5. CopyTypeOK'
  <2>1. ASSUME writer # "s3" PROVE part' \in Seq(Units)
    <3>1. pipe \in Seq(Units)
      BY <1>3, <2>1 DEF CopyTypeOK
    <3>2. Cut(pipe, n) \in Seq(Units)
      BY <3>1, CutIs
    <3>3. Stored(n) \in Seq(Units)
      BY <1>3, <2>1, StoredType
    <3> QED BY <1>1, <3>2, <3>3
  <2> QED BY <1>2, <1>3, <1>4, <2>1 DEF CopyTypeOK, ends
<1>6. ASSUME ~untold
      PROVE  /\ Good(part', source.version, source.length)
             /\ stage' = "renaming" => (IF writer = "s3" THEN FlattenSeq(part') ELSE part') = Version(source.version, source.length)
  <2>1. Facts
    BY <1>3, <1>6 DEF Facts
  <2>2. PICK v, l, m, at : v = source.version /\ l = source.length /\ m = Len(pipe) /\ at = read - Len(pipe)
    OBVIOUS
  <2>3. /\ v \in Nat /\ l \in Nat /\ m \in Nat /\ at \in Nat /\ n \in 0..m /\ read = at + m /\ pipe \in Seq(Units)
        /\ (\A i \in 1..m : pipe[i] = <<v, at + i>>) /\ Goes(part, resumed, at, v, l)
    BY <1>1, <2>1, <2>2, CopyFacts
  <2>4. read = l
    <3>1. DataEnd = l
      BY <2>1, <2>2 DEF DataEnd, Facts, InCopy
    <3>2. read <= l
      BY <2>1, <2>2, CopyFacts
    <3>3. read >= DataEnd
      BY <1>2
    <3>4. read \in Nat /\ l \in Nat
      BY <2>3
    <3> QED BY ONLY <3>1, <3>2, <3>3, <3>4
  <2>5. CASE resumed = "put"
    <3>1. writer = "webdav" /\ at = 0 /\ offset = 0 /\ part' = Cut(pipe, n)
      BY <1>1, <2>1, <2>3, <2>5 DEF Goes, Facts, InCopy
    <3>2. part' \in Seq(Units) /\ Len(part') = n /\ \A i \in 1..n : part'[i] = pipe[i]
      BY <2>2, <2>3, <3>1, CutIs
    <3>3. RightTo(part', Len(part'), v)
      <4>1. ASSUME NEW i \in 1..n PROVE part'[i] = <<v, i>>
        <5>1. i \in 1..m /\ at + i = i
          BY <2>3, <3>1
        <5> QED BY <2>3, <3>2, <5>1
      <4> QED BY <3>2, <4>1 DEF RightTo
    <3>4. Good(part', v, l)
      BY <3>1, <3>2, <3>3 DEF Good
    <3>5. ASSUME stage' = "renaming" PROVE part' = Version(v, l)
      <4>1. Len(part') = l
        BY <1>1, <2>4, <3>1, <3>5
      <4> QED BY <3>2, <3>3, <4>1, IsVersion
    <3> QED BY <2>2, <3>1, <3>4, <3>5
  <2>6. CASE resumed \in {"placed", "appended"}
    <3>1. PICK to : to = at + n
      OBVIOUS
    <3>2. PICK new : new = Stored(n)
      OBVIOUS
    <3>3. part' = new /\ Goes(new, resumed, to, v, l) /\ to \in Nat
      <4>1. part' = new
        BY <1>1, <2>6, <3>2
      <4>2. Goes(Stored(n), resumed, read - Len(pipe) + n, source.version, source.length)
        BY <2>1, <2>6, StoredGoes
      <4>3. to \in Nat
        BY <2>3, <3>1
      <4> QED BY <2>2, <3>1, <3>2, <4>1, <4>2, <4>3
    <3>4. Good(new, v, l)
      BY <2>3, <2>6, <3>3, GoesGood
    <3>5. ASSUME stage' = "renaming" PROVE part' = Version(v, l)
      <4>1. /\ writer # "s3" /\ new \in Seq(Units) /\ to <= Len(new) /\ RightTo(new, to, v)
            /\ IF writer = "sftp" THEN Len(new) <= l ELSE Len(new) = to
        BY <2>6, <3>3 DEF Goes
      <4>2. n = m
        <5> SUFFICES ASSUME n # m PROVE FALSE
          OBVIOUS
        <5>1. writer = "webdav" /\ Len(new) = to /\ to # read
          BY <1>1, <2>2, <2>3, <3>1, <4>1
        <5>2. offset \in Nat
          BY <2>1 DEF Facts, InCopy
        <5>3. offset = 0 \/ offset > 0
          BY <5>2
        <5> QED BY <1>1, <2>2, <3>3, <3>5, <5>1, <5>3
      <4>3. to = l /\ Len(new) = l
        BY <2>3, <2>4, <3>1, <4>1, <4>2
      <4>4. new = Version(v, l)
        BY <4>1, <4>3, IsVersion
      <4> QED BY <3>3, <4>4
    <3>6. writer # "s3"
      BY <2>6, <3>3 DEF Goes
    <3> QED BY <2>2, <3>3, <3>4, <3>5, <3>6
  <2>7. CASE resumed = "parts"
    <3>1. writer = "s3" /\ n = m /\ GoodParts(part, v, l)
      BY <1>1, <2>2, <2>3, <2>7 DEF Goes
    <3>2. part' = PartPut(pipe)
      BY <1>1, <2>2, <2>7, <3>1 DEF Stored
    <3>3. PICK new : new = part'
      OBVIOUS
    <3>4. GoodParts(new, v, l) /\ (IF new = <<>> THEN l = 0 ELSE PartEnd(new, Len(new)) = l)
      <4>1. CASE pipe # <<>>
        <5>1. /\ GoodParts(PartPut(pipe), source.version, source.length) /\ PartPut(pipe) # <<>>
              /\ PartEnd(PartPut(pipe), Len(PartPut(pipe))) = read
          BY <2>1, <2>7, <4>1, PartPutGoes
        <5> QED BY <2>2, <2>4, <3>2, <3>3, <5>1
      <4>2. CASE pipe = <<>>
        <5>1. new = part
          BY <3>2, <3>3, <4>2 DEF PartPut
        <5>2. m = 0 /\ at = l
          BY <2>2, <2>3, <2>4, <4>2
        <5>3. PICK k \in 0..Len(part) : l = 2 * k /\ Len(part) <= k + 1 /\ \A i \in 1..k : Len(part[i]) = 2
          BY <2>3, <2>7, <5>2 DEF Goes, PartUnits
        <5>4. part \in Seq(Seq(Units)) /\ Len(part) \in Nat
          BY <3>1 DEF GoodParts
        <5>5. Len(part) = k
          <6> SUFFICES ASSUME Len(part) = k + 1 PROVE FALSE
            BY <5>3, <5>4
          <6>1. PICK j : j = k + 1
            OBVIOUS
          <6>2. j \in 1..Len(part) /\ k \in Nat
            BY <5>3, <5>4, <6>1
          <6>3. PartOK(part, v, l, j)
            BY <3>1, <6>2, PartIs
          <6>4. PartEnd(part, j) = 2 * (j - 1) + Len(part[j]) /\ PartEnd(part, j) <= l /\ Len(part[j]) \in 1..2
            BY <6>3 DEF PartOK
          <6>5. 2 * (j - 1) = l
            BY <5>3, <6>1, <6>2
          <6>6. PICK c : c = Len(part[j])
            OBVIOUS
          <6>7. c \in 1..2 /\ l + c <= l
            BY <6>4, <6>5, <6>6
          <6> QED BY <2>3, <6>7
        <5>6. CASE k = 0
          <6>1. part = <<>> /\ l = 0
            BY <5>3, <5>4, <5>5, <5>6
          <6> QED BY <3>1, <5>1, <6>1
        <5>7. CASE k # 0
          <6>1. k \in 1..Len(part) /\ part # <<>>
            BY <5>3, <5>4, <5>5, <5>7
          <6>2. PartOK(part, v, l, k)
            BY <3>1, <6>1, PartIs
          <6>3. Len(part[k]) = 2
            BY <5>3, <5>5, <6>1
          <6>4. PartEnd(part, k) = l
            BY <5>3, <5>4, <6>2, <6>3 DEF PartOK
          <6> QED BY <3>1, <5>1, <5>5, <6>1, <6>4
        <5> QED BY <5>6, <5>7
      <4> QED BY <4>1, <4>2
    <3>5. FlattenSeq(new) = Version(v, l)
      <4>1. CASE new = <<>>
        <5>1. FlattenSeq(<<>>) = <<>>
          BY DEF FlattenSeq
        <5>2. Version(v, 0) = <<>>
          BY VersionIs, <2>3
        <5> QED BY <3>4, <4>1, <5>1, <5>2
      <4>2. CASE new # <<>>
        BY <2>3, <3>4, <4>2, FlatIsVersion
      <4> QED BY <4>1, <4>2
    <3> QED BY <2>2, <3>1, <3>3, <3>4, <3>5 DEF Good
  <2> QED BY <2>3, <2>5, <2>6, <2>7 DEF Goes
<1>7. ASSUME ~untold PROVE Good(part, source.version, source.length)' /\ (stage' = "renaming" => Whole(Content)')
  <2>1. Good(part, source.version, source.length)'
    BY <1>2, <1>6, <1>7 DEF Good, GoodParts, RightTo, ends
  <2>2. ASSUME stage' = "renaming" PROVE Whole(Content)'
    <3>1. Content' = IF writer = "s3" THEN FlattenSeq(part') ELSE part'
      BY <1>2 DEF Content, ends
    <3>2. Content' = Version(source.version, source.length)
      BY <1>6, <1>7, <2>2, <3>1
    <3> QED BY <1>2, <3>2 DEF Whole
  <2> QED BY <2>1, <2>2
<1>8. stage' \in {"idle", "renaming"}
  BY <1>1
<1>9. ~untold => LeftFine'
  BY <1>7 DEF LeftFine
<1> QED BY <1>2, <1>5, <1>7, <1>8, <1>9 DEF CopyIInv

---------------------------------------------------------------------------
LEMMA CopyStarts ==
  ASSUME CopySound, CopyInit
  PROVE  CopyIInv
<1>1. /\ reader \in Kinds /\ writer \in Kinds /\ "local" \in {reader, writer}
      /\ \E n \in Lengths : source = [version |-> 1, length |-> n, modified |-> 0, lengths |-> <<n>>]
      /\ part = <<>> /\ partTime = 0 /\ stage = "idle" /\ resumed = "placed" /\ read = 0 /\ pipe = <<>>
      /\ now = 0 /\ untold = FALSE
  BY DEF CopyInit
<1>2. /\ source \in [version : 1..MaxVersions, length : Lengths, modified : Nat, lengths : Seq(Lengths)]
      /\ Len(source.lengths) = source.version /\ source.lengths[source.version] = source.length
  <2>1. 1 \in 1..MaxVersions
    BY DEF CopySound
  <2>2. PICK n \in Lengths : source = [version |-> 1, length |-> n, modified |-> 0, lengths |-> <<n>>]
    BY <1>1
  <2>3. <<n>> \in Seq(Lengths) /\ Len(<<n>>) = 1 /\ <<n>>[1] = n
    OBVIOUS
  <2> QED BY <2>1, <2>2, <2>3
<1>3. <<>> \in Seq(Units) /\ Len(<<>>) = 0 /\ <<>> \in Seq(Seq(Units))
  OBVIOUS
<1>4. CopyTypeOK
  <2>1. part \in Seq(Units) /\ pipe \in Seq(Units) /\ read \in Nat /\ Len(pipe) <= read
    BY <1>1, <1>3
  <2> QED BY <1>1, <1>2, <2>1 DEF CopyTypeOK
<1>5. LeftFine
  BY <1>1, <1>3 DEF LeftFine, Good, GoodParts, RightTo
<1> QED BY <1>1, <1>4, <1>5 DEF CopyIInv

LEMMA CopyNextKeeps ==
  ASSUME CopySound, CopyIInv, [CopyNext]_copyVars
  PROVE  CopyIInv'
<1>1. Going
  BY DEF Going
<1>2. CASE CopyNext
  BY <1>1, <1>2, ChangeKeeps, StartKeeps, ReadKeeps, StoreKeeps, FailKeeps, ShutdownKeeps, RenameKeeps DEF CopyNext
<1>3. CASE UNCHANGED copyVars
  <2>1. CopyTypeOK'
    BY <1>3 DEF CopyIInv, CopyTypeOK, copyVars
  <2>2. LeftFine => LeftFine'
    BY <1>3 DEF LeftFine, Good, GoodParts, RightTo, copyVars
  <2>3. InCopy => InCopy'
    BY <1>3, <2>2 DEF InCopy, Goes, GoodParts, RightTo, copyVars
  <2>4. Good(part, source.version, source.length) /\ Whole(Content)
          => Good(part, source.version, source.length)' /\ Whole(Content)'
    BY <1>3 DEF Good, GoodParts, RightTo, Whole, Content, copyVars
  <2>5. OneWhole(final) => OneWhole(final)'
    BY <1>3 DEF OneWhole, Version, copyVars
  <2> QED BY <1>3, <2>1, <2>2, <2>3, <2>4, <2>5 DEF CopyIInv, copyVars
<1> QED BY <1>2, <1>3

LEMMA CopyWhole ==
  ASSUME CopyIInv
  PROVE  CopiedWhole
<1>1. DOMAIN source.lengths = 1..source.version
  <2>1. source.lengths \in Seq(Lengths) /\ Len(source.lengths) = source.version
    BY DEF CopyIInv, CopyTypeOK
  <2> QED BY <2>1
<1>2. stage = "done" /\ ~untold => OneWhole(final)
  BY DEF CopyIInv
<1> QED BY <1>1, <1>2 DEF CopiedWhole, OneWhole

(* ResumedCopies: whatever the kinds of connection, the lengths, the       *)
(* attempts and what each leaves behind, a copy that is put in place is    *)
(* one version of its source, with all the units that version had.  Not    *)
(* covered are a source that changed while it was copied, and, as long as  *)
(* something of a partial file is kept, one that was changed or replaced   *)
(* between two attempts by a file whose time is not later than that of the *)
(* partial file by more than the tolerance, an older file among them.      *)
THEOREM CopiesWhole ==
  ASSUME CopySound
  PROVE  CopySpec => []CopiedWhole
<1>1. CopyInit => CopyIInv
  BY CopyStarts
<1>2. CopyIInv /\ [CopyNext]_copyVars => CopyIInv'
  BY CopyNextKeeps
<1>3. CopyIInv => CopiedWhole
  BY CopyWhole
<1> QED BY <1>1, <1>2, <1>3, PTL DEF CopySpec

(***************************************************************************)
(* What a sync leaves behind: SyncRuns                                     *)
(***************************************************************************)
Entry == [kind : {"None", "File", "Dir", "Symlink"}, size : Nat, time : 0..Clock]

(* Folders as a sync meets them: what lies in a folder has that folder     *)
(* above it, and no partial file is left from before.                      *)
FolderSound(found) ==
    LET paths == DOMAIN found["local"]
    IN  /\ found \in [Side -> [paths -> Entry]]
        /\ \A path \in paths : Ancestors(path) \subseteq paths
        /\ \A side \in Side, path \in paths : Have(found[side][path]) =>
             /\ \A above \in Ancestors(path) : found[side][above].kind = "Dir"
             /\ path \in DOMAIN Partial /\ Partial[path] \in paths
             /\ \A other \in Side : ~Have(found[other][Partial[path]])

SyncSound ==
    /\ Clock \in Nat
    /\ Resolution \in [Side -> Nat \ {0}]
    /\ \A found \in Folders : FolderSound(found)

Now == [side \in Side |-> Scanned(side)]
Judged == Compare(Now)
VerdictOn(path) == Verdict(Now["local"][path], Now["remote"][path])

LEMMA Sees ==
  ASSUME NEW side \in Side, NEW path \in Paths
  PROVE  Now[side][path] = IF Have(tree[side][path]) /\ (options.subfolders \/ Len(path) = 1)
                           THEN tree[side][path] ELSE NoEntry
BY DEF Now, Scanned, Discovered

LEMMA SeesNext ==
  ASSUME NEW side \in Side, NEW path \in Paths', UNCHANGED options
  PROVE  Now'[side][path] = IF Have(tree'[side][path]) /\ (options.subfolders \/ Len(path) = 1)
                           THEN tree'[side][path] ELSE NoEntry
BY DEF Now, Scanned, Discovered, Have, NoEntry, Side, Unknown

LEMMA SameVerdict ==
  ASSUME UNCHANGED <<server, options>>, NEW path, Now'["local"][path] = Now["local"][path],
         Now'["remote"][path] = Now["remote"][path]
  PROVE  VerdictOn(path)' = VerdictOn(path) /\ Item(Now, path)' = Item(Now, path)
<1>1. VerdictOn(path)' = VerdictOn(path)
  BY DEF VerdictOn, Verdict, Have, Asking, Copying, BySize, ByTime, ByTimeOf, OneWay, OnlyOneSide,
         NewerSide, Believed, TargetKeepsTimes, KeepsTimes, Sends, From, CompareTolerance, LaterOf, Unknown
<1>2. \A side \in Side : Now'[side][path] = Now[side][path]
  BY DEF Side
<1> QED BY <1>1, <1>2 DEF VerdictOn, Item, Flippable, Have

LEMMA JudgedIs ==
  ASSUME NEW path
  PROVE  /\ path \in DOMAIN Judged <=>
              /\ path \in Paths /\ VerdictOn(path) # {}
              /\ \A above \in Ancestors(path) : ~Mismatched(Now, above)
         /\ path \in DOMAIN Judged => Judged[path] = Item(Now, path)
BY DEF Judged, Compare, Listed, VerdictOn

LEMMA JudgedNextIs ==
  ASSUME NEW path
  PROVE  /\ path \in DOMAIN Judged' <=>
              /\ path \in Paths' /\ VerdictOn(path)' # {}
              /\ \A above \in Ancestors(path) : ~Mismatched(Now, above)'
         /\ path \in DOMAIN Judged' => Judged'[path] = Item(Now, path)'
BY DEF Judged, Compare, Listed, VerdictOn, Mismatched, Ancestors, Item

LEMMA SameJudged ==
  ASSUME UNCHANGED <<tree, server, options>>
  PROVE  Judged' = Judged /\ \A path \in Paths : VerdictOn(path)' = VerdictOn(path)
<1>1. Now' = Now
  BY DEF Now, Scanned, Discovered, Paths, Have, NoEntry, Side, Unknown
<1>2. ASSUME NEW path PROVE VerdictOn(path)' = VerdictOn(path) /\ Item(Now, path)' = Item(Now, path)
  BY <1>1, SameVerdict
<1>3. ASSUME NEW path PROVE Mismatched(Now, path)' <=> Mismatched(Now, path)
  BY <1>1 DEF Mismatched, Have, Side
<1>4. ASSUME NEW path PROVE path \in Listed(Now)' <=> path \in Listed(Now)
  BY <1>2, <1>3 DEF Listed, VerdictOn, Paths, Ancestors
<1>5. Listed(Now)' = Listed(Now)
  BY <1>4
<1> QED BY <1>2, <1>5 DEF Judged, Compare

(* What is not touched is judged as before, if nothing above it is.        *)
Quiet == \A path \in Paths : Mismatched(Now, path)' => Mismatched(Now, path)

LEMMA JudgedStays ==
  ASSUME UNCHANGED <<server, options>>, Paths' = Paths, Quiet, NEW path \in DOMAIN Judged,
         Ancestors(path) \subseteq Paths, \A side \in Side : tree'[side][path] = tree[side][path]
  PROVE  path \in DOMAIN Judged' /\ Judged'[path] = Judged[path]
<1>1. path \in Paths
  BY JudgedIs
<1>2. \A side \in Side : Now'[side][path] = Now[side][path]
  BY <1>1, Sees, SeesNext
<1>3. VerdictOn(path)' = VerdictOn(path) /\ Item(Now, path)' = Item(Now, path)
  BY <1>2, SameVerdict DEF Side
<1> QED BY <1>1, <1>3, JudgedIs, JudgedNextIs DEF Quiet

LEMMA VerdictStays ==
  ASSUME UNCHANGED <<server, options>>, Paths' = Paths, NEW path \in Paths,
         \A side \in Side : tree'[side][path] = tree[side][path]
  PROVE  VerdictOn(path)' = VerdictOn(path)
<1>1. \A side \in Side : Now'[side][path] = Now[side][path]
  BY Sees, SeesNext
<1> QED BY <1>1, SameVerdict DEF Side

(* There is a mismatch only where both sides have something.               *)
LEMMA MismatchIs ==
  ASSUME NEW path \in Paths
  PROVE  Mismatched(Now, path) <=>
           /\ options.subfolders \/ Len(path) = 1
           /\ \A side \in Side : Have(tree[side][path])
           /\ tree["local"][path].kind # tree["remote"][path].kind
<1>1. "local" \in Side /\ "remote" \in Side
  BY DEF Side
<1> QED BY <1>1, Sees DEF Mismatched, Have, NoEntry, Side

LEMMA MismatchNextIs ==
  ASSUME NEW path \in Paths', UNCHANGED options
  PROVE  Mismatched(Now, path)' <=>
           /\ options.subfolders \/ Len(path) = 1
           /\ \A side \in Side : Have(tree'[side][path])
           /\ tree'["local"][path].kind # tree'["remote"][path].kind
<1>1. "local" \in Side /\ "remote" \in Side
  BY DEF Side
<1> QED BY <1>1, SeesNext DEF Mismatched, Have, NoEntry, Side

(***************************************************************************)
(* What the verdicts and the rows say                                      *)
(***************************************************************************)
(* a copy is of a file, onto a file or nothing, and in the sync's direction *)
Ways == {"LocalToRemote", "RemoteToLocal", "Both"}

Actions == {"Skip", "Upload", "Download"}

MayDo(item, way) ==
    {"Skip"} \cup {action \in {"Upload", "Download"} :
                     /\ item.reason # "KindMismatch" /\ Source(action) \in item.on
                     /\ way # (IF action = "Upload" THEN "RemoteToLocal" ELSE "LocalToRemote")}

Offers(item, way) == {action \in MayDo(item, way) : action = item.action \/ item.flippable}

LEMMA ToSetJoined ==
  ASSUME NEW S, NEW a \in Seq(S), NEW b \in Seq(S)
  PROVE  a \o b \in Seq(S) /\ Len(a \o b) = Len(a) + Len(b) /\ ToSet(a \o b) = ToSet(a) \cup ToSet(b)
<1>1. /\ a \o b \in Seq(S) /\ Len(a \o b) = Len(a) + Len(b) /\ Len(a) \in Nat /\ Len(b) \in Nat
      /\ \A i \in 1..Len(a) : (a \o b)[i] = a[i]
      /\ \A i \in 1..Len(b) : (a \o b)[Len(a) + i] = b[i]
  OBVIOUS
<1>2. ToSet(a) = {a[i] : i \in 1..Len(a)} /\ ToSet(b) = {b[i] : i \in 1..Len(b)}
  BY DEF ToSet
<1>3. ToSet(a \o b) = {(a \o b)[i] : i \in 1..(Len(a) + Len(b))}
  BY <1>1 DEF ToSet
<1>4. ASSUME NEW x \in ToSet(a \o b) PROVE x \in ToSet(a) \cup ToSet(b)
  <2>1. PICK i \in 1..(Len(a) + Len(b)) : x = (a \o b)[i]
    BY <1>3, <1>4
  <2>2. CASE i <= Len(a)
    BY <1>1, <1>2, <2>1, <2>2
  <2>3. CASE ~(i <= Len(a))
    <3>1. i - Len(a) \in 1..Len(b) /\ Len(a) + (i - Len(a)) = i
      BY <1>1, <2>1, <2>3
    <3> QED BY <1>1, <1>2, <2>1, <3>1
  <2> QED BY <2>2, <2>3
<1>5. ASSUME NEW x \in ToSet(a) PROVE x \in ToSet(a \o b)
  <2>1. PICK i \in 1..Len(a) : x = a[i]
    BY <1>2, <1>5
  <2>2. i \in 1..(Len(a) + Len(b))
    BY <1>1, <2>1
  <2> QED BY <1>1, <1>3, <2>1, <2>2
<1>6. ASSUME NEW x \in ToSet(b) PROVE x \in ToSet(a \o b)
  <2>1. PICK i \in 1..Len(b) : x = b[i]
    BY <1>2, <1>6
  <2>2. Len(a) + i \in 1..(Len(a) + Len(b))
    BY <1>1, <2>1
  <2> QED BY <1>1, <1>3, <2>1, <2>2
<1> QED BY <1>1, <1>4, <1>5, <1>6

LEMMA AllowedIs ==
  ASSUME NEW item
  PROVE  /\ AllowedActions(item) \in Seq(Actions) /\ Len(AllowedActions(item)) \in Nat \ {0}
         /\ ToSet(AllowedActions(item)) = MayDo(item, options.direction)
<1> DEFINE up == item.reason # "KindMismatch" /\ "local" \in item.on /\ Sends("local")
           down == item.reason # "KindMismatch" /\ "remote" \in item.on /\ Sends("remote")
           a == IF up THEN <<"Upload">> ELSE <<>>
           b == IF down THEN <<"Download">> ELSE <<>>
           skip == <<"Skip">>
<1>1. AllowedActions(item) = skip \o a \o b
  BY DEF AllowedActions, Source
<1>2. MayDo(item, options.direction) =
        {"Skip"} \cup (IF up THEN {"Upload"} ELSE {}) \cup (IF down THEN {"Download"} ELSE {})
  BY DEF MayDo, Source, Sends
<1> HIDE DEF up, down
<1>3. skip \in Seq(Actions) /\ Len(skip) = 1 /\ ToSet(skip) = {"Skip"}
  BY DEF ToSet, Actions
<1>4. a \in Seq(Actions) /\ ToSet(a) = (IF up THEN {"Upload"} ELSE {}) /\ Len(a) \in Nat
  <2>1. CASE up
    BY <2>1 DEF ToSet, Actions
  <2>2. CASE ~up
    BY <2>2 DEF ToSet
  <2> QED BY <2>1, <2>2
<1>5. b \in Seq(Actions) /\ ToSet(b) = (IF down THEN {"Download"} ELSE {}) /\ Len(b) \in Nat
  <2>1. CASE down
    BY <2>1 DEF ToSet, Actions
  <2>2. CASE ~down
    BY <2>2 DEF ToSet
  <2> QED BY <2>1, <2>2
<1> HIDE DEF a, b, skip
<1>6. /\ skip \o a \in Seq(Actions) /\ Len(skip \o a) = Len(skip) + Len(a)
      /\ ToSet(skip \o a) = ToSet(skip) \cup ToSet(a)
  BY <1>3, <1>4, ToSetJoined
<1>7. /\ skip \o a \o b \in Seq(Actions) /\ Len(skip \o a \o b) = Len(skip \o a) + Len(b)
      /\ ToSet(skip \o a \o b) = ToSet(skip \o a) \cup ToSet(b)
  <2> DEFINE c == skip \o a
  <2>1. c \in Seq(Actions)
    BY <1>6
  <2> HIDE DEF c
  <2>2. c \o b \in Seq(Actions) /\ Len(c \o b) = Len(c) + Len(b) /\ ToSet(c \o b) = ToSet(c) \cup ToSet(b)
    BY <1>5, <2>1, ToSetJoined
  <2> QED BY <2>2 DEF c
<1>8. Len(skip \o a \o b) \in Nat \ {0}
  BY <1>3, <1>4, <1>5, <1>6, <1>7
<1> QED BY <1>1, <1>2, <1>3, <1>4, <1>5, <1>6, <1>7, <1>8

LEMMA AfterAllowed ==
  ASSUME NEW item, NEW current
  PROVE  ActionAfter(item, current) \in MayDo(item, options.direction)
<1> DEFINE allowed == AllowedActions(item)
<1>1. allowed \in Seq(Actions) /\ Len(allowed) \in Nat \ {0} /\ ToSet(allowed) = MayDo(item, options.direction)
  BY AllowedIs
<1>2. CASE current \in ToSet(allowed)
  <2> DEFINE n == CHOOSE n \in DOMAIN allowed : allowed[n] = current
  <2>1. n \in DOMAIN allowed
    BY <1>2 DEF ToSet
  <2>2. (n % Len(allowed)) + 1 \in DOMAIN allowed
    BY <1>1, <2>1
  <2> QED BY <1>1, <1>2, <2>2 DEF ActionAfter, ToSet
<1>3. CASE current \notin ToSet(allowed)
  BY <1>3 DEF ActionAfter, MayDo
<1> QED BY <1>2, <1>3

(* Something is said only of what somebody has; unless the kinds differ,   *)
(* of files, and of nothing but files.                                     *)
GoodAction(v) ==
    /\ v.action \in Actions
    /\ v.action = "Upload" => options.direction # "RemoteToLocal"
    /\ v.action = "Download" => options.direction # "LocalToRemote"

LEMMA OneWayIs ==
  ASSUME NEW reason, NEW v \in OneWay(reason), options.direction \in Ways
  PROVE  GoodAction(v) /\ v.reason = reason
BY DEF OneWay, Asking, Copying, Ways, GoodAction, Actions

LEMMA NewerIs ==
  ASSUME NEW side \in Side, NEW v \in NewerSide(side), options.direction \in Ways
  PROVE  GoodAction(v) /\ v.reason # "KindMismatch"
BY DEF NewerSide, Sends, From, Asking, Copying, Ways, GoodAction, Actions, Side

LEMMA OnlyIs ==
  ASSUME NEW side \in Side, NEW v \in OnlyOneSide(side), options.direction \in Ways
  PROVE  GoodAction(v) /\ v.reason # "KindMismatch" /\ (v.action # "Skip" => v.action = From(side))
BY DEF OnlyOneSide, Sends, From, Asking, Copying, Ways, GoodAction, Actions, Side

LEMMA ByTimeIs ==
  ASSUME NEW l, NEW r, NEW tolerance, NEW v \in ByTimeOf(l, r, tolerance), options.direction \in Ways
  PROVE  GoodAction(v) /\ v.reason # "KindMismatch"
<1>1. \/ v \in OneWay("SizeDiffersTimeUnknown") \/ v \in NewerSide("local") \/ v \in NewerSide("remote")
      \/ v \in Asking("SameTimeDifferentSize")
  BY DEF ByTimeOf, Believed
<1>2. CASE v \in Asking("SameTimeDifferentSize")
  BY <1>2 DEF Asking, GoodAction, Actions
<1> QED BY <1>1, <1>2, OneWayIs, NewerIs DEF Side

LEMMA VerdictIs ==
  ASSUME NEW l, NEW r, NEW v \in Verdict(l, r), options.direction \in Ways
  PROVE  /\ Have(l) \/ Have(r)
         /\ v.reason # "KindMismatch" => l.kind \in {"None", "File"} /\ r.kind \in {"None", "File"}
         /\ v.reason = "KindMismatch" => Have(l) /\ Have(r) /\ l.kind # r.kind /\ v.action = "Skip"
         /\ GoodAction(v) /\ (v.action = "Upload" => Have(l)) /\ (v.action = "Download" => Have(r))
<1>1. CASE Have(l) /\ Have(r) /\ l.kind # r.kind
  <2>1. v \in Asking("KindMismatch")
    BY <1>1 DEF Verdict
  <2> QED BY <1>1, <2>1 DEF Asking, GoodAction, Actions
<1>2. CASE Have(l) /\ Have(r) /\ l.kind = r.kind
  <2>1. l.kind = "File" /\ (v \in BySize(l, r) \/ v \in ByTime(l, r))
    BY <1>2 DEF Verdict
  <2>2. GoodAction(v) /\ v.reason # "KindMismatch"
    BY <2>1, OneWayIs, ByTimeIs DEF BySize, ByTime
  <2> QED BY <1>2, <2>1, <2>2
<1>3. CASE ~(Have(l) /\ Have(r)) /\ l.kind = "File"
  <2>1. v \in OnlyOneSide("local") /\ r.kind = "None"
    BY <1>3 DEF Verdict, Have
  <2>2. GoodAction(v) /\ v.reason # "KindMismatch" /\ (v.action # "Skip" => v.action = "Upload")
    BY <2>1, OnlyIs DEF Side, From
  <2> QED BY <1>3, <2>1, <2>2 DEF Have
<1>4. CASE ~(Have(l) /\ Have(r)) /\ l.kind # "File" /\ r.kind = "File"
  <2>1. v \in OnlyOneSide("remote") /\ l.kind = "None"
    BY <1>4 DEF Verdict, Have
  <2>2. GoodAction(v) /\ v.reason # "KindMismatch" /\ (v.action # "Skip" => v.action = "Download")
    BY <2>1, OnlyIs DEF Side, From
  <2> QED BY <1>4, <2>1, <2>2 DEF Have
<1> QED BY <1>1, <1>2, <1>3, <1>4 DEF Verdict

LEMMA ItemIs ==
  ASSUME NEW path \in Paths, VerdictOn(path) # {}, options.direction \in Ways
  PROVE  /\ \E side \in Side : Have(tree[side][path])
         /\ options.subfolders \/ Len(path) = 1
         /\ Item(Now, path).action \in Offers(Item(Now, path), options.direction)
         /\ \A side \in Side : side \in Item(Now, path).on <=> Have(tree[side][path])
         /\ Item(Now, path).reason # "KindMismatch" => \A side \in Side : tree[side][path].kind \in {"None", "File"}
         /\ Item(Now, path).reason = "KindMismatch" => Mismatched(Now, path)
<1> DEFINE deep == options.subfolders \/ Len(path) = 1
           item == Item(Now, path)
<1>1. "local" \in Side /\ "remote" \in Side /\ \A side \in Side : side \in {"local", "remote"}
  BY DEF Side
<1>2. \A side \in Side : Now[side][path] = IF Have(tree[side][path]) /\ deep THEN tree[side][path] ELSE NoEntry
  BY Sees
<1>3. PICK l, r : l = Now["local"][path] /\ r = Now["remote"][path]
  OBVIOUS
<1>4. PICK v \in Verdict(l, r) :
        item = [action |-> v.action, reason |-> v.reason, ticked |-> v.ticked, flippable |-> Flippable(v),
                on |-> {side \in Side : Have(Now[side][path])}]
  BY <1>3 DEF Item, VerdictOn
<1>5. item.action = v.action /\ item.reason = v.reason /\ item.on = {side \in Side : Have(Now[side][path])}
  BY <1>4
<1>6. /\ Have(l) \/ Have(r)
      /\ v.reason # "KindMismatch" => l.kind \in {"None", "File"} /\ r.kind \in {"None", "File"}
      /\ v.reason = "KindMismatch" => Have(l) /\ Have(r) /\ l.kind # r.kind /\ v.action = "Skip"
      /\ GoodAction(v) /\ (v.action = "Upload" => Have(l)) /\ (v.action = "Download" => Have(r))
  BY VerdictIs
<1> HIDE DEF item, deep
<1>7. deep /\ \E side \in Side : Have(tree[side][path])
  <2>1. ~Have(NoEntry)
    BY DEF Have, NoEntry
  <2> QED BY <1>1, <1>2, <1>3, <1>6, <2>1
<1>8. \A side \in Side : Now[side][path] = tree[side][path] \/ (~Have(tree[side][path]) /\ Now[side][path] = NoEntry)
  BY <1>2, <1>7
<1>9. \A side \in Side : Have(Now[side][path]) <=> Have(tree[side][path])
  BY <1>8 DEF Have, NoEntry
<1>10. item.reason # "KindMismatch" => \A side \in Side : tree[side][path].kind \in {"None", "File"}
  BY <1>1, <1>3, <1>5, <1>6, <1>8 DEF Have
<1>11. item.reason = "KindMismatch" => Mismatched(Now, path)
  BY <1>1, <1>3, <1>5, <1>6 DEF Mismatched
<1>12. item.action \in Offers(item, options.direction)
  <2>1. Source("Upload") = "local" /\ Source("Download") = "remote"
    BY DEF Source
  <2>2. (v.action = "Upload" => "local" \in item.on) /\ (v.action = "Download" => "remote" \in item.on)
    BY <1>1, <1>3, <1>5, <1>6
  <2>3. CASE v.action = "Skip"
    BY <1>5, <2>3 DEF Offers, MayDo
  <2>4. CASE v.action = "Upload"
    BY <1>5, <1>6, <2>1, <2>2, <2>4 DEF Offers, MayDo, GoodAction
  <2>5. CASE v.action = "Download"
    BY <1>5, <1>6, <2>1, <2>2, <2>5 DEF Offers, MayDo, GoodAction
  <2> QED BY <1>6, <2>3, <2>4, <2>5 DEF GoodAction, Actions
<1> QED BY <1>5, <1>7, <1>9, <1>10, <1>11, <1>12 DEF item, deep
(***************************************************************************)
(* What was copied is not copied again                                     *)
(***************************************************************************)
LEMMA VerdictOf ==
  ASSUME UNCHANGED <<server, options>>, NEW path, NEW l, NEW r,
         Now'["local"][path] = l, Now'["remote"][path] = r
  PROVE  VerdictOn(path)' = Verdict(l, r)
BY DEF VerdictOn, Verdict, Have, Asking, Copying, BySize, ByTime, ByTimeOf, OneWay, OnlyOneSide,
       NewerSide, Believed, TargetKeepsTimes, KeepsTimes, Sends, From, CompareTolerance, LaterOf, Unknown

LEMMA NoVerdict ==
  ASSUME NEW l, NEW r, l.kind = "File", r.kind = "File", l.size = r.size, l.time \in Nat, r.time \in Nat,
         CompareTolerance \in Nat,
         \/ Unknown \in {l.time, r.time}
         \/ l.time <= r.time + CompareTolerance /\ r.time <= l.time + CompareTolerance
         \/ options.direction = "LocalToRemote" /\ ~KeepsTimes("remote") /\ l.time <= r.time
  PROVE  Verdict(l, r) = {}
<1> DEFINE tolerance == CompareTolerance
<1>1. CASE options.by = "Size"
  BY <1>1 DEF Verdict, Have, BySize
<1>2. CASE options.by # "Size"
  <2>1. Verdict(l, r) = ByTimeOf(l, r, tolerance)
    BY <1>2 DEF Verdict, Have, ByTime
  <2> HIDE DEF tolerance
  <2>2. tolerance \in Nat /\ tolerance = CompareTolerance
    BY DEF tolerance
  <2>3. CASE Unknown \in {l.time, r.time}
    BY <2>1, <2>3 DEF ByTimeOf
  <2>4. CASE Unknown \notin {l.time, r.time} /\ l.time <= r.time + tolerance /\ r.time <= l.time + tolerance
    <3>1. ~(l.time > r.time + tolerance) /\ ~(r.time > l.time + tolerance)
      BY <2>2, <2>4
    <3> QED BY <2>1, <2>4, <3>1 DEF ByTimeOf
  <2>5. CASE /\ Unknown \notin {l.time, r.time} /\ r.time > l.time + tolerance
             /\ options.direction = "LocalToRemote" /\ ~KeepsTimes("remote") /\ l.time <= r.time
    <3>1. ~(l.time > r.time + tolerance)
      BY <2>2, <2>5
    <3>2. Verdict(l, r) = Believed(NewerSide("remote"), TRUE)
      BY <2>1, <2>5, <3>1 DEF ByTimeOf
    <3>3. NewerSide("remote") = Asking("TargetNewer") /\ ~TargetKeepsTimes
      BY <2>5 DEF NewerSide, Sends, TargetKeepsTimes
    <3> QED BY <3>2, <3>3 DEF Believed, Asking
  <2>6. \/ Unknown \in {l.time, r.time}
        \/ l.time <= r.time + tolerance /\ r.time <= l.time + tolerance
        \/ /\ r.time > l.time + tolerance
           /\ options.direction = "LocalToRemote" /\ ~KeepsTimes("remote") /\ l.time <= r.time
    BY <2>2
  <2> QED BY <2>3, <2>4, <2>5, <2>6
<1> QED BY <1>1, <1>2

LEMMA RoundedIs ==
  ASSUME SyncSound, NEW side \in Side, NEW time \in 0..Clock
  PROVE  /\ Rounded(side, time) \in 0..Clock /\ Rounded(side, time) <= time
         /\ CompareTolerance \in Nat /\ time <= Rounded(side, time) + CompareTolerance
<1>1. /\ Resolution["local"] \in Nat \ {0} /\ Resolution["remote"] \in Nat \ {0} /\ Resolution[side] \in Nat \ {0}
      /\ side = "local" \/ side = "remote"
      /\ Clock \in Nat /\ time \in Nat /\ time <= Clock
  BY DEF SyncSound, Side
<1>2. CompareTolerance \in Nat /\ Resolution[side] <= CompareTolerance
  BY <1>1 DEF CompareTolerance, LaterOf
<1>3. time % Resolution[side] \in 0..(Resolution[side] - 1) /\ time % Resolution[side] <= time
  <2>1. PICK n \in Nat \ {0} : n = Resolution[side]
    BY <1>1
  <2>2. time % n \in 0..(n - 1) /\ time % n <= time
    BY <1>1
  <2> QED BY <2>1, <2>2
<1> QED BY <1>1, <1>2, <1>3 DEF Rounded

(* what Written puts at the target                                         *)
LEMMA WrittenIs ==
  ASSUME SyncSound, NEW side \in Side, NEW from \in Entry, from.kind = "File", NEW kept \in BOOLEAN,
         NEW to, to = [from EXCEPT !.time = IF kept THEN Rounded(side, @) ELSE NewTime(side)]
  PROVE  to \in Entry /\ to.kind = "File"
<1>1. from.time \in 0..Clock /\ Clock \in Nat
  BY DEF Entry, SyncSound
<1>2. Rounded(side, from.time) \in 0..Clock
  BY <1>1, RoundedIs
<1>3. NewTime(side) \in 0..Clock
  BY <1>1 DEF NewTime, Unknown
<1>4. PICK time \in 0..Clock : time = IF kept THEN Rounded(side, from.time) ELSE NewTime(side)
  BY <1>2, <1>3
<1>5. to = [from EXCEPT !.time = time]
  BY <1>4
<1> QED BY <1>4, <1>5 DEF Entry

LEMMA CopyAgrees ==
  ASSUME SyncSound, Startable, options.direction \in Ways, server \in {"keeps", "tells", "silent"},
         NEW action \in {"Upload", "Download"},
         options.direction # (IF action = "Upload" THEN "RemoteToLocal" ELSE "LocalToRemote"),
         NEW from \in Entry, from.kind = "File", NEW kept \in BOOLEAN,
         kept \/ from.time = Unknown \/ ~KeepsTimes(Target(action)),
         NEW to, to = [from EXCEPT !.time = IF kept THEN Rounded(Target(action), @) ELSE NewTime(Target(action))]
  PROVE  /\ to \in Entry /\ to.kind = "File"
         /\ Verdict(IF action = "Upload" THEN from ELSE to, IF action = "Upload" THEN to ELSE from) = {}
<1> DEFINE side == Target(action)
<1>1. side \in Side /\ (side = "remote" <=> action = "Upload")
  BY DEF Target, Side
<1>2. from.time \in 0..Clock /\ from.time \in Nat /\ Clock \in Nat /\ from.time <= Clock
  BY DEF Entry, SyncSound
<1>3. /\ Rounded(side, from.time) \in 0..Clock /\ Rounded(side, from.time) <= from.time
      /\ CompareTolerance \in Nat /\ from.time <= Rounded(side, from.time) + CompareTolerance
  BY <1>1, <1>2, RoundedIs
<1>4. NewTime(side) \in 0..Clock /\ (server = "silent" /\ side = "remote" => NewTime(side) = Unknown)
      /\ (~(server = "silent" /\ side = "remote") => NewTime(side) = Clock)
  BY <1>2 DEF NewTime, Unknown
<1> HIDE DEF side
<1>5. to = [from EXCEPT !.time = IF kept THEN Rounded(side, from.time) ELSE NewTime(side)]
  BY DEF side
<1>6. PICK time \in 0..Clock : time = IF kept THEN Rounded(side, from.time) ELSE NewTime(side)
  BY <1>3, <1>4
<1>7. /\ to \in Entry /\ to.kind = "File" /\ to.size = from.size /\ to.time = time
  BY <1>5, <1>6 DEF Entry
<1>8. CASE kept
  <2>1. time <= from.time /\ from.time <= time + CompareTolerance /\ time <= from.time + CompareTolerance /\ time \in Nat
    BY <1>2, <1>3, <1>6, <1>8
  <2>2. to.time \in Nat /\ to.time <= from.time + CompareTolerance /\ from.time <= to.time + CompareTolerance
    BY <1>7, <2>1
  <2>3. Verdict(from, to) = {} /\ Verdict(to, from) = {}
    BY <1>2, <1>3, <1>7, <2>2, NoVerdict
  <2> QED BY <1>7, <2>3
<1>9. CASE ~kept /\ from.time = Unknown
  <2>1. to.time \in Nat
    BY <1>2, <1>7
  <2>2. Verdict(from, to) = {} /\ Verdict(to, from) = {}
    BY <1>2, <1>3, <1>7, <1>9, <2>1, NoVerdict
  <2> QED BY <1>7, <2>2
<1>10. CASE ~kept /\ from.time # Unknown
  <2>1. side = "remote" /\ action = "Upload" /\ ~KeepsTimes("remote")
    BY <1>1, <1>10 DEF KeepsTimes, side, Side
  <2>2. options.direction = "LocalToRemote"
    BY <2>1 DEF Startable, Ways, Side
  <2>3. time = Unknown \/ time = Clock
    BY <1>4, <1>6, <1>10
  <2>4. time = Unknown \/ from.time <= time
    BY <1>2, <2>3
  <2>5. to.time \in Nat /\ (to.time = Unknown \/ from.time <= to.time)
    BY <1>2, <1>7, <2>4
  <2>6. Verdict(from, to) = {}
    BY <1>2, <1>3, <1>7, <2>1, <2>2, <2>5, NoVerdict
  <2> QED BY <1>7, <2>1, <2>6
<1> QED BY <1>8, <1>9, <1>10
(***************************************************************************)
(* The invariant                                                           *)
(***************************************************************************)
(* the rows on the screen can do what they say                             *)
ViewOK(shown, rows, way) ==
    /\ shown = [ticked |-> shown.ticked, actions |-> shown.actions, visible |-> shown.visible]
    /\ shown.visible \subseteq DOMAIN rows
    /\ shown.actions = [path \in DOMAIN rows |-> shown.actions[path]]
    /\ \A path \in DOMAIN rows : shown.actions[path] \in Offers(rows[path], way)

(* a copy that is left: of a file, in a direction of the sync              *)
JobOK(job, folders, rows, chosen) ==
    /\ job = <<job[1], job[2]>> /\ job[1] \in DOMAIN rows /\ job[2] \in {"Upload", "Download"}
    /\ chosen.direction # (IF job[2] = "Upload" THEN "RemoteToLocal" ELSE "LocalToRemote")
    /\ chosen.subfolders \/ Len(job[1]) = 1
    /\ folders[Source(job[2])][job[1]].kind = "File"
    /\ folders[Target(job[2])][job[1]].kind \in {"None", "File"}

JobsOK(waiting, folders, rows, chosen) ==
    /\ \A job \in waiting : JobOK(job, folders, rows, chosen)
    /\ \A job, other \in waiting : job[1] = other[1] => job = other

(* partial files get in nobody's way                                       *)
PartsOK(folders, rows) ==
    \A path \in DOMAIN rows :
      /\ path \in DOMAIN Partial /\ Partial[path] \in DOMAIN folders["local"] /\ Partial[path] \notin DOMAIN rows
      /\ \A side \in Side : folders[side][Partial[path]].kind \in {"None", "File"}

TreeOK ==
    /\ tree \in [Side -> [Paths -> Entry]]
    /\ \A path \in Paths : Ancestors(path) \subseteq Paths

EndedOK ==
    /\ ended = [copied |-> ended.copied, unkept |-> ended.unkept, failed |-> ended.failed, refused |-> ended.refused]
    /\ ended.refused = {} /\ ended.unkept \subseteq ended.copied
    /\ ended.copied \subseteq DOMAIN items /\ ended.failed \subseteq DOMAIN items \ ended.copied
    /\ \A job \in jobs : job[1] \notin ended.copied \cup ended.failed

(* what was not copied is said to be as it was; what was is done with      *)
StillSaid ==
    /\ DOMAIN items \subseteq Paths
    /\ \A path \in DOMAIN items \ ended.copied : path \in DOMAIN Judged /\ Judged[path] = items[path]
    /\ \A path \in ended.copied \ ended.unkept : VerdictOn(path) = {}

SyncIInv ==
    /\ Startable /\ options.direction \in Ways /\ server \in {"keeps", "tells", "silent"}
    /\ TreeOK
    /\ progress \in {"start", "plan", "folders", "copies", "over", "failed"}
    /\ progress \in {"start", "plan", "folders"} => FolderSound(tree) /\ ended.copied = {}
    /\ progress \in {"start", "plan"} => ended = [copied |-> {}, unkept |-> {}, failed |-> {}, refused |-> {}] /\ jobs = {}
    /\ progress = "plan" => items = Judged /\ ViewOK(view, items, options.direction)
    /\ progress \in {"folders", "copies", "over"} => EndedOK /\ StillSaid
    /\ progress \in {"folders", "copies"} => JobsOK(jobs, tree, items, options) /\ PartsOK(tree, items)


LEMMA SyncInitial ==
  ASSUME SyncSound, SyncInit
  PROVE  SyncIInv
<1>1. FolderSound(tree)
  BY DEF SyncInit, SyncSound
<1>2. TreeOK
  BY <1>1 DEF FolderSound, TreeOK, Paths
<1> QED BY <1>1, <1>2 DEF SyncInit, SyncIInv, Ways

LEMMA SyncInvariantSettles ==
  ASSUME SyncIInv
  PROVE  SyncSettles
<1> SUFFICES ASSUME progress = "over"
             PROVE  /\ ended.refused = {}
                    /\ DOMAIN Judged \cap (ended.copied \ ended.unkept) = {}
                    /\ \A path \in ended.failed : path \in DOMAIN Judged /\ Judged[path] = items[path]
  BY DEF SyncSettles, Judged, Now
<1>1. EndedOK /\ StillSaid
  BY DEF SyncIInv
<1> QED BY <1>1, JudgedIs DEF EndedOK, StillSaid
(***************************************************************************)
(* Every step keeps it                                                     *)
(***************************************************************************)
LEMMA WorldStays ==
  ASSUME SyncIInv, UNCHANGED <<tree, server, options>>
  PROVE  Startable' /\ options'.direction \in Ways /\ server' \in {"keeps", "tells", "silent"} /\ TreeOK'
BY DEF SyncIInv, Startable, Valid, KeepsTimes, TreeOK, Paths, Ancestors

LEMMA SaidStays ==
  ASSUME StillSaid, UNCHANGED <<tree, server, options, items>>,
         ended'.copied = ended.copied, ended'.unkept = ended.unkept
  PROVE  StillSaid'
<1>1. Judged' = Judged /\ (\A path \in Paths : VerdictOn(path)' = VerdictOn(path)) /\ Paths' = Paths
  BY SameJudged DEF Paths
<1>2. ASSUME StillSaid, NEW path \in ended.copied \ ended.unkept PROVE VerdictOn(path)' = {}
  <2>1. CASE path \in Paths
    BY <1>1, <1>2, <2>1 DEF StillSaid
  <2>2. Now' = Now
    BY DEF Now, Scanned, Discovered, Paths, Have, NoEntry, Side, Unknown
  <2>3. VerdictOn(path)' = VerdictOn(path)
    BY <2>2, SameVerdict
  <2> QED BY <1>2, <2>3 DEF StillSaid
<1> QED BY <1>1, <1>2 DEF StillSaid

LEMMA ScanKeeps ==
  ASSUME SyncSound, SyncIInv, Scan
  PROVE  SyncIInv'
<1>1. /\ progress = "start" /\ items' = Judged /\ view' = Load(items')
      /\ progress' = (IF items' = <<>> THEN "over" ELSE "plan")
      /\ UNCHANGED <<tree, server, options, jobs, ended>>
  BY DEF Scan, PlanReady, Judged, Now
<1>2. /\ FolderSound(tree) /\ jobs = {} /\ options.direction \in Ways
      /\ ended = [copied |-> {}, unkept |-> {}, failed |-> {}, refused |-> {}]
  BY <1>1 DEF SyncIInv
<1>3. Judged' = Judged /\ Paths' = Paths
  BY <1>1, SameJudged DEF Paths
<1>4. ViewOK(view', items', options'.direction)
  <2>1. PICK rows : rows = items'
    OBVIOUS
  <2>2. ASSUME NEW path \in DOMAIN rows PROVE rows[path].action \in Offers(rows[path], options.direction)
    BY <1>1, <1>2, <2>1, <2>2, JudgedIs, ItemIs
  <2> QED BY <1>1, <2>1, <2>2 DEF Load, ViewOK
<1>5. EndedOK'
  BY <1>1, <1>2 DEF EndedOK
<1>6. StillSaid'
  <2>1. DOMAIN items' \subseteq Paths'
    BY <1>1, <1>3, JudgedIs
  <2> QED BY <1>1, <1>2, <1>3, <2>1 DEF StillSaid
<1> QED BY <1>1, <1>2, <1>3, <1>4, <1>5, <1>6, WorldStays DEF SyncIInv

LEMMA KeyPressKeeps ==
  ASSUME SyncSound, SyncIInv, KeyPress
  PROVE  SyncIInv'
<1>1. /\ progress = "plan" /\ UNCHANGED <<tree, server, options, items, jobs, ended, progress>>
      /\ \/ \E path \in view.visible : view' \in {Toggled(path), Flipped(path)}
         \/ view' \in {TickedAll, UntickedAll} \cup Filtered
  BY DEF KeyPress
<1>2. PICK way : way = options.direction
  OBVIOUS
<1>3. ViewOK(view, items, way) /\ items = Judged
  BY <1>1, <1>2 DEF SyncIInv
<1>4. /\ view = [ticked |-> view.ticked, actions |-> view.actions, visible |-> view.visible]
      /\ view.visible \subseteq DOMAIN items
      /\ view.actions = [path \in DOMAIN items |-> view.actions[path]]
      /\ \A path \in DOMAIN items : view.actions[path] \in Offers(items[path], way)
  BY <1>3 DEF ViewOK
<1>5. ASSUME NEW path \in view.visible PROVE ViewOK(Flipped(path), items, way)
  <2>1. CASE ~items[path].flippable
    BY <1>3, <2>1 DEF Flipped
  <2>2. CASE items[path].flippable
    <3>1. PICK next : next = ActionAfter(items[path], view.actions[path])
      OBVIOUS
    <3>2. next \in Offers(items[path], way)
      BY <1>2, <2>2, <3>1, AfterAllowed DEF Offers
    <3>3. PICK ticked : ticked = IF next = "Skip" THEN view.ticked \ {path} ELSE view.ticked \cup {path}
      OBVIOUS
    <3>4. Flipped(path) = [ticked |-> ticked, actions |-> [view.actions EXCEPT ![path] = next], visible |-> view.visible]
      BY <1>4, <2>2, <3>1, <3>3 DEF Flipped
    <3> QED BY <1>4, <3>2, <3>4 DEF ViewOK
  <2> QED BY <2>1, <2>2
<1>6. ASSUME NEW ticked PROVE ViewOK([view EXCEPT !.ticked = ticked], items, way)
  <2>1. [view EXCEPT !.ticked = ticked] = [ticked |-> ticked, actions |-> view.actions, visible |-> view.visible]
    BY <1>4
  <2> QED BY <1>4, <2>1 DEF ViewOK
<1>7. ASSUME NEW path \in view.visible PROVE ViewOK(Toggled(path), items, way)
  BY <1>5, <1>6, <1>7 DEF Toggled
<1>8. ViewOK(TickedAll, items, way)
  <2> DEFINE back == {path \in view.visible : items[path].action # "Skip"}
             actions == [path \in DOMAIN items |-> IF path \in back THEN items[path].action ELSE view.actions[path]]
  <2>1. TickedAll = [view EXCEPT !.actions = actions, !.ticked = @ \cup back]
    BY Zenon DEF TickedAll
  <2>2. TickedAll = [ticked |-> view.ticked \cup back, actions |-> actions, visible |-> view.visible]
    <3> HIDE DEF actions, back
    <3> QED BY <1>4, <2>1
  <2>3. ASSUME NEW path \in DOMAIN items PROVE items[path].action \in Offers(items[path], way)
    <3>1. options.direction \in Ways
      BY DEF SyncIInv
    <3> QED BY <1>2, <1>3, <2>3, <3>1, JudgedIs, ItemIs
  <2> QED BY <1>4, <2>2, <2>3 DEF ViewOK
<1>9. ASSUME NEW rows \in SUBSET DOMAIN items PROVE ViewOK([view EXCEPT !.visible = rows], items, way)
  <2>1. [view EXCEPT !.visible = rows] = [ticked |-> view.ticked, actions |-> view.actions, visible |-> rows]
    BY <1>4
  <2> QED BY <1>4, <2>1 DEF ViewOK
<1>10. ViewOK(view', items, way)
  BY <1>1, <1>5, <1>6, <1>7, <1>8, <1>9 DEF UntickedAll, Filtered
<1>11. Judged' = Judged
  BY <1>1, SameJudged
<1> QED BY <1>1, <1>2, <1>3, <1>10, <1>11, WorldStays DEF SyncIInv
LEMMA RunSyncKeeps ==
  ASSUME SyncSound, SyncIInv, RunSync
  PROVE  SyncIInv'
<1>1. /\ progress = "plan" /\ jobs' = {choice \in VisibleChoices : Applies(choice)}
      /\ ended' = [ended EXCEPT !.refused = {c[1] : c \in VisibleChoices \ jobs'}]
      /\ progress' = (IF jobs' = {} THEN "over" ELSE "folders")
      /\ UNCHANGED <<tree, server, options, items>>
  BY DEF RunSync
<1>2. /\ FolderSound(tree) /\ options.direction \in Ways /\ items = Judged
      /\ ended = [copied |-> {}, unkept |-> {}, failed |-> {}, refused |-> {}]
      /\ ViewOK(view, items, options.direction)
  BY <1>1 DEF SyncIInv
<1>3. ASSUME NEW path \in DOMAIN items
      PROVE  path \in Paths /\ VerdictOn(path) # {} /\ items[path] = Item(Now, path)
  BY <1>2, JudgedIs
<1>4. ASSUME NEW choice \in VisibleChoices
      PROVE  Applies(choice) /\ JobOK(choice, tree, items, options)
  <2>1. PICK path \in view.visible \cap view.ticked : view.actions[path] # "Skip" /\ choice = <<path, view.actions[path]>>
    BY DEF VisibleChoices
  <2>2. PICK action : action = view.actions[path]
    OBVIOUS
  <2>3. path \in DOMAIN items /\ action \in Offers(items[path], options.direction)
    BY <1>2, <2>1, <2>2 DEF ViewOK
  <2>4. choice[1] = path /\ choice[2] = action /\ choice = <<path, action>>
    BY <2>1, <2>2
  <2>5. Applies(choice)
    BY <2>3, <2>4, AllowedIs DEF Applies, Offers
  <2>6. /\ action \in {"Upload", "Download"} /\ items[path].reason # "KindMismatch" /\ Source(action) \in items[path].on
        /\ options.direction # (IF action = "Upload" THEN "RemoteToLocal" ELSE "LocalToRemote")
    BY <2>1, <2>2, <2>3 DEF Offers, MayDo
  <2>7. Source(action) \in Side /\ Target(action) \in Side
    BY DEF Source, Target, Side
  <2>8. /\ options.subfolders \/ Len(path) = 1
        /\ Have(tree[Source(action)][path])
        /\ \A side \in Side : tree[side][path].kind \in {"None", "File"}
    BY <1>2, <1>3, <2>3, <2>6, <2>7, ItemIs
  <2> QED BY <2>3, <2>4, <2>5, <2>6, <2>7, <2>8 DEF JobOK, Have
<1>5. jobs' = VisibleChoices /\ ended' = [ended EXCEPT !.refused = {}]
  <2>1. jobs' = VisibleChoices
    BY <1>1, <1>4
  <2> QED BY <1>1, <2>1
<1>6. JobsOK(jobs', tree', items', options')
  <2>1. ASSUME NEW job \in VisibleChoices, NEW other \in VisibleChoices, job[1] = other[1] PROVE job = other
    <3>1. PICK p \in view.visible \cap view.ticked : job = <<p, view.actions[p]>>
      BY DEF VisibleChoices
    <3>2. PICK q \in view.visible \cap view.ticked : other = <<q, view.actions[q]>>
      BY DEF VisibleChoices
    <3> QED BY <2>1, <3>1, <3>2
  <2> QED BY <1>1, <1>4, <1>5, <2>1 DEF JobsOK
<1>7. PartsOK(tree', items')
  <2>1. ASSUME NEW path \in DOMAIN items
        PROVE  /\ path \in DOMAIN Partial /\ Partial[path] \in DOMAIN tree["local"] /\ Partial[path] \notin DOMAIN items
               /\ \A side \in Side : tree[side][Partial[path]].kind \in {"None", "File"}
    <3>1. PICK side \in Side : Have(tree[side][path])
      BY <1>2, <1>3, <2>1, ItemIs
    <3>2. /\ path \in DOMAIN Partial /\ Partial[path] \in Paths
          /\ \A other \in Side : ~Have(tree[other][Partial[path]])
      BY <1>2, <1>3, <2>1, <3>1 DEF FolderSound, Paths
    <3>3. Partial[path] \notin DOMAIN items
      BY <1>2, <1>3, <3>2, ItemIs
    <3> QED BY <3>2, <3>3 DEF Have, Paths
  <2> QED BY <1>1, <2>1 DEF PartsOK
<1>8. EndedOK'
  BY <1>1, <1>2, <1>5 DEF EndedOK
<1>9. StillSaid
  BY <1>2, <1>3 DEF StillSaid
<1>10. StillSaid'
  BY <1>1, <1>2, <1>5, <1>9, SaidStays
<1> QED BY <1>1, <1>2, <1>5, <1>6, <1>7, <1>8, <1>10, WorldStays DEF SyncIInv

LEMMA FoldersFailKeeps ==
  ASSUME SyncSound, SyncIInv, FoldersFail
  PROVE  SyncIInv'
<1>1. /\ progress = "folders" /\ progress' = (IF jobs' = {} THEN "over" ELSE "folders")
      /\ jobs' \subseteq jobs /\ ended' = [ended EXCEPT !.failed = @ \cup {job[1] : job \in jobs \ jobs'}]
      /\ UNCHANGED <<tree, server, options, items, view>>
  BY DEF FoldersFail
<1>2. /\ FolderSound(tree) /\ ended.copied = {} /\ EndedOK /\ StillSaid
      /\ JobsOK(jobs, tree, items, options) /\ PartsOK(tree, items)
  BY <1>1 DEF SyncIInv
<1>3. PICK failed : failed = ended.failed \cup {job[1] : job \in jobs \ jobs'}
  OBVIOUS
<1>4. ended' = [copied |-> ended.copied, unkept |-> ended.unkept, failed |-> failed, refused |-> ended.refused]
  BY <1>1, <1>2, <1>3 DEF EndedOK
<1>5. EndedOK'
  <2>1. failed \subseteq DOMAIN items \ ended.copied
    BY <1>2, <1>3 DEF EndedOK, JobsOK, JobOK
  <2>2. \A job \in jobs' : job[1] \notin ended.copied \cup failed
    BY <1>1, <1>2, <1>3 DEF EndedOK, JobsOK
  <2>3. /\ ended'.copied = ended.copied /\ ended'.unkept = ended.unkept /\ ended'.failed = failed
        /\ ended'.refused = ended.refused
    BY <1>4
  <2>4. ended' = [copied |-> ended'.copied, unkept |-> ended'.unkept, failed |-> ended'.failed, refused |-> ended'.refused]
    BY <1>4, <2>3
  <2> QED BY <1>1, <1>2, <2>1, <2>2, <2>3, <2>4 DEF EndedOK
<1>6. StillSaid'
  BY <1>1, <1>2, <1>4, SaidStays
<1>7. JobsOK(jobs', tree', items', options') /\ PartsOK(tree', items')
  BY <1>1, <1>2 DEF JobsOK
<1>8. FolderSound(tree)' /\ ended'.copied = {}
  BY <1>1, <1>2, <1>4 DEF FolderSound, Ancestors
<1> QED BY <1>1, <1>5, <1>6, <1>7, <1>8, WorldStays DEF SyncIInv

LEMMA ScanOddlyKeeps ==
  ASSUME SyncIInv, ScanOddly \/ CancelSync
  PROVE  SyncIInv'
<1>1. progress' = "failed" /\ UNCHANGED <<tree, server, options>>
  BY DEF ScanOddly, CancelSync
<1> QED BY <1>1, WorldStays DEF SyncIInv

(* a file that is written somewhere                                        *)
Puts(side, path, entry) == tree' = [tree EXCEPT ![side][path] = entry]

LEMMA TreeAt ==
  ASSUME SyncSound, TreeOK, NEW side \in Side, NEW path \in Paths, NEW entry \in Entry,
         Puts(side, path, entry)
  PROVE  /\ TreeOK' /\ Paths' = Paths /\ tree'[side][path] = entry
         /\ \A other \in Side, q \in Paths : (other # side \/ q # path) => tree'[other][q] = tree[other][q]
<1>1. tree \in [Side -> [Paths -> Entry]] /\ "local" \in Side /\ "remote" \in Side
  BY DEF TreeOK, Side
<1>2. /\ tree' \in [Side -> [Paths -> Entry]] /\ tree'[side][path] = entry
      /\ \A other \in Side, q \in Paths : (other # side \/ q # path) => tree'[other][q] = tree[other][q]
  BY <1>1 DEF Puts
<1>3. Paths' = Paths
  BY <1>1, <1>2 DEF Paths
<1> QED BY <1>2, <1>3 DEF TreeOK, Ancestors

LEMMA SaidStaysBut ==
  ASSUME SyncSound, TreeOK, StillSaid, Quiet, UNCHANGED <<server, options, items>>, Paths' = Paths, NEW done,
         \A path \in DOMAIN items \ done, side \in Side : tree'[side][path] = tree[side][path],
         done \subseteq DOMAIN items, ended'.copied = ended.copied \cup done, ended.copied \subseteq DOMAIN items,
         done \cap ended.copied = {}, ended.unkept \subseteq ended'.unkept,
         \A path \in done \ ended'.unkept : VerdictOn(path)' = {}
  PROVE  StillSaid'
<1>1. ASSUME NEW path \in DOMAIN items' \ ended'.copied PROVE path \in DOMAIN Judged' /\ Judged'[path] = items'[path]
  <2>1. path \in DOMAIN items \ ended.copied /\ path \notin done
    BY <1>1
  <2>2. path \in DOMAIN Judged /\ Judged[path] = items[path] /\ Ancestors(path) \subseteq Paths
    BY <2>1 DEF StillSaid, TreeOK
  <2> QED BY <1>1, <2>1, <2>2, JudgedStays
<1>2. ASSUME NEW path \in ended'.copied \ ended'.unkept PROVE VerdictOn(path)' = {}
  <2>1. CASE path \in done
    BY <1>2, <2>1
  <2>2. CASE path \notin done
    <3>1. path \in ended.copied \ ended.unkept /\ path \in Paths /\ path \in DOMAIN items \ done
      BY <1>2, <2>2 DEF StillSaid
    <3>2. VerdictOn(path)' = VerdictOn(path)
      BY <3>1, VerdictStays
    <3> QED BY <3>1, <3>2 DEF StillSaid
  <2> QED BY <2>1, <2>2
<1>3. DOMAIN items' \subseteq Paths'
  BY DEF StillSaid
<1> QED BY <1>1, <1>2, <1>3 DEF StillSaid

LEMMA CopyJobKeeps ==
  ASSUME SyncSound, SyncIInv, CopyJob
  PROVE  SyncIInv'
<1>1. PICK job \in jobs :
        \E kept \in BOOLEAN :
          /\ kept => SetsTime(job)
          /\ tree' = [tree EXCEPT ![Target(job[2])][job[1]] = Written(job, kept)]
          /\ jobs' = jobs \ {job}
          /\ ended' = [ended EXCEPT !.copied = @ \cup {job[1]},
                                    !.unkept = IF SetsTime(job) /\ ~kept THEN @ \cup {job[1]} ELSE @]
          /\ progress' = UntilCopied(jobs')
  BY DEF CopyJob
<1>2. PICK kept \in BOOLEAN :
        /\ kept => SetsTime(job)
        /\ tree' = [tree EXCEPT ![Target(job[2])][job[1]] = Written(job, kept)]
        /\ jobs' = jobs \ {job}
        /\ ended' = [ended EXCEPT !.copied = @ \cup {job[1]},
                                  !.unkept = IF SetsTime(job) /\ ~kept THEN @ \cup {job[1]} ELSE @]
        /\ progress' = UntilCopied(jobs')
  BY <1>1
<1>3. progress = "copies" /\ UNCHANGED <<server, options, items, view>>
  BY DEF CopyJob
<1>4. /\ TreeOK /\ EndedOK /\ StillSaid /\ JobsOK(jobs, tree, items, options) /\ PartsOK(tree, items)
      /\ Startable /\ options.direction \in Ways /\ server \in {"keeps", "tells", "silent"}
  BY <1>3 DEF SyncIInv
<1>5. PICK path, action : path = job[1] /\ action = job[2]
  OBVIOUS
<1>6. /\ path \in DOMAIN items /\ path \in Paths /\ action \in {"Upload", "Download"}
      /\ options.direction # (IF action = "Upload" THEN "RemoteToLocal" ELSE "LocalToRemote")
      /\ options.subfolders \/ Len(path) = 1
      /\ tree[Source(action)][path].kind = "File"
      /\ path \notin ended.copied \cup ended.failed
  BY <1>4, <1>5 DEF JobsOK, JobOK, StillSaid, EndedOK
<1>7. /\ Source(action) \in Side /\ Target(action) \in Side /\ Source(action) # Target(action)
      /\ \A side \in Side : side = Source(action) \/ side = Target(action)
      /\ action = "Upload" => Source(action) = "local" /\ Target(action) = "remote"
      /\ action = "Download" => Source(action) = "remote" /\ Target(action) = "local"
  BY <1>6 DEF Source, Target, Side
<1>8. PICK from \in Entry : from = tree[Source(action)][path]
  BY <1>4, <1>6, <1>7 DEF TreeOK
<1>9. PICK to : to = Written(job, kept)
  OBVIOUS
<1>10. to = [from EXCEPT !.time = IF kept THEN Rounded(Target(action), @) ELSE NewTime(Target(action))]
  BY <1>5, <1>8, <1>9 DEF Written
<1>11. to \in Entry /\ to.kind = "File"
  BY <1>4, <1>6, <1>7, <1>8, <1>10, WrittenIs
<1>12. /\ TreeOK' /\ Paths' = Paths /\ tree'[Target(action)][path] = to
       /\ \A other \in Side, q \in Paths : (other # Target(action) \/ q # path) => tree'[other][q] = tree[other][q]
  <2>1. PICK side \in Side : side = Target(action)
    BY <1>7
  <2>2. Puts(side, path, to)
    BY <1>2, <1>5, <1>9, <2>1 DEF Puts
  <2>3. /\ TreeOK' /\ Paths' = Paths /\ tree'[side][path] = to
        /\ \A other \in Side, q \in Paths : (other # side \/ q # path) => tree'[other][q] = tree[other][q]
    BY <1>4, <1>6, <1>11, <2>2, TreeAt
  <2> QED BY <2>1, <2>3
<1>13. tree'[Source(action)][path] = from
  BY <1>6, <1>7, <1>8, <1>12
<1>14. Quiet
  <2>1. ASSUME NEW q \in Paths, Mismatched(Now, q)' PROVE Mismatched(Now, q)
    <3>1. tree'["local"][q].kind # tree'["remote"][q].kind
      BY <1>3, <1>12, <2>1, MismatchNextIs
    <3>2. q # path
      BY <1>6, <1>7, <1>8, <1>11, <1>12, <1>13, <3>1
    <3>3. \A side \in Side : tree'[side][q] = tree[side][q]
      BY <1>12, <3>2
    <3> QED BY <1>3, <1>12, <2>1, <3>3, MismatchIs, MismatchNextIs DEF Side
  <2> QED BY <2>1 DEF Quiet
<1>15. PICK unkept : unkept = IF SetsTime(job) /\ ~kept THEN ended.unkept \cup {path} ELSE ended.unkept
  OBVIOUS
<1>16. ended' = [copied |-> ended.copied \cup {path}, unkept |-> unkept, failed |-> ended.failed, refused |-> ended.refused]
  BY <1>2, <1>4, <1>5, <1>15 DEF EndedOK
<1>17. /\ ended'.copied = ended.copied \cup {path} /\ ended'.unkept = unkept /\ ended'.failed = ended.failed
       /\ ended'.refused = ended.refused
       /\ ended' = [copied |-> ended'.copied, unkept |-> ended'.unkept, failed |-> ended'.failed, refused |-> ended'.refused]
  BY <1>16
<1>18. EndedOK'
  <2>1. \A other \in jobs' : other[1] # path
    BY <1>2, <1>4, <1>5 DEF JobsOK
  <2>2. unkept \subseteq ended.copied \cup {path}
    BY <1>4, <1>15 DEF EndedOK
  <2> QED BY <1>2, <1>3, <1>4, <1>6, <1>17, <2>1, <2>2 DEF EndedOK
<1>19. ASSUME path \notin unkept PROVE VerdictOn(path)' = {}
  <2>1. kept \/ from.time = Unknown \/ ~KeepsTimes(Target(action))
    BY <1>5, <1>8, <1>15, <1>19 DEF SetsTime
  <2>2. Verdict(IF action = "Upload" THEN from ELSE to, IF action = "Upload" THEN to ELSE from) = {}
    BY <1>4, <1>6, <1>8, <1>10, <2>1, CopyAgrees
  <2>3. Now'[Source(action)][path] = from /\ Now'[Target(action)][path] = to
    BY <1>3, <1>6, <1>7, <1>8, <1>11, <1>12, <1>13, SeesNext DEF Have
  <2>4. CASE action = "Upload"
    BY <1>3, <1>7, <2>2, <2>3, <2>4, VerdictOf
  <2>5. CASE action = "Download"
    BY <1>3, <1>7, <2>2, <2>3, <2>5, VerdictOf
  <2> QED BY <1>6, <2>4, <2>5
<1>20. StillSaid'
  <2>1. DOMAIN items \subseteq Paths
    BY <1>4 DEF StillSaid
  <2>2. \A q \in DOMAIN items \ {path}, side \in Side : tree'[side][q] = tree[side][q]
    BY <1>12, <2>1
  <2>3. PICK done : done = {path}
    OBVIOUS
  <2>4. \A q \in DOMAIN items \ done, side \in Side : tree'[side][q] = tree[side][q]
    BY <2>2, <2>3
  <2>5. /\ done \subseteq DOMAIN items /\ ended'.copied = ended.copied \cup done /\ ended.copied \subseteq DOMAIN items
        /\ done \cap ended.copied = {} /\ ended.unkept \subseteq ended'.unkept
    BY <1>4, <1>6, <1>15, <1>17, <2>3 DEF EndedOK
  <2>6. \A q \in done \ ended'.unkept : VerdictOn(q)' = {}
    BY <1>17, <1>19, <2>3
  <2> QED BY <1>3, <1>4, <1>12, <1>14, <2>4, <2>5, <2>6, SaidStaysBut
<1>21. JobsOK(jobs', tree', items', options')
  <2>1. ASSUME NEW other \in jobs' PROVE JobOK(other, tree', items', options')
    <3>1. other \in jobs /\ other[1] # path /\ JobOK(other, tree, items, options)
      BY <1>2, <1>4, <1>5, <2>1 DEF JobsOK
    <3>2. other[1] \in Paths /\ Source(other[2]) \in Side /\ Target(other[2]) \in Side
      BY <1>4, <3>1 DEF JobOK, StillSaid, Source, Target, Side
    <3> QED BY <1>3, <1>12, <3>1, <3>2 DEF JobOK
  <2> QED BY <1>2, <1>4, <2>1 DEF JobsOK
<1>22. PartsOK(tree', items')
  <2>1. ASSUME NEW q \in DOMAIN items
        PROVE  /\ q \in DOMAIN Partial /\ Partial[q] \in DOMAIN tree'["local"] /\ Partial[q] \notin DOMAIN items
               /\ \A side \in Side : tree'[side][Partial[q]].kind \in {"None", "File"}
    <3>1. /\ q \in DOMAIN Partial /\ Partial[q] \in Paths /\ Partial[q] \notin DOMAIN items
          /\ \A side \in Side : tree[side][Partial[q]].kind \in {"None", "File"}
      BY <1>4, <2>1 DEF PartsOK, Paths
    <3>2. \A side \in Side : tree'[side][Partial[q]] = tree[side][Partial[q]]
      BY <1>6, <1>12, <3>1
    <3> QED BY <1>12, <3>1, <3>2 DEF Paths
  <2> QED BY <1>3, <2>1 DEF PartsOK
<1>23. progress' \in {"copies", "over"}
  BY <1>2 DEF UntilCopied
<1>24. Startable' /\ options'.direction \in Ways /\ server' \in {"keeps", "tells", "silent"}
  BY <1>3, <1>4 DEF Startable, Valid, KeepsTimes
<1> QED BY <1>12, <1>18, <1>20, <1>21, <1>22, <1>23, <1>24 DEF SyncIInv

LEMMA CopyFailsKeeps ==
  ASSUME SyncSound, SyncIInv, CopyFails
  PROVE  SyncIInv'
<1>1. PICK job \in jobs :
        \E entry \in Leftovers(Target(job[2])) :
          /\ tree' = [tree EXCEPT ![Target(job[2])][Partial[job[1]]] = entry]
          /\ jobs' = jobs \ {job}
          /\ ended' = [ended EXCEPT !.failed = @ \cup {job[1]}]
          /\ progress' = UntilCopied(jobs')
  BY DEF CopyFails
<1>2. PICK entry \in Leftovers(Target(job[2])) :
        /\ tree' = [tree EXCEPT ![Target(job[2])][Partial[job[1]]] = entry]
        /\ jobs' = jobs \ {job}
        /\ ended' = [ended EXCEPT !.failed = @ \cup {job[1]}]
        /\ progress' = UntilCopied(jobs')
  BY <1>1
<1>3. progress = "copies" /\ UNCHANGED <<server, options, items, view>>
  BY DEF CopyFails
<1>4. /\ TreeOK /\ EndedOK /\ StillSaid /\ JobsOK(jobs, tree, items, options) /\ PartsOK(tree, items)
      /\ Startable /\ options.direction \in Ways /\ server \in {"keeps", "tells", "silent"}
  BY <1>3 DEF SyncIInv
<1>5. PICK path, action : path = job[1] /\ action = job[2]
  OBVIOUS
<1>6. path \in DOMAIN items /\ path \in Paths /\ Target(action) \in Side /\ path \notin ended.copied \cup ended.failed
  BY <1>4, <1>5 DEF JobsOK, JobOK, StillSaid, EndedOK, Target, Side
<1>7. PICK partial \in Paths : partial = Partial[path]
  BY <1>4, <1>6 DEF PartsOK, Paths
<1>8. partial \notin DOMAIN items /\ \A side \in Side : tree[side][partial].kind \in {"None", "File"}
  BY <1>4, <1>6, <1>7 DEF PartsOK
<1>9. entry \in Entry /\ entry.kind \in {"None", "File"}
  BY <1>2, <1>5, <1>6 DEF Leftovers, NoEntry, NewTime, Entry, SyncSound, Unknown
<1>10. /\ TreeOK' /\ Paths' = Paths /\ tree'[Target(action)][partial] = entry
       /\ \A other \in Side, q \in Paths : (other # Target(action) \/ q # partial) => tree'[other][q] = tree[other][q]
  <2>1. PICK side \in Side : side = Target(action)
    BY <1>6
  <2>2. Puts(side, partial, entry)
    BY <1>2, <1>5, <1>7, <2>1 DEF Puts
  <2>3. /\ TreeOK' /\ Paths' = Paths /\ tree'[side][partial] = entry
        /\ \A other \in Side, q \in Paths : (other # side \/ q # partial) => tree'[other][q] = tree[other][q]
    BY <1>4, <1>9, <2>2, TreeAt
  <2> QED BY <2>1, <2>3
<1>11. \A side \in Side : tree'[side][partial].kind \in {"None", "File"}
  BY <1>8, <1>9, <1>10
<1>12. Quiet
  <2>1. ASSUME NEW q \in Paths, Mismatched(Now, q)' PROVE Mismatched(Now, q)
    <3>1. (\A side \in Side : Have(tree'[side][q])) /\ tree'["local"][q].kind # tree'["remote"][q].kind
      BY <1>3, <1>10, <2>1, MismatchNextIs
    <3>2. q # partial
      BY <1>11, <3>1 DEF Have, Side
    <3>3. \A side \in Side : tree'[side][q] = tree[side][q]
      BY <1>10, <3>2
    <3> QED BY <1>3, <1>10, <2>1, <3>3, MismatchIs, MismatchNextIs DEF Side
  <2> QED BY <2>1 DEF Quiet
<1>13. ended' = [copied |-> ended.copied, unkept |-> ended.unkept, failed |-> ended.failed \cup {path}, refused |-> ended.refused]
  BY <1>2, <1>4, <1>5 DEF EndedOK
<1>14. /\ ended'.copied = ended.copied /\ ended'.unkept = ended.unkept /\ ended'.failed = ended.failed \cup {path}
       /\ ended'.refused = ended.refused
       /\ ended' = [copied |-> ended'.copied, unkept |-> ended'.unkept, failed |-> ended'.failed, refused |-> ended'.refused]
  BY <1>13
<1>15. EndedOK'
  <2>1. \A other \in jobs' : other[1] # path
    BY <1>2, <1>4, <1>5 DEF JobsOK
  <2> QED BY <1>2, <1>3, <1>4, <1>6, <1>14, <2>1 DEF EndedOK
<1>16. DOMAIN items \subseteq Paths
  BY <1>4 DEF StillSaid
<1>17. \A q \in DOMAIN items, side \in Side : tree'[side][q] = tree[side][q]
  BY <1>8, <1>10, <1>16
<1>18. StillSaid'
  BY <1>3, <1>4, <1>10, <1>12, <1>14, <1>17, SaidStaysBut DEF EndedOK
<1>19. JobsOK(jobs', tree', items', options')
  <2>1. ASSUME NEW other \in jobs' PROVE JobOK(other, tree', items', options')
    <3>1. JobOK(other, tree, items, options)
      BY <1>2, <1>4, <2>1 DEF JobsOK
    <3>2. other[1] \in DOMAIN items /\ Source(other[2]) \in Side /\ Target(other[2]) \in Side
      BY <3>1 DEF JobOK, Source, Target, Side
    <3> QED BY <1>3, <1>17, <3>1, <3>2 DEF JobOK
  <2> QED BY <1>2, <1>4, <2>1 DEF JobsOK
<1>20. PartsOK(tree', items')
  <2>1. ASSUME NEW q \in DOMAIN items
        PROVE  /\ q \in DOMAIN Partial /\ Partial[q] \in DOMAIN tree'["local"] /\ Partial[q] \notin DOMAIN items
               /\ \A side \in Side : tree'[side][Partial[q]].kind \in {"None", "File"}
    <3>1. /\ q \in DOMAIN Partial /\ Partial[q] \in Paths /\ Partial[q] \notin DOMAIN items
          /\ \A side \in Side : tree[side][Partial[q]].kind \in {"None", "File"}
      BY <1>4, <2>1 DEF PartsOK, Paths
    <3>2. \A side \in Side : tree'[side][Partial[q]].kind \in {"None", "File"}
      BY <1>10, <1>11, <3>1
    <3> QED BY <1>10, <3>1, <3>2 DEF Paths
  <2> QED BY <1>3, <2>1 DEF PartsOK
<1>21. progress' \in {"copies", "over"}
  BY <1>2 DEF UntilCopied
<1>22. Startable' /\ options'.direction \in Ways /\ server' \in {"keeps", "tells", "silent"}
  BY <1>3, <1>4 DEF Startable, Valid, KeepsTimes
<1> QED BY <1>10, <1>15, <1>18, <1>19, <1>20, <1>21, <1>22 DEF SyncIInv

(* A folder that is missing is a folder where its files come from, and no  *)
(* row: nothing is said of folders, and nothing below a mismatch.          *)
LEMMA MissingIs ==
  ASSUME SyncSound, SyncIInv, progress = "folders", NEW action \in {"Upload", "Download"},
         NEW above \in MissingFolders(action)
  PROVE  /\ above \in Paths /\ above \notin DOMAIN items
         /\ tree[Source(action)][above].kind = "Dir"
<1>1. /\ FolderSound(tree) /\ StillSaid /\ EndedOK /\ JobsOK(jobs, tree, items, options)
      /\ options.direction \in Ways /\ ended.copied = {}
  BY DEF SyncIInv
<1>2. PICK job \in jobs : job[2] = action /\ above \in Ancestors(job[1])
  BY DEF MissingFolders
<1>3. PICK path : path = job[1]
  OBVIOUS
<1>4. /\ path \in DOMAIN items /\ path \in Paths /\ Source(action) \in Side
      /\ options.subfolders \/ Len(path) = 1
      /\ tree[Source(action)][path].kind = "File"
  BY <1>1, <1>2, <1>3 DEF JobsOK, JobOK, StillSaid, Source, Side
<1>5. above \in Paths /\ tree[Source(action)][above].kind = "Dir"
  BY <1>1, <1>2, <1>3, <1>4 DEF FolderSound, Have, Paths
<1>6. ~Mismatched(Now, above)
  BY <1>1, <1>2, <1>3, <1>4, JudgedIs DEF StillSaid
<1>7. ASSUME above \in DOMAIN items PROVE FALSE
  <2>1. VerdictOn(above) # {}
    BY <1>1, <1>7, JudgedIs DEF StillSaid
  <2>2. /\ Item(Now, above).reason # "KindMismatch" => \A side \in Side : tree[side][above].kind \in {"None", "File"}
        /\ Item(Now, above).reason = "KindMismatch" => Mismatched(Now, above)
    BY <1>1, <1>5, <2>1, ItemIs
  <2> QED BY <1>4, <1>5, <1>6, <2>2
<1> QED BY <1>5, <1>7

LEMMA CreateFoldersKeeps ==
  ASSUME SyncSound, SyncIInv, CreateFolders
  PROVE  SyncIInv'
<1> DEFINE up == MissingFolders("Upload")
           down == MissingFolders("Download")
<1>1. /\ progress = "folders" /\ progress' = "copies" /\ UNCHANGED <<server, options, items, view, jobs, ended>>
      /\ \A above \in up : tree["remote"][above].kind \in {"None", "Dir"}
      /\ \A above \in down : tree["local"][above].kind \in {"None", "Dir"}
  BY DEF CreateFolders
<1>2. tree' = [side \in Side |->
                 [path \in Paths |->
                    IF path \in (IF side = "local" THEN down ELSE up) THEN Dir ELSE tree[side][path]]]
  BY DEF CreateFolders, From, Side
<1>3. /\ TreeOK /\ EndedOK /\ StillSaid /\ JobsOK(jobs, tree, items, options) /\ PartsOK(tree, items)
      /\ Startable /\ options.direction \in Ways /\ server \in {"keeps", "tells", "silent"}
  BY <1>1 DEF SyncIInv
<1>4. \A above \in up : above \in Paths /\ above \notin DOMAIN items /\ tree["local"][above].kind = "Dir"
  BY <1>1, MissingIs DEF Source
<1>5. \A above \in down : above \in Paths /\ above \notin DOMAIN items /\ tree["remote"][above].kind = "Dir"
  BY <1>1, MissingIs DEF Source
<1> HIDE DEF up, down
<1>6. "local" \in Side /\ "remote" \in Side /\ \A side \in Side : side = "local" \/ side = "remote"
  BY DEF Side
<1>7. Dir \in Entry /\ Dir.kind = "Dir"
  BY DEF Dir, NoEntry, Entry, SyncSound, Unknown
<1>8. /\ tree' \in [Side -> [Paths -> Entry]]
      /\ \A path \in Paths :
           /\ tree'["local"][path] = IF path \in down THEN Dir ELSE tree["local"][path]
           /\ tree'["remote"][path] = IF path \in up THEN Dir ELSE tree["remote"][path]
  BY <1>2, <1>3, <1>6, <1>7 DEF TreeOK
<1>9. Paths' = Paths
  BY <1>6, <1>8 DEF Paths
<1>10. TreeOK'
  BY <1>3, <1>8, <1>9 DEF TreeOK, Ancestors
<1>11. \A path \in Paths \ (up \cup down), side \in Side : tree'[side][path] = tree[side][path]
  BY <1>6, <1>8
<1>12. \A path \in up \cup down : tree'["local"][path].kind = "Dir" /\ tree'["remote"][path].kind = "Dir"
  BY <1>4, <1>5, <1>7, <1>8
<1>13. Quiet
  <2>1. ASSUME NEW q \in Paths, Mismatched(Now, q)' PROVE Mismatched(Now, q)
    <3>1. tree'["local"][q].kind # tree'["remote"][q].kind
      BY <1>1, <1>9, <2>1, MismatchNextIs
    <3>2. \A side \in Side : tree'[side][q] = tree[side][q]
      BY <1>11, <1>12, <3>1
    <3> QED BY <1>1, <1>6, <1>9, <2>1, <3>2, MismatchIs, MismatchNextIs
  <2> QED BY <2>1 DEF Quiet
<1>14. \A path \in DOMAIN items, side \in Side : tree'[side][path] = tree[side][path]
  BY <1>3, <1>4, <1>5, <1>11 DEF StillSaid
<1>15. EndedOK'
  BY <1>1, <1>3 DEF EndedOK
<1>16. StillSaid'
  BY <1>1, <1>3, <1>9, <1>13, <1>14, SaidStaysBut DEF EndedOK
<1>17. JobsOK(jobs', tree', items', options')
  <2>1. ASSUME NEW job \in jobs PROVE JobOK(job, tree', items', options')
    <3>1. JobOK(job, tree, items, options)
      BY <1>3, <2>1 DEF JobsOK
    <3>2. job[1] \in DOMAIN items /\ Source(job[2]) \in Side /\ Target(job[2]) \in Side
      BY <3>1 DEF JobOK, Source, Target, Side
    <3> QED BY <1>1, <1>14, <3>1, <3>2 DEF JobOK
  <2> QED BY <1>1, <1>3, <2>1 DEF JobsOK
<1>18. PartsOK(tree', items')
  <2>1. ASSUME NEW q \in DOMAIN items
        PROVE  /\ q \in DOMAIN Partial /\ Partial[q] \in DOMAIN tree'["local"] /\ Partial[q] \notin DOMAIN items
               /\ \A side \in Side : tree'[side][Partial[q]].kind \in {"None", "File"}
    <3>1. /\ q \in DOMAIN Partial /\ Partial[q] \in Paths /\ Partial[q] \notin DOMAIN items
          /\ \A side \in Side : tree[side][Partial[q]].kind \in {"None", "File"}
      BY <1>3, <2>1 DEF PartsOK, Paths
    <3>2. Partial[q] \notin up \cup down
      BY <1>4, <1>5, <1>6, <3>1
    <3> QED BY <1>9, <1>11, <3>1, <3>2 DEF Paths
  <2> QED BY <1>1, <2>1 DEF PartsOK
<1>19. Startable' /\ options'.direction \in Ways /\ server' \in {"keeps", "tells", "silent"}
  BY <1>1, <1>3 DEF Startable, Valid, KeepsTimes
<1> QED BY <1>1, <1>10, <1>15, <1>16, <1>17, <1>18, <1>19 DEF SyncIInv

LEMMA SyncNextKeeps ==
  ASSUME SyncSound, SyncIInv, [SyncNext]_syncVars
  PROVE  SyncIInv'
<1>1. CASE SyncNext
  BY <1>1, ScanKeeps, ScanOddlyKeeps, KeyPressKeeps, RunSyncKeeps, CreateFoldersKeeps, FoldersFailKeeps,
     CopyJobKeeps, CopyFailsKeeps DEF SyncNext
<1>2. CASE UNCHANGED syncVars
  <2>1. UNCHANGED <<tree, server, options, items, view, jobs, ended, progress>>
    BY <1>2 DEF syncVars
  <2>2. Judged' = Judged
    BY <2>1, SameJudged
  <2>3. FolderSound(tree)' <=> FolderSound(tree)
    BY <2>1 DEF FolderSound, Ancestors
  <2>4. EndedOK' <=> EndedOK
    BY <2>1 DEF EndedOK
  <2>5. StillSaid => StillSaid'
    BY <2>1, SaidStays
  <2> QED BY <2>1, <2>2, <2>3, <2>4, <2>5, WorldStays DEF SyncIInv
<1> QED BY <1>1, <1>2

SyncSpec == SyncInit /\ [][SyncNext]_syncVars

(* sync/mod.rs, its screen and its copies: for any folders whose files lie *)
(* in folders and that hold no partial file from before, however times are *)
(* rounded and kept, whatever the user ticks, flips and filters, and       *)
(* whatever copies fail: run_sync refuses no row that the screen offered,  *)
(* and comparing again finds nothing to say of what was copied with its    *)
(* time, and the same as before of what failed.                            *)
THEOREM SettlesAfterwards ==
  ASSUME SyncSound
  PROVE  SyncSpec => []SyncSettles
<1>1. SyncInit => SyncIInv
  BY SyncInitial
<1>2. SyncIInv /\ [SyncNext]_syncVars => SyncIInv'
  BY SyncNextKeeps
<1>3. SyncIInv => SyncSettles
  BY SyncInvariantSettles
<1> QED BY <1>1, <1>2, <1>3, PTL DEF SyncSpec

(***************************************************************************)
(* Searches                                                                *)
(***************************************************************************)
TreeFolders == DOMAIN Tree
Letters == UNION {ToSet(entry[1]) : entry \in UNION {ToSet(Tree[f]) : f \in TreeFolders}}

(* What a tree of folders is: each entry is of one folder, and a folder is *)
(* one entry.  A name has no "*": glob_match takes a "*" of the pattern    *)
(* for that letter before it takes it for any letters.                     *)
SearchSound ==
    /\ 1 \in TreeFolders /\ 0 \notin TreeFolders /\ "*" \notin Letters
    /\ Tree \in [TreeFolders -> Seq(Seq(Letters) \X (TreeFolders \cup {0}))]
    /\ \A f \in TreeFolders : \A i, j \in DOMAIN Tree[f] : Tree[f][i][1] = Tree[f][j][1] => i = j
    /\ \A f, g \in TreeFolders : \A i \in DOMAIN Tree[f], j \in DOMAIN Tree[g] :
         Tree[f][i][2] = Tree[g][j][2] /\ Tree[f][i][2] # 0 => f = g /\ i = j
    /\ \A f \in TreeFolders : \A i \in DOMAIN Tree[f] : Tree[f][i][2] # 1
    /\ \E signs : Patterns \subseteq Seq(signs)
    /\ MaxDepth \in Nat /\ MaxResults \in Nat

Stops == TreeFolders \X Nat         \* a folder on the walk, and how deep
FoundPaths == TreeFolders \X Names
WalkTask ==
    [generation : Nat, pattern : Patterns, cancel : BOOLEAN, awake : BOOLEAN,
     stack : Seq(Stops), reading : {<<>>} \cup Stops, found : Nat]
SearchCommand == {<<"CancelSearch">>} \cup ({"Search"} \X Patterns)
SearchEvent == {<<"Failed">>} \cup ({"Done"} \X BOOLEAN) \cup ({"Found"} \X FoundPaths)

SearchTyped ==
    /\ unreadable \in SUBSET TreeFolders /\ live \in BOOLEAN
    /\ screen = [open |-> screen.open, pattern |-> screen.pattern, results |-> screen.results,
                 truncated |-> screen.truncated, failed |-> screen.failed]
    /\ screen.open \in BOOLEAN /\ screen.failed \in BOOLEAN /\ screen.pattern \in Patterns \cup {<<>>}
    /\ screen.results \in SUBSET FoundPaths /\ IsFiniteSet(screen.results)
    /\ commands \in Seq(SearchCommand) /\ events \in Seq(SearchEvent)
    /\ generation \in Nat /\ tasks \in Seq(WalkTask)

(* what the screen shows or will show                                      *)
Told(results, coming) == results \cup {coming[n][2] : n \in {m \in DOMAIN coming : coming[m][1] = "Found"}}

Inner(f) == {Tree[f][k][2] : k \in DOMAIN Tree[f]} \ {0}
Hits(f, typed) == {<<f, Tree[f][k][1]>> : k \in {l \in DOMAIN Tree[f] : Tree[f][l][1] \in Matching[typed]}}

Ahead(t) == ToSet(t.stack) \cup ({t.reading} \ {<<>>})

(* What a walk has passed, V: of what it read, all is told that matches,   *)
(* and what is inside is passed or ahead.                                  *)
Covers(t, V, told, shut) ==
    /\ <<1, 0>> \in V \cup Ahead(t)
    /\ \A v \in V :
         \/ v[1] \in shut \/ v[2] > MaxDepth
         \/ Hits(v[1], t.pattern) \subseteq told /\ \A g \in Inner(v[1]) : <<g, v[2] + 1>> \in V \cup Ahead(t)

(* no folder is passed twice, for each is inside one that was passed       *)
Once(t, V) ==
    /\ \A v \in V \cup Ahead(t) : v[1] = 1 \/ \E w \in V : v[1] \in Inner(w[1])
    /\ \A v \in V : \A a \in Ahead(t) : v[1] # a[1]
    /\ \A k, l \in DOMAIN t.stack : t.stack[k][1] = t.stack[l][1] => k = l
    /\ t.reading # <<>> => \A k \in DOMAIN t.stack : t.stack[k][1] # t.reading[1]

(* so many were found                                                      *)
Counted(t, V, told) ==
    \E found \in SUBSET told :
      /\ IsFiniteSet(found) /\ Cardinality(found) = t.found
      /\ \A path \in found : \E v \in V : path[1] = v[1]

WalkOn(t, told, shut) ==
    IF t.awake THEN \E V \in SUBSET Stops : Covers(t, V, told, shut) /\ Once(t, V) /\ Counted(t, V, told)
    ELSE t.stack = <<>> /\ t.reading = <<>> /\ t.found = 0

(* the task that answers for what is typed                                 *)
Answering(t, latest, typed, told, shut) ==
    t.generation = latest /\ ~t.cancel /\ t.pattern = typed /\ WalkOn(t, told, shut)

Enough(told) == \E found \in SUBSET told : IsFiniteSet(found) /\ Cardinality(found) >= MaxResults
AllTold(typed, told, shut) ==
    \E V \in SUBSET Stops :
      /\ <<1, 0>> \in V
      /\ \A v \in V : \/ v[1] \in shut \/ v[2] > MaxDepth
                      \/ Hits(v[1], typed) \subseteq told /\ \A g \in Inner(v[1]) : <<g, v[2] + 1>> \in V

Awaited == live /\ screen.open /\ screen.pattern # <<>> /\ ~screen.failed

Answer(running, latest, typed, coming, told, shut) ==
    \/ \E i \in DOMAIN running : Answering(running[i], latest, typed, told, shut)
    \/ \E n \in DOMAIN coming : coming[n][1] = "Failed"
    \/ Enough(told) \/ AllTold(typed, told, shut)

AnswerComes ==
    Awaited =>
      \/ commands # <<>> /\ commands[Len(commands)] = <<"Search", screen.pattern>>
      \/ commands = <<>> /\ Answer(tasks, generation, screen.pattern, events, Told(screen.results, events), unreadable)

SearchIInv == SearchTyped /\ AnswerComes
---------------------------------------------------------------------------
(* glob_match finds what fits                                              *)
(* a name cut into one piece for each letter of the pattern                *)
IsCut(pattern, name, cut) ==
    /\ cut \in [0..Len(pattern) -> 0..Len(name)] /\ cut[0] = 0 /\ cut[Len(pattern)] = Len(name)
    /\ \A i \in 1..Len(pattern) :
         \/ pattern[i] = "*" /\ cut[i] >= cut[i - 1]
         \/ cut[i] = cut[i - 1] + 1 /\ pattern[i] \in {"?", name[cut[i]]}

Low(star) == IF star = <<>> THEN 0 ELSE star[2]

(* The loop is never ahead of the cut, and behind it only after a "*" that *)
(* takes fewer letters than in the cut.                                    *)
MatchOK(pattern, name, cut, p, n, star) ==
    /\ p \in 0..Len(pattern) /\ n \in 0..Len(name) /\ cut[p] >= n
    /\ star = <<>> => cut[p] = n
    /\ star # <<>> => /\ star \in Nat \X Nat /\ star[1] + 1 <= p /\ star[2] <= n
                      /\ cut[star[1] + 1] >= star[2]
                      /\ cut[star[1] + 1] = star[2] => cut[p] = n

(* each turn goes further: with the star, or else in the pattern           *)
Turns(pattern, p, star) == (Len(pattern) + 1) * Low(star) + p

MatchedFor(pattern, name, cut, k, s) ==
    /\ s = [p |-> s.p, n |-> s.n, star |-> s.star, failed |-> FALSE]
    /\ MatchOK(pattern, name, cut, s.p, s.n, s.star)
    /\ s.n = Len(name) \/ Turns(pattern, s.p, s.star) >= k

LEMMA Times == ASSUME NEW w \in Nat, NEW a \in Nat, NEW b \in Nat, a <= b PROVE w * a <= w * b /\ w * (a + 1) = w * a + w
<1>1. PICK d \in Nat : b = a + d
  <2>1. b - a \in Nat /\ b = a + (b - a)
    OBVIOUS
  <2> QED BY <2>1
<1>2. w * b = w * a + w * d /\ w * d \in Nat /\ w * a \in Nat
  BY <1>1
<1>3. w * (a + 1) = w * a + w
  OBVIOUS
<1> QED BY <1>2, <1>3

LEMMA CutPiece ==
  ASSUME NEW pattern, Len(pattern) \in Nat, NEW name, Len(name) \in Nat, NEW cut, IsCut(pattern, name, cut),
         NEW p \in 0..Len(pattern), p # Len(pattern)
  PROVE  /\ cut[p] \in 0..Len(name) /\ cut[p + 1] \in 0..Len(name)
         /\ \/ pattern[p + 1] = "*" /\ cut[p + 1] >= cut[p]
            \/ cut[p + 1] = cut[p] + 1 /\ pattern[p + 1] \in {"?", name[cut[p] + 1]}
<1>1. PICK q : q = p + 1
  OBVIOUS
<1>2. q \in 1..Len(pattern) /\ q \in 0..Len(pattern) /\ q - 1 = p
  BY <1>1
<1>3. \/ pattern[q] = "*" /\ cut[q] >= cut[q - 1]
      \/ cut[q] = cut[q - 1] + 1 /\ pattern[q] \in {"?", name[cut[q]]}
  BY <1>2 DEF IsCut
<1>4. cut[p] \in 0..Len(name) /\ cut[q] \in 0..Len(name)
  BY <1>2 DEF IsCut
<1> QED BY <1>1, <1>2, <1>3, <1>4

(* a letter is matched, a "*" is met, or the loop goes back to the last    *)
LEMMA StepKeeps ==
  ASSUME NEW pattern, Len(pattern) \in Nat, NEW name, Len(name) \in Nat,
         \A i \in 1..Len(name) : name[i] # "*", NEW cut, IsCut(pattern, name, cut),
         NEW k \in Nat, NEW s, MatchedFor(pattern, name, cut, k, s)
  PROVE  MatchedFor(pattern, name, cut, k + 1, MatchStep(pattern, name, s))
<1>1. PICK p, n, star, P, N : p = s.p /\ n = s.n /\ star = s.star /\ P = Len(pattern) /\ N = Len(name)
  OBVIOUS
<1>2. s = [p |-> p, n |-> n, star |-> star, failed |-> FALSE] /\ P \in Nat /\ N \in Nat
  BY <1>1 DEF MatchedFor
<1>3. MatchOK(pattern, name, cut, p, n, star) /\ (n = N \/ Turns(pattern, p, star) >= k)
  BY <1>1 DEF MatchedFor
<1>4. /\ p \in 0..P /\ n \in 0..N /\ cut[p] >= n
      /\ star = <<>> => cut[p] = n
      /\ star # <<>> => /\ star \in Nat \X Nat /\ star[1] + 1 <= p /\ star[2] <= n
                        /\ cut[star[1] + 1] >= star[2]
                        /\ cut[star[1] + 1] = star[2] => cut[p] = n
  BY <1>1, <1>3 DEF MatchOK
<1>5. p # P => /\ cut[p] \in 0..N /\ cut[p + 1] \in 0..N
               /\ \/ pattern[p + 1] = "*" /\ cut[p + 1] >= cut[p]
                  \/ cut[p + 1] = cut[p] + 1 /\ pattern[p + 1] \in {"?", name[cut[p] + 1]}
  <2>1. p # P => p \in 0..Len(pattern) /\ p # Len(pattern)
    BY <1>1, <1>4
  <2>2. p # P => /\ cut[p] \in 0..Len(name) /\ cut[p + 1] \in 0..Len(name)
                 /\ \/ pattern[p + 1] = "*" /\ cut[p + 1] >= cut[p]
                    \/ cut[p + 1] = cut[p] + 1 /\ pattern[p + 1] \in {"?", name[cut[p] + 1]}
    BY <2>1, CutPiece
  <2> QED BY <1>1, <2>2
<1>6. Low(star) \in Nat /\ Low(star) <= n
  BY <1>4 DEF Low
<1>7. PICK w \in Nat : w = P + 1
  BY <1>2
<1>8. Turns(pattern, p, star) = w * Low(star) + p
  BY <1>1, <1>7 DEF Turns
<1>9. ASSUME NEW q, NEW m, NEW new, MatchStep(pattern, name, s) = [p |-> q, n |-> m, star |-> new, failed |-> FALSE],
             MatchOK(pattern, name, cut, q, m, new), m = N \/ w * Low(new) + q >= k + 1
      PROVE  MatchedFor(pattern, name, cut, k + 1, MatchStep(pattern, name, s))
  <2>1. Turns(pattern, q, new) = w * Low(new) + q
    BY <1>1, <1>7 DEF Turns
  <2>2. PICK t : t = MatchStep(pattern, name, s)
    OBVIOUS
  <2>3. t = [p |-> t.p, n |-> t.n, star |-> t.star, failed |-> FALSE] /\ t.p = q /\ t.n = m /\ t.star = new
    BY <1>9, <2>2
  <2> QED BY <1>1, <1>9, <2>1, <2>2, <2>3 DEF MatchedFor
<1>10. CASE n = N
  <2>1. MatchStep(pattern, name, s) = s
    BY <1>1, <1>10 DEF MatchStep
  <2> QED BY <1>2, <1>3, <1>9, <1>10, <2>1
<1>11. CASE n # N /\ p < P /\ pattern[p + 1] \in {"?", name[n + 1]}
  <2>1. MatchStep(pattern, name, s) = [p |-> p + 1, n |-> n + 1, star |-> star, failed |-> FALSE]
    <3>1. ~(s.n = Len(name) \/ s.failed) /\ s.p = p /\ s.n = n
      BY <1>1, <1>2, <1>11
    <3>2. MatchStep(pattern, name, s) = [s EXCEPT !.p = @ + 1, !.n = @ + 1]
      BY <1>1, <1>11, <3>1 DEF MatchStep
    <3> QED BY <1>2, <3>2
  <2>2. pattern[p + 1] # "*"
    <3>1. n + 1 \in 1..N
      BY <1>2, <1>4, <1>11
    <3> QED BY <1>1, <1>11, <3>1
  <2>3. cut[p + 1] = cut[p] + 1 /\ cut[p] \in 0..N
    BY <1>2, <1>4, <1>5, <1>11, <2>2
  <2>4. MatchOK(pattern, name, cut, p + 1, n + 1, star)
    <3>1. star # <<>> => star[1] \in Nat /\ star[2] \in Nat
      BY <1>4
    <3>2. p + 1 \in 0..P /\ n + 1 \in 0..N /\ cut[p + 1] >= n + 1 /\ (cut[p] = n => cut[p + 1] = n + 1)
      BY <1>2, <1>4, <1>11, <2>3
    <3>3. star # <<>> => star[1] + 1 <= p + 1 /\ star[2] <= n + 1
      BY <1>2, <1>4, <3>1
    <3> QED BY <1>1, <1>4, <3>2, <3>3 DEF MatchOK
  <2>5. w * Low(star) + (p + 1) >= k + 1
    <3>1. w * Low(star) \in Nat
      BY <1>6
    <3> QED BY <1>3, <1>4, <1>8, <1>11, <3>1
  <2> QED BY <1>9, <2>1, <2>4, <2>5
<1>12. CASE n # N /\ p < P /\ pattern[p + 1] \notin {"?", name[n + 1]} /\ pattern[p + 1] = "*"
  <2>1. PICK new : new = <<p, n>>
    OBVIOUS
  <2>2. MatchStep(pattern, name, s) = [p |-> p + 1, n |-> n, star |-> new, failed |-> FALSE]
    <3>1. ~(s.n = Len(name) \/ s.failed) /\ s.p = p /\ s.n = n
      BY <1>1, <1>2, <1>12
    <3>2. MatchStep(pattern, name, s) = [s EXCEPT !.star = <<p, n>>, !.p = @ + 1]
      BY <1>1, <1>12, <3>1 DEF MatchStep
    <3> QED BY <1>2, <2>1, <3>2
  <2>3. new # <<>> /\ new \in Nat \X Nat /\ new[1] = p /\ new[2] = n /\ Low(new) = n
    BY <1>2, <1>4, <2>1 DEF Low
  <2>4. cut[p + 1] >= n /\ cut[p] \in 0..N /\ cut[p + 1] \in 0..N
    BY <1>2, <1>4, <1>5, <1>12
  <2>5. MatchOK(pattern, name, cut, p + 1, n, new)
    BY <1>1, <1>2, <1>4, <1>12, <2>3, <2>4 DEF MatchOK
  <2>6. w * Low(new) + (p + 1) >= k + 1
    <3>1. w * Low(star) <= w * n /\ w * Low(star) \in Nat /\ w * n \in Nat
      BY <1>2, <1>4, <1>6, Times
    <3> QED BY <1>3, <1>4, <1>8, <1>12, <2>3, <3>1
  <2> QED BY <1>9, <2>2, <2>5, <2>6
<1>13. CASE n # N /\ ~(p < P /\ (pattern[p + 1] \in {"?", name[n + 1]} \/ pattern[p + 1] = "*"))
  <2>1. cut[p] # n
    <3>1. CASE p = P
      BY <1>1, <1>4, <1>13, <3>1 DEF IsCut
    <3>2. CASE p # P
      BY <1>2, <1>4, <1>5, <1>13, <3>2
    <3> QED BY <3>1, <3>2
  <2>2. PICK a, b : star # <<>> /\ star = <<a, b>> /\ a \in Nat /\ b \in Nat
    BY <1>4, <2>1
  <2>3. a + 1 <= p /\ b <= n /\ cut[a + 1] >= b /\ cut[a + 1] # b /\ Low(star) = b
    BY <1>4, <2>1, <2>2 DEF Low
  <2>4. PICK new : new = <<a, b + 1>>
    OBVIOUS
  <2>5. MatchStep(pattern, name, s) = [p |-> a + 1, n |-> b + 1, star |-> new, failed |-> FALSE]
    <3>1. ~(s.n = Len(name) \/ s.failed) /\ s.p = p /\ s.n = n /\ s.star = star
      BY <1>1, <1>2, <1>13
    <3>2. MatchStep(pattern, name, s) = [s EXCEPT !.p = a + 1, !.n = b + 1, !.star = <<a, b + 1>>]
      BY <1>1, <1>13, <2>2, <3>1 DEF MatchStep
    <3> QED BY <1>2, <2>4, <3>2
  <2>6. new # <<>> /\ new \in Nat \X Nat /\ new[1] = a /\ new[2] = b + 1 /\ Low(new) = b + 1
    BY <2>2, <2>4 DEF Low
  <2>7. a + 1 \in 0..P /\ b + 1 \in 0..N
    BY <1>2, <1>4, <1>13, <2>2, <2>3
  <2>8. cut[a + 1] \in 0..N
    BY <1>1, <2>7 DEF IsCut
  <2>9. MatchOK(pattern, name, cut, a + 1, b + 1, new)
    BY <1>1, <1>2, <2>2, <2>3, <2>6, <2>7, <2>8 DEF MatchOK
  <2>10. w * Low(new) + (a + 1) >= k + 1
    <3>1. w * (b + 1) = w * b + w /\ w * b \in Nat
      BY <2>2, Times
    <3>2. w * b + p >= k
      BY <1>3, <1>8, <1>13, <2>3
    <3> QED BY <1>2, <1>4, <1>7, <2>2, <2>6, <3>1, <3>2
  <2> QED BY <1>9, <2>5, <2>9, <2>10
<1> QED BY <1>4, <1>10, <1>11, <1>12, <1>13

Unmatched == [p |-> 0, n |-> 0, star |-> <<>>, failed |-> FALSE]
IsMatched(pattern, name, k, f) ==
    f = [j \in 0..k |-> IF j = 0 THEN Unmatched ELSE MatchStep(pattern, name, f[j - 1])]

LEMMA MatchedExists ==
  ASSUME NEW pattern, NEW name, NEW n \in Nat
  PROVE  \E f : IsMatched(pattern, name, n, f)
<1> DEFINE Turned(x, j) == MatchStep(pattern, name, x)
           Upto(k) == \E f : f = [j \in 0..k |-> IF j = 0 THEN Unmatched ELSE Turned(f[j - 1], j)]
           D == {k \in Nat : ~Upto(k)}
<1>1. ASSUME NEW k \in Nat, k # 0 => Upto(k - 1) PROVE Upto(k)
  <2> HIDE DEF Turned
  <2>1. PICK g : k # 0 => g = [j \in 0..(k - 1) |-> IF j = 0 THEN Unmatched ELSE Turned(g[j - 1], j)]
    BY <1>1
  <2> DEFINE f == [j \in 0..k |-> IF j = 0 THEN Unmatched ELSE Turned(g[j - 1], j)]
  <2>2. ASSUME NEW j \in 0..k, j # 0 PROVE f[j - 1] = g[j - 1]
    <3>1. PICK i : i = j - 1
      OBVIOUS
    <3>2. i \in 0..k /\ i \in 0..(k - 1) /\ k # 0
      BY <2>2, <3>1
    <3>3. f[i] = g[i]
      BY <2>1, <3>2
    <3> QED BY <3>1, <3>3
  <2>3. f = [j \in 0..k |-> IF j = 0 THEN Unmatched ELSE Turned(f[j - 1], j)]
    BY <2>2
  <2> QED BY <2>3
<1>2. D = {}
  <2> SUFFICES ASSUME D # {} PROVE FALSE
    OBVIOUS
  <2> HIDE DEF Upto
  <2>1. PICK m \in D : \A k \in D : m <= k
    <3>1. D \in SUBSET Nat
      OBVIOUS
    <3> HIDE DEF D
    <3> QED BY <3>1, LeastNumber
  <2>2. m \in Nat /\ ~Upto(m) /\ (m # 0 => Upto(m - 1))
    <3>1. m # 0 => m - 1 \in Nat /\ ~(m <= m - 1)
      OBVIOUS
    <3> QED BY <2>1, <3>1
  <2> QED BY <1>1, <2>2
<1>3. Upto(n)
  BY <1>2
<1> QED BY <1>3 DEF IsMatched


(* where the cut is at its end, only stars are left                        *)
LEMMA StarsLeft ==
  ASSUME NEW pattern, Len(pattern) \in Nat, NEW name, Len(name) \in Nat, NEW cut, IsCut(pattern, name, cut),
         NEW p \in 0..Len(pattern), cut[p] = Len(name)
  PROVE  \A i \in (p + 1)..Len(pattern) : pattern[i] = "*"
<1> DEFINE D == {i \in Nat : i >= p /\ i <= Len(pattern) /\ cut[i] # Len(name)}
<1>1. ASSUME NEW i \in Nat, i > p, i <= Len(pattern), cut[i - 1] = Len(name)
      PROVE  cut[i] = Len(name) /\ pattern[i] = "*"
  <2>1. PICK q \in Nat : q = i - 1
    BY <1>1
  <2>2. q \in 0..Len(pattern) /\ q # Len(pattern) /\ i = q + 1
    BY <1>1, <2>1
  <2>3. /\ cut[i] \in 0..Len(name)
        /\ (pattern[i] = "*" /\ cut[i] >= cut[q]) \/ cut[i] = cut[q] + 1
    BY <2>2, CutPiece
  <2> QED BY <1>1, <2>1, <2>3
<1>2. D = {}
  <2> SUFFICES ASSUME D # {} PROVE FALSE
    OBVIOUS
  <2>1. PICK m \in D : \A k \in D : m <= k
    <3>1. D \in SUBSET Nat
      OBVIOUS
    <3> HIDE DEF D
    <3> QED BY <3>1, LeastNumber
  <2>2. m > p /\ m \in Nat /\ m <= Len(pattern) /\ cut[m] # Len(name)
    <3>1. m # p
      OBVIOUS
    <3> QED BY <3>1
  <2>3. m - 1 \in Nat /\ m - 1 >= p /\ m - 1 <= Len(pattern) /\ ~(m <= m - 1)
    BY <2>2
  <2>4. cut[m - 1] = Len(name)
    BY <2>1, <2>3
  <2> QED BY <1>1, <2>2, <2>4
<1>3. ASSUME NEW i \in (p + 1)..Len(pattern) PROVE pattern[i] = "*"
  <2>1. i \in Nat /\ i > p /\ i <= Len(pattern) /\ i - 1 \in Nat /\ i - 1 >= p /\ i - 1 <= Len(pattern)
    OBVIOUS
  <2>2. cut[i - 1] = Len(name)
    BY <1>2, <2>1
  <2> QED BY <1>1, <2>1, <2>2
<1> QED BY <1>3

(* The loop comes to its end, and finds every name that the pattern fits.  *)
LEMMA GlobFinds ==
  ASSUME NEW pattern, Len(pattern) \in Nat, NEW name, Len(name) \in Nat,
         \A i \in 1..Len(name) : name[i] # "*", FitsGlob(pattern, name)
  PROVE  GlobMatch(pattern, name)
<1>1. PICK cut : IsCut(pattern, name, cut)
  BY DEF FitsGlob, IsCut
<1>2. PICK w \in Nat, K \in Nat : w = Len(pattern) + 1 /\ K = w * (Len(name) + 1)
  <2>1. Len(pattern) + 1 \in Nat /\ Len(name) + 1 \in Nat
    OBVIOUS
  <2> QED BY <2>1
<1>3. PICK f : IsMatched(pattern, name, K, f)
            /\ (GlobMatch(pattern, name) <=> ~f[K].failed /\ \A i \in (f[K].p + 1)..Len(pattern) : pattern[i] = "*")
  <2>1. \E f : IsMatched(pattern, name, K, f)
    BY MatchedExists
  <2>2. PICK f : f = (CHOOSE g : IsMatched(pattern, name, K, g))
    OBVIOUS
  <2>3. GlobMatch(pattern, name) <=> ~f[K].failed /\ \A i \in (f[K].p + 1)..Len(pattern) : pattern[i] = "*"
    BY <1>2, <2>2 DEF GlobMatch, IsMatched, Unmatched
  <2> QED BY <2>1, <2>2, <2>3
<1> DEFINE Matched(k) == MatchedFor(pattern, name, cut, k, f[k])
           D == {k \in Nat : k <= K /\ ~Matched(k)}
<1>4. Matched(0)
  <2>1. f[0] = Unmatched
    BY <1>3 DEF IsMatched
  <2>2. MatchOK(pattern, name, cut, 0, 0, <<>>)
    BY <1>1 DEF MatchOK, IsCut
  <2>3. Turns(pattern, 0, <<>>) >= 0
    BY DEF Turns, Low
  <2> QED BY <2>1, <2>2, <2>3 DEF MatchedFor, Unmatched
<1>5. ASSUME NEW k \in Nat, k + 1 <= K, Matched(k) PROVE Matched(k + 1)
  <2>1. PICK j : j = k + 1
    OBVIOUS
  <2>2. j \in 0..K /\ j # 0 /\ j - 1 = k
    BY <1>5, <2>1
  <2>3. f[j] = MatchStep(pattern, name, f[k])
    BY <1>3, <2>2 DEF IsMatched
  <2> QED BY <1>1, <1>5, <2>1, <2>3, StepKeeps
<1>6. D = {}
  <2> SUFFICES ASSUME D # {} PROVE FALSE
    OBVIOUS
  <2> HIDE DEF Matched
  <2>1. PICK m \in D : \A k \in D : m <= k
    <3>1. D \in SUBSET Nat
      OBVIOUS
    <3> HIDE DEF D
    <3> QED BY <3>1, LeastNumber
  <2>2. m \in Nat /\ m <= K /\ ~Matched(m) /\ m # 0
    BY <1>4
  <2>3. PICK k \in Nat : m = k + 1
    <3>1. m - 1 \in Nat /\ m = (m - 1) + 1
      BY <2>2
    <3> QED BY <3>1
  <2>4. k <= K /\ ~(m <= k) /\ k + 1 <= K
    BY <2>2, <2>3
  <2>5. Matched(k)
    BY <2>1, <2>4
  <2> QED BY <1>5, <2>2, <2>3, <2>4, <2>5
<1>7. Matched(K)
  <2> HIDE DEF Matched
  <2> QED BY <1>6
<1>8. PICK s, p, n, star : s = f[K] /\ p = s.p /\ n = s.n /\ star = s.star
  OBVIOUS
<1>9. /\ s.failed = FALSE /\ MatchOK(pattern, name, cut, p, n, star)
      /\ n = Len(name) \/ Turns(pattern, p, star) >= K
  <2>1. s = [p |-> p, n |-> n, star |-> star, failed |-> FALSE]
    BY <1>7, <1>8 DEF MatchedFor
  <2> QED BY <1>7, <1>8, <2>1 DEF MatchedFor
<1>10. n = Len(name)
  <2>1. Low(star) \in Nat /\ Low(star) <= Len(name) /\ p \in 0..Len(pattern) /\ n \in 0..Len(name)
    BY <1>9 DEF MatchOK, Low
  <2>2. w * Low(star) <= w * Len(name) /\ w * Low(star) \in Nat /\ w * Len(name) \in Nat
        /\ w * (Len(name) + 1) = w * Len(name) + w
    BY <2>1, Times
  <2>3. Turns(pattern, p, star) = w * Low(star) + p
    BY <1>2 DEF Turns
  <2> QED BY <1>2, <1>9, <2>1, <2>2, <2>3
<1>11. p \in 0..Len(pattern) /\ cut[p] = Len(name)
  <2>1. p \in 0..Len(pattern) /\ cut[p] >= n
    BY <1>9 DEF MatchOK
  <2>2. cut[p] \in 0..Len(name)
    BY <1>1, <2>1 DEF IsCut
  <2> QED BY <1>10, <2>1, <2>2
<1>12. \A i \in (p + 1)..Len(pattern) : pattern[i] = "*"
  BY <1>1, <1>11, StarsLeft
<1> QED BY <1>3, <1>8, <1>9, <1>12

---------------------------------------------------------------------------
(* what is picked of a folder's entries                                    *)
PickTurn(entries, wanted, before, n) == IF entries[n] \in wanted THEN Append(before, entries[n]) ELSE before
IsPicked(entries, wanted, k, f) ==
    f = [n \in 0..k |-> IF n = 0 THEN <<>> ELSE PickTurn(entries, wanted, f[n - 1], n)]

PickedUpTo(S, entries, wanted, n, picked) ==
    /\ picked \in Seq(S)
    /\ ToSet(picked) = {entries[m] : m \in {l \in 1..n : entries[l] \in wanted}}
    /\ \A k, l \in DOMAIN picked : picked[k] = picked[l] => k = l

LEMMA PickedExists ==
  ASSUME NEW entries, NEW wanted, NEW n \in Nat
  PROVE  \E f : IsPicked(entries, wanted, n, f)
<1> DEFINE Turned(x, j) == PickTurn(entries, wanted, x, j)
           Upto(k) == \E f : f = [j \in 0..k |-> IF j = 0 THEN <<>> ELSE Turned(f[j - 1], j)]
           D == {k \in Nat : ~Upto(k)}
<1>1. ASSUME NEW k \in Nat, k # 0 => Upto(k - 1) PROVE Upto(k)
  <2> HIDE DEF Turned
  <2>1. PICK g : k # 0 => g = [j \in 0..(k - 1) |-> IF j = 0 THEN <<>> ELSE Turned(g[j - 1], j)]
    BY <1>1
  <2> DEFINE f == [j \in 0..k |-> IF j = 0 THEN <<>> ELSE Turned(g[j - 1], j)]
  <2>2. ASSUME NEW j \in 0..k, j # 0 PROVE f[j - 1] = g[j - 1]
    <3>1. PICK i : i = j - 1
      OBVIOUS
    <3>2. i \in 0..k /\ i \in 0..(k - 1) /\ k # 0
      BY <2>2, <3>1
    <3>3. f[i] = g[i]
      BY <2>1, <3>2
    <3> QED BY <3>1, <3>3
  <2>3. f = [j \in 0..k |-> IF j = 0 THEN <<>> ELSE Turned(f[j - 1], j)]
    BY <2>2
  <2> QED BY <2>3
<1>2. D = {}
  <2> SUFFICES ASSUME D # {} PROVE FALSE
    OBVIOUS
  <2> HIDE DEF Upto
  <2>1. PICK m \in D : \A k \in D : m <= k
    <3>1. D \in SUBSET Nat
      OBVIOUS
    <3> HIDE DEF D
    <3> QED BY <3>1, LeastNumber
  <2>2. m \in Nat /\ ~Upto(m) /\ (m # 0 => Upto(m - 1))
    <3>1. m # 0 => m - 1 \in Nat /\ ~(m <= m - 1)
      OBVIOUS
    <3> QED BY <2>1, <3>1
  <2> QED BY <1>1, <2>2
<1>3. Upto(n)
  BY <1>2
<1> QED BY <1>3 DEF IsPicked


LEMMA PickOne ==
  ASSUME NEW S, NEW entries \in Seq(S), \A k, l \in DOMAIN entries : entries[k] = entries[l] => k = l,
         NEW wanted, NEW i \in Nat, i + 1 \in 1..Len(entries), NEW before,
         PickedUpTo(S, entries, wanted, i, before)
  PROVE  PickedUpTo(S, entries, wanted, i + 1, PickTurn(entries, wanted, before, i + 1))
<1> DEFINE Chosen(n) == {entries[m] : m \in {l \in 1..n : entries[l] \in wanted}}
<1>1. PICK k, e : k = i + 1 /\ e = entries[k]
  OBVIOUS
<1>2. /\ before \in Seq(S) /\ ToSet(before) = Chosen(i)
      /\ \A n, l \in DOMAIN before : before[n] = before[l] => n = l
  BY DEF PickedUpTo
<1>3. k \in 1..Len(entries) /\ e \in S /\ k = i + 1 /\ k \in Nat
  BY <1>1
<1>4. \A l \in 1..k : l \in 1..i \/ l = k
  BY <1>3
<1>5. \A l \in 1..i : l \in 1..k /\ l # k /\ l \in DOMAIN entries
  BY <1>3
<1>6. CASE e \in wanted
  <2>1. Chosen(k) = Chosen(i) \cup {e}
    <3>1. k \in 1..k
      BY <1>3
    <3>2. Chosen(k) \subseteq Chosen(i) \cup {e}
      BY <1>1, <1>4
    <3>3. Chosen(i) \subseteq Chosen(k)
      BY <1>5
    <3>4. e \in Chosen(k)
      BY <1>1, <1>6, <3>1
    <3> QED BY <3>2, <3>3, <3>4
  <2>2. e \notin Chosen(i)
    <3> SUFFICES ASSUME NEW m \in 1..i, entries[m] = e PROVE FALSE
      OBVIOUS
    <3>1. m \in DOMAIN entries /\ k \in DOMAIN entries /\ m # k
      BY <1>3, <1>5
    <3> QED BY <1>1, <3>1
  <2>3. PICK after : after = Append(before, e)
    OBVIOUS
  <2> HIDE DEF Chosen
  <2>4. /\ after \in Seq(S) /\ Len(after) = Len(before) + 1 /\ after[Len(after)] = e
        /\ Len(before) \in Nat /\ DOMAIN after = 1..Len(after) /\ DOMAIN before = 1..Len(before)
        /\ \A l \in 1..Len(before) : after[l] = before[l]
    BY <1>2, <1>3, <2>3
  <2>5. ToSet(after) = {after[l] : l \in 1..Len(after)} /\ ToSet(before) = {before[l] : l \in 1..Len(before)}
    BY <2>4 DEF ToSet
  <2>6. /\ \A l \in 1..Len(after) : l \in 1..Len(before) \/ l = Len(after)
        /\ \A l \in 1..Len(before) : l \in 1..Len(after)
        /\ Len(after) \in 1..Len(after)
    BY <2>4
  <2>7. ToSet(after) \subseteq ToSet(before) \cup {e}
    BY <2>4, <2>5, <2>6
  <2>8. ToSet(before) \cup {e} \subseteq ToSet(after)
    BY <2>4, <2>5, <2>6
  <2>9. \A l \in DOMAIN before : before[l] # e
    BY <1>2, <2>2, <2>4, <2>5
  <2>10. \A n, l \in DOMAIN after : after[n] = after[l] => n = l
    BY <1>2, <2>4, <2>6, <2>9
  <2>11. PickTurn(entries, wanted, before, k) = after
    BY <1>1, <1>6, <2>3 DEF PickTurn
  <2>12. ToSet(after) = Chosen(k)
    BY <1>2, <2>1, <2>7, <2>8
  <2> QED BY <1>3, <2>4, <2>10, <2>11, <2>12 DEF PickedUpTo, Chosen
<1>7. CASE e \notin wanted
  <2>1. Chosen(k) = Chosen(i)
    BY <1>1, <1>4, <1>5, <1>7
  <2>2. PickTurn(entries, wanted, before, k) = before
    BY <1>1, <1>7 DEF PickTurn
  <2> QED BY <1>2, <1>3, <2>1, <2>2 DEF PickedUpTo
<1> QED BY <1>6, <1>7

LEMMA PickedIs ==
  ASSUME NEW S, NEW entries \in Seq(S), \A k, l \in DOMAIN entries : entries[k] = entries[l] => k = l, NEW wanted
  PROVE  PickedUpTo(S, entries, wanted, Len(entries), Picked(entries, wanted))
<1>1. PICK K \in Nat : K = Len(entries)
  OBVIOUS
<1>2. PICK f : IsPicked(entries, wanted, K, f) /\ Picked(entries, wanted) = f[K]
  <2>1. \E f : IsPicked(entries, wanted, K, f)
    BY PickedExists
  <2>2. Picked(entries, wanted) = (CHOOSE f : IsPicked(entries, wanted, K, f))[K]
    BY <1>1 DEF Picked, IsPicked, PickTurn
  <2> QED BY <2>1, <2>2
<1> DEFINE Right(k) == PickedUpTo(S, entries, wanted, k, f[k])
           D == {k \in Nat : k <= K /\ ~Right(k)}
<1>3. Right(0)
  <2>1. f[0] = <<>>
    BY <1>2 DEF IsPicked
  <2>2. {l \in 1..0 : entries[l] \in wanted} = {} /\ DOMAIN <<>> = {} /\ <<>> \in Seq(S)
    OBVIOUS
  <2>3. ToSet(<<>>) = {}
    BY <2>2 DEF ToSet
  <2> QED BY <2>1, <2>2, <2>3 DEF PickedUpTo
<1>4. ASSUME NEW k \in Nat, k + 1 <= K, Right(k) PROVE Right(k + 1)
  <2>1. PICK j : j = k + 1
    OBVIOUS
  <2>2. j \in 0..K /\ j # 0 /\ j - 1 = k /\ j \in 1..Len(entries)
    BY <1>1, <1>4, <2>1
  <2>3. f[j] = PickTurn(entries, wanted, f[k], j)
    BY <1>2, <2>2 DEF IsPicked
  <2> QED BY <1>4, <2>1, <2>2, <2>3, PickOne
<1>5. D = {}
  <2> SUFFICES ASSUME D # {} PROVE FALSE
    OBVIOUS
  <2> HIDE DEF Right
  <2>1. PICK m \in D : \A k \in D : m <= k
    <3>1. D \in SUBSET Nat
      OBVIOUS
    <3> HIDE DEF D
    <3> QED BY <3>1, LeastNumber
  <2>2. m \in Nat /\ m <= K /\ ~Right(m) /\ m # 0
    BY <1>3
  <2>3. PICK k \in Nat : m = k + 1
    <3>1. m - 1 \in Nat /\ m = (m - 1) + 1
      BY <2>2
    <3> QED BY <3>1
  <2>4. k <= K /\ ~(m <= k) /\ k + 1 <= K
    BY <2>2, <2>3
  <2>5. Right(k)
    BY <2>1, <2>4
  <2> QED BY <1>4, <2>2, <2>3, <2>4, <2>5
<1>6. Right(K)
  <2> HIDE DEF Right
  <2> QED BY <1>5
<1> QED BY <1>1, <1>2, <1>6

---------------------------------------------------------------------------
(* the folders at each depth                                               *)
LevelTurn(before) == {entry[2] : entry \in UNION {ToSet(Tree[f]) : f \in before \ unreadable}} \ {0}
IsLevels(k, f) == f = [d \in 0..k |-> IF d = 0 THEN {1} ELSE LevelTurn(f[d - 1])]

LEMMA LevelsExist ==
  ASSUME NEW n \in Nat
  PROVE  \E f : IsLevels(n, f)
<1> DEFINE Turned(x, j) == LevelTurn(x)
           Upto(k) == \E f : f = [j \in 0..k |-> IF j = 0 THEN {1} ELSE Turned(f[j - 1], j)]
           D == {k \in Nat : ~Upto(k)}
<1>1. ASSUME NEW k \in Nat, k # 0 => Upto(k - 1) PROVE Upto(k)
  <2> HIDE DEF Turned
  <2>1. PICK g : k # 0 => g = [j \in 0..(k - 1) |-> IF j = 0 THEN {1} ELSE Turned(g[j - 1], j)]
    BY <1>1
  <2> DEFINE f == [j \in 0..k |-> IF j = 0 THEN {1} ELSE Turned(g[j - 1], j)]
  <2>2. ASSUME NEW j \in 0..k, j # 0 PROVE f[j - 1] = g[j - 1]
    <3>1. PICK i : i = j - 1
      OBVIOUS
    <3>2. i \in 0..k /\ i \in 0..(k - 1) /\ k # 0
      BY <2>2, <3>1
    <3>3. f[i] = g[i]
      BY <2>1, <3>2
    <3> QED BY <3>1, <3>3
  <2>3. f = [j \in 0..k |-> IF j = 0 THEN {1} ELSE Turned(f[j - 1], j)]
    BY <2>2
  <2> QED BY <2>3
<1>2. D = {}
  <2> SUFFICES ASSUME D # {} PROVE FALSE
    OBVIOUS
  <2> HIDE DEF Upto
  <2>1. PICK m \in D : \A k \in D : m <= k
    <3>1. D \in SUBSET Nat
      OBVIOUS
    <3> HIDE DEF D
    <3> QED BY <3>1, LeastNumber
  <2>2. m \in Nat /\ ~Upto(m) /\ (m # 0 => Upto(m - 1))
    <3>1. m # 0 => m - 1 \in Nat /\ ~(m <= m - 1)
      OBVIOUS
    <3> QED BY <2>1, <3>1
  <2> QED BY <1>1, <2>2
<1>3. Upto(n)
  BY <1>2
<1> QED BY <1>3 DEF IsLevels


LEMMA TreeIs ==
  ASSUME SearchSound, NEW f \in TreeFolders
  PROVE  /\ Tree[f] \in Seq(Seq(Letters) \X (TreeFolders \cup {0}))
         /\ \A k, l \in DOMAIN Tree[f] : Tree[f][k] = Tree[f][l] => k = l
         /\ Inner(f) \subseteq TreeFolders
         /\ LevelTurn({f} \ unreadable) \subseteq Inner(f)
<1>1. Tree[f] \in Seq(Seq(Letters) \X (TreeFolders \cup {0}))
  BY DEF SearchSound
<1>2. \A k, l \in DOMAIN Tree[f] : Tree[f][k] = Tree[f][l] => k = l
  BY DEF SearchSound
<1>3. \A k \in DOMAIN Tree[f] : Tree[f][k][2] \in TreeFolders \cup {0}
  BY <1>1
<1>4. Inner(f) \subseteq TreeFolders
  BY <1>3 DEF Inner
<1>5. LevelTurn({f} \ unreadable) \subseteq Inner(f)
  BY DEF LevelTurn, Inner, ToSet
<1> QED BY <1>1, <1>2, <1>4, <1>5

LEMMA NamesAre ==
  ASSUME SearchSound, NEW name \in Names
  PROVE  name \in Seq(Letters) /\ Len(name) \in Nat /\ \A i \in 1..Len(name) : name[i] # "*"
<1>1. PICK f, entry : f \in TreeFolders /\ entry \in ToSet(Tree[f]) /\ name = entry[1]
  BY DEF Names, TreeFolders
<1>2. entry \in Seq(Letters) \X (TreeFolders \cup {0})
  <2>1. PICK entries : entries = Tree[f]
    OBVIOUS
  <2>2. entries \in Seq(Seq(Letters) \X (TreeFolders \cup {0}))
    BY <1>1, <2>1, TreeIs
  <2>3. PICK k \in DOMAIN entries : entry = entries[k]
    BY <1>1, <2>1 DEF ToSet
  <2> QED BY <2>2, <2>3
<1>3. name \in Seq(Letters)
  BY <1>1, <1>2
<1>4. \A i \in 1..Len(name) : name[i] \in Letters
  BY <1>3
<1> QED BY <1>3, <1>4 DEF SearchSound

LEMMA FittingMatch ==
  ASSUME SearchSound, NEW typed \in Patterns
  PROVE  Fitting[typed] \subseteq Matching[typed]
<1>1. PICK pattern : pattern = Anywhere(typed)
  OBVIOUS
<1>2. PICK signs : typed \in Seq(signs)
  BY DEF SearchSound
<1>3. Len(pattern) \in Nat
  <2>1. typed \in Seq(signs \cup {"*"}) /\ <<"*">> \in Seq(signs \cup {"*"})
    BY <1>2
  <2>2. Anywhere(typed) \in Seq(signs \cup {"*"})
    BY <2>1 DEF Anywhere
  <2> QED BY <1>1, <2>2
<1>4. \A name \in Names : FitsGlob(pattern, name) => GlobMatch(pattern, name)
  BY <1>3, NamesAre, GlobFinds
<1> QED BY <1>1, <1>4 DEF Fitting, Matching

(* what all is told of is all that fits                                    *)
LEMMA AllToldFits ==
  ASSUME SearchSound, NEW typed \in Patterns, NEW told, AllTold(typed, told, unreadable)
  PROVE  Fitted(typed) \subseteq told
<1>1. PICK V \in SUBSET Stops :
        /\ <<1, 0>> \in V
        /\ \A v \in V : \/ v[1] \in unreadable \/ v[2] > MaxDepth
                        \/ Hits(v[1], typed) \subseteq told /\ \A g \in Inner(v[1]) : <<g, v[2] + 1>> \in V
  BY DEF AllTold
<1>2. PICK M \in Nat : M = MaxDepth
  BY DEF SearchSound
<1>3. PICK level : IsLevels(M, level) /\ Within(M) = UNION {level[d] : d \in 0..M}
  <2>1. \E f : IsLevels(M, f)
    BY LevelsExist
  <2>2. Within(M) = UNION {(CHOOSE f : IsLevels(M, f))[d] : d \in 0..M}
    BY DEF Within, IsLevels, LevelTurn
  <2> QED BY <2>1, <2>2
<1> DEFINE Passed(d) == \A f \in level[d] : <<f, d>> \in V
           D == {d \in Nat : d <= M /\ ~Passed(d)}
<1>4. Passed(0)
  BY <1>1, <1>3 DEF IsLevels
<1>5. ASSUME NEW d \in Nat, d + 1 <= M, Passed(d) PROVE Passed(d + 1)
  <2>1. PICK e : e = d + 1
    OBVIOUS
  <2>2. e \in 0..M /\ e # 0 /\ e - 1 = d /\ ~(d > M)
    BY <1>5, <2>1
  <2>3. level[e] = LevelTurn(level[d])
    BY <1>3, <2>2 DEF IsLevels
  <2> SUFFICES ASSUME NEW g \in level[e] PROVE <<g, e>> \in V
    BY <2>1
  <2>4. PICK f, entry : f \in level[d] \ unreadable /\ entry \in ToSet(Tree[f]) /\ g = entry[2] /\ g # 0
    BY <2>3 DEF LevelTurn
  <2>5. <<f, d>> \in V
    BY <1>5, <2>4
  <2>6. g \in Inner(f)
    BY <2>4 DEF Inner, ToSet
  <2>7. PICK v \in V : v = <<f, d>>
    BY <2>5
  <2>8. <<g, v[2] + 1>> \in V
    BY <1>1, <1>2, <2>2, <2>4, <2>6, <2>7
  <2> QED BY <2>1, <2>7, <2>8
<1>6. D = {}
  <2> SUFFICES ASSUME D # {} PROVE FALSE
    OBVIOUS
  <2> HIDE DEF Passed
  <2>1. PICK m \in D : \A k \in D : m <= k
    <3>1. D \in SUBSET Nat
      OBVIOUS
    <3> HIDE DEF D
    <3> QED BY <3>1, LeastNumber
  <2>2. m \in Nat /\ m <= M /\ ~Passed(m) /\ m # 0
    BY <1>4
  <2>3. PICK k \in Nat : m = k + 1
    <3>1. m - 1 \in Nat /\ m = (m - 1) + 1
      BY <2>2
    <3> QED BY <3>1
  <2>4. k <= M /\ ~(m <= k) /\ k + 1 <= M
    BY <2>2, <2>3
  <2>5. Passed(k)
    BY <2>1, <2>4
  <2> QED BY <1>5, <2>2, <2>3, <2>4, <2>5
<1> SUFFICES ASSUME NEW found \in Fitted(typed) PROVE found \in told
  OBVIOUS
<1>7. /\ found \in (Within(M) \ unreadable) \X Fitting[typed]
      /\ \E entry \in ToSet(Tree[found[1]]) : entry[1] = found[2]
  BY <1>2 DEF Fitted
<1>8. PICK f, name : found = <<f, name>> /\ f \in Within(M) \ unreadable /\ name \in Fitting[typed]
  BY <1>7
<1>9. PICK d \in 0..M : f \in level[d]
  BY <1>3, <1>8
<1>10. d \in Nat /\ d <= M /\ ~(d > M)
  BY <1>9
<1>11. Passed(d)
  <2> HIDE DEF Passed
  <2> QED BY <1>6, <1>10
<1>12. PICK v \in V : v = <<f, d>>
  BY <1>9, <1>11
<1>13. Hits(f, typed) \subseteq told
  BY <1>1, <1>2, <1>8, <1>10, <1>12
<1>14. PICK k \in DOMAIN Tree[f] : Tree[f][k][1] = name
  BY <1>7, <1>8 DEF ToSet
<1>15. name \in Matching[typed]
  BY <1>8, FittingMatch
<1>16. found \in Hits(f, typed)
  BY <1>8, <1>14, <1>15 DEF Hits
<1> QED BY <1>13, <1>16

---------------------------------------------------------------------------
(* the types                                                               *)
Runs(i) == Wake(i) \/ ReadNext(i) \/ Done(i) \/ Refused(i) \/ FolderRead(i)
OnlyRuns == UNCHANGED <<unreadable, live, screen, commands, generation, keys>>

LEMMA TaskIs ==
  ASSUME NEW t \in WalkTask
  PROVE  /\ t.generation \in Nat /\ t.pattern \in Patterns /\ t.cancel \in BOOLEAN /\ t.awake \in BOOLEAN
         /\ t.stack \in Seq(Stops) /\ t.reading \in {<<>>} \cup Stops /\ t.found \in Nat
         /\ t = [generation |-> t.generation, pattern |-> t.pattern, cancel |-> t.cancel, awake |-> t.awake,
                 stack |-> t.stack, reading |-> t.reading, found |-> t.found]
BY DEF WalkTask

LEMMA SeqAppend ==
  ASSUME NEW S, NEW s \in Seq(S), NEW x \in S
  PROVE  /\ Append(s, x) \in Seq(S) /\ Len(Append(s, x)) = Len(s) + 1 /\ Append(s, x) # <<>>
         /\ Append(s, x)[Len(s) + 1] = x
OBVIOUS

LEMMA SeqJoin ==
  ASSUME NEW S, NEW s \in Seq(S), NEW b \in Seq(S), NEW x \in S
  PROVE  /\ Append(s, x) = s \o <<x>> /\ <<x>> \in Seq(S)
         /\ Append(b, x) \in Seq(S) /\ Append(s \o b, x) = s \o Append(b, x)
<1>1. Append(s, x) = s \o <<x>> /\ <<x>> \in Seq(S) /\ Append(b, x) \in Seq(S) /\ s \o b \in Seq(S)
  OBVIOUS
<1>2. PICK t, c, d, e : t = s \o b /\ c = Append(b, x) /\ d = Append(t, x) /\ e = s \o c
  OBVIOUS
<1>3. /\ Len(t) = Len(s) + Len(b) /\ Len(c) = Len(b) + 1 /\ Len(d) = Len(t) + 1 /\ Len(e) = Len(s) + Len(c)
      /\ t \in Seq(S) /\ c \in Seq(S) /\ d \in Seq(S) /\ e \in Seq(S) /\ Len(s) \in Nat /\ Len(b) \in Nat
  BY <1>1, <1>2
<1>4. ASSUME NEW k \in 1..Len(d) PROVE d[k] = e[k]
  <2>1. CASE k <= Len(s)
    BY <1>2, <1>3, <1>4, <2>1
  <2>2. CASE ~(k <= Len(s)) /\ k <= Len(t)
    <3>1. PICK j : j = k - Len(s)
      OBVIOUS
    <3>2. j \in 1..Len(b) /\ k = Len(s) + j /\ k \in 1..Len(t)
      BY <1>3, <1>4, <2>2, <3>1
    <3>3. t[k] = b[j] /\ d[k] = t[k] /\ e[k] = c[j] /\ c[j] = b[j]
      BY <1>2, <1>3, <3>1, <3>2
    <3> QED BY <3>3
  <2>3. CASE ~(k <= Len(t))
    <3>1. k = Len(t) + 1 /\ k = Len(s) + Len(c)
      <4>1. PICK m, n : m = Len(s) /\ n = Len(b)
        OBVIOUS
      <4>2. m \in Nat /\ n \in Nat /\ Len(t) = m + n /\ Len(c) = n + 1 /\ Len(d) = m + n + 1
        BY ONLY <1>3, <4>1
      <4>3. k \in 1..(m + n + 1) /\ ~(k <= m + n)
        BY ONLY <1>4, <2>3, <4>2
      <4>4. k = m + n + 1
        BY ONLY <4>2, <4>3
      <4> QED BY ONLY <4>1, <4>2, <4>4
    <3>2. d[k] = x /\ e[k] = c[Len(c)] /\ c[Len(c)] = x
      BY <1>2, <1>3, <3>1
    <3> QED BY <3>2
  <2> QED BY <2>1, <2>2, <2>3
<1>5. d = e
  BY <1>3, <1>4
<1> QED BY <1>1, <1>2, <1>5

LEMMA SeqTail ==
  ASSUME NEW S, NEW s \in Seq(S), s # <<>>
  PROVE  /\ Tail(s) \in Seq(S) /\ Head(s) \in S /\ Head(s) = s[1] /\ Len(Tail(s)) = Len(s) - 1 /\ Len(s) \in Nat /\ Len(s) >= 1
         /\ \A n \in 1..Len(Tail(s)) : Tail(s)[n] = s[n + 1]
OBVIOUS

LEMMA GoneTyped ==
  ASSUME SearchTyped, NEW i \in DOMAIN tasks
  PROVE  Gone(i) \in Seq(WalkTask) /\ DOMAIN Gone(i) = 1..(Len(tasks) - 1)
<1>1. tasks \in Seq(WalkTask) /\ Len(tasks) \in Nat /\ DOMAIN tasks = 1..Len(tasks) /\ Len(tasks) - 1 \in Nat
  BY DEF SearchTyped
<1>2. \A j \in 1..(Len(tasks) - 1) : (IF j < i THEN tasks[j] ELSE tasks[j + 1]) \in WalkTask
  BY <1>1
<1> QED BY <1>1, <1>2 DEF Gone

LEMMA CancelledTyped ==
  ASSUME SearchTyped
  PROVE  Cancelled \in Seq(WalkTask) /\ Len(Cancelled) = Len(tasks)
<1>1. tasks \in Seq(WalkTask) /\ Len(tasks) \in Nat /\ DOMAIN tasks = 1..Len(tasks)
  BY DEF SearchTyped
<1>2. \A t \in WalkTask : [t EXCEPT !.cancel = TRUE] \in WalkTask
  BY DEF WalkTask
<1>3. \A i \in DOMAIN tasks : [tasks[i] EXCEPT !.cancel = TRUE] \in WalkTask
  BY <1>1, <1>2
<1> QED BY <1>1, <1>3 DEF Cancelled

LEMMA ScreenTyped ==
  ASSUME SearchTyped, NEW typed \in Patterns \cup {<<>>}, NEW new,
         \/ new = NoScreen
         \/ new = Restarted(typed)
         \/ new = [screen EXCEPT !.failed = TRUE]
         \/ new = screen
  PROVE  /\ new = [open |-> new.open, pattern |-> new.pattern, results |-> new.results,
                   truncated |-> new.truncated, failed |-> new.failed]
         /\ new.open \in BOOLEAN /\ new.failed \in BOOLEAN /\ new.pattern \in Patterns \cup {<<>>}
         /\ new.results \in SUBSET FoundPaths /\ IsFiniteSet(new.results)
<1>1. IsFiniteSet({})
  BY FS_EmptySet
<1>2. CASE new = NoScreen
  BY <1>1, <1>2 DEF NoScreen
<1>3. CASE new = Restarted(typed)
  <2>1. new = [open |-> TRUE, pattern |-> typed, results |-> {}, truncated |-> FALSE, failed |-> FALSE]
    BY <1>3 DEF NoScreen, Restarted
  <2> QED BY <1>1, <2>1
<1>4. CASE new = [screen EXCEPT !.failed = TRUE]
  <2>1. new = [open |-> screen.open, pattern |-> screen.pattern, results |-> screen.results,
               truncated |-> screen.truncated, failed |-> TRUE]
    BY <1>4 DEF SearchTyped
  <2> QED BY <2>1 DEF SearchTyped
<1>5. CASE new = screen
  BY <1>5 DEF SearchTyped
<1> QED BY <1>2, <1>3, <1>4, <1>5

LEMMA TakeEventTyped ==
  ASSUME SearchTyped, TakeEvent
  PROVE  SearchTyped'
<1>1. /\ events \in Seq(SearchEvent) /\ events # <<>> /\ events' = Tail(events)
      /\ UNCHANGED <<unreadable, live, commands, generation, tasks>>
  BY DEF SearchTyped, TakeEvent
<1>2. PICK event : event = Head(events)
  OBVIOUS
<1>3. event \in SearchEvent /\ events' \in Seq(SearchEvent)
  BY <1>1, <1>2, SeqTail
<1> DEFINE Fine(new) ==
      /\ new = [open |-> new.open, pattern |-> new.pattern, results |-> new.results,
                truncated |-> new.truncated, failed |-> new.failed]
      /\ new.open \in BOOLEAN /\ new.failed \in BOOLEAN /\ new.pattern \in Patterns \cup {<<>>}
      /\ new.results \in SUBSET FoundPaths /\ IsFiniteSet(new.results)
<1>4. Fine(screen) /\ screen = [open |-> screen.open, pattern |-> screen.pattern, results |-> screen.results,
                truncated |-> screen.truncated, failed |-> screen.failed]
  BY DEF SearchTyped
<1>5. Fine(screen')
  <2>1. CASE ~screen.open
    <3>1. screen' = screen
      BY <2>1 DEF TakeEvent
    <3> QED BY <1>4, <3>1
  <2>2. CASE screen.open /\ event[1] = "Found"
    <3>1. event[2] \in FoundPaths
      BY <1>3, <2>2 DEF SearchEvent
    <3>2. screen' = [screen EXCEPT !.results = @ \cup {event[2]}]
      BY <1>2, <2>2 DEF TakeEvent
    <3>3. IsFiniteSet(screen.results \cup {event[2]})
      BY <1>4, FS_AddElement
    <3>4. screen' = [open |-> screen.open, pattern |-> screen.pattern, results |-> screen.results \cup {event[2]},
                     truncated |-> screen.truncated, failed |-> screen.failed]
      BY <1>4, <3>2
    <3> QED BY <1>4, <3>1, <3>3, <3>4
  <2>3. CASE screen.open /\ event[1] = "Done"
    <3>2. screen' = [screen EXCEPT !.truncated = event[2]]
      BY <1>2, <2>3 DEF TakeEvent
    <3>4. screen' = [open |-> screen.open, pattern |-> screen.pattern, results |-> screen.results,
                     truncated |-> event[2], failed |-> screen.failed]
      BY <1>4, <3>2
    <3> QED BY <1>4, <3>4
  <2>4. CASE screen.open /\ event[1] = "Failed"
    <3>2. screen' = [screen EXCEPT !.truncated = FALSE, !.failed = TRUE]
      BY <1>2, <2>4 DEF TakeEvent
    <3>4. screen' = [open |-> screen.open, pattern |-> screen.pattern, results |-> screen.results,
                     truncated |-> FALSE, failed |-> TRUE]
      BY <1>4, <3>2
    <3> QED BY <1>4, <3>4
  <2>5. event[1] \in {"Found", "Done", "Failed"}
    BY <1>3 DEF SearchEvent
  <2> QED BY <1>4, <2>1, <2>2, <2>3, <2>4, <2>5
<1> QED BY <1>1, <1>3, <1>5 DEF SearchTyped

LEMMA ScreenActionsTyped ==
  ASSUME SearchTyped, OpenSearch \/ Type \/ StopSearch
  PROVE  SearchTyped'
<1>1. UNCHANGED <<unreadable, live, events, generation, tasks>>
  BY DEF OpenSearch, Type, StopSearch, Elsewhere
<1>2. commands' \in Seq(SearchCommand)
  <2>1. <<"CancelSearch">> \in SearchCommand /\ \A typed \in Patterns : <<"Search", typed>> \in SearchCommand
    BY DEF SearchCommand
  <2>2. commands \in Seq(SearchCommand)
    BY DEF SearchTyped
  <2>3. CASE OpenSearch
    BY <2>2, <2>3 DEF OpenSearch
  <2>4. CASE Type
    <3>1. PICK command \in SearchCommand : commands' = Append(commands, command)
      BY <2>1, <2>4 DEF Type
    <3> QED BY <2>2, <3>1, SeqAppend
  <2>5. CASE StopSearch
    <3>1. PICK command \in SearchCommand : commands' = Append(commands, command)
      BY <2>1, <2>5 DEF StopSearch
    <3> QED BY <2>2, <3>1, SeqAppend
  <2> QED BY <2>3, <2>4, <2>5
<1>3. PICK typed \in Patterns \cup {<<>>} :
         \/ screen' = NoScreen
         \/ screen' = Restarted(typed)
         \/ screen' = [screen EXCEPT !.failed = TRUE]
         \/ screen' = screen
  BY DEF OpenSearch, Type, StopSearch
<1>4. PICK new : new = screen'
  OBVIOUS
<1>5. /\ new = [open |-> new.open, pattern |-> new.pattern, results |-> new.results,
                truncated |-> new.truncated, failed |-> new.failed]
      /\ new.open \in BOOLEAN /\ new.failed \in BOOLEAN /\ new.pattern \in Patterns \cup {<<>>}
      /\ new.results \in SUBSET FoundPaths /\ IsFiniteSet(new.results)
  BY <1>3, <1>4, ScreenTyped
<1> QED BY <1>1, <1>2, <1>4, <1>5 DEF SearchTyped

LEMMA HandlersTyped ==
  ASSUME SearchTyped, Search \/ CancelSearch \/ Disconnect
  PROVE  SearchTyped'
<1>1. commands \in Seq(SearchCommand) /\ generation \in Nat /\ tasks \in Seq(WalkTask)
  BY DEF SearchTyped
<1>2. UNCHANGED <<unreadable, screen, events>> /\ live' \in BOOLEAN
  BY DEF Search, CancelSearch, Disconnect, SearchTyped
<1>3. CASE Search
  <2>1. commands' \in Seq(SearchCommand) /\ Head(commands) \in SearchCommand
    BY <1>1, <1>3, SeqTail DEF Search
  <2>2. Head(commands)[2] \in Patterns
    BY <1>3, <2>1 DEF Search, SearchCommand
  <2>3. PICK task : task = NewTask(Head(commands)[2])
    OBVIOUS
  <2>4. task \in WalkTask
    BY <1>1, <2>2, <2>3 DEF NewTask, WalkTask
  <2>5. tasks' \in Seq(WalkTask)
    BY <1>3, <2>3, <2>4, CancelledTyped, SeqAppend DEF Search, Started
  <2>6. generation' \in Nat
    BY <1>1, <1>3 DEF Search
  <2> QED BY <1>2, <2>1, <2>5, <2>6 DEF SearchTyped
<1>4. CASE CancelSearch
  <2>1. commands' \in Seq(SearchCommand)
    BY <1>1, <1>4, SeqTail DEF CancelSearch
  <2>2. tasks' \in Seq(WalkTask) /\ generation' = generation
    BY <1>4, CancelledTyped DEF CancelSearch
  <2> QED BY <1>2, <2>1, <2>2 DEF SearchTyped
<1>5. CASE Disconnect
  BY <1>2, <1>5 DEF SearchTyped, Disconnect
<1> QED BY <1>3, <1>4, <1>5

---------------------------------------------------------------------------
(* the steps of a walk                                                     *)
WalkerAt(t, awake, stack, reading, found) ==
    [generation |-> t.generation, pattern |-> t.pattern, cancel |-> t.cancel, awake |-> awake,
     stack |-> stack, reading |-> reading, found |-> found]
WalksTo(i, u) == u \in WalkTask /\ tasks' = [tasks EXCEPT ![i] = u]

LEMMA WakeIs ==
  ASSUME SearchSound, SearchTyped, NEW i \in DOMAIN tasks, Wake(i), NEW t, t = tasks[i]
  PROVE  /\ events' = events /\ ~t.awake
         /\ \/ (t.cancel \/ t.generation # generation) /\ tasks' = Gone(i)
            \/ WalksTo(i, WalkerAt(t, TRUE, <<<<1, 0>>>>, t.reading, t.found))
<1>1. t \in WalkTask /\ events \in Seq(SearchEvent) /\ tasks \in Seq(WalkTask) /\ DOMAIN tasks = 1..Len(tasks)
  BY DEF SearchTyped
<1>2. events' = events /\ ~t.awake
  BY <1>1 DEF Wake, Tells
<1>3. CASE t.cancel \/ t.generation # generation
  BY <1>2, <1>3 DEF Wake
<1>4. CASE ~(t.cancel \/ t.generation # generation)
  <2>1. tasks' = [tasks EXCEPT ![i].awake = TRUE, ![i].stack = <<<<1, 0>>>>]
    BY <1>4 DEF Wake
  <2>2. tasks' = [tasks EXCEPT ![i] = [tasks[i] EXCEPT !.awake = TRUE, !.stack = <<<<1, 0>>>>]]
    BY <1>1, <2>1
  <2>3. PICK u : u = WalkerAt(t, TRUE, <<<<1, 0>>>>, t.reading, t.found)
    OBVIOUS
  <2>4. [t EXCEPT !.awake = TRUE, !.stack = <<<<1, 0>>>>] = u
    <3>1. t = [generation |-> t.generation, pattern |-> t.pattern, cancel |-> t.cancel, awake |-> t.awake,
               stack |-> t.stack, reading |-> t.reading, found |-> t.found]
      BY <1>1, TaskIs
    <3>2. PICK x : x = [t EXCEPT !.awake = TRUE]
      OBVIOUS
    <3>3. x = [generation |-> t.generation, pattern |-> t.pattern, cancel |-> t.cancel, awake |-> TRUE,
               stack |-> t.stack, reading |-> t.reading, found |-> t.found]
      BY ONLY <3>1, <3>2
    <3>4. PICK start : start = <<<<1, 0>>>>
      OBVIOUS
    <3>5. [t EXCEPT !.awake = TRUE, !.stack = start] = [x EXCEPT !.stack = start]
      BY ONLY <3>2
    <3>6. [x EXCEPT !.stack = start] = [generation |-> t.generation, pattern |-> t.pattern, cancel |-> t.cancel,
            awake |-> TRUE, stack |-> start, reading |-> t.reading, found |-> t.found]
      <4>1. PICK on : on = TRUE
        OBVIOUS
      <4>2. x = [generation |-> t.generation, pattern |-> t.pattern, cancel |-> t.cancel,
                 awake |-> on, stack |-> t.stack, reading |-> t.reading, found |-> t.found]
        BY ONLY <3>3, <4>1
      <4>3. [x EXCEPT !.stack = start] = [generation |-> t.generation, pattern |-> t.pattern, cancel |-> t.cancel,
               awake |-> on, stack |-> start, reading |-> t.reading, found |-> t.found]
        BY ONLY <4>2
      <4> QED BY ONLY <4>1, <4>3
    <3>7. u = [generation |-> t.generation, pattern |-> t.pattern, cancel |-> t.cancel,
            awake |-> TRUE, stack |-> start, reading |-> t.reading, found |-> t.found]
      BY <2>3, <3>4 DEF WalkerAt
    <3>8. [t EXCEPT !.awake = TRUE, !.stack = <<<<1, 0>>>>] = [t EXCEPT !.awake = TRUE, !.stack = start]
      BY ONLY <3>4
    <3> QED BY ONLY <3>5, <3>6, <3>7, <3>8
  <2>5. <<1, 0>> \in Stops
    BY DEF SearchSound, Stops
  <2>6. <<<<1, 0>>>> \in Seq(Stops)
    BY <2>5
  <2>7. u \in WalkTask
    BY <1>1, <2>3, <2>6, TaskIs DEF WalkerAt, WalkTask
  <2> QED BY <1>2, <2>2, <2>3, <2>4, <2>7 DEF WalksTo
<1> QED BY <1>3, <1>4

LEMMA ReadNextIs ==
  ASSUME SearchTyped, NEW i \in DOMAIN tasks, ReadNext(i), NEW t, t = tasks[i]
  PROVE  /\ events' = events /\ t.awake /\ t.reading = <<>> /\ t.stack # <<>>
         /\ \/ t.cancel /\ tasks' = Gone(i)
            \/ /\ ~t.cancel
               /\ WalksTo(i, WalkerAt(t, t.awake, Front(t.stack),
                                      IF Last(t.stack)[2] > MaxDepth THEN <<>> ELSE Last(t.stack), t.found))
<1>1. t \in WalkTask /\ events \in Seq(SearchEvent) /\ tasks \in Seq(WalkTask) /\ DOMAIN tasks = 1..Len(tasks)
  BY DEF SearchTyped
<1>2. events' = events /\ t.awake /\ t.reading = <<>> /\ t.stack # <<>>
  BY <1>1 DEF ReadNext, Tells
<1>3. CASE t.cancel
  BY <1>2, <1>3 DEF ReadNext
<1>4. CASE ~t.cancel
  <2>1. PICK stack, reading : stack = Front(t.stack) /\ reading = IF Last(t.stack)[2] > MaxDepth THEN <<>> ELSE Last(t.stack)
    OBVIOUS
  <2>2. tasks' = [tasks EXCEPT ![i].stack = stack, ![i].reading = reading]
    BY <1>4, <2>1 DEF ReadNext
  <2>3. tasks' = [tasks EXCEPT ![i] = [tasks[i] EXCEPT !.stack = stack, !.reading = reading]]
    BY <1>1, <2>2
  <2>4. PICK u : u = WalkerAt(t, t.awake, stack, reading, t.found)
    OBVIOUS
  <2>5. [t EXCEPT !.stack = stack, !.reading = reading] = u
    <3>1. t = [generation |-> t.generation, pattern |-> t.pattern, cancel |-> t.cancel, awake |-> t.awake,
               stack |-> t.stack, reading |-> t.reading, found |-> t.found]
      BY <1>1, TaskIs
    <3>2. PICK x : x = [t EXCEPT !.stack = stack]
      OBVIOUS
    <3>3. x = [generation |-> t.generation, pattern |-> t.pattern, cancel |-> t.cancel, awake |-> t.awake,
               stack |-> stack, reading |-> t.reading, found |-> t.found]
      BY ONLY <3>1, <3>2
    <3>4. [t EXCEPT !.stack = stack, !.reading = reading] = [x EXCEPT !.reading = reading]
      BY ONLY <3>2
    <3>5. [x EXCEPT !.reading = reading] =
            [generation |-> t.generation, pattern |-> t.pattern, cancel |-> t.cancel, awake |-> t.awake,
             stack |-> stack, reading |-> reading, found |-> t.found]
      BY ONLY <3>3
    <3>6. t.awake = TRUE
      BY <1>1, <1>2, TaskIs
    <3> QED BY <2>4, <3>4, <3>5, <3>6 DEF WalkerAt
  <2>6. stack \in Seq(Stops) /\ reading \in {<<>>} \cup Stops
    <3>1. t.stack \in Seq(Stops) /\ t.stack # <<>>
      BY <1>1, <1>2, TaskIs
    <3> QED BY <2>1, <3>1 DEF Front, Last
  <2>7. u \in WalkTask
    BY <1>1, <2>4, <2>6, TaskIs DEF WalkerAt, WalkTask
  <2> QED BY <1>2, <1>4, <2>1, <2>3, <2>4, <2>5, <2>7 DEF WalksTo
<1> QED BY <1>3, <1>4

LEMMA RefusedIs ==
  ASSUME SearchTyped, NEW i \in DOMAIN tasks, Refused(i), NEW t, t = tasks[i]
  PROVE  /\ t.reading # <<>> /\ t.reading[1] \in unreadable
         /\ \/ tasks' = Gone(i) /\ events' = Append(events, <<"Failed">>)
            \/ WalksTo(i, [t EXCEPT !.reading = <<>>]) /\ events' = events
<1>1. t \in WalkTask /\ events \in Seq(SearchEvent) /\ tasks \in Seq(WalkTask) /\ DOMAIN tasks = 1..Len(tasks)
  BY DEF SearchTyped
<1>2. t.reading # <<>> /\ t.reading[1] \in unreadable
  BY DEF Refused
<1>3. events \o <<>> = events /\ events \o <<<<"Failed">>>> = Append(events, <<"Failed">>)
  BY <1>1
<1>4. [t EXCEPT !.reading = <<>>] \in WalkTask
  BY <1>1 DEF WalkTask
<1>5. \/ events' = events \o <<<<"Failed">>>> /\ tasks' = Gone(i)
      \/ events' = events \o <<>> /\ tasks' = [tasks EXCEPT ![i].reading = <<>>]
  BY DEF Refused, Tells
<1>6. [tasks EXCEPT ![i].reading = <<>>] = [tasks EXCEPT ![i] = [t EXCEPT !.reading = <<>>]]
  BY <1>1
<1> QED BY <1>2, <1>3, <1>4, <1>5, <1>6 DEF WalksTo

LEMMA MatchesAre ==
  ASSUME SearchSound, NEW t, NEW r \in TreeFolders, t.reading[1] = r, NEW M, M = Matches(t)
  PROVE  /\ M \in Seq(Seq(Letters) \X (TreeFolders \cup {0}))
         /\ \A k \in DOMAIN M : <<r, M[k][1]>> \in Hits(r, t.pattern) /\ <<r, M[k][1]>> \in FoundPaths
         /\ \A path \in Hits(r, t.pattern) : \E k \in DOMAIN M : path = <<r, M[k][1]>>
         /\ \A k, l \in DOMAIN M : M[k][1] = M[l][1] => k = l
<1>1. PICK entries, fits : entries = Tree[r] /\ fits = Matching[t.pattern]
  OBVIOUS
<1>2. PICK wanted : wanted = {entry \in ToSet(entries) : entry[1] \in fits}
  OBVIOUS
<1>3. /\ entries \in Seq(Seq(Letters) \X (TreeFolders \cup {0}))
      /\ \A k, l \in DOMAIN entries : entries[k] = entries[l] => k = l
  BY <1>1, TreeIs
<1>4. M = Picked(entries, wanted)
  BY <1>1, <1>2 DEF Matches
<1>5. /\ M \in Seq(Seq(Letters) \X (TreeFolders \cup {0}))
      /\ ToSet(M) = {entries[m] : m \in {l \in 1..Len(entries) : entries[l] \in wanted}}
      /\ \A k, l \in DOMAIN M : M[k] = M[l] => k = l
  <2>1. PickedUpTo(Seq(Letters) \X (TreeFolders \cup {0}), entries, wanted, Len(entries), M)
    BY <1>3, <1>4, PickedIs
  <2> QED BY <2>1 DEF PickedUpTo
<1>6. DOMAIN entries = 1..Len(entries)
  BY <1>3
<1>7. \A k \in DOMAIN M : \E l \in DOMAIN entries : M[k] = entries[l] /\ entries[l] \in wanted
  <2> SUFFICES ASSUME NEW k \in DOMAIN M PROVE \E l \in DOMAIN entries : M[k] = entries[l] /\ entries[l] \in wanted
    OBVIOUS
  <2>1. M[k] \in ToSet(M)
    BY DEF ToSet
  <2> QED BY <1>5, <1>6, <2>1
<1>8. \A l \in DOMAIN entries : entries[l] \in wanted => \E k \in DOMAIN M : M[k] = entries[l]
  BY <1>5, <1>6 DEF ToSet
<1>9. ASSUME NEW k \in DOMAIN M
      PROVE  <<r, M[k][1]>> \in Hits(r, t.pattern) /\ <<r, M[k][1]>> \in FoundPaths
  <2>1. PICK l \in DOMAIN entries : M[k] = entries[l] /\ entries[l] \in wanted
    BY <1>7
  <2>2. entries[l][1] \in fits /\ entries[l] \in ToSet(Tree[r])
    BY <1>1, <1>2, <2>1
  <2>3. entries[l][1] \in Names
    BY <2>2 DEF Names, TreeFolders
  <2> QED BY <1>1, <2>1, <2>2, <2>3 DEF Hits, FoundPaths
<1>10. ASSUME NEW path \in Hits(r, t.pattern) PROVE \E k \in DOMAIN M : path = <<r, M[k][1]>>
  <2>1. PICK l \in DOMAIN entries : path = <<r, entries[l][1]>> /\ entries[l][1] \in fits
    BY <1>1 DEF Hits
  <2>2. entries[l] \in wanted
    BY <1>2, <2>1 DEF ToSet
  <2>3. PICK k \in DOMAIN M : M[k] = entries[l]
    BY <1>8, <2>2
  <2> QED BY <2>1, <2>3
<1>11. ASSUME NEW k \in DOMAIN M, NEW l \in DOMAIN M, M[k][1] = M[l][1] PROVE k = l
  <2>1. PICK m, n : m \in DOMAIN entries /\ M[k] = entries[m] /\ n \in DOMAIN entries /\ M[l] = entries[n]
    BY <1>7
  <2>2. m = n
    BY <1>1, <1>11, <2>1 DEF SearchSound
  <2>3. M[k] = M[l]
    BY <2>1, <2>2
  <2> QED BY <1>5, <2>3
<1> QED BY <1>5, <1>9, <1>10, <1>11

LEMMA InsideIs ==
  ASSUME SearchSound, NEW t, NEW r \in TreeFolders, t.reading[1] = r, NEW M, M = Inside(t)
  PROVE  /\ M \in Seq(Seq(Letters) \X (TreeFolders \cup {0}))
         /\ \A k \in DOMAIN M : M[k][2] \in Inner(r) /\ M[k][2] \in TreeFolders
         /\ \A g \in Inner(r) : \E k \in DOMAIN M : g = M[k][2]
         /\ \A k, l \in DOMAIN M : M[k][2] = M[l][2] => k = l
<1>1. PICK entries : entries = Tree[r]
  OBVIOUS
<1>2. PICK wanted : wanted = {entry \in ToSet(entries) : entry[2] # 0}
  OBVIOUS
<1>3. /\ entries \in Seq(Seq(Letters) \X (TreeFolders \cup {0}))
      /\ \A k, l \in DOMAIN entries : entries[k] = entries[l] => k = l
  BY <1>1, TreeIs
<1>4. M = Picked(entries, wanted)
  BY <1>1, <1>2 DEF Inside
<1>5. /\ M \in Seq(Seq(Letters) \X (TreeFolders \cup {0}))
      /\ ToSet(M) = {entries[m] : m \in {l \in 1..Len(entries) : entries[l] \in wanted}}
      /\ \A k, l \in DOMAIN M : M[k] = M[l] => k = l
  <2>1. PickedUpTo(Seq(Letters) \X (TreeFolders \cup {0}), entries, wanted, Len(entries), M)
    BY <1>3, <1>4, PickedIs
  <2> QED BY <2>1 DEF PickedUpTo
<1>6. DOMAIN entries = 1..Len(entries)
  BY <1>3
<1>7. \A k \in DOMAIN M : \E l \in DOMAIN entries : M[k] = entries[l] /\ entries[l] \in wanted
  <2> SUFFICES ASSUME NEW k \in DOMAIN M PROVE \E l \in DOMAIN entries : M[k] = entries[l] /\ entries[l] \in wanted
    OBVIOUS
  <2>1. M[k] \in ToSet(M)
    BY DEF ToSet
  <2> QED BY <1>5, <1>6, <2>1
<1>8. \A l \in DOMAIN entries : entries[l] \in wanted => \E k \in DOMAIN M : M[k] = entries[l]
  BY <1>5, <1>6 DEF ToSet
<1>9. ASSUME NEW k \in DOMAIN M
      PROVE  M[k][2] \in Inner(r) /\ M[k][2] \in TreeFolders
  <2>1. PICK l \in DOMAIN entries : M[k] = entries[l] /\ entries[l] \in wanted
    BY <1>7
  <2>2. entries[l][2] # 0
    BY <1>2, <2>1
  <2>3. entries[l][2] \in TreeFolders \cup {0}
    BY <1>3
  <2> QED BY <1>1, <2>1, <2>2, <2>3 DEF Inner
<1>10. ASSUME NEW g \in Inner(r) PROVE \E k \in DOMAIN M : g = M[k][2]
  <2>1. PICK l \in DOMAIN entries : g = entries[l][2] /\ g # 0
    BY <1>1 DEF Inner
  <2>2. entries[l] \in wanted
    BY <1>2, <2>1 DEF ToSet
  <2>3. PICK k \in DOMAIN M : M[k] = entries[l]
    BY <1>8, <2>2
  <2> QED BY <2>1, <2>3
<1>11. ASSUME NEW k \in DOMAIN M, NEW l \in DOMAIN M, M[k][2] = M[l][2] PROVE k = l
  <2>1. PICK m, n : /\ m \in DOMAIN entries /\ M[k] = entries[m] /\ entries[m] \in wanted
                    /\ n \in DOMAIN entries /\ M[l] = entries[n]
    BY <1>7
  <2>2. m = n
    BY <1>1, <1>2, <1>11, <2>1 DEF SearchSound
  <2>3. M[k] = M[l]
    BY <2>1, <2>2
  <2> QED BY <1>5, <2>3
<1> QED BY <1>5, <1>9, <1>10, <1>11

Founds(told) == [k \in DOMAIN told |-> <<"Found", told[k]>>]
ToldOf(t, told) ==
    /\ told \in Seq(FoundPaths)
    /\ \A k \in DOMAIN told : told[k] \in Hits(t.reading[1], t.pattern)
    /\ \A k, l \in DOMAIN told : told[k] = told[l] => k = l
InsideOf(t, inside) ==
    /\ inside \in Seq(Stops)
    /\ \A k \in DOMAIN inside : inside[k][1] \in Inner(t.reading[1])
    /\ \A g \in Inner(t.reading[1]) : \E k \in DOMAIN inside : inside[k] = <<g, t.reading[2] + 1>>
    /\ \A k, l \in DOMAIN inside : inside[k][1] = inside[l][1] => k = l

IsFirst(S, s, most, first) ==
    /\ first \in Seq(S) /\ \A k \in DOMAIN first : k \in DOMAIN s /\ first[k] = s[k]
    /\ Len(first) >= most \/ first = s

LEMMA FirstOf ==
  ASSUME NEW S, NEW s \in Seq(S), NEW most \in Int, NEW first, first = SubSeq(s, 1, Smaller(Len(s), most))
  PROVE  IsFirst(S, s, most, first)
<1> DEFINE n == Smaller(Len(s), most)
<1>1. Len(s) \in Nat /\ n \in Int /\ n <= Len(s) /\ n <= most /\ (n = Len(s) \/ n = most)
  BY DEF Smaller
<1>2. CASE n >= 1
  <2>1. Len(first) = n /\ first \in Seq(S) /\ \A k \in 1..n : first[k] = s[k]
    BY <1>1, <1>2
  <2>2. \A k \in DOMAIN first : k \in DOMAIN s /\ first[k] = s[k]
    BY <1>1, <2>1
  <2>3. n = Len(s) => first = s
    BY <1>1, <2>1
  <2> QED BY <1>1, <2>1, <2>2, <2>3 DEF IsFirst
<1>3. CASE ~(n >= 1)
  <2>1. first = <<>>
    BY <1>1, <1>3
  <2>2. n = Len(s) => s = <<>>
    BY <1>1, <1>3
  <2> QED BY <1>1, <1>3, <2>1, <2>2 DEF IsFirst
<1> QED BY <1>2, <1>3

LEMMA FolderReadIs ==
  ASSUME SearchSound, SearchTyped, NEW i \in DOMAIN tasks, FolderRead(i), NEW t, t = tasks[i]
  PROVE  /\ t.reading # <<>> /\ t.reading[1] \notin unreadable
         /\ \/ t.cancel /\ tasks' = Gone(i) /\ events' = events
            \/ \E told, inside :
                 /\ ToldOf(t, told) /\ InsideOf(t, inside)
                 /\ \/ /\ t.found + Len(told) >= MaxResults
                       /\ tasks' = Gone(i) /\ events' = Append(events \o Founds(told), <<"Done", TRUE>>)
                    \/ /\ Hits(t.reading[1], t.pattern) \subseteq ToSet(told)
                       /\ events' = events \o Founds(told)
                       /\ WalksTo(i, WalkerAt(t, t.awake, t.stack \o inside, <<>>, t.found + Len(told)))
<1>1. t \in WalkTask /\ events \in Seq(SearchEvent) /\ tasks \in Seq(WalkTask) /\ DOMAIN tasks = 1..Len(tasks)
  BY DEF SearchTyped
<1>2. t.reading # <<>> /\ t.reading[1] \notin unreadable
  BY DEF FolderRead
<1>3. PICK r, d : r = t.reading[1] /\ d = t.reading[2] /\ t.reading \in Stops /\ r \in TreeFolders /\ d \in Nat
  <2>1. t.reading \in Stops
    BY <1>1, <1>2, TaskIs
  <2> QED BY <2>1 DEF Stops
<1>4. PICK M, K, most : M = Matches(t) /\ K = Inside(t) /\ most = MaxResults - t.found
  OBVIOUS
<1>5. most \in Int /\ t.found \in Nat /\ MaxResults \in Nat
  BY <1>1, <1>4, TaskIs DEF SearchSound
<1>6. PICK n, first : n = Smaller(Len(M), most) /\ first = SubSeq(M, 1, n)
  OBVIOUS
<1> DEFINE told == [k \in DOMAIN first |-> <<r, first[k][1]>>]
           founds == [k \in DOMAIN first |-> <<"Found", <<r, first[k][1]>>>>]
           inside == [k \in DOMAIN K |-> <<K[k][2], d + 1>>]
<1>7. /\ M \in Seq(Seq(Letters) \X (TreeFolders \cup {0}))
      /\ \A k \in DOMAIN M : <<r, M[k][1]>> \in Hits(r, t.pattern) /\ <<r, M[k][1]>> \in FoundPaths
      /\ \A path \in Hits(r, t.pattern) : \E k \in DOMAIN M : path = <<r, M[k][1]>>
      /\ \A k, l \in DOMAIN M : M[k][1] = M[l][1] => k = l
  BY <1>3, <1>4, MatchesAre
<1>8. /\ K \in Seq(Seq(Letters) \X (TreeFolders \cup {0}))
      /\ \A k \in DOMAIN K : K[k][2] \in Inner(r) /\ K[k][2] \in TreeFolders
      /\ \A g \in Inner(r) : \E k \in DOMAIN K : g = K[k][2]
      /\ \A k, l \in DOMAIN K : K[k][2] = K[l][2] => k = l
  <2>1. SearchSound
    OBVIOUS
  <2>2. r \in TreeFolders /\ t.reading[1] = r /\ K = Inside(t)
    BY <1>3, <1>4
  <2> QED BY ONLY <2>1, <2>2, InsideIs
<1>9. /\ first \in Seq(Seq(Letters) \X (TreeFolders \cup {0})) /\ \A k \in DOMAIN first : k \in DOMAIN M /\ first[k] = M[k]
      /\ Len(first) >= most \/ first = M
  <2>1. M \in Seq(Seq(Letters) \X (TreeFolders \cup {0}))
    BY <1>7
  <2>2. PICK S : S = Seq(Letters) \X (TreeFolders \cup {0})
    OBVIOUS
  <2>3. most \in Int /\ M \in Seq(S) /\ n = Smaller(Len(M), most) /\ first = SubSeq(M, 1, n)
    BY <1>5, <1>6, <2>1, <2>2
  <2>4. /\ first \in Seq(S) /\ \A k \in DOMAIN first : k \in DOMAIN M /\ first[k] = M[k]
        /\ Len(first) >= most \/ first = M
    <3>1. IsFirst(S, M, most, first)
      BY <2>3, FirstOf
    <3> QED BY <3>1 DEF IsFirst
  <2> QED BY <2>2, <2>4
<1>10. DOMAIN first = 1..Len(first) /\ Len(first) \in Nat
  BY <1>9
<1>11. Len(told) = Len(first) /\ DOMAIN told = DOMAIN first /\ told \in Seq(FoundPaths)
  BY <1>7, <1>9, <1>10
<1>12. ToldOf(t, told)
  <2>1. \A k \in DOMAIN told : told[k] \in Hits(t.reading[1], t.pattern)
    BY <1>3, <1>7, <1>9
  <2>2. \A k, l \in DOMAIN told : told[k] = told[l] => k = l
    BY <1>7, <1>9
  <2> QED BY <1>11, <2>1, <2>2 DEF ToldOf
<1>13. DOMAIN K = 1..Len(K) /\ Len(K) \in Nat /\ DOMAIN inside = DOMAIN K
  BY <1>8
<1>14. inside \in Seq(Stops)
  BY <1>3, <1>8, <1>13 DEF Stops
<1>15. InsideOf(t, inside)
  <2>1. \A k \in DOMAIN inside : inside[k] = <<K[k][2], t.reading[2] + 1>>
    BY <1>3, <1>13
  <2> HIDE DEF inside
  <2>2. \A k \in DOMAIN inside : inside[k][1] \in Inner(t.reading[1])
    BY <1>3, <1>8, <1>13, <2>1
  <2>3. \A g \in Inner(t.reading[1]) : \E k \in DOMAIN inside : inside[k] = <<g, t.reading[2] + 1>>
    BY <1>3, <1>8, <1>13, <2>1
  <2>4. \A k, l \in DOMAIN inside : inside[k][1] = inside[l][1] => k = l
    BY <1>8, <1>13, <2>1
  <2> QED BY <1>14, <2>2, <2>3, <2>4 DEF InsideOf
<1>16. Founds(told) = founds
  BY <1>11 DEF Founds
<1>17. \/ t.cancel /\ events' = events \o <<>> /\ tasks' = Gone(i)
       \/ t.found + Len(first) >= MaxResults /\ events' = events \o (founds \o <<<<"Done", TRUE>>>>) /\ tasks' = Gone(i)
       \/ /\ ~(t.found + Len(first) >= MaxResults)
          /\ events' = events \o founds
          /\ tasks' = [tasks EXCEPT ![i].found = @ + Len(first), ![i].reading = <<>>, ![i].stack = @ \o inside]
  <2>1. FoundIn(t) = founds
    BY <1>3, <1>4, <1>6 DEF FoundIn
  <2>2. Below(t) = inside
    BY <1>3, <1>4 DEF Below
  <2>3. Len(founds) = Len(first)
    BY <1>10
  <2> HIDE DEF founds, inside
  <2>4. \/ t.cancel /\ events' = events \o <<>> /\ tasks' = Gone(i)
        \/ /\ t.found + Len(FoundIn(t)) >= MaxResults
           /\ events' = events \o (FoundIn(t) \o <<<<"Done", TRUE>>>>) /\ tasks' = Gone(i)
        \/ /\ ~(t.found + Len(FoundIn(t)) >= MaxResults)
           /\ events' = events \o FoundIn(t)
           /\ tasks' = [tasks EXCEPT ![i].found = @ + Len(FoundIn(t)), ![i].reading = <<>>, ![i].stack = @ \o Below(t)]
    BY DEF FolderRead, Tells
  <2> QED BY ONLY <2>1, <2>2, <2>3, <2>4
<1>18. CASE t.found + Len(first) >= MaxResults /\ events' = events \o (founds \o <<<<"Done", TRUE>>>>) /\ tasks' = Gone(i)
  <2>1. founds \in Seq(SearchEvent)
    <3>1. \A k \in DOMAIN first : <<"Found", <<r, first[k][1]>>>> \in SearchEvent
      BY <1>7, <1>9 DEF SearchEvent
    <3> QED BY <1>10, <3>1
  <2>2. events' = Append(events \o founds, <<"Done", TRUE>>)
    <3> HIDE DEF founds
    <3>1. PICK done : done = <<"Done", TRUE>>
      OBVIOUS
    <3>2. events' = events \o (founds \o <<done>>)
      BY <1>18, <3>1
    <3>3. done \in SearchEvent
      BY <3>1 DEF SearchEvent
    <3>4. events' = Append(events \o founds, done)
      BY <1>1, <2>1, <3>2, <3>3
    <3> QED BY <3>1, <3>4
  <2> HIDE DEF founds, told, inside
  <2> QED BY <1>2, <1>11, <1>12, <1>15, <1>16, <1>18, <2>2
<1>19. CASE /\ ~(t.found + Len(first) >= MaxResults)
            /\ events' = events \o founds
            /\ tasks' = [tasks EXCEPT ![i].found = @ + Len(first), ![i].reading = <<>>, ![i].stack = @ \o inside]
  <2>1. first = M
    BY <1>4, <1>5, <1>9, <1>10, <1>19
  <2>2. Hits(t.reading[1], t.pattern) \subseteq ToSet(told)
    <3>1. \A k \in DOMAIN told : told[k] = <<r, M[k][1]>> /\ told[k] \in ToSet(told)
      BY <1>11, <2>1 DEF ToSet
    <3>2. DOMAIN told = DOMAIN M
      BY <1>11, <2>1
    <3> HIDE DEF told
    <3> SUFFICES ASSUME NEW path \in Hits(r, t.pattern) PROVE path \in ToSet(told)
      BY <1>3
    <3>3. PICK k \in DOMAIN M : path = <<r, M[k][1]>>
      BY <1>7
    <3> QED BY <3>1, <3>2, <3>3
  <2> HIDE DEF founds, told, inside
  <2>3. PICK stack, count : stack = t.stack \o inside /\ count = t.found + Len(first)
    OBVIOUS
  <2>4. tasks' = [tasks EXCEPT ![i].found = count, ![i].reading = <<>>, ![i].stack = stack]
    BY <1>1, <1>19, <2>3
  <2>5. tasks' = [tasks EXCEPT ![i] = [t EXCEPT !.found = count, !.reading = <<>>, !.stack = stack]]
    BY <1>1, <2>4
  <2>6. PICK u : u = WalkerAt(t, t.awake, stack, <<>>, count)
    OBVIOUS
  <2>7. [t EXCEPT !.found = count, !.reading = <<>>, !.stack = stack] = u
    <3>1. t = [generation |-> t.generation, pattern |-> t.pattern, cancel |-> t.cancel, awake |-> t.awake,
               stack |-> t.stack, reading |-> t.reading, found |-> t.found]
      BY <1>1, TaskIs
    <3>2. PICK nothing : nothing = <<>>
      OBVIOUS
    <3>3. PICK x : x = [t EXCEPT !.found = count]
      OBVIOUS
    <3>4. PICK y : y = [x EXCEPT !.reading = nothing]
      OBVIOUS
    <3>5. x = [generation |-> t.generation, pattern |-> t.pattern, cancel |-> t.cancel, awake |-> t.awake,
               stack |-> t.stack, reading |-> t.reading, found |-> count]
      BY ONLY <3>1, <3>3
    <3>6. y = [generation |-> t.generation, pattern |-> t.pattern, cancel |-> t.cancel, awake |-> t.awake,
               stack |-> t.stack, reading |-> nothing, found |-> count]
      BY ONLY <3>4, <3>5
    <3>7. [y EXCEPT !.stack = stack] =
            [generation |-> t.generation, pattern |-> t.pattern, cancel |-> t.cancel, awake |-> t.awake,
             stack |-> stack, reading |-> nothing, found |-> count]
      BY ONLY <3>6
    <3>8. [t EXCEPT !.found = count, !.reading = nothing, !.stack = stack] = [y EXCEPT !.stack = stack]
      BY ONLY <3>3, <3>4
    <3>9. u = [generation |-> t.generation, pattern |-> t.pattern, cancel |-> t.cancel, awake |-> t.awake,
               stack |-> stack, reading |-> nothing, found |-> count]
      BY <2>6, <3>2 DEF WalkerAt
    <3>10. [t EXCEPT !.found = count, !.reading = <<>>, !.stack = stack] = [t EXCEPT !.found = count, !.reading = nothing, !.stack = stack]
      BY ONLY <3>2
    <3> QED BY ONLY <3>7, <3>8, <3>9, <3>10
  <2>8. u \in WalkTask
    <3>1. stack \in Seq(Stops) /\ count \in Nat
      BY <1>1, <1>10, <1>14, <2>3, TaskIs
    <3> QED BY <1>1, <2>6, <3>1, TaskIs DEF WalkerAt, WalkTask
  <2>9. WalksTo(i, WalkerAt(t, t.awake, t.stack \o inside, <<>>, t.found + Len(told)))
    BY <1>11, <2>3, <2>5, <2>6, <2>7, <2>8 DEF WalksTo
  <2> QED BY <1>2, <1>12, <1>15, <1>16, <1>19, <2>2, <2>9
<1>20. CASE t.cancel /\ events' = events \o <<>> /\ tasks' = Gone(i)
  <2>1. events \o <<>> = events
    BY <1>1
  <2> HIDE DEF founds, told, inside
  <2> QED BY <1>2, <1>20, <2>1
<1> QED BY <1>17, <1>18, <1>19, <1>20

LEMMA BecameIs ==
  ASSUME SearchTyped, NEW i \in DOMAIN tasks, NEW u, WalksTo(i, u)
  PROVE  /\ tasks' \in Seq(WalkTask) /\ DOMAIN tasks' = DOMAIN tasks /\ tasks'[i] = u
         /\ \A j \in DOMAIN tasks : j # i => tasks'[j] = tasks[j]
<1>1. tasks \in Seq(WalkTask) /\ u \in WalkTask /\ tasks' = [tasks EXCEPT ![i] = u]
  BY DEF WalksTo, SearchTyped
<1> QED BY <1>1

LEMMA GoneIs ==
  ASSUME SearchTyped, NEW i \in DOMAIN tasks, NEW j \in DOMAIN tasks, j # i
  PROVE  \E k \in DOMAIN Gone(i) : Gone(i)[k] = tasks[j]
<1>1. Len(tasks) \in Nat /\ DOMAIN tasks = 1..Len(tasks)
  BY DEF SearchTyped
<1>2. \A k \in 1..(Len(tasks) - 1) : Gone(i)[k] = IF k < i THEN tasks[k] ELSE tasks[k + 1]
  BY DEF Gone
<1>3. DOMAIN Gone(i) = 1..(Len(tasks) - 1)
  BY GoneTyped
<1>4. CASE j < i
  <2>1. j \in 1..(Len(tasks) - 1)
    BY <1>1, <1>4
  <2> QED BY <1>2, <1>3, <1>4, <2>1
<1>5. CASE ~(j < i)
  <2>1. PICK k : k = j - 1
    OBVIOUS
  <2>2. k \in 1..(Len(tasks) - 1) /\ ~(k < i) /\ k + 1 = j
    BY <1>1, <1>5, <2>1
  <2> QED BY <1>2, <1>3, <2>2
<1> QED BY <1>4, <1>5

LEMMA FoundsAre ==
  ASSUME NEW told \in Seq(FoundPaths)
  PROVE  /\ Founds(told) \in Seq(SearchEvent) /\ DOMAIN Founds(told) = DOMAIN told
         /\ \A k \in DOMAIN told : Founds(told)[k][1] = "Found" /\ Founds(told)[k][2] = told[k]
<1>1. DOMAIN told = 1..Len(told) /\ Len(told) \in Nat
  OBVIOUS
<1>2. \A k \in DOMAIN told : <<"Found", told[k]>> \in SearchEvent
  BY DEF SearchEvent
<1>3. Founds(told) = [k \in DOMAIN told |-> <<"Found", told[k]>>]
  BY DEF Founds
<1>4. Founds(told) \in Seq(SearchEvent)
  BY <1>1, <1>2, <1>3
<1> QED BY <1>3, <1>4

LEMMA TaskRunsTyped ==
  ASSUME SearchSound, SearchTyped, TaskRuns
  PROVE  SearchTyped'
<1>1. PICK i \in DOMAIN tasks : Runs(i)
  BY DEF TaskRuns, Runs
<1>2. UNCHANGED <<unreadable, live, screen, commands, generation>>
  BY DEF TaskRuns
<1>3. PICK t : t = tasks[i]
  OBVIOUS
<1>4. events \in Seq(SearchEvent) /\ <<"Failed">> \in SearchEvent /\ <<"Done", TRUE>> \in SearchEvent /\ <<"Done", FALSE>> \in SearchEvent
  BY DEF SearchTyped, SearchEvent
<1>5. Gone(i) \in Seq(WalkTask)
  BY GoneTyped
<1>6. \A u : WalksTo(i, u) => tasks' \in Seq(WalkTask)
  BY BecameIs
<1>7. CASE Wake(i)
  <2>1. events' = events /\ tasks' \in Seq(WalkTask)
    BY <1>3, <1>5, <1>6, <1>7, WakeIs
  <2> QED BY <1>2, <2>1 DEF SearchTyped
<1>8. CASE ReadNext(i)
  <2>1. events' = events /\ tasks' \in Seq(WalkTask)
    BY <1>3, <1>5, <1>6, <1>8, ReadNextIs
  <2> QED BY <1>2, <2>1 DEF SearchTyped
<1>9. CASE Done(i)
  <2>1. PICK done \in SearchEvent : events' = events \o <<done>>
    BY <1>4, <1>9 DEF Done, Tells
  <2>2. events' \in Seq(SearchEvent)
    BY <1>4, <2>1
  <2>3. tasks' \in Seq(WalkTask)
    BY <1>5, <1>9 DEF Done
  <2> QED BY <1>2, <2>2, <2>3 DEF SearchTyped
<1>10. CASE Refused(i)
  <2>1. \/ tasks' = Gone(i) /\ events' = Append(events, <<"Failed">>)
        \/ tasks' \in Seq(WalkTask) /\ events' = events
    BY <1>3, <1>6, <1>10, RefusedIs
  <2>2. tasks' \in Seq(WalkTask) /\ events' \in Seq(SearchEvent)
    BY <1>4, <1>5, <2>1, SeqAppend
  <2> QED BY <1>2, <2>2 DEF SearchTyped
<1>11. CASE FolderRead(i)
  <2>1. \/ tasks' = Gone(i) /\ events' = events
        \/ \E told, inside : ToldOf(t, told) /\ tasks' = Gone(i) /\ events' = Append(events \o Founds(told), <<"Done", TRUE>>)
        \/ \E told, inside : ToldOf(t, told) /\ tasks' \in Seq(WalkTask) /\ events' = events \o Founds(told)
    BY <1>3, <1>6, <1>11, FolderReadIs
  <2>2. \A told : ToldOf(t, told) => events \o Founds(told) \in Seq(SearchEvent)
    BY <1>4, FoundsAre DEF ToldOf
  <2>3. \A before \in Seq(SearchEvent) : Append(before, <<"Done", TRUE>>) \in Seq(SearchEvent)
    BY <1>4, SeqAppend
  <2>4. events' \in Seq(SearchEvent)
    BY <1>4, <2>1, <2>2, <2>3
  <2>5. tasks' \in Seq(WalkTask)
    BY <1>5, <2>1
  <2> QED BY <1>2, <2>4, <2>5 DEF SearchTyped
<1> QED BY <1>1, <1>7, <1>8, <1>9, <1>10, <1>11 DEF Runs

---------------------------------------------------------------------------
(* a walk goes on                                                          *)
LEMMA MoreTold ==
  ASSUME NEW told, NEW more, told \subseteq more, NEW t, NEW latest, NEW typed, NEW shut
  PROVE  /\ Answering(t, latest, typed, told, shut) => Answering(t, latest, typed, more, shut)
         /\ Enough(told) => Enough(more)
         /\ AllTold(typed, told, shut) => AllTold(typed, more, shut)
<1>1. \A V : Covers(t, V, told, shut) => Covers(t, V, more, shut)
  BY DEF Covers
<1>2. \A V : Counted(t, V, told) => Counted(t, V, more)
  BY DEF Counted
<1>3. WalkOn(t, told, shut) => WalkOn(t, more, shut)
  BY <1>1, <1>2 DEF WalkOn
<1>4. Enough(told) => Enough(more)
  BY DEF Enough
<1>5. AllTold(typed, told, shut) => AllTold(typed, more, shut)
  BY DEF AllTold
<1> QED BY <1>3, <1>4, <1>5 DEF Answering

LEMMA NothingAhead ==
  ASSUME NEW t \in WalkTask, NEW told, NEW shut, WalkOn(t, told, shut), t.awake, t.reading = <<>>, t.stack = <<>>
  PROVE  AllTold(t.pattern, told, shut)
<1>1. PICK V \in SUBSET Stops : Covers(t, V, told, shut)
  BY DEF WalkOn
<1>2. Ahead(t) = {}
  <2>1. DOMAIN t.stack = {}
    OBVIOUS
  <2> QED BY <2>1 DEF Ahead, ToSet
<1> QED BY <1>1, <1>2 DEF Covers, AllTold

LEMMA StartsWalk ==
  ASSUME SearchSound, NEW t \in WalkTask, NEW u, u = WalkerAt(t, TRUE, <<<<1, 0>>>>, <<>>, 0), NEW told, NEW shut
  PROVE  WalkOn(u, told, shut)
<1>1. PICK start, stack : start = <<1, 0>> /\ stack = <<start>>
  OBVIOUS
<1>2. u.awake /\ u.stack = stack /\ u.reading = <<>> /\ u.found = 0
  BY <1>1 DEF WalkerAt
<1>3. DOMAIN stack = {1} /\ stack[1] = start /\ start[1] = 1
  BY <1>1
<1>4. ToSet(stack) = {start}
  BY <1>3 DEF ToSet
<1>5. Ahead(u) = {start}
  BY <1>2, <1>4 DEF Ahead
<1>6. Covers(u, {}, told, shut)
  BY <1>1, <1>5 DEF Covers
<1>7. Once(u, {})
  <2>1. \A v \in {} \cup Ahead(u) : v[1] = 1
    BY <1>3, <1>5
  <2>2. \A k, l \in DOMAIN u.stack : u.stack[k][1] = u.stack[l][1] => k = l
    BY <1>2, <1>3
  <2> QED BY <1>2, <2>1, <2>2 DEF Once
<1>8. Counted(u, {}, told)
  BY <1>2, FS_EmptySet DEF Counted
<1> QED BY <1>2, <1>6, <1>7, <1>8 DEF WalkOn

LEMMA FrontIs ==
  ASSUME NEW S, NEW stack \in Seq(S), stack # <<>>, NEW front, front = Front(stack), NEW last, last = Last(stack)
  PROVE  /\ last \in S /\ front \in Seq(S) /\ ToSet(stack) = ToSet(front) \cup {last}
         /\ \A k \in DOMAIN front : k \in DOMAIN stack /\ front[k] = stack[k] /\ k # Len(stack)
         /\ Len(stack) \in DOMAIN stack /\ stack[Len(stack)] = last
<1>1. PICK n : n = Len(stack) - 1
  OBVIOUS
<1>2. n \in Nat /\ Len(stack) = n + 1 /\ DOMAIN stack = 1..(n + 1)
  BY <1>1
<1>3. last = stack[n + 1] /\ front = SubSeq(stack, 1, n)
  BY <1>1, <1>2 DEF Front, Last
<1>4. front \in Seq(S) /\ DOMAIN front = 1..n /\ \A k \in 1..n : front[k] = stack[k]
  <2>1. CASE n = 0
    BY <1>2, <1>3, <2>1
  <2>2. CASE n # 0
    BY <1>2, <1>3, <2>2
  <2> QED BY <2>1, <2>2
<1>5. \A k \in 1..(n + 1) : k \in 1..n \/ k = n + 1
  BY <1>2
<1>6. n + 1 \in 1..(n + 1) /\ \A k \in 1..n : k \in 1..(n + 1) /\ k # n + 1
  BY <1>2
<1>7. ToSet(stack) = {stack[k] : k \in 1..(n + 1)} /\ ToSet(front) = {front[k] : k \in 1..n}
  BY <1>2, <1>4 DEF ToSet
<1>8. ToSet(stack) \subseteq ToSet(front) \cup {last}
  BY <1>3, <1>4, <1>5, <1>7
<1>9. ToSet(front) \cup {last} \subseteq ToSet(stack)
  BY <1>3, <1>4, <1>6, <1>7
<1> QED BY <1>2, <1>3, <1>4, <1>6, <1>8, <1>9

LEMMA NextWalks ==
  ASSUME SearchSound, NEW t \in WalkTask, NEW told, NEW shut, WalkOn(t, told, shut), t.awake, t.reading = <<>>, t.stack # <<>>,
         NEW u, u = WalkerAt(t, t.awake, Front(t.stack), IF Last(t.stack)[2] > MaxDepth THEN <<>> ELSE Last(t.stack), t.found)
  PROVE  WalkOn(u, told, shut)
<1>1. PICK V \in SUBSET Stops : Covers(t, V, told, shut) /\ Once(t, V) /\ Counted(t, V, told)
  BY DEF WalkOn
<1>2. PICK stack, front, last : stack = t.stack /\ front = Front(stack) /\ last = Last(stack)
  OBVIOUS
<1>3. stack \in Seq(Stops) /\ stack # <<>>
  BY <1>2, TaskIs
<1>4. /\ last \in Stops /\ front \in Seq(Stops) /\ ToSet(stack) = ToSet(front) \cup {last}
      /\ \A k \in DOMAIN front : k \in DOMAIN stack /\ front[k] = stack[k] /\ k # Len(stack)
      /\ Len(stack) \in DOMAIN stack /\ stack[Len(stack)] = last
  BY <1>2, <1>3, FrontIs
<1>5. last # <<>>
  <2>1. PICK f, d : last = <<f, d>>
    BY <1>4 DEF Stops
  <2> QED BY <2>1
<1>6. u.awake /\ u.stack = front /\ u.found = t.found /\ u.pattern = t.pattern
  BY <1>2 DEF WalkerAt
<1>7. \A k, l \in DOMAIN front : front[k][1] = front[l][1] => k = l
  BY <1>1, <1>2, <1>4 DEF Once
<1>8. \A k \in DOMAIN front : front[k][1] # last[1]
  BY <1>1, <1>2, <1>4 DEF Once
<1>9. Ahead(t) = ToSet(front) \cup {last}
  BY <1>2, <1>4 DEF Ahead
<1>10. CASE last[2] > MaxDepth
  <2>1. u.reading = <<>>
    BY <1>2, <1>10 DEF WalkerAt
  <2>2. PICK W : W = V \cup {last}
    OBVIOUS
  <2>3. W \in SUBSET Stops
    BY <1>4, <2>2
  <2>4. Ahead(u) = ToSet(front)
    BY <1>6, <2>1 DEF Ahead
  <2>5. W \cup Ahead(u) = V \cup Ahead(t)
    BY <1>9, <2>2, <2>4
  <2>6. Covers(u, W, told, shut)
    BY <1>1, <1>6, <1>10, <2>2, <2>5 DEF Covers
  <2>7. Once(u, W)
    <3>1. \A v \in W \cup Ahead(u) : v[1] = 1 \/ \E w \in W : v[1] \in Inner(w[1])
      BY <1>1, <2>2, <2>5 DEF Once
    <3>2. \A v \in W : \A a \in Ahead(u) : v[1] # a[1]
      <4>1. \A v \in V : \A a \in Ahead(u) : v[1] # a[1]
        BY <1>1, <1>9, <2>4 DEF Once
      <4>2. \A a \in Ahead(u) : last[1] # a[1]
        BY <1>8, <2>4 DEF ToSet
      <4> QED BY <2>2, <4>1, <4>2
    <3>3. \A k, l \in DOMAIN u.stack : u.stack[k][1] = u.stack[l][1] => k = l
      BY ONLY <1>6, <1>7
    <3> QED BY <2>1, <3>1, <3>2, <3>3 DEF Once
  <2>8. Counted(u, W, told)
    BY <1>1, <1>6, <2>2 DEF Counted
  <2> QED BY <1>6, <2>3, <2>6, <2>7, <2>8 DEF WalkOn
<1>11. CASE ~(last[2] > MaxDepth)
  <2>1. u.reading = last
    BY <1>2, <1>11 DEF WalkerAt
  <2>2. Ahead(u) = Ahead(t)
    BY <1>5, <1>6, <1>9, <2>1 DEF Ahead
  <2>3. Covers(u, V, told, shut)
    BY <1>1, <1>6, <2>2 DEF Covers
  <2>4. Once(u, V)
    <3>1. /\ \A v \in V \cup Ahead(u) : v[1] = 1 \/ \E w \in V : v[1] \in Inner(w[1])
          /\ \A v \in V : \A a \in Ahead(u) : v[1] # a[1]
      BY <1>1, <2>2 DEF Once
    <3>2. \A k, l \in DOMAIN u.stack : u.stack[k][1] = u.stack[l][1] => k = l
      BY ONLY <1>6, <1>7
    <3>3. \A k \in DOMAIN u.stack : u.stack[k][1] # u.reading[1]
      BY <1>6, <1>8, <2>1
    <3> QED BY <3>1, <3>2, <3>3 DEF Once
  <2>5. Counted(u, V, told)
    BY <1>1, <1>6 DEF Counted
  <2> QED BY <1>6, <2>3, <2>4, <2>5 DEF WalkOn
<1> QED BY <1>10, <1>11

LEMMA RefusedWalks ==
  ASSUME SearchSound, NEW t \in WalkTask, NEW told, NEW shut, WalkOn(t, told, shut), t.reading # <<>>, t.reading[1] \in shut,
         NEW u, u = [t EXCEPT !.reading = <<>>]
  PROVE  WalkOn(u, told, shut)
<1>1. t.awake
  BY DEF WalkOn
<1>2. PICK V \in SUBSET Stops : Covers(t, V, told, shut) /\ Once(t, V) /\ Counted(t, V, told)
  BY <1>1 DEF WalkOn
<1>3. PICK last, W : last = t.reading /\ W = V \cup {last}
  OBVIOUS
<1>4. last \in Stops
  BY <1>3, TaskIs
<1>5. u.awake /\ u.stack = t.stack /\ u.found = t.found /\ u.pattern = t.pattern /\ u.reading = <<>>
  <2>1. PICK nothing : nothing = <<>>
    OBVIOUS
  <2>2. t = [generation |-> t.generation, pattern |-> t.pattern, cancel |-> t.cancel, awake |-> t.awake,
             stack |-> t.stack, reading |-> t.reading, found |-> t.found]
    BY TaskIs
  <2>3. u = [generation |-> t.generation, pattern |-> t.pattern, cancel |-> t.cancel, awake |-> t.awake,
             stack |-> t.stack, reading |-> nothing, found |-> t.found]
    BY <2>1, <2>2
  <2> QED BY <1>1, <2>1, <2>3
<1>6. Ahead(t) = ToSet(t.stack) \cup {last} /\ Ahead(u) = ToSet(t.stack)
  BY <1>3, <1>5 DEF Ahead
<1>7. W \cup Ahead(u) = V \cup Ahead(t)
  BY <1>3, <1>6
<1>8. Covers(u, W, told, shut)
  BY <1>2, <1>3, <1>5, <1>7 DEF Covers
<1>9. Once(u, W)
  <2>1. \A v \in W \cup Ahead(u) : v[1] = 1 \/ \E w \in W : v[1] \in Inner(w[1])
    BY <1>2, <1>3, <1>7 DEF Once
  <2>2. \A v \in W : \A a \in Ahead(u) : v[1] # a[1]
    <3>1. \A v \in V : \A a \in Ahead(u) : v[1] # a[1]
      BY <1>2, <1>6 DEF Once
    <3>2. \A a \in Ahead(u) : last[1] # a[1]
      BY <1>2, <1>3, <1>6 DEF Once, ToSet
    <3> QED BY <1>3, <3>1, <3>2
  <2>3. \A k, l \in DOMAIN u.stack : u.stack[k][1] = u.stack[l][1] => k = l
    BY <1>2, <1>5 DEF Once
  <2> QED BY <1>5, <2>1, <2>2, <2>3 DEF Once
<1>10. Counted(u, W, told)
  BY <1>2, <1>3, <1>5 DEF Counted
<1>11. W \in SUBSET Stops
  BY <1>3, <1>4
<1> QED BY <1>5, <1>8, <1>9, <1>10, <1>11 DEF WalkOn

IsConcat(S, a, b, c) ==
    /\ c \in Seq(S) /\ ToSet(c) = ToSet(a) \cup ToSet(b)
    /\ \A k \in DOMAIN c : \/ k \in DOMAIN a /\ c[k] = a[k]
                           \/ \E l \in DOMAIN b : k = Len(a) + l /\ c[k] = b[l]

LEMMA ConcatIs ==
  ASSUME NEW S, NEW a \in Seq(S), NEW b \in Seq(S), NEW c, c = a \o b
  PROVE  IsConcat(S, a, b, c)
<1>1. Len(a) \in Nat /\ Len(b) \in Nat /\ DOMAIN a = 1..Len(a) /\ DOMAIN b = 1..Len(b)
  OBVIOUS
<1>2. c \in Seq(S) /\ Len(c) = Len(a) + Len(b) /\ DOMAIN c = 1..(Len(a) + Len(b))
  OBVIOUS
<1>3. (\A k \in DOMAIN a : k \in DOMAIN c /\ c[k] = a[k]) /\ (\A l \in DOMAIN b : Len(a) + l \in DOMAIN c /\ c[Len(a) + l] = b[l])
  OBVIOUS
<1>4. ASSUME NEW k \in DOMAIN c
      PROVE  k \in DOMAIN a \/ \E l \in DOMAIN b : k = Len(a) + l
  <2>1. CASE k <= Len(a)
    BY <1>1, <1>2, <2>1
  <2>2. CASE ~(k <= Len(a))
    <3>1. PICK l : l = k - Len(a)
      OBVIOUS
    <3>2. l \in DOMAIN b /\ k = Len(a) + l
      BY <1>1, <1>2, <2>2, <3>1
    <3> QED BY <3>2
  <2> QED BY <2>1, <2>2
<1>5. \A k \in DOMAIN c : \/ k \in DOMAIN a /\ c[k] = a[k]
                          \/ \E l \in DOMAIN b : k = Len(a) + l /\ c[k] = b[l]
  BY ONLY <1>3, <1>4
<1>6. ToSet(c) = {c[k] : k \in DOMAIN c} /\ ToSet(a) = {a[k] : k \in DOMAIN a} /\ ToSet(b) = {b[k] : k \in DOMAIN b}
  BY DEF ToSet
<1>7. ToSet(c) \subseteq ToSet(a) \cup ToSet(b)
  BY ONLY <1>5, <1>6
<1>8. ToSet(a) \cup ToSet(b) \subseteq ToSet(c)
  BY ONLY <1>3, <1>6
<1> QED BY <1>2, <1>5, <1>7, <1>8 DEF IsConcat

LEMMA CountMore ==
  ASSUME NEW t \in WalkTask, NEW V, NEW told, Counted(t, V, told), Once(t, V), t.reading # <<>>,
         NEW news, ToldOf(t, news), NEW more, told \cup ToSet(news) \subseteq more
  PROVE  \E found \in SUBSET more :
           /\ IsFiniteSet(found) /\ Cardinality(found) = t.found + Len(news)
           /\ \A path \in found : path[1] = t.reading[1] \/ \E v \in V : path[1] = v[1]
<1>1. PICK old \in SUBSET told :
         /\ IsFiniteSet(old) /\ Cardinality(old) = t.found
         /\ \A path \in old : \E v \in V : path[1] = v[1]
  BY DEF Counted
<1>2. PICK n, new : n = Len(news) /\ new = ToSet(news)
  OBVIOUS
<1>3. /\ news \in Seq(FoundPaths) /\ n \in Nat /\ DOMAIN news = 1..n
      /\ \A k \in DOMAIN news : news[k] \in Hits(t.reading[1], t.pattern)
      /\ \A k, l \in DOMAIN news : news[k] = news[l] => k = l
  BY <1>2 DEF ToldOf
<1>4. new = {news[k] : k \in 1..n} /\ news \in [1..n -> new]
  <2>1. new = {news[k] : k \in 1..n}
    BY <1>2, <1>3 DEF ToSet
  <2> QED BY <1>3, <2>1
<1>5. news \in Surjection(1..n, new) /\ news \in Injection(1..n, new)
  BY <1>3, <1>4 DEF Surjection, Injection, IsInjective
<1>6. IsFiniteSet(1..n) /\ Cardinality(1..n) = n
  BY <1>3, FS_Interval
<1>7. IsFiniteSet(new) /\ Cardinality(new) = n
  BY <1>5, <1>6, FS_Surjection
<1>8. \A path \in new : path[1] = t.reading[1]
  <2>1. \A path \in new : path \in Hits(t.reading[1], t.pattern)
    BY <1>3, <1>4
  <2> QED BY <2>1 DEF Hits
<1>9. \A v \in V : v[1] # t.reading[1]
  BY DEF Once, Ahead
<1>10. old \cap new = {}
  BY <1>1, <1>8, <1>9
<1>11. IsFiniteSet(old \cup new) /\ Cardinality(old \cup new) = Cardinality(old) + Cardinality(new) - Cardinality(old \cap new)
  BY <1>1, <1>7, FS_Union
<1>12. Cardinality(old \cap new) = 0
  BY <1>10, FS_EmptySet
<1>13. Cardinality(old \cup new) = t.found + n
  BY <1>1, <1>3, <1>7, <1>11, <1>12, TaskIs
<1>14. old \cup new \in SUBSET more
  BY <1>1, <1>2
<1> QED BY <1>1, <1>2, <1>8, <1>11, <1>13, <1>14

LEMMA ReadWalks ==
  ASSUME SearchSound, NEW t \in WalkTask, NEW told, NEW shut, WalkOn(t, told, shut), t.reading # <<>>,
         NEW news, ToldOf(t, news), Hits(t.reading[1], t.pattern) \subseteq ToSet(news), NEW inside, InsideOf(t, inside),
         NEW u, u = WalkerAt(t, t.awake, t.stack \o inside, <<>>, t.found + Len(news)), NEW more, told \cup ToSet(news) \subseteq more
  PROVE  WalkOn(u, more, shut)
<1>1. t.awake
  BY DEF WalkOn
<1>2. PICK V \in SUBSET Stops : Covers(t, V, told, shut) /\ Once(t, V) /\ Counted(t, V, told)
  BY <1>1 DEF WalkOn
<1>3. PICK r, d, last, stack, next, W :
        last = t.reading /\ r = last[1] /\ d = last[2] /\ W = V \cup {last} /\ stack = t.stack /\ next = stack \o inside
  OBVIOUS
<1>4. last \in Stops /\ last = <<r, d>> /\ r \in TreeFolders /\ d \in Nat /\ stack \in Seq(Stops) /\ W \in SUBSET Stops
  <2>1. last \in Stops /\ stack \in Seq(Stops)
    BY <1>3, TaskIs
  <2> QED BY <1>3, <2>1 DEF Stops
<1>5. /\ inside \in Seq(Stops)
      /\ \A k \in DOMAIN inside : inside[k][1] \in Inner(r)
      /\ \A g \in Inner(r) : \E k \in DOMAIN inside : inside[k] = <<g, d + 1>>
      /\ \A k, l \in DOMAIN inside : inside[k][1] = inside[l][1] => k = l
  BY <1>3 DEF InsideOf
<1>6. u.awake /\ u.stack = next /\ u.found = t.found + Len(news) /\ u.pattern = t.pattern /\ u.reading = <<>>
  BY <1>1, <1>3 DEF WalkerAt
<1>7. /\ next \in Seq(Stops) /\ ToSet(next) = ToSet(stack) \cup ToSet(inside)
      /\ \A k \in DOMAIN next : \/ k \in DOMAIN stack /\ next[k] = stack[k]
                                \/ \E l \in DOMAIN inside : k = Len(stack) + l /\ next[k] = inside[l]
  <2>1. IsConcat(Stops, stack, inside, next)
    BY <1>3, <1>4, <1>5, ConcatIs
  <2> QED BY <2>1 DEF IsConcat
<1>8. Ahead(t) = ToSet(stack) \cup {last} /\ Ahead(u) = ToSet(stack) \cup ToSet(inside)
  BY <1>3, <1>6, <1>7 DEF Ahead
<1>9. Covers(u, W, more, shut)
  <2>1. \A v \in V \cup Ahead(t) : v \in W \cup Ahead(u)
    BY <1>3, <1>8
  <2>2. <<1, 0>> \in W \cup Ahead(u)
    BY <1>2, <2>1 DEF Covers
  <2>3. ASSUME NEW v \in V
        PROVE  \/ v[1] \in shut \/ v[2] > MaxDepth
               \/ Hits(v[1], u.pattern) \subseteq more /\ \A g \in Inner(v[1]) : <<g, v[2] + 1>> \in W \cup Ahead(u)
    BY <1>2, <1>6, <2>1 DEF Covers
  <2>4. Hits(r, u.pattern) \subseteq more
    BY <1>3, <1>6
  <2>5. \A g \in Inner(r) : <<g, d + 1>> \in W \cup Ahead(u)
    <3>1. \A k \in DOMAIN inside : inside[k] \in ToSet(inside)
      BY DEF ToSet
    <3> QED BY <1>5, <1>8, <3>1
  <2> QED BY <1>3, <2>2, <2>3, <2>4, <2>5 DEF Covers
<1>10. \A l \in DOMAIN inside : /\ inside[l][1] # r /\ \A v \in V : v[1] # inside[l][1]
                                /\ \A k \in DOMAIN stack : stack[k][1] # inside[l][1]
  <2>1. \A v \in V \cup Ahead(t) : v[1] = 1 \/ \E w \in V : v[1] \in Inner(w[1])
    BY <1>2 DEF Once
  <2>2. \A v \in V : v[1] # r
    BY <1>2, <1>3, <1>8 DEF Once
  <2>3. \A w \in V : w[1] \in TreeFolders
    BY DEF Stops
  <2>4. \A g \in Inner(r) : g # 1 /\ \A f \in TreeFolders : g \in Inner(f) => f = r
    BY <1>4 DEF SearchSound, Inner
  <2>5. \A v \in V \cup Ahead(t) : v[1] \notin Inner(r)
    BY <2>1, <2>2, <2>3, <2>4
  <2>6. \A k \in DOMAIN stack : stack[k] \in Ahead(t)
    BY <1>8 DEF ToSet
  <2>7. last \in Ahead(t)
    BY <1>8
  <2> QED BY <1>3, <1>5, <2>5, <2>6, <2>7
<1>11. Once(u, W)
  <2>1. \A v \in W \cup Ahead(u) : v[1] = 1 \/ \E w \in W : v[1] \in Inner(w[1])
    <3>1. \A v \in V \cup Ahead(t) : v[1] = 1 \/ \E w \in W : v[1] \in Inner(w[1])
      BY <1>2, <1>3 DEF Once
    <3>2. \A v \in ToSet(inside) : v[1] \in Inner(last[1])
      BY <1>3, <1>5 DEF ToSet
    <3> QED BY <1>3, <1>8, <3>1, <3>2
  <2>2. \A v \in W : \A a \in Ahead(u) : v[1] # a[1]
    <3>1. \A v \in V : \A a \in ToSet(stack) : v[1] # a[1]
      BY <1>2, <1>8 DEF Once
    <3>2. \A a \in ToSet(stack) : r # a[1]
      BY <1>2, <1>3 DEF Once, ToSet
    <3>3. \A a \in ToSet(inside) : a[1] # r /\ \A v \in V : v[1] # a[1]
      BY <1>10 DEF ToSet
    <3> QED BY <1>3, <1>8, <3>1, <3>2, <3>3
  <2>3. \A k, l \in DOMAIN next : next[k][1] = next[l][1] => k = l
    <3>1. \A k, l \in DOMAIN stack : stack[k][1] = stack[l][1] => k = l
      BY <1>2, <1>3 DEF Once
    <3> QED BY ONLY <1>5, <1>7, <1>10, <3>1
  <2>4. \A k, l \in DOMAIN u.stack : u.stack[k][1] = u.stack[l][1] => k = l
    BY ONLY <1>6, <2>3
  <2> QED BY <1>6, <2>1, <2>2, <2>4 DEF Once
<1>12. Counted(u, W, more)
  <2>1. PICK found \in SUBSET more :
           /\ IsFiniteSet(found) /\ Cardinality(found) = t.found + Len(news)
           /\ \A path \in found : path[1] = t.reading[1] \/ \E v \in V : path[1] = v[1]
    BY <1>2, CountMore
  <2>2. \A path \in found : \E v \in W : path[1] = v[1]
    BY <1>3, <2>1
  <2> QED BY <1>6, <2>1, <2>2 DEF Counted
<1> QED BY <1>4, <1>6, <1>9, <1>11, <1>12 DEF WalkOn

---------------------------------------------------------------------------
(* the answer comes                                                        *)
Failing(coming) == \E n \in DOMAIN coming : coming[n][1] = "Failed"

LEMMA TellsMore ==
  ASSUME NEW coming \in Seq(SearchEvent), NEW more \in Seq(SearchEvent), NEW after, after = coming \o more, NEW results
  PROVE  /\ Told(results, coming) \subseteq Told(results, after)
         /\ Failing(coming) \/ Failing(more) => Failing(after)
         /\ \A n \in DOMAIN more : more[n][1] = "Found" => more[n][2] \in Told(results, after)
<1>1. /\ \A k \in DOMAIN coming : k \in DOMAIN after /\ after[k] = coming[k]
      /\ \A k \in DOMAIN more : Len(coming) + k \in DOMAIN after /\ after[Len(coming) + k] = more[k]
  OBVIOUS
<1>2. Told(results, coming) \subseteq Told(results, after)
  BY ONLY <1>1 DEF Told
<1>3. Failing(coming) \/ Failing(more) => Failing(after)
  BY ONLY <1>1 DEF Failing
<1>4. \A n \in DOMAIN more : more[n][1] = "Found" => more[n][2] \in Told(results, after)
  BY ONLY <1>1 DEF Told
<1> QED BY <1>2, <1>3, <1>4

LEMMA AnswerIs ==
  ASSUME NEW running, NEW latest, NEW typed, NEW coming, NEW told, NEW shut
  PROVE  Answer(running, latest, typed, coming, told, shut) <=>
           \/ \E i \in DOMAIN running : Answering(running[i], latest, typed, told, shut)
           \/ Failing(coming) \/ Enough(told) \/ AllTold(typed, told, shut)
BY DEF Answer, Failing

(* what has answered for itself, whatever the tasks do                     *)
LEMMA OthersAnswer ==
  ASSUME SearchTyped, NEW i \in DOMAIN tasks, NEW typed, NEW results, NEW shut,
         NEW more \in Seq(SearchEvent), events' = events \o more,
         tasks' = Gone(i) \/ \E u : WalksTo(i, u),
         Answer(tasks, generation, typed, events, Told(results, events), shut),
         ~Answering(tasks[i], generation, typed, Told(results, events), shut)
  PROVE  Answer(tasks', generation, typed, events', Told(results, events'), shut)
<1>1. events \in Seq(SearchEvent)
  BY DEF SearchTyped
<1>2. PICK before, after : before = Told(results, events) /\ after = Told(results, events')
  OBVIOUS
<1>3. before \subseteq after /\ (Failing(events) => Failing(events'))
  BY <1>1, <1>2, TellsMore
<1>4. /\ \A t : Answering(t, generation, typed, before, shut) => Answering(t, generation, typed, after, shut)
      /\ Enough(before) => Enough(after)
      /\ AllTold(typed, before, shut) => AllTold(typed, after, shut)
  BY <1>3, MoreTold
<1>5. ASSUME NEW j \in DOMAIN tasks, Answering(tasks[j], generation, typed, before, shut)
      PROVE  \E k \in DOMAIN tasks' : Answering(tasks'[k], generation, typed, after, shut)
  <2>1. j # i
    BY <1>2, <1>5
  <2>2. \E k \in DOMAIN tasks' : tasks'[k] = tasks[j]
    <3>1. CASE tasks' = Gone(i)
      BY <2>1, <3>1, GoneIs
    <3>2. CASE \E u : WalksTo(i, u)
      BY <2>1, <3>2, BecameIs
    <3> QED BY <3>1, <3>2
  <2> QED BY <1>4, <1>5, <2>2
<1>6. \/ \E j \in DOMAIN tasks : Answering(tasks[j], generation, typed, before, shut)
      \/ Failing(events) \/ Enough(before) \/ AllTold(typed, before, shut)
  BY <1>2, AnswerIs
<1>7. \/ \E j \in DOMAIN tasks' : Answering(tasks'[j], generation, typed, after, shut)
      \/ Failing(events') \/ Enough(after) \/ AllTold(typed, after, shut)
  BY <1>3, <1>4, <1>5, <1>6
<1> QED BY <1>2, <1>7, AnswerIs

(* the task that answers goes on, or has told                              *)
LEMMA WakeAnswers ==
  ASSUME SearchSound, SearchTyped, NEW i \in DOMAIN tasks, Wake(i), NEW t, t = tasks[i],
         NEW typed, NEW results, NEW shut, Answering(t, generation, typed, Told(results, events), shut)
  PROVE  Answer(tasks', generation, typed, events', Told(results, events'), shut)
<1>1. events' = events /\ ~t.awake /\ ~t.cancel /\ t.generation = generation /\ t.pattern = typed
  BY WakeIs DEF Answering
<1>2. t.stack = <<>> /\ t.reading = <<>> /\ t.found = 0
  BY <1>1 DEF Answering, WalkOn
<1>3. PICK u : u = WalkerAt(t, TRUE, <<<<1, 0>>>>, <<>>, 0)
  OBVIOUS
<1>4. WalksTo(i, u)
  BY <1>1, <1>2, <1>3, WakeIs
<1>5. tasks'[i] = u /\ i \in DOMAIN tasks'
  BY <1>4, BecameIs
<1>6. t \in WalkTask
  BY DEF SearchTyped
<1>7. WalkOn(u, Told(results, events'), shut)
  BY <1>3, <1>6, StartsWalk
<1>8. u.generation = generation /\ ~u.cancel /\ u.pattern = typed
  BY <1>1, <1>3 DEF WalkerAt
<1>9. Answering(u, generation, typed, Told(results, events'), shut)
  BY <1>7, <1>8 DEF Answering
<1> QED BY <1>5, <1>9 DEF Answer

LEMMA ReadNextAnswers ==
  ASSUME SearchSound, SearchTyped, NEW i \in DOMAIN tasks, ReadNext(i), NEW t, t = tasks[i],
         NEW typed, NEW results, NEW shut, Answering(t, generation, typed, Told(results, events), shut)
  PROVE  Answer(tasks', generation, typed, events', Told(results, events'), shut)
<1>1. /\ events' = events /\ t.awake /\ t.reading = <<>> /\ t.stack # <<>>
      /\ ~t.cancel /\ t.generation = generation /\ t.pattern = typed
  BY ReadNextIs DEF Answering
<1>2. PICK told, u : /\ told = Told(results, events)
                     /\ u = WalkerAt(t, t.awake, Front(t.stack), IF Last(t.stack)[2] > MaxDepth THEN <<>> ELSE Last(t.stack), t.found)
  OBVIOUS
<1>3. WalksTo(i, u)
  BY <1>1, <1>2, ReadNextIs
<1>4. tasks'[i] = u /\ i \in DOMAIN tasks'
  BY <1>3, BecameIs
<1>5. t \in WalkTask
  BY DEF SearchTyped
<1>6. WalkOn(t, told, shut)
  BY <1>2 DEF Answering
<1>7. WalkOn(u, told, shut)
  BY <1>1, <1>2, <1>5, <1>6, NextWalks
<1>8. u.generation = generation /\ ~u.cancel /\ u.pattern = typed
  BY <1>1, <1>2 DEF WalkerAt
<1>9. Answering(u, generation, typed, told, shut)
  BY <1>7, <1>8 DEF Answering
<1> QED BY <1>1, <1>2, <1>4, <1>9 DEF Answer

LEMMA DoneAnswers ==
  ASSUME SearchTyped, NEW i \in DOMAIN tasks, Done(i), NEW t, t = tasks[i],
         NEW typed, NEW results, NEW shut, Answering(t, generation, typed, Told(results, events), shut)
  PROVE  Answer(tasks', generation, typed, events', Told(results, events'), shut)
<1>1. t \in WalkTask /\ events \in Seq(SearchEvent)
  BY DEF SearchTyped
<1>2. PICK told, after : told = Told(results, events) /\ after = Told(results, events')
  OBVIOUS
<1>3. WalkOn(t, told, shut) /\ t.pattern = typed /\ t.awake /\ t.reading = <<>> /\ t.stack = <<>>
  BY <1>2 DEF Answering, Done
<1>4. AllTold(typed, told, shut)
  BY <1>1, <1>3, NothingAhead
<1>5. told \subseteq after
  <2>1. PICK done, more : done = <<"Done", FALSE>> /\ more = <<done>>
    OBVIOUS
  <2>2. done \in SearchEvent
    BY <2>1 DEF SearchEvent
  <2>3. more \in Seq(SearchEvent) /\ events' = events \o more
    BY <2>1, <2>2 DEF Done, Tells
  <2> QED BY <1>1, <1>2, <2>3, TellsMore
<1>6. AllTold(typed, after, shut)
  BY <1>4, <1>5, MoreTold
<1> QED BY <1>2, <1>6 DEF Answer

LEMMA RefusedAnswers ==
  ASSUME SearchSound, SearchTyped, NEW i \in DOMAIN tasks, Refused(i), NEW t, t = tasks[i],
         NEW typed, NEW results, Answering(t, generation, typed, Told(results, events), unreadable)
  PROVE  Answer(tasks', generation, typed, events', Told(results, events'), unreadable)
<1>1. /\ t.reading # <<>> /\ t.reading[1] \in unreadable
      /\ \/ tasks' = Gone(i) /\ events' = Append(events, <<"Failed">>)
         \/ WalksTo(i, [t EXCEPT !.reading = <<>>]) /\ events' = events
  BY RefusedIs
<1>2. t \in WalkTask /\ events \in Seq(SearchEvent)
  BY DEF SearchTyped
<1>3. CASE events' = Append(events, <<"Failed">>)
  <2>1. PICK failed : failed = <<"Failed">>
    OBVIOUS
  <2>2. failed \in SearchEvent /\ failed[1] = "Failed"
    BY <2>1 DEF SearchEvent
  <2>3. events' = Append(events, failed) /\ Len(events) + 1 \in DOMAIN events' /\ events'[Len(events) + 1] = failed
    BY <1>2, <1>3, <2>1, <2>2
  <2> QED BY <2>2, <2>3 DEF Answer
<1>4. CASE WalksTo(i, [t EXCEPT !.reading = <<>>]) /\ events' = events
  <2>1. PICK told, u : told = Told(results, events) /\ u = [t EXCEPT !.reading = <<>>]
    OBVIOUS
  <2>2. WalkOn(t, told, unreadable)
    BY <2>1 DEF Answering
  <2>3. WalkOn(u, told, unreadable)
    BY <1>1, <1>2, <2>1, <2>2, RefusedWalks
  <2>4. tasks'[i] = u /\ i \in DOMAIN tasks'
    BY <1>4, <2>1, BecameIs
  <2>5. u.generation = t.generation /\ u.cancel = t.cancel /\ u.pattern = t.pattern
    BY <1>2, <2>1, TaskIs
  <2>6. Answering(u, generation, typed, told, unreadable)
    BY <2>3, <2>5 DEF Answering
  <2> QED BY <1>4, <2>1, <2>4, <2>6 DEF Answer
<1> QED BY <1>1, <1>3, <1>4

LEMMA FolderReadAnswers ==
  ASSUME SearchSound, SearchTyped, NEW i \in DOMAIN tasks, FolderRead(i), NEW t, t = tasks[i],
         NEW typed, NEW results, Answering(t, generation, typed, Told(results, events), unreadable)
  PROVE  Answer(tasks', generation, typed, events', Told(results, events'), unreadable)
<1>1. t \in WalkTask /\ events \in Seq(SearchEvent)
  BY DEF SearchTyped
<1>2. PICK told, after : told = Told(results, events) /\ after = Told(results, events')
  OBVIOUS
<1>3. ~t.cancel /\ t.generation = generation /\ t.pattern = typed /\ WalkOn(t, told, unreadable)
  BY <1>2 DEF Answering
<1>4. t.reading # <<>> /\ t.reading[1] \notin unreadable
  BY FolderReadIs
<1>5. PICK news, inside :
         /\ ToldOf(t, news) /\ InsideOf(t, inside)
         /\ \/ /\ t.found + Len(news) >= MaxResults
               /\ tasks' = Gone(i) /\ events' = Append(events \o Founds(news), <<"Done", TRUE>>)
            \/ /\ Hits(t.reading[1], t.pattern) \subseteq ToSet(news)
               /\ events' = events \o Founds(news)
               /\ WalksTo(i, WalkerAt(t, t.awake, t.stack \o inside, <<>>, t.found + Len(news)))
  BY <1>3, FolderReadIs
<1>6. PICK founds : founds = Founds(news)
  OBVIOUS
<1>7. /\ founds \in Seq(SearchEvent) /\ DOMAIN founds = DOMAIN news
      /\ \A k \in DOMAIN news : founds[k][1] = "Found" /\ founds[k][2] = news[k]
  BY <1>5, <1>6, FoundsAre DEF ToldOf
<1>8. told \cup ToSet(news) \subseteq after
  <2>1. PICK between, between2 : between = events \o founds /\ between2 = Told(results, between)
    OBVIOUS
  <2>2. told \subseteq between2 /\ \A n \in DOMAIN founds : founds[n][1] = "Found" => founds[n][2] \in between2
    BY <1>1, <1>2, <1>7, <2>1, TellsMore
  <2>3. told \cup ToSet(news) \subseteq between2
    BY <1>7, <2>2 DEF ToSet
  <2>4. CASE events' = Append(events \o Founds(news), <<"Done", TRUE>>)
    <3>1. PICK done, more : done = <<"Done", TRUE>> /\ more = <<done>>
      OBVIOUS
    <3>2. done \in SearchEvent
      BY <3>1 DEF SearchEvent
    <3>3. between \in Seq(SearchEvent) /\ more \in Seq(SearchEvent)
      BY <1>1, <1>7, <2>1, <3>1, <3>2
    <3>4. events' = Append(between, done)
      BY <1>6, <2>1, <2>4, <3>1
    <3>5. events' = between \o more
      <4>1. Append(between, done) = between \o <<done>>
        BY ONLY <3>2, <3>3, SeqJoin
      <4> QED BY ONLY <3>1, <3>4, <4>1
    <3>6. between2 \subseteq after
      BY <1>2, <2>1, <3>3, <3>5, TellsMore
    <3> QED BY <2>3, <3>6
  <2>5. CASE events' = events \o Founds(news)
    BY <1>2, <1>6, <2>1, <2>3, <2>5
  <2> QED BY <1>5, <2>4, <2>5
<1>9. CASE t.found + Len(news) >= MaxResults
  <2>1. PICK V : Counted(t, V, told) /\ Once(t, V)
    <3>1. t.awake
      BY <1>3, <1>4 DEF WalkOn
    <3> QED BY <1>3, <3>1 DEF WalkOn
  <2>2. PICK found \in SUBSET after : IsFiniteSet(found) /\ Cardinality(found) = t.found + Len(news)
    BY <1>1, <1>4, <1>5, <1>8, <2>1, CountMore
  <2>3. Enough(after)
    BY <1>9, <2>2 DEF Enough
  <2> QED BY <1>2, <2>3 DEF Answer
<1>10. CASE /\ Hits(t.reading[1], t.pattern) \subseteq ToSet(news)
            /\ WalksTo(i, WalkerAt(t, t.awake, t.stack \o inside, <<>>, t.found + Len(news)))
  <2>1. PICK u : u = WalkerAt(t, t.awake, t.stack \o inside, <<>>, t.found + Len(news))
    OBVIOUS
  <2>2. WalkOn(u, after, unreadable)
    BY <1>1, <1>3, <1>4, <1>5, <1>8, <1>10, <2>1, ReadWalks
  <2>3. tasks'[i] = u /\ i \in DOMAIN tasks'
    BY <1>10, <2>1, BecameIs
  <2>4. u.generation = generation /\ ~u.cancel /\ u.pattern = typed
    BY <1>3, <2>1 DEF WalkerAt
  <2>5. Answering(u, generation, typed, after, unreadable)
    BY <2>2, <2>4 DEF Answering
  <2> QED BY <1>2, <2>3, <2>5 DEF Answer
<1> QED BY <1>5, <1>9, <1>10

(* what a step of a task does to the tasks and the events                  *)
LEMMA RunIs ==
  ASSUME SearchSound, SearchTyped, NEW i \in DOMAIN tasks, Runs(i)
  PROVE  /\ tasks' = Gone(i) \/ \E u : WalksTo(i, u)
         /\ \E more \in Seq(SearchEvent) : events' = events \o more
<1>1. PICK t : t = tasks[i]
  OBVIOUS
<1>2. events \in Seq(SearchEvent)
  BY DEF SearchTyped
<1>3. ASSUME events' = events PROVE \E more \in Seq(SearchEvent) : events' = events \o more
  <2>1. <<>> \in Seq(SearchEvent) /\ events' = events \o <<>>
    BY <1>2, <1>3
  <2> QED BY <2>1
<1>4. CASE Wake(i)
  BY <1>1, <1>3, <1>4, WakeIs
<1>5. CASE ReadNext(i)
  BY <1>1, <1>3, <1>5, ReadNextIs
<1>6. ASSUME NEW event \in SearchEvent, NEW before \in Seq(SearchEvent), events' = Append(events \o before, event)
      PROVE  \E more \in Seq(SearchEvent) : events' = events \o more
  <2>1. PICK more : more = Append(before, event)
    OBVIOUS
  <2>2. more \in Seq(SearchEvent) /\ events' = events \o more
    <3>1. Append(events \o before, event) = events \o Append(before, event) /\ Append(before, event) \in Seq(SearchEvent)
      <4>1. PICK s, b, x : s = events /\ b = before /\ x = event
        OBVIOUS
      <4>2. s \in Seq(SearchEvent) /\ b \in Seq(SearchEvent) /\ x \in SearchEvent
        BY <1>2, <1>6, <4>1
      <4>3. Append(s \o b, x) = s \o Append(b, x) /\ Append(b, x) \in Seq(SearchEvent)
        BY ONLY <4>2, SeqJoin
      <4> QED BY ONLY <4>1, <4>3
    <3> QED BY ONLY <1>6, <2>1, <3>1
  <2> QED BY <2>2
<1>7. /\ <<"Done", FALSE>> \in SearchEvent /\ <<"Done", TRUE>> \in SearchEvent /\ <<"Failed">> \in SearchEvent
      /\ <<>> \in Seq(SearchEvent) /\ events \o <<>> = events
  <2>1. <<>> \in Seq(SearchEvent) /\ events \o <<>> = events
    BY <1>2
  <2> QED BY <2>1 DEF SearchEvent
<1>8. CASE Done(i)
  <2>1. PICK done : done = <<"Done", FALSE>>
    OBVIOUS
  <2>2. events' = events \o <<done>> /\ done \in SearchEvent
    BY <1>7, <1>8, <2>1 DEF Done, Tells
  <2>3. <<done>> \in Seq(SearchEvent)
    BY <2>2
  <2> QED BY <1>8, <2>2, <2>3 DEF Done
<1>9. CASE Refused(i)
  <2>1. \/ tasks' = Gone(i) /\ events' = Append(events, <<"Failed">>)
        \/ (\E u : WalksTo(i, u)) /\ events' = events
    BY <1>1, <1>9, RefusedIs
  <2> QED BY <1>3, <1>6, <1>7, <2>1
<1>10. CASE FolderRead(i)
  <2>1. \/ tasks' = Gone(i) /\ events' = events
        \/ \E told : ToldOf(t, told) /\ tasks' = Gone(i) /\ events' = Append(events \o Founds(told), <<"Done", TRUE>>)
        \/ \E told, u : ToldOf(t, told) /\ WalksTo(i, u) /\ events' = events \o Founds(told)
    BY <1>1, <1>10, FolderReadIs
  <2>2. \A told : ToldOf(t, told) => Founds(told) \in Seq(SearchEvent)
    BY FoundsAre DEF ToldOf
  <2> QED BY <1>3, <1>6, <1>7, <2>1, <2>2
<1> QED BY <1>4, <1>5, <1>8, <1>9, <1>10 DEF Runs

LEMMA RunAnswers ==
  ASSUME SearchSound, SearchTyped, NEW i \in DOMAIN tasks, Runs(i), NEW typed, NEW results,
         Answer(tasks, generation, typed, events, Told(results, events), unreadable)
  PROVE  Answer(tasks', generation, typed, events', Told(results, events'), unreadable)
<1>1. PICK t : t = tasks[i]
  OBVIOUS
<1>2. CASE Answering(t, generation, typed, Told(results, events), unreadable)
  BY <1>1, <1>2, WakeAnswers, ReadNextAnswers, DoneAnswers, RefusedAnswers, FolderReadAnswers DEF Runs
<1>3. CASE ~Answering(t, generation, typed, Told(results, events), unreadable)
  BY <1>1, <1>3, RunIs, OthersAnswer
<1> QED BY <1>2, <1>3

LEMMA TypeAnswers ==
  ASSUME SearchTyped, AnswerComes, Type
  PROVE  AnswerComes'
<1> SUFFICES ASSUME Awaited' PROVE AnswerComes'
  BY DEF AnswerComes
<1>1. PICK typed \in Patterns \cup {<<>>} :
         /\ screen' = Restarted(typed)
         /\ commands' = Append(commands, IF typed = <<>> THEN <<"CancelSearch">> ELSE <<"Search", typed>>)
  BY DEF Type
<1>2. screen'.pattern = typed
  BY <1>1 DEF Restarted, NoScreen
<1>3. typed # <<>> /\ typed \in Patterns
  BY <1>2 DEF Awaited
<1>4. PICK command : command = <<"Search", typed>>
  OBVIOUS
<1>5. command \in SearchCommand /\ commands \in Seq(SearchCommand) /\ commands' = Append(commands, command)
  BY <1>1, <1>3, <1>4 DEF SearchCommand, SearchTyped
<1>6. commands' # <<>> /\ commands'[Len(commands')] = command
  BY <1>5
<1> QED BY <1>2, <1>4, <1>6 DEF AnswerComes

LEMMA NotAwaited ==
  ASSUME SearchTyped, OpenSearch \/ StopSearch \/ Disconnect
  PROVE  AnswerComes'
<1>1. CASE OpenSearch
  <2>1. screen'.pattern = <<>>
    BY <1>1 DEF OpenSearch, Restarted, NoScreen
  <2> QED BY <2>1 DEF AnswerComes, Awaited
<1>2. CASE StopSearch
  <2>1. PICK new : new = screen'
    OBVIOUS
  <2>2. CASE new = [screen EXCEPT !.failed = TRUE]
    <3>1. new = [open |-> screen.open, pattern |-> screen.pattern, results |-> screen.results,
                 truncated |-> screen.truncated, failed |-> TRUE]
      BY <2>2 DEF SearchTyped
    <3> QED BY <2>1, <3>1 DEF AnswerComes, Awaited
  <2>3. CASE new = NoScreen
    BY <2>1, <2>3 DEF AnswerComes, Awaited, NoScreen
  <2> QED BY <1>2, <2>1, <2>2, <2>3 DEF StopSearch
<1>3. CASE Disconnect
  BY <1>3 DEF Disconnect, AnswerComes, Awaited
<1> QED BY <1>1, <1>2, <1>3

LEMMA HandlersAnswer ==
  ASSUME SearchTyped, AnswerComes, Search \/ CancelSearch
  PROVE  AnswerComes'
<1> SUFFICES ASSUME Awaited' PROVE AnswerComes'
  BY DEF AnswerComes
<1>1. /\ commands # <<>> /\ commands' = Tail(commands) /\ UNCHANGED <<unreadable, live, screen, events>>
      /\ commands \in Seq(SearchCommand)
  BY DEF Search, CancelSearch, SearchTyped
<1>2. Awaited
  BY <1>1 DEF Awaited
<1>3. commands[Len(commands)] = <<"Search", screen.pattern>>
  BY <1>1, <1>2 DEF AnswerComes
<1>4. /\ Tail(commands) \in Seq(SearchCommand) /\ Head(commands) = commands[1]
      /\ Len(commands) \in Nat /\ Len(commands) >= 1 /\ Len(Tail(commands)) = Len(commands) - 1
      /\ \A n \in 1..Len(Tail(commands)) : Tail(commands)[n] = commands[n + 1]
  BY <1>1, SeqTail
<1>5. CASE Len(commands) # 1
  <2>1. PICK n : n = Len(commands) - 1
    OBVIOUS
  <2>2. n \in 1..Len(Tail(commands)) /\ n + 1 = Len(commands) /\ n = Len(commands')
    BY <1>1, <1>4, <1>5, <2>1
  <2>3. commands' # <<>> /\ commands'[Len(commands')] = commands[Len(commands)]
    <3>1. commands'[n] = commands[n + 1]
      BY <1>1, <1>4, <2>2
    <3>2. Len(commands') # 0 /\ Len(<<>>) = 0
      BY <1>1, <1>4, <2>2
    <3> QED BY <2>2, <3>1, <3>2
  <2> QED BY <1>1, <1>3, <2>3 DEF AnswerComes
<1>6. CASE Len(commands) = 1
  <2>1. Head(commands)[1] = "Search" /\ Head(commands)[2] = screen.pattern
    BY <1>3, <1>4, <1>6
  <2>2. Search /\ live
    BY <1>2, <2>1 DEF CancelSearch, Awaited
  <2>3. PICK t, m : t = NewTask(screen.pattern) /\ m = Len(tasks) + 1
    OBVIOUS
  <2>4. generation' = generation + 1 /\ tasks' = Append(Cancelled, t)
    BY <2>1, <2>2, <2>3 DEF Search, Started
  <2>5. m \in DOMAIN tasks' /\ tasks'[m] = t
    <3>1. Cancelled \in Seq(WalkTask) /\ Len(Cancelled) = Len(tasks)
      BY CancelledTyped
    <3> QED BY <2>3, <2>4, <3>1
  <2>6. Answering(t, generation', screen.pattern, Told(screen.results, events), unreadable)
    BY <2>3, <2>4 DEF NewTask, Answering, WalkOn
  <2>7. Answer(tasks, generation, screen.pattern, events, Told(screen.results, events), unreadable)'
    BY <1>1, <2>5, <2>6 DEF Answer
  <2>8. commands' = <<>>
    BY <1>1, <1>4, <1>6
  <2> QED BY <2>7, <2>8 DEF AnswerComes
<1> QED BY <1>5, <1>6

LEMMA TakeEventAnswers ==
  ASSUME SearchTyped, AnswerComes, TakeEvent
  PROVE  AnswerComes'
<1> SUFFICES ASSUME Awaited' PROVE AnswerComes'
  BY DEF AnswerComes
<1>1. /\ events # <<>> /\ events' = Tail(events) /\ UNCHANGED <<unreadable, live, commands, generation, tasks>>
      /\ events \in Seq(SearchEvent)
  BY DEF TakeEvent, SearchTyped
<1>2. PICK event, results : event = Head(events) /\ results = screen.results
  OBVIOUS
<1>3. /\ events' \in Seq(SearchEvent) /\ event = events[1] /\ event \in SearchEvent
      /\ Len(events) \in Nat /\ Len(events) >= 1 /\ Len(events') = Len(events) - 1
      /\ \A n \in 1..Len(events') : events'[n] = events[n + 1]
  BY <1>1, <1>2, SeqTail
<1>4. screen = [open |-> screen.open, pattern |-> screen.pattern, results |-> screen.results,
                truncated |-> screen.truncated, failed |-> screen.failed]
  BY DEF SearchTyped
<1>5. screen.open
  BY DEF TakeEvent, Awaited
<1>6. /\ screen'.open = screen.open /\ screen'.pattern = screen.pattern /\ event[1] # "Failed"
      /\ screen'.failed = screen.failed
      /\ results \subseteq screen'.results /\ (event[1] = "Found" => event[2] \in screen'.results)
  <2>1. CASE event[1] = "Found"
    <3>1. screen' = [screen EXCEPT !.results = @ \cup {event[2]}]
      BY <1>2, <1>5, <2>1 DEF TakeEvent
    <3>2. screen' = [open |-> screen.open, pattern |-> screen.pattern, results |-> screen.results \cup {event[2]},
                     truncated |-> screen.truncated, failed |-> screen.failed]
      BY <1>4, <3>1
    <3> QED BY <1>2, <2>1, <3>2
  <2>2. CASE event[1] = "Done"
    <3>1. screen' = [screen EXCEPT !.truncated = event[2]]
      BY <1>2, <1>5, <2>2 DEF TakeEvent
    <3>2. screen' = [open |-> screen.open, pattern |-> screen.pattern, results |-> screen.results,
                     truncated |-> event[2], failed |-> screen.failed]
      BY <1>4, <3>1
    <3> QED BY <1>2, <2>2, <3>2
  <2>3. CASE event[1] = "Failed"
    <3>1. screen' = [screen EXCEPT !.truncated = FALSE, !.failed = TRUE]
      BY <1>2, <1>5, <2>3 DEF TakeEvent
    <3>2. screen' = [open |-> screen.open, pattern |-> screen.pattern, results |-> screen.results,
                     truncated |-> FALSE, failed |-> TRUE]
      BY <1>4, <3>1
    <3> QED BY <3>2 DEF Awaited
  <2>4. event[1] \in {"Found", "Done", "Failed"}
    BY <1>3 DEF SearchEvent
  <2> QED BY <2>1, <2>2, <2>3, <2>4
<1>7. Awaited
  BY <1>1, <1>6 DEF Awaited
<1>8. \A n \in DOMAIN events : n = 1 \/ \E k \in DOMAIN events' : events'[k] = events[n]
  <2> SUFFICES ASSUME NEW n \in DOMAIN events, n # 1 PROVE \E k \in DOMAIN events' : events'[k] = events[n]
    OBVIOUS
  <2>1. PICK k : k = n - 1
    OBVIOUS
  <2>2. k \in 1..Len(events') /\ k + 1 = n /\ DOMAIN events' = 1..Len(events')
    <3>1. n \in 1..Len(events)
      BY <1>1
    <3>2. DOMAIN events' = 1..Len(events')
      BY <1>3
    <3> QED BY <1>3, <2>1, <3>1, <3>2
  <2> QED BY <1>3, <2>2
<1>9. PICK before, after : before = Told(results, events) /\ after = Told(screen'.results, events')
  OBVIOUS
<1>10. before \subseteq after
  <2>1. \A n \in DOMAIN events : events[n][1] = "Found" => events[n][2] \in after
    BY <1>3, <1>6, <1>8, <1>9 DEF Told
  <2>2. results \subseteq after
    BY <1>6, <1>9 DEF Told
  <2> QED BY <1>9, <2>1, <2>2 DEF Told
<1>11. Failing(events) => Failing(events')
  BY <1>3, <1>6, <1>8 DEF Failing
<1>12. ASSUME Answer(tasks, generation, screen.pattern, events, before, unreadable)
       PROVE  Answer(tasks, generation, screen.pattern, events', after, unreadable)
  <2>1. \/ \E j \in DOMAIN tasks : Answering(tasks[j], generation, screen.pattern, before, unreadable)
        \/ Failing(events) \/ Enough(before) \/ AllTold(screen.pattern, before, unreadable)
    BY <1>12, AnswerIs
  <2>2. /\ \A t : Answering(t, generation, screen.pattern, before, unreadable) =>
                    Answering(t, generation, screen.pattern, after, unreadable)
        /\ Enough(before) => Enough(after)
        /\ AllTold(screen.pattern, before, unreadable) => AllTold(screen.pattern, after, unreadable)
    BY <1>10, MoreTold
  <2>3. \/ \E j \in DOMAIN tasks : Answering(tasks[j], generation, screen.pattern, after, unreadable)
        \/ Failing(events') \/ Enough(after) \/ AllTold(screen.pattern, after, unreadable)
    BY <1>11, <2>1, <2>2
  <2> QED BY <2>3, AnswerIs
<1>13. \/ commands # <<>> /\ commands[Len(commands)] = <<"Search", screen.pattern>>
       \/ commands = <<>> /\ Answer(tasks, generation, screen.pattern, events, before, unreadable)
  BY <1>2, <1>7, <1>9 DEF AnswerComes
<1>14. \/ commands' # <<>> /\ commands'[Len(commands')] = <<"Search", screen'.pattern>>
       \/ commands' = <<>> /\ Answer(tasks', generation', screen'.pattern, events', after, unreadable')
  BY <1>1, <1>6, <1>12, <1>13
<1> QED BY <1>9, <1>14 DEF AnswerComes

LEMMA TaskRunsAnswers ==
  ASSUME SearchSound, SearchTyped, AnswerComes, TaskRuns
  PROVE  AnswerComes'
<1> SUFFICES ASSUME Awaited' PROVE AnswerComes'
  BY DEF AnswerComes
<1>1. PICK i \in DOMAIN tasks : Runs(i)
  BY DEF TaskRuns, Runs
<1>2. UNCHANGED <<unreadable, live, screen, commands, generation>>
  BY DEF TaskRuns
<1>3. Awaited
  BY <1>2 DEF Awaited
<1>4. CASE commands # <<>> /\ commands[Len(commands)] = <<"Search", screen.pattern>>
  BY <1>2, <1>4 DEF AnswerComes
<1>5. CASE commands = <<>> /\ Answer(tasks, generation, screen.pattern, events, Told(screen.results, events), unreadable)
  <2>1. PICK typed, results : typed = screen.pattern /\ results = screen.results
    OBVIOUS
  <2>2. Answer(tasks, generation, typed, events, Told(results, events), unreadable)
    BY <1>5, <2>1
  <2>3. Answer(tasks', generation, typed, events', Told(results, events'), unreadable)
    BY <1>1, <2>2, RunAnswers
  <2> QED BY <1>2, <1>5, <2>1, <2>3 DEF AnswerComes
<1> QED BY <1>3, <1>4, <1>5 DEF AnswerComes

---------------------------------------------------------------------------
LEMMA SearchStarts ==
  ASSUME SearchSound, SearchInit
  PROVE  SearchIInv
<1>1. SearchTyped
  BY FS_EmptySet DEF SearchInit, SearchTyped, NoScreen, TreeFolders
<1>2. AnswerComes
  BY DEF SearchInit, AnswerComes, Awaited, NoScreen
<1> QED BY <1>1, <1>2 DEF SearchIInv

LEMMA SearchNextKeeps ==
  ASSUME SearchSound, SearchIInv, [SearchNext]_searchVars
  PROVE  SearchIInv'
<1>1. SearchTyped /\ AnswerComes
  BY DEF SearchIInv
<1>2. CASE OpenSearch \/ StopSearch
  BY <1>1, <1>2, ScreenActionsTyped, NotAwaited DEF SearchIInv
<1>3. CASE Type
  BY <1>1, <1>3, ScreenActionsTyped, TypeAnswers DEF SearchIInv
<1>4. CASE TakeEvent
  BY <1>1, <1>4, TakeEventTyped, TakeEventAnswers DEF SearchIInv
<1>5. CASE Search \/ CancelSearch
  BY <1>1, <1>5, HandlersTyped, HandlersAnswer DEF SearchIInv
<1>6. CASE Disconnect
  BY <1>1, <1>6, HandlersTyped, NotAwaited DEF SearchIInv
<1>7. CASE TaskRuns
  BY <1>1, <1>7, TaskRunsTyped, TaskRunsAnswers DEF SearchIInv
<1>8. CASE UNCHANGED searchVars
  <2>1. SearchTyped'
    BY <1>1, <1>8 DEF SearchTyped, searchVars
  <2>2. AnswerComes'
    BY <1>1, <1>8 DEF AnswerComes, Awaited, Answer, searchVars
  <2> QED BY <2>1, <2>2 DEF SearchIInv
<1> QED BY <1>2, <1>3, <1>4, <1>5, <1>6, <1>7, <1>8 DEF SearchNext

LEMMA SearchShows ==
  ASSUME SearchSound, SearchIInv
  PROVE  SearchFindsAll
<1>1. SearchTyped /\ AnswerComes
  BY DEF SearchIInv
<1> SUFFICES ASSUME AtRest /\ live /\ screen.open /\ screen.pattern # <<>> /\ ~screen.failed
             PROVE  \/ Fitted(screen.pattern) \subseteq screen.results
                    \/ Cardinality(screen.results) >= MaxResults
  BY DEF SearchFindsAll
<1>2. PICK results, typed : results = screen.results /\ typed = screen.pattern
  OBVIOUS
<1>3. commands = <<>> /\ events = <<>> /\ tasks = <<>> /\ DOMAIN <<>> = {}
  BY DEF AtRest
<1>4. Answer(tasks, generation, typed, events, Told(results, events), unreadable)
  BY <1>1, <1>2, <1>3 DEF AnswerComes, Awaited
<1>5. Told(results, events) = results
  BY <1>3 DEF Told
<1>6. Enough(results) \/ AllTold(typed, results, unreadable)
  BY <1>3, <1>4, <1>5 DEF Answer
<1>7. ASSUME Enough(results) PROVE Cardinality(results) >= MaxResults
  <2>1. PICK found \in SUBSET results : IsFiniteSet(found) /\ Cardinality(found) >= MaxResults
    BY <1>7 DEF Enough
  <2>2. IsFiniteSet(results)
    BY <1>1, <1>2 DEF SearchTyped
  <2>3. Cardinality(found) <= Cardinality(results) /\ Cardinality(found) \in Nat /\ Cardinality(results) \in Nat
    BY <2>1, <2>2, FS_Subset, FS_CardinalityType
  <2>4. MaxResults \in Nat
    BY DEF SearchSound
  <2> QED BY <2>1, <2>3, <2>4
<1>8. ASSUME AllTold(typed, results, unreadable) PROVE Fitted(typed) \subseteq results
  <2>1. typed \in Patterns
    BY <1>1, <1>2 DEF SearchTyped
  <2> QED BY <1>8, <2>1, AllToldFits
<1> QED BY <1>2, <1>6, <1>7, <1>8

SearchSpec == SearchInit /\ [][SearchNext]_searchVars

(* At rest, the screen shows every name the typed pattern fits in every    *)
(* folder the walk can and may reach, or as many results as the limit:     *)
(* whatever searches were started and cancelled before, and whatever came  *)
(* late from them.  The walk reads no folder twice, so that what it counts *)
(* are results, and what it did not find it did not pass over.             *)
THEOREM SearchesFindAll == ASSUME SearchSound PROVE SearchSpec => []SearchFindsAll
<1>1. SearchInit => SearchIInv
  BY SearchStarts
<1>2. SearchIInv /\ [SearchNext]_searchVars => SearchIInv'
  BY SearchNextKeeps
<1>3. SearchIInv => SearchFindsAll
  BY SearchShows
<1> QED BY <1>1, <1>2, <1>3, PTL DEF SearchSpec
=================================================================================
