--------------------------- MODULE Progress_proofs --------------------------
(***************************************************************************)
(* Types and bounds of the components of Progress, for every value of the  *)
(* constants.  The invariant of the whole is that of the component which   *)
(* runs.                                                                   *)
(***************************************************************************)
EXTENDS Progress, FiniteSetTheorems, WellFoundedInduction, TLAPS

(*************************************************************************)
(* What several components need: induction over the natural numbers by a *)
(* least counterexample, functions defined by recursion on 0..n, and how *)
(* often a value occurs in a sequence.                                   *)
(*************************************************************************)

LEMMA Least ==
  ASSUME NEW S \in SUBSET Nat, S # {}
  PROVE  \E k \in S : \A i \in S : k <= i
<1> DEFINE R == {ss \in Nat \X Nat : ss[1] < ss[2]}
<1>1. IsWellFoundedOn(R, Nat)
  BY NatLessThanWellFounded DEF OpToRel
<1>2. \A i, j \in Nat : i < j => <<i, j>> \in R
  OBVIOUS
<1> HIDE DEF R
<1>3. PICK k \in S : \A i \in S : ~(<<i, k>> \in R)
  BY <1>1, WFMin
<1>4. \A i \in S : ~(i < k)
  BY <1>2, <1>3
<1> QED
  BY <1>4

\* What holds at 0 and passes from each number to the next holds up to n: there
\* is no least number at which it fails.
LEMMA UpTo ==
  ASSUME NEW n \in Nat, NEW T, 0 \in T, \A i \in 1..n : i - 1 \in T => i \in T
  PROVE  0..n \subseteq T
<1> SUFFICES ASSUME ~(0..n \subseteq T) PROVE FALSE
  OBVIOUS
<1> DEFINE fails == {i \in 0..n : i \notin T}
<1>1. fails \in SUBSET Nat /\ fails # {}
  OBVIOUS
<1>2. PICK k \in fails : \A i \in fails : k <= i
  BY <1>1, Least
<1>3. k \in 1..n /\ k - 1 \in 0..n /\ k \notin T
  OBVIOUS
<1>4. k - 1 \notin fails
  BY <1>1, <1>2, <1>3
<1> QED
  BY <1>3, <1>4

Iterates(f, n, V, first, step) ==
  /\ f \in [0..n -> V]
  /\ f[0] = first
  /\ \A i \in 1..n : f[i] = step[i][f[i - 1]]

\* A function on 0..n that takes each value from the one before it exists.
LEMMA Recursion ==
  ASSUME NEW n \in Nat, NEW V, NEW first \in V, NEW step \in [1..n -> [V -> V]]
  PROVE  \E f : Iterates(f, n, V, first, step)
<1> DEFINE Has(k) == \E f : Iterates(f, k, V, first, step)
           T == {k \in 0..n : Has(k)}
<1>1. 0 \in T
  <2>1. Iterates([i \in 0..0 |-> first], 0, V, first, step)
    BY DEF Iterates
  <2>2. Has(0)
    BY <2>1
  <2> QED
    BY <2>2
<1>2. ASSUME NEW k \in 1..n, k - 1 \in T PROVE k \in T
  <2>1. PICK f : Iterates(f, k - 1, V, first, step)
    BY <1>2
  <2> DEFINE g == [i \in 0..k |-> IF i = k THEN step[k][f[k - 1]] ELSE f[i]]
  <2>2. step[k][f[k - 1]] \in V
    BY <2>1 DEF Iterates
  <2>3. g \in [0..k -> V] /\ g[0] = first
    BY <2>1, <2>2 DEF Iterates
  <2>4. \A i \in 1..k : g[i] = step[i][g[i - 1]]
    <3> TAKE i \in 1..k
    <3>1. g[i - 1] = f[i - 1]
      OBVIOUS
    <3>2. CASE i = k
      BY <3>1, <3>2
    <3>3. CASE i # k
      BY <3>1, <3>3, <2>1 DEF Iterates
    <3> QED
      BY <3>2, <3>3
  <2> HIDE DEF g
  <2>5. Iterates(g, k, V, first, step)
    BY <2>3, <2>4 DEF Iterates
  <2>6. Has(k)
    BY <2>5
  <2> HIDE DEF Has
  <2> QED
    BY <2>6
<1> HIDE DEF T
<1>3. 0..n \subseteq T
  BY <1>1, <1>2, UpTo
<1>4. n \in T
  BY <1>3
<1> QED
  BY <1>4 DEF T

Positions(q, x) == {i \in DOMAIN q : q[i] = x}
Count(q, x) == Cardinality(Positions(q, x))

LEMMA CountIs ==
  ASSUME NEW V, NEW q \in Seq(V), NEW x
  PROVE  IsFiniteSet(Positions(q, x)) /\ Count(q, x) \in Nat
<1>1. IsFiniteSet(1..Len(q))
  BY FS_Interval
<1>2. Positions(q, x) \in SUBSET (1..Len(q))
  BY DEF Positions
<1>3. IsFiniteSet(Positions(q, x))
  BY <1>1, <1>2, FS_Subset
<1> QED
  BY <1>3, FS_CardinalityType DEF Count

LEMMA CountEmpty == \A x : Count(<<>>, x) = 0
BY FS_EmptySet DEF Count, Positions

LEMMA CountAppend ==
  ASSUME NEW V, NEW q \in Seq(V), NEW v \in V, NEW x
  PROVE  Count(Append(q, v), x) = Count(q, x) + (IF v = x THEN 1 ELSE 0)
<1>1. Len(q) \in Nat /\ DOMAIN q = 1..Len(q) /\ DOMAIN Append(q, v) = 1..(Len(q) + 1)
  OBVIOUS
<1>2. \A i \in 1..Len(q) : Append(q, v)[i] = q[i]
  OBVIOUS
<1>3. Append(q, v)[Len(q) + 1] = v
  OBVIOUS
<1>4. IsFiniteSet(Positions(q, x)) /\ Count(q, x) \in Nat
  BY CountIs
<1>5. CASE v = x
  <2>1. Positions(Append(q, v), x) = Positions(q, x) \cup {Len(q) + 1}
    BY <1>1, <1>2, <1>3, <1>5 DEF Positions
  <2>2. Len(q) + 1 \notin Positions(q, x)
    BY <1>1 DEF Positions
  <2> QED
    BY <1>4, <1>5, <2>1, <2>2, FS_AddElement DEF Count
<1>6. CASE v # x
  <2>1. Positions(Append(q, v), x) = Positions(q, x)
    BY <1>1, <1>2, <1>3, <1>6 DEF Positions
  <2> QED
    BY <1>4, <1>6, <2>1 DEF Count
<1> QED
  BY <1>5, <1>6

LEMMA CountPrepend ==
  ASSUME NEW V, NEW q \in Seq(V), NEW v \in V, NEW x
  PROVE  Count(<<v>> \o q, x) = Count(q, x) + (IF v = x THEN 1 ELSE 0)
<1> DEFINE r == <<v>> \o q
           S == Positions(q, x)
           T == Positions(r, x) \ {1}
           moved == [i \in S |-> i + 1]
<1>1. /\ r \in Seq(V) /\ Len(q) \in Nat /\ DOMAIN q = 1..Len(q) /\ DOMAIN r = 1..(Len(q) + 1)
      /\ r[1] = v
  OBVIOUS
<1>2. \A i \in 1..Len(q) : r[i + 1] = q[i]
  OBVIOUS
<1>3. IsFiniteSet(S) /\ IsFiniteSet(Positions(r, x)) /\ Count(q, x) \in Nat /\ Count(r, x) \in Nat
  BY <1>1, CountIs
<1> HIDE DEF r
<1>4. \A i \in S : i \in Nat /\ i + 1 \in T
  BY <1>1, <1>2 DEF Positions
<1>5. \A j \in T : j - 1 \in S /\ (j - 1) + 1 = j
  BY <1>1, <1>2 DEF Positions
<1> HIDE DEF S, T
<1>6. moved \in Bijection(S, T)
  <2>1. moved \in [S -> T]
    BY <1>4
  <2>2. \A j \in T : \E i \in S : moved[i] = j
    BY <1>5
  <2>3. \A i, k \in S : moved[i] = moved[k] => i = k
    BY <1>4
  <2> QED
    <3> HIDE DEF moved
    <3> QED
      BY <2>1, <2>2, <2>3 DEF Bijection, Injection, Surjection, IsInjective
<1>7. ExistsBijection(S, T)
  BY <1>6 DEF ExistsBijection
<1>8. Cardinality(T) = Cardinality(S)
  BY <1>3, <1>7, FS_Bijection
<1>9. Cardinality(T) = IF 1 \in Positions(r, x) THEN Count(r, x) - 1 ELSE Count(r, x)
  BY <1>3, FS_RemoveElement DEF T, Count
<1>10. 1 \in Positions(r, x) <=> v = x
  BY <1>1 DEF Positions
<1>11. Cardinality(S) = Count(q, x)
  BY DEF S, Count
<1>12. Count(r, x) = Count(q, x) + (IF v = x THEN 1 ELSE 0)
  <2>1. CASE v = x
    <3>1. Count(q, x) = Count(r, x) - 1
      BY <1>8, <1>9, <1>10, <1>11, <2>1
    <3> QED
      BY <1>3, <2>1, <3>1
  <2>2. CASE v # x
    <3>1. Count(q, x) = Count(r, x)
      BY <1>8, <1>9, <1>10, <1>11, <2>2
    <3> QED
      BY <1>3, <2>2, <3>1
  <2> QED
    BY <2>1, <2>2
<1> QED
  BY <1>12 DEF r

\* A new first element in place of the last.
LEMMA CountRotate ==
  ASSUME NEW V, NEW q \in Seq(V), q # <<>>, NEW v \in V, NEW x
  PROVE  /\ <<v>> \o SubSeq(q, 1, Len(q) - 1) \in Seq(V) /\ q[Len(q)] \in V
         /\ Count(<<v>> \o SubSeq(q, 1, Len(q) - 1), x) + (IF q[Len(q)] = x THEN 1 ELSE 0)
              = Count(q, x) + (IF v = x THEN 1 ELSE 0)
<1> DEFINE front == SubSeq(q, 1, Len(q) - 1)
           last == q[Len(q)]
<1>1. front \in Seq(V) /\ last \in V
  OBVIOUS
<1>2. q = Append(front, last)
  OBVIOUS
<1> HIDE DEF front, last
<1>3. Count(q, x) = Count(front, x) + (IF last = x THEN 1 ELSE 0)
  BY <1>1, <1>2, CountAppend
<1>4. Count(<<v>> \o front, x) = Count(front, x) + (IF v = x THEN 1 ELSE 0)
  BY <1>1, CountPrepend
<1>5. Count(front, x) \in Nat
  BY <1>1, CountIs
<1>6. Count(<<v>> \o front, x) + (IF last = x THEN 1 ELSE 0) = Count(q, x) + (IF v
           = x THEN 1 ELSE 0)
  BY <1>3, <1>4, <1>5
<1>7. <<v>> \o front \in Seq(V)
  BY <1>1
<1> QED
  BY <1>1, <1>6, <1>7 DEF front, last

LEMMA CountTail ==
  ASSUME NEW V, NEW q \in Seq(V), q # <<>>, NEW x
  PROVE  /\ Head(q) \in V /\ Tail(q) \in Seq(V)
         /\ Count(q, x) = Count(Tail(q), x) + (IF Head(q) = x THEN 1 ELSE 0)
<1> DEFINE h == Head(q)
           r == Tail(q)
<1>1. h \in V /\ r \in Seq(V) /\ q = <<h>> \o r
  OBVIOUS
<1> HIDE DEF h, r
<1>2. Count(<<h>> \o r, x) = Count(r, x) + (IF h = x THEN 1 ELSE 0)
  BY <1>1, CountPrepend
<1> QED
  BY <1>1, <1>2 DEF h, r

\* The number of elements is the same in every component.
LEMMA Sizes ==
  \A S : /\ Timeline!Cardinality(S) = Cardinality(S)
         /\ Presence!Cardinality(S) = Cardinality(S)
         /\ Voice!Cardinality(S) = Cardinality(S)
         /\ Presentation!Cardinality(S) = Cardinality(S)
BY DEF Timeline!Cardinality, Presence!Cardinality, Voice!Cardinality,
       Presentation!Cardinality, Cardinality

-----------------------------------------------------------------------------
(*************************************************************************)
(* MessageDeletions, for whose variables the following stand: x1         *)
(* history, x2 doc, x3 held, x4 pending, x5 wakes, x6 acks, x7 staged,   *)
(* x8 local, x9 localDisk, x10 shown, x11 locals, x12 faults.  TypeOK is *)
(* inductive.                                                            *)
(*************************************************************************)

\* The timelines show what Shown names, whatever the documents hold.
LEMMA DeletionsPublish ==
  ASSUME Deletions!TypeOK, NEW v \in 0..MaxChanges
  PROVE  /\ Deletions!Loaded("author") \in Deletions!Shown
         /\ Deletions!Merged(v) \in Deletions!Shown
         /\ Deletions!AuthorPublishes => x10' \in [Deletions!Side -> Deletions!Shown]
         /\ Deletions!MemberPublishes(v) => x7' \in 0..MaxChanges /\ x10'
              \in [Deletions!Side -> Deletions!Shown]
<1>1. MaxChanges \in Nat /\ x10 \in [Deletions!Side -> Deletions!Shown]
  BY ProgressAssumptions DEF Deletions!MessageDeletionsAssumption, Deletions!TypeOK
<1>2. \A s : Deletions!Loaded(s) \in Deletions!Shown
  BY DEF Deletions!Loaded, Deletions!Shown
<1>3. Deletions!Merged(v) \in Deletions!Shown
  BY <1>2 DEF Deletions!Merged, Deletions!Shown
<1>4. Deletions!AuthorPublishes => x10' \in [Deletions!Side -> Deletions!Shown]
  BY <1>1, <1>2 DEF Deletions!AuthorPublishes
<1>5. ASSUME Deletions!MemberPublishes(v)
      PROVE  x7' \in 0..MaxChanges /\ x10' \in [Deletions!Side -> Deletions!Shown]
  <2>1. x7' \in 0..MaxChanges
    BY <1>1, <1>5 DEF Deletions!MemberPublishes
  <2>2. x10' = [x10 EXCEPT !["member"] = Deletions!Merged(v)]
    BY <1>5 DEF Deletions!MemberPublishes
  <2> HIDE DEF Deletions!Shown
  <2> QED
    BY <1>1, <1>3, <2>1, <2>2
<1> QED
  BY <1>2, <1>3, <1>4, <1>5

\* A wake that is on its way, taken out or put in.
LEMMA DeletionsWakes ==
  ASSUME Deletions!TypeOK
  PROVE  /\ <<>> \in Seq(Deletions!Entry)
         /\ \A v \in Deletions!Entry : Append(x5, v) \in Seq(Deletions!Entry)
         /\ \A i \in DOMAIN x5 : /\ x5[i] \in Deletions!Entry
                                 /\ Deletions!TakenFrom(x5, i) \in Seq(Deletions!Entry)
<1>1. x5 \in Seq(Deletions!Entry)
  BY DEF Deletions!TypeOK
<1>2. ASSUME NEW i \in DOMAIN x5
      PROVE  x5[i] \in Deletions!Entry /\ Deletions!TakenFrom(x5, i) \in Seq(Deletions!Entry)
  <2>1. /\ Len(x5) \in Nat /\ DOMAIN x5 = 1..Len(x5) /\ i \in 1..Len(x5)
        /\ \A j \in 1..Len(x5) : x5[j] \in Deletions!Entry
    BY <1>1, <1>2
  <2> DEFINE n == Len(x5) - 1
  <2>2. Deletions!TakenFrom(x5, i) \in [1..n -> Deletions!Entry]
    BY <2>1 DEF Deletions!TakenFrom
  <2>3. n \in Nat
    BY <2>1
  <2> HIDE DEF n
  <2> QED
    BY <2>1, <2>2, <2>3
<1> QED
  BY <1>1, <1>2

LEMMA DeletionsInit == Deletions!Init => Deletions!TypeOK
BY ProgressAssumptions
   DEF Deletions!Init, Deletions!TypeOK, Deletions!Shown, Deletions!MessageDeletionsAssumption,
   Deletions!Side

LEMMA DeletionsStep ==
  Deletions!TypeOK /\ [Deletions!Next]_(Deletions!deletionVars) => Deletions!TypeOK'
<1> SUFFICES ASSUME Deletions!TypeOK, [Deletions!Next]_(Deletions!deletionVars)
             PROVE Deletions!TypeOK'
  OBVIOUS
<1>0. /\ MaxChanges \in Nat /\ MaxLocal \in Nat /\ MaxAcks \in Nat /\ MaxFailures \in Nat
      /\ x1 \in Seq({"delete", "restore"}) /\ Len(x1) \in 0..MaxChanges
      /\ x7 \in 0..MaxChanges /\ x4 \in 0..MaxChanges
      /\ x6 \in Nat /\ x12 \in Nat /\ x12 \in 0..MaxFailures
  BY ProgressAssumptions DEF Deletions!MessageDeletionsAssumption, Deletions!TypeOK
<1>f. Deletions!Fault => x12' \in 0..MaxFailures
  BY <1>0 DEF Deletions!Fault
<1>1. ASSUME NEW kind \in {"delete", "restore"}, Deletions!InsertReplicated(kind)
      PROVE  /\ x1' \in Seq({"delete", "restore"}) /\ Len(x1') \in Deletions!Entry
             /\ x2' \in [Deletions!Side -> 0..MaxChanges]
  <2>1. x1' \in Seq({"delete", "restore"}) /\ Len(x1') = Len(x1) + 1
    BY <1>0, <1>1 DEF Deletions!InsertReplicated
  <2>2. Len(x1') \in Deletions!Entry
    BY <1>0, <1>1, <2>1 DEF Deletions!InsertReplicated, Deletions!Entry
  <2>3. x2 \in [Deletions!Side -> 0..MaxChanges] /\ x2' = [x2 EXCEPT !["author"] = Len(x1')]
    BY <1>1 DEF Deletions!InsertReplicated, Deletions!TypeOK
  <2>4. \A n \in 0..MaxChanges : [x2 EXCEPT !["author"] = n] \in [Deletions!Side -> 0..MaxChanges]
    BY <2>3
  <2>5. Len(x1') \in 0..MaxChanges
    BY <1>0, <2>2 DEF Deletions!Entry
  <2> QED
    BY <2>1, <2>2, <2>3, <2>4, <2>5
<1>2. ASSUME NEW kind \in {"delete", "restore"}, Deletions!DeleteForEveryone(kind)
      PROVE Deletions!TypeOK'
  <2>1. /\ x1' \in Seq({"delete", "restore"}) /\ Len(x1') \in Deletions!Entry
        /\ x2' \in [Deletions!Side -> 0..MaxChanges]
    BY <1>1, <1>2 DEF Deletions!DeleteForEveryone
  <2>2. x5' \in Seq(Deletions!Entry) /\ x4' \in 0..MaxChanges
    BY <1>0, <1>2, <2>1, DeletionsWakes DEF Deletions!DeleteForEveryone, Deletions!SpawnWake,
       Deletions!Entry
  <2>3. x10' \in [Deletions!Side -> Deletions!Shown]
    BY <1>0, <1>2, DeletionsPublish DEF Deletions!DeleteForEveryone
  <2>4. Len(x1') <= MaxChanges
    BY <1>0, <2>1 DEF Deletions!Entry
  <2> QED
    BY <1>2, <2>1, <2>2, <2>3, <2>4 DEF Deletions!DeleteForEveryone,
       Deletions!InsertReplicated, Deletions!TypeOK
<1>3. ASSUME NEW kind \in {"delete", "restore"}, Deletions!CrashAfterInsert(kind)
      PROVE Deletions!TypeOK'
  <2>1. /\ x1' \in Seq({"delete", "restore"}) /\ Len(x1') \in Deletions!Entry
        /\ x2' \in [Deletions!Side -> 0..MaxChanges]
    BY <1>1, <1>3 DEF Deletions!CrashAfterInsert
  <2>2. x5' \in Seq(Deletions!Entry) /\ x12' \in 0..MaxFailures
    BY <1>3, <1>f DEF Deletions!CrashAfterInsert
  <2>3. x10' \in [Deletions!Side -> Deletions!Shown]
    BY <1>0, <1>3, DeletionsPublish DEF Deletions!CrashAfterInsert
  <2>4. Len(x1') <= MaxChanges
    BY <1>0, <2>1 DEF Deletions!Entry
  <2> QED
    BY <1>3, <2>1, <2>2, <2>3, <2>4 DEF Deletions!CrashAfterInsert, Deletions!InsertReplicated,
       Deletions!TypeOK
<1>4. CASE Deletions!RetryDueControls
  <2>1. x5' \in Seq(Deletions!Entry)
    BY <1>0, <1>4, DeletionsWakes DEF Deletions!RetryDueControls, Deletions!HasPendingControl,
       Deletions!SpawnWake, Deletions!Entry
  <2> QED
    BY <1>4, <2>1 DEF Deletions!RetryDueControls, Deletions!TypeOK
<1>5. ASSUME NEW i \in DOMAIN x5, Deletions!WakeIsLost(i) PROVE Deletions!TypeOK'
  <2>1. x5' \in Seq(Deletions!Entry) /\ x12' \in 0..MaxFailures
    BY <1>5, <1>f, DeletionsWakes DEF Deletions!WakeIsLost
  <2> QED
    BY <1>5, <2>1 DEF Deletions!WakeIsLost, Deletions!TypeOK
<1>6. CASE Deletions!ApplyControlAcks \/ Deletions!AckIsLost
  <2>1. x6' \in 0..MaxAcks /\ x4' \in 0..MaxChanges /\ x12' \in 0..MaxFailures
    BY <1>0, <1>6, <1>f DEF Deletions!ApplyControlAcks, Deletions!AckIsLost, Deletions!TypeOK
  <2> QED
    BY <1>6, <2>1 DEF Deletions!ApplyControlAcks, Deletions!AckIsLost, Deletions!TypeOK
<1>7. ASSUME NEW i \in DOMAIN x5, Deletions!ApplyDirectDeletions(i) PROVE Deletions!TypeOK'
  <2>1. x5[i] \in Deletions!Entry /\ x5' \in Seq(Deletions!Entry)
    BY <1>7, DeletionsWakes DEF Deletions!ApplyDirectDeletions
  <2> DEFINE v == IF Deletions!Replaces(x5[i]) THEN x5[i] ELSE x7
  <2>2. v \in 0..MaxChanges /\ Deletions!MemberPublishes(v)
    BY <1>0, <1>7, <2>1 DEF Deletions!ApplyDirectDeletions, Deletions!Entry
  <2> HIDE DEF v
  <2>3. x7' \in 0..MaxChanges /\ x10' \in [Deletions!Side -> Deletions!Shown]
    BY <2>2, DeletionsPublish
  <2>4. x6' \in 0..MaxAcks
    BY <1>0, <1>7 DEF Deletions!ApplyDirectDeletions
  <2> QED
    BY <1>7, <2>1, <2>3, <2>4 DEF Deletions!ApplyDirectDeletions, Deletions!TypeOK
<1>8. CASE Deletions!DocumentArrives
  <2>1. x7' \in 0..MaxChanges /\ x10' \in [Deletions!Side -> Deletions!Shown]
    BY <1>0, <1>8, DeletionsPublish DEF Deletions!DocumentArrives
  <2>2. x2' \in [Deletions!Side -> 0..MaxChanges] /\ x3' \in BOOLEAN
    BY <1>8 DEF Deletions!DocumentArrives, Deletions!TypeOK, Deletions!Side
  <2> QED
    BY <1>8, <2>1, <2>2 DEF Deletions!DocumentArrives, Deletions!TypeOK
<1>9. CASE Deletions!DeletionArrivesFirst
  <2>1. x2' \in [Deletions!Side -> 0..MaxChanges]
    BY <1>9 DEF Deletions!DeletionArrivesFirst, Deletions!TypeOK, Deletions!Side
  <2> QED
    BY <1>9, <2>1 DEF Deletions!DeletionArrivesFirst, Deletions!TypeOK
<1>10. CASE Deletions!AuthorRestarts
  <2>1. x10' \in [Deletions!Side -> Deletions!Shown]
    BY <1>0, <1>10, DeletionsPublish DEF Deletions!AuthorRestarts
  <2>2. x8' \in [Deletions!Side -> BOOLEAN] /\ x5' \in Seq(Deletions!Entry)
                                            /\ x12' \in 0..MaxFailures
    BY <1>10, <1>f DEF Deletions!AuthorRestarts, Deletions!LoadLocalDeletions,
       Deletions!TypeOK, Deletions!Side
  <2> QED
    BY <1>10, <2>1, <2>2 DEF Deletions!AuthorRestarts, Deletions!TypeOK
<1>11. CASE Deletions!MemberRestarts
  <2>1. x7' \in 0..MaxChanges /\ x10' \in [Deletions!Side -> Deletions!Shown]
    BY <1>0, <1>11, DeletionsPublish DEF Deletions!MemberRestarts
  <2>2. x8' \in [Deletions!Side -> BOOLEAN] /\ x12' \in 0..MaxFailures
    BY <1>11, <1>f DEF Deletions!MemberRestarts, Deletions!LoadLocalDeletions,
       Deletions!TypeOK, Deletions!Side
  <2> QED
    BY <1>11, <2>1, <2>2 DEF Deletions!MemberRestarts, Deletions!TypeOK
<1>12. ASSUME NEW s \in Deletions!Side, Deletions!Publishes(s)
       PROVE  x7' \in 0..MaxChanges /\ x10' \in [Deletions!Side -> Deletions!Shown]
  BY <1>0, <1>12, DeletionsPublish DEF Deletions!Publishes
<1>13. ASSUME NEW s \in Deletions!Side, x11[s] < MaxLocal, x11' = [x11 EXCEPT ![s] = @ + 1]
       PROVE  x11' \in [Deletions!Side -> 0..MaxLocal]
  BY <1>0, <1>13 DEF Deletions!TypeOK
<1>14. ASSUME NEW s \in Deletions!Side, NEW hidden \in BOOLEAN, Deletions!ChangeLocally(s, hidden)
       PROVE Deletions!TypeOK'
  <2>1. x7' \in 0..MaxChanges /\ x10' \in [Deletions!Side -> Deletions!Shown]
                              /\ x11' \in [Deletions!Side -> 0..MaxLocal]
    BY <1>12, <1>13, <1>14 DEF Deletions!ChangeLocally
  <2>2. x8' \in [Deletions!Side -> BOOLEAN] /\ x9' \in [Deletions!Side -> BOOLEAN]
    BY <1>14 DEF Deletions!ChangeLocally, Deletions!TypeOK
  <2> QED
    BY <1>14, <2>1, <2>2 DEF Deletions!ChangeLocally, Deletions!TypeOK
<1>15. ASSUME NEW s \in Deletions!Side, Deletions!SaveFails(s) PROVE Deletions!TypeOK'
  <2>1. x7' \in 0..MaxChanges /\ x10' \in [Deletions!Side -> Deletions!Shown]
                              /\ x11' \in [Deletions!Side -> 0..MaxLocal]
    BY <1>12, <1>13, <1>15 DEF Deletions!SaveFails
  <2>2. x12' \in 0..MaxFailures
    BY <1>15, <1>f DEF Deletions!SaveFails
  <2> QED
    BY <1>15, <2>1, <2>2 DEF Deletions!SaveFails, Deletions!TypeOK
<1>16. CASE UNCHANGED Deletions!deletionVars
  BY <1>16 DEF Deletions!deletionVars, Deletions!TypeOK
<1> QED
  BY <1>2, <1>3, <1>4, <1>5, <1>6, <1>7, <1>8, <1>9, <1>10, <1>11, <1>14, <1>15, <1>16
     DEF Deletions!Next, Deletions!Deliver

-----------------------------------------------------------------------------
(*************************************************************************)
(* AttachmentDelivery, for whose variables the following stand: x1 sent, *)
(* x2 pending, x3 push, x4 ack, x5 known, x6 fits, x7 kept, x8 blob, x9  *)
(* downloads, x10 tasks, x11 finished, x12 retry, x13 asked, x14 given,  *)
(* x15 choices, x16 faults.  TypeOK is inductive.                        *)
(*************************************************************************)

\* The types of what a download and its retry change.
AttachmentsRequestOK ==
  x10' \in 0..MaxTasks /\ x9' \in BOOLEAN /\ x12' \in Attachments!AttachmentRetry

LEMMA AttachmentsRequest ==
  ASSUME Attachments!TypeOK, NEW r \in Attachments!AttachmentRetry, NEW d \in BOOLEAN,
         Attachments!RequestMissing(r, d) \/ Attachments!RequestNothing(r, d)
  PROVE  AttachmentsRequestOK
<1>1. MaxTasks \in Nat \ {0} /\ x10 \in 0..MaxTasks /\ x10 \in Nat
  BY ProgressAssumptions DEF Attachments!AttachmentDeliveryAssumption, Attachments!TypeOK
<1>2. x10' \in 0..MaxTasks
  BY <1>1 DEF Attachments!RequestMissing, Attachments!RequestNothing
<1>3. x9' \in BOOLEAN
  BY Zenon DEF Attachments!RequestMissing, Attachments!RequestNothing
<1>4. x12' \in Attachments!AttachmentRetry
  BY DEF Attachments!RequestMissing, Attachments!RequestNothing, Attachments!AttachmentRetry
<1> QED
  BY <1>2, <1>3, <1>4 DEF AttachmentsRequestOK

AttachmentsBooleans ==
  {x1, x2, x3, x4, x5, x6, x7, x9, x13, x14} \subseteq BOOLEAN

LEMMA AttachmentsInit == Attachments!Init => Attachments!TypeOK
<1> SUFFICES ASSUME Attachments!Init PROVE Attachments!TypeOK
  OBVIOUS
<1>1. AttachmentsBooleans
  BY Zenon DEF Attachments!Init, AttachmentsBooleans
<1>2. x10 \in 0..MaxTasks /\ x15 \in 0..MaxWishes /\ x16 \in 0..MaxOutages
  BY ProgressAssumptions DEF Attachments!Init, Attachments!AttachmentDeliveryAssumption
<1>3. x11 \in Seq(BOOLEAN)
  BY DEF Attachments!Init
<1>4. x8 \in Attachments!Blob /\ x12 \in Attachments!AttachmentRetry
  BY DEF Attachments!Init, Attachments!AttachmentRetry, Attachments!Blob
<1> QED
  BY <1>1, <1>2, <1>3, <1>4 DEF Attachments!TypeOK, AttachmentsBooleans

LEMMA AttachmentsStep ==
  Attachments!TypeOK /\ [Attachments!Next]_(Attachments!attachmentVars) => Attachments!TypeOK'
<1> SUFFICES ASSUME Attachments!TypeOK, [Attachments!Next]_(Attachments!attachmentVars)
             PROVE Attachments!TypeOK'
  OBVIOUS
<1>0. /\ MaxTasks \in Nat \ {0} /\ MaxWishes \in Nat /\ MaxOutages \in Nat
      /\ x10 \in Nat /\ x10 \in 0..MaxTasks
      /\ x15 \in 0..MaxWishes /\ x15 \in Nat
      /\ x16 \in 0..MaxOutages /\ x16 \in Nat
      /\ x11 \in Seq(BOOLEAN) /\ x9 \in BOOLEAN /\ x12 \in Attachments!AttachmentRetry
      /\ x8 \in Attachments!Blob
      /\ \A b \in {"none", "loose", "tagged", "collected"} : b \in Attachments!Blob
      /\ "none" \in Attachments!AttachmentRetry /\ "later" \in Attachments!AttachmentRetry
  BY ProgressAssumptions DEF Attachments!AttachmentDeliveryAssumption, Attachments!TypeOK,
     Attachments!AttachmentRetry, Attachments!Blob
<1>f. Attachments!Fault => x16' \in 0..MaxOutages
  BY <1>0 DEF Attachments!Fault
<1>c. x15 < MaxWishes /\ x15' = x15 + 1 => x15' \in 0..MaxWishes
  BY <1>0
<1>l. \A b : b \in Attachments!LeftBehind => b \in Attachments!Blob
  BY <1>0 DEF Attachments!LeftBehind, Attachments!Blob
<1>1. CASE Attachments!SendMessage \/ Attachments!RetryDueControls \/ Attachments!ApplyControlAcks
  BY <1>1 DEF Attachments!SendMessage, Attachments!RetryDueControls,
     Attachments!ApplyControlAcks, Attachments!senderVars, Attachments!screenVars,
     Attachments!TypeOK
<1>2. CASE Attachments!PushIsLost \/ Attachments!AckIsLost
  <2>1. x16' \in 0..MaxOutages
    BY <1>2, <1>f DEF Attachments!PushIsLost, Attachments!AckIsLost
  <2> QED
    BY <1>2, <2>1 DEF Attachments!PushIsLost, Attachments!AckIsLost, Attachments!senderVars,
       Attachments!screenVars, Attachments!TypeOK
<1>3. CASE Attachments!ApplyAttachmentPush
  <2>1. AttachmentsRequestOK
    <3>1. CASE x6 /\ x7
      BY <1>0, <1>3, <3>1, AttachmentsRequest DEF Attachments!ApplyAttachmentPush
    <3>2. CASE ~(x6 /\ x7)
      BY <1>0, <1>3, <3>2 DEF Attachments!ApplyAttachmentPush, AttachmentsRequestOK
    <3> QED
      BY <3>1, <3>2
  <2>2. x8' \in Attachments!Blob
    BY <1>0, <1>3 DEF Attachments!ApplyAttachmentPush
  <2> QED
    BY <1>3, <2>1, <2>2 DEF Attachments!ApplyAttachmentPush, AttachmentsRequestOK,
       Attachments!screenVars, Attachments!TypeOK
<1>4. CASE Attachments!PushFails
  <2>1. x8' \in Attachments!Blob /\ x16' \in 0..MaxOutages
    BY <1>4, <1>f, <1>l DEF Attachments!PushFails
  <2> QED
    BY <1>4, <2>1 DEF Attachments!PushFails, Attachments!screenVars, Attachments!TypeOK
<1>5. CASE Attachments!MessageArrives \/ Attachments!Publish
  <2>1. AttachmentsRequestOK
    BY <1>0, <1>5, AttachmentsRequest DEF Attachments!MessageArrives, Attachments!Publish
  <2> QED
    BY <1>5, <2>1 DEF Attachments!MessageArrives, Attachments!Publish, AttachmentsRequestOK,
       Attachments!senderVars, Attachments!screenVars, Attachments!TypeOK
<1>6. CASE Attachments!RetryFallsDue
  BY <1>6 DEF Attachments!RetryFallsDue, Attachments!AttachmentRetry, Attachments!senderVars,
     Attachments!screenVars, Attachments!TypeOK
<1>7. CASE Attachments!RetryDueAttachmentDownloads
  <2>1. AttachmentsRequestOK
    BY <1>0, <1>7, AttachmentsRequest DEF Attachments!RetryDueAttachmentDownloads
  <2> QED
    BY <1>7, <2>1
       DEF Attachments!RetryDueAttachmentDownloads, AttachmentsRequestOK,
       Attachments!senderVars, Attachments!screenVars, Attachments!TypeOK
<1>8. CASE Attachments!TaskSucceeds
  <2>1. x10' \in 0..MaxTasks /\ x11' \in Seq(BOOLEAN)
    BY <1>0, <1>8 DEF Attachments!TaskSucceeds
  <2>2. x8' \in Attachments!Blob
    BY <1>0, <1>8 DEF Attachments!TaskSucceeds
  <2> QED
    BY <1>8, <2>1, <2>2 DEF Attachments!TaskSucceeds, Attachments!senderVars, Attachments!screenVars,
       Attachments!TypeOK
<1>9. CASE Attachments!TaskFails
  <2>1. x10' \in 0..MaxTasks /\ x11' \in Seq(BOOLEAN)
    BY <1>0, <1>9 DEF Attachments!TaskFails
  <2>2. x8' \in Attachments!Blob /\ x16' \in 0..MaxOutages
    BY <1>9, <1>f, <1>l DEF Attachments!TaskFails
  <2> QED
    BY <1>9, <2>1, <2>2 DEF Attachments!TaskFails, Attachments!senderVars,
       Attachments!screenVars, Attachments!TypeOK
<1>10. CASE Attachments!DownloadFinished
  <2>1. AttachmentsRequestOK
    BY <1>0, <1>10, AttachmentsRequest DEF Attachments!DownloadFinished
  <2>2. x13' \in BOOLEAN /\ x14' \in BOOLEAN
    <3>1. UNCHANGED Attachments!screenVars \/ Attachments!QueueAttachmentData
      BY <1>10 DEF Attachments!DownloadFinished
    <3>2. x13 \in BOOLEAN /\ x14 \in BOOLEAN
      BY DEF Attachments!TypeOK
    <3>3. Attachments!QueueAttachmentData => x13' \in BOOLEAN /\ x14' \in BOOLEAN
      BY Zenon DEF Attachments!QueueAttachmentData
    <3> QED
      BY <3>1, <3>2, <3>3 DEF Attachments!screenVars
  <2>3. x11' \in Seq(BOOLEAN)
    <3>1. x11 # <<>> /\ x11' = Tail(x11)
      BY <1>10 DEF Attachments!DownloadFinished
    <3> QED
      BY <1>0, <3>1
  <2> QED
    BY <1>10, <2>1, <2>2, <2>3 DEF Attachments!DownloadFinished, AttachmentsRequestOK,
       Attachments!senderVars, Attachments!TypeOK
<1>11. CASE Attachments!CollectGarbage
  BY <1>0, <1>11 DEF Attachments!CollectGarbage, Attachments!senderVars, Attachments!screenVars,
     Attachments!TypeOK
<1>12. CASE Attachments!SetMaxImageBytes
  <2>1. AttachmentsRequestOK /\ x15' \in 0..MaxWishes
    BY <1>0, <1>12, <1>c, AttachmentsRequest DEF Attachments!SetMaxImageBytes
  <2>2. x6' \in BOOLEAN
    BY <1>12, Zenon DEF Attachments!SetMaxImageBytes
  <2> QED
    BY <1>12, <2>1, <2>2 DEF Attachments!SetMaxImageBytes, AttachmentsRequestOK,
       Attachments!senderVars, Attachments!screenVars, Attachments!TypeOK
<1>13. CASE Attachments!SetRetentionPolicy
  <2>1. AttachmentsRequestOK /\ x15' \in 0..MaxWishes
    BY <1>0, <1>13, <1>c, AttachmentsRequest DEF Attachments!SetRetentionPolicy
  <2>2. x7' \in BOOLEAN
    BY <1>13, Zenon DEF Attachments!SetRetentionPolicy
  <2>3. x8' \in Attachments!Blob
    BY <1>0, <1>13 DEF Attachments!SetRetentionPolicy
  <2> QED
    BY <1>13, <2>1, <2>2, <2>3 DEF Attachments!SetRetentionPolicy, AttachmentsRequestOK,
       Attachments!senderVars, Attachments!TypeOK
<1>14. CASE Attachments!LoadAttachment
  <2>1. AttachmentsRequestOK
    <3>1. (IF Attachments!Held THEN x12 ELSE "later") \in Attachments!AttachmentRetry
      BY <1>0
    <3> QED
      BY <1>0, <1>14, <3>1, AttachmentsRequest DEF Attachments!LoadAttachment
  <2>2. x13' \in BOOLEAN /\ x14' \in BOOLEAN
    <3>1. x14' = Attachments!Held /\ x13' = ~Attachments!Held
      BY <1>14 DEF Attachments!LoadAttachment
    <3>2. Attachments!Held \in BOOLEAN
      BY DEF Attachments!Held
    <3> QED
      BY <3>1, <3>2, Zenon
  <2> QED
    BY <1>14, <2>1, <2>2 DEF Attachments!LoadAttachment, AttachmentsRequestOK,
       Attachments!senderVars, Attachments!TypeOK
<1>15. CASE Attachments!MemberRestarts
  <2>1. x10' \in 0..MaxTasks /\ x16' \in 0..MaxOutages
    BY <1>0, <1>15, <1>f DEF Attachments!MemberRestarts
  <2>2. x9' \in BOOLEAN
    BY <1>15, Zenon DEF Attachments!MemberRestarts, Attachments!Wanted
  <2>3. AttachmentsBooleans'
    <3>1. x13' = FALSE /\ x14' = FALSE
      BY <1>15 DEF Attachments!MemberRestarts
    <3> QED
      BY <1>15, <2>2, <3>1 DEF Attachments!MemberRestarts, Attachments!senderVars,
         Attachments!TypeOK, AttachmentsBooleans
  <2>4. x11' = <<>> /\ x12' = "none" /\ x8' = x8 /\ x15' = x15
    BY <1>15 DEF Attachments!MemberRestarts
  <2>5. x11' \in Seq(BOOLEAN)
    BY <2>4
  <2>6. /\ x12' \in Attachments!AttachmentRetry /\ x8' \in Attachments!Blob
        /\ x15' \in 0..MaxWishes
    BY <1>0, <2>4
  <2> QED
    BY <2>1, <2>3, <2>5, <2>6 DEF Attachments!TypeOK, AttachmentsBooleans
<1>16. CASE UNCHANGED Attachments!attachmentVars
  BY <1>16 DEF Attachments!attachmentVars, Attachments!senderVars, Attachments!screenVars,
     Attachments!TypeOK
<1> QED
  BY <1>1, <1>2, <1>3, <1>4, <1>5, <1>6, <1>7, <1>8, <1>9, <1>10, <1>11, <1>12, <1>13, <1>14,
     <1>15, <1>16 DEF Attachments!Next

-----------------------------------------------------------------------------
(*************************************************************************)
(* ChatTimeline, for whose variables the following stand: x1 current, x2 *)
(* opening, x3 subscription, x4 streams, x5 signals, x6 entries, x7      *)
(* bodies, x8 limit, x9 published, x10 faults.  TypeOK is inductive.     *)
(*************************************************************************)

LEMMA TimelineFinite ==
  ASSUME Timeline!ChatTimelineAssumption, NEW S \in SUBSET Timeline!Entry
  PROVE  IsFiniteSet(S) /\ Cardinality(S) \in 0..MaxEntries
<1>1. MaxEntries \in Nat
  BY DEF Timeline!ChatTimelineAssumption
<1>2. IsFiniteSet(1..MaxEntries) /\ Cardinality(1..MaxEntries) = MaxEntries
  BY <1>1, FS_Interval
<1>3. /\ IsFiniteSet(S) /\ Cardinality(S) <= Cardinality(1..MaxEntries)
      /\ Cardinality(S) \in Nat
  BY <1>2, FS_Subset, FS_CardinalityType DEF Timeline!Entry
<1> QED
  BY <1>1, <1>2, <1>3

\* The types of what a reading of the page changes.
TimelineReadOK ==
  /\ x9' \in [messages : SUBSET Timeline!Entry, hasMore : BOOLEAN]
  /\ x2' \in {"no", "open", "publish", "unpublished"}
  /\ x10' \in 0..MaxOutages

\* What load_recent_messages reads, or that it fails.
LEMMA TimelinePage ==
  ASSUME Timeline!TypeOK, Timeline!PublishTimeline
  PROVE  TimelineReadOK
<1>1. CASE x9' = Timeline!Page /\ x2' = "no" /\ UNCHANGED x10
  <2> DEFINE queried == Timeline!Newest(x6, x8' + 1) \cap x7
             read    == Timeline!Newest(queried, x8')
             more    == Cardinality(queried) > x8'
  <2>1. read \in SUBSET Timeline!Entry
    BY DEF Timeline!TypeOK, Timeline!Newest
  <2>2. more \in BOOLEAN
    OBVIOUS
  <2>3. x9' = [messages |-> read, hasMore |-> more]
    BY <1>1, Sizes DEF Timeline!Page
  <2> HIDE DEF read, more
  <2> QED
    BY <1>1, <2>1, <2>2, <2>3 DEF Timeline!TypeOK, TimelineReadOK
<1>2. CASE Timeline!Fault /\ x2' = "unpublished" /\ UNCHANGED x9
  <2>1. MaxOutages \in Nat
    BY ProgressAssumptions DEF Timeline!ChatTimelineAssumption
  <2> QED
    BY <1>2, <2>1 DEF Timeline!Fault, Timeline!TypeOK, TimelineReadOK
<1> QED
  BY <1>1, <1>2 DEF Timeline!PublishTimeline

LEMMA TimelineInit == Timeline!Init => Timeline!TypeOK
<1> SUFFICES ASSUME Timeline!Init PROVE Timeline!TypeOK
  OBVIOUS
<1>1. PageSize \in Nat \ {0} /\ MaxEntries \in Nat \ {0} /\ MaxDocs \in Nat \ {0}
                             /\ MaxOutages \in Nat
  BY ProgressAssumptions DEF Timeline!ChatTimelineAssumption
<1>2. x6 \subseteq Timeline!Entry /\ x7 \subseteq x6
  BY <1>1 DEF Timeline!Init, Timeline!Entry
<1>3. x9 \in [messages : SUBSET Timeline!Entry, hasMore : BOOLEAN] /\ ~x9.hasMore
  BY DEF Timeline!Init
<1>4. x8 \in Nat /\ x8 >= PageSize /\ x10 \in 0..MaxOutages
  BY <1>1 DEF Timeline!Init
<1> QED
  BY <1>1, <1>2, <1>3, <1>4 DEF Timeline!Init, Timeline!TypeOK, Timeline!Doc

LEMMA TimelineStep == Timeline!TypeOK /\ [Timeline!Next]_(Timeline!timelineVars) => Timeline!TypeOK'
<1> SUFFICES ASSUME Timeline!TypeOK, [Timeline!Next]_(Timeline!timelineVars) PROVE Timeline!TypeOK'
  OBVIOUS
<1>0. /\ Timeline!TypeOK /\ PageSize \in Nat \ {0} /\ MaxEntries \in Nat \ {0}
      /\ MaxDocs \in Nat \ {0} /\ MaxOutages \in Nat
      /\ x8 \in Nat /\ x8 >= PageSize
      /\ x10 \in Nat /\ x1 \in Timeline!Doc /\ x1 \in Nat
      /\ x6 \in SUBSET Timeline!Entry /\ x5 \in Seq(Timeline!Signal)
  BY ProgressAssumptions DEF Timeline!ChatTimelineAssumption, Timeline!TypeOK,
     Timeline!Doc
<1>f. Timeline!Fault => x10' \in 0..MaxOutages
  BY <1>0 DEF Timeline!Fault
<1>s. /\ [is |-> "Changed", doc |-> x1] \in Timeline!Signal
      /\ \A d \in Timeline!Doc : [is |-> "SubscriptionEnded", doc |-> d] \in Timeline!Signal
  BY <1>0 DEF Timeline!Signal
<1>g. x5' = Timeline!Signalled => x5' \in Seq(Timeline!Signal)
  BY <1>0, <1>s DEF Timeline!Signalled, Timeline!Changed
<1>1. CASE Timeline!InsertEntry
  <2>1. Cardinality(x6) \in Nat /\ Cardinality(x6) < MaxEntries
    BY <1>0, <1>1, ProgressAssumptions, TimelineFinite, Sizes DEF Timeline!InsertEntry
  <2>2. Cardinality(x6) + 1 \in Timeline!Entry
    BY <1>0, <2>1 DEF Timeline!Entry
  <2>3. x6' \subseteq Timeline!Entry /\ x7' \subseteq x6'
    <3> DEFINE n == Cardinality(x6) + 1
    <3>1. n \in Timeline!Entry
      BY <2>2
    <3> HIDE DEF n
    <3> QED
      BY <1>0, <1>1, <3>1, Sizes DEF Timeline!InsertEntry, Timeline!TypeOK, n
  <2> QED
    BY <1>1, <1>g, <2>3 DEF Timeline!InsertEntry, Timeline!TypeOK
<1>2. CASE Timeline!ContentReady
  <2>1. x7' \subseteq x6'
    BY <1>0, <1>2 DEF Timeline!ContentReady, Timeline!TypeOK
  <2> QED
    BY <1>2, <1>g, <2>1 DEF Timeline!ContentReady, Timeline!TypeOK
<1>3. ASSUME NEW d \in Timeline!Doc, Timeline!StreamEnds(d) PROVE Timeline!TypeOK'
  BY <1>3, <1>f DEF Timeline!StreamEnds, Timeline!TypeOK
<1>4. ASSUME NEW d \in Timeline!Doc, Timeline!ReportEnd(d) PROVE Timeline!TypeOK'
  <2>1. x5' \in Seq(Timeline!Signal)
    BY <1>0, <1>4, <1>s DEF Timeline!ReportEnd
  <2> QED
    BY <1>4, <2>1 DEF Timeline!ReportEnd, Timeline!TypeOK
<1>5. CASE Timeline!Subscribe
  BY <1>0, <1>5 DEF Timeline!Subscribe, Timeline!TypeOK
<1>6. CASE Timeline!OpenAndPublish
  <2>1. TimelineReadOK
    BY <1>6, TimelinePage DEF Timeline!OpenAndPublish
  <2> QED
    BY <1>6, <2>1 DEF Timeline!OpenAndPublish, TimelineReadOK, Timeline!TypeOK
<1>7. CASE Timeline!OpeningFails
  BY <1>7, <1>f DEF Timeline!OpeningFails, Timeline!TypeOK
<1>8. CASE Timeline!Document
  <2>1. TimelineReadOK
    <3>1. CASE Timeline!PublishTimeline
      BY <3>1, TimelinePage
    <3>2. CASE UNCHANGED <<x9, x10>> /\ x2' \in {"open", x2}
      BY <3>2 DEF TimelineReadOK, Timeline!TypeOK
    <3> QED
      BY <1>8, <3>1, <3>2 DEF Timeline!Document
  <2>2. x5' \in Seq(Timeline!Signal)
    BY <1>0, <1>8 DEF Timeline!Document
  <2>3. x3' \in {0} \cup Timeline!Doc
    BY <1>0, <1>8 DEF Timeline!Document, Timeline!SubscriptionWithout, Timeline!TypeOK
  <2> QED
    BY <1>8, <2>1, <2>2, <2>3 DEF Timeline!Document, TimelineReadOK, Timeline!TypeOK
<1>9. CASE Timeline!MoveToDocument
  <2>1. x1' \in Timeline!Doc
    BY <1>0, <1>9 DEF Timeline!MoveToDocument, Timeline!Doc
  <2> QED
    BY <1>9, <2>1 DEF Timeline!MoveToDocument, Timeline!TypeOK
<1>10. CASE Timeline!LoadOlderMessages
  <2>1. x8' \in Nat /\ x8' >= PageSize
    BY <1>0, <1>10 DEF Timeline!LoadOlderMessages
  <2>2. TimelineReadOK
    BY <1>10, TimelinePage DEF Timeline!LoadOlderMessages
  <2> QED
    BY <1>10, <2>1, <2>2 DEF Timeline!LoadOlderMessages, TimelineReadOK, Timeline!TypeOK
<1>11. CASE Timeline!OpenAgain
  BY <1>11 DEF Timeline!OpenAgain, Timeline!TypeOK
<1>12. CASE UNCHANGED Timeline!timelineVars
  BY <1>12 DEF Timeline!timelineVars, Timeline!TypeOK
<1> QED
  BY <1>1, <1>2, <1>3, <1>4, <1>5, <1>6, <1>7, <1>8, <1>9, <1>10, <1>11, <1>12 DEF Timeline!Next

-----------------------------------------------------------------------------
(*************************************************************************)
(* PresenceProbe, for whose variables the following stand: x1 up, x2     *)
(* saved, x3 health, x4 probes, x5 inbound, x6 updates, x7 shown, x8     *)
(* changes, x9 faults.  Inductive is TypeOK with the set of probes being *)
(* finite.                                                               *)
(*************************************************************************)

\* The probes under way are a finite set, of which one more can be counted.
PresenceInv == Presence!TypeOK /\ IsFiniteSet(x4)

LEMMA PresenceGenerations ==
  ASSUME Presence!PresenceProbeAssumption, NEW h \in Presence!ProbeHealth
  PROVE  /\ Presence!NextGeneration(h) \in Presence!Generation
         /\ Presence!Begin(h) \in Presence!ProbeHealth
         /\ Presence!ObservedInbound(h) \in Presence!ProbeHealth
         /\ \A g : Presence!Succeeded(h, g) \in Presence!ProbeHealth /\ Presence!Failed(h, g)
              \in Presence!ProbeHealth
<1>1. MaxProbeGeneration \in Nat \ {0} /\ OfflineAfter \in Nat \ {0}
  BY DEF Presence!PresenceProbeAssumption
<1>2. h.generation \in Presence!Generation /\ h.failures \in 0..OfflineAfter
                                           /\ h.offlineEmitted \in BOOLEAN
  BY DEF Presence!ProbeHealth
<1>3. Presence!NextGeneration(h) \in Presence!Generation
  BY <1>1, <1>2 DEF Presence!NextGeneration, Presence!Generation
<1>4. Presence!Begin(h) \in Presence!ProbeHealth
  BY <1>3 DEF Presence!Begin, Presence!ProbeHealth
<1>5. Presence!ObservedInbound(h) \in Presence!ProbeHealth
  BY <1>1, <1>3 DEF Presence!ObservedInbound, Presence!ProbeHealth
<1>6. ASSUME NEW g PROVE Presence!Succeeded(h, g) \in Presence!ProbeHealth
  <2>1. \A n \in 0..OfflineAfter, b \in BOOLEAN :
           [h EXCEPT !.failures = n, !.offlineEmitted = b] \in Presence!ProbeHealth
    BY DEF Presence!ProbeHealth
  <2>2. 0 \in 0..OfflineAfter /\ FALSE \in BOOLEAN
    BY <1>1
  <2> QED
    BY <2>1, <2>2 DEF Presence!Succeeded
<1>7. ASSUME NEW g PROVE Presence!Failed(h, g) \in Presence!ProbeHealth
  <2>1. \A n \in 0..OfflineAfter, b \in BOOLEAN :
           [h EXCEPT !.failures = n, !.offlineEmitted = b] \in Presence!ProbeHealth
    BY DEF Presence!ProbeHealth
  <2>2. (IF h.failures < OfflineAfter THEN h.failures + 1 ELSE h.failures) \in 0..OfflineAfter
    BY <1>1, <1>2
  <2>3. CASE Presence!Current(h, g)
    <3> DEFINE n == IF h.failures < OfflineAfter THEN h.failures + 1 ELSE h.failures
    <3>1. Presence!Failed(h, g) = [h EXCEPT !.failures = n, !.offlineEmitted
               = h.offlineEmitted \/ n = OfflineAfter]
      BY <2>3 DEF Presence!Failed, Presence!ProbeHealth
    <3>2. n \in 0..OfflineAfter
      BY <2>2
    <3>3. (h.offlineEmitted \/ n = OfflineAfter) \in BOOLEAN
      OBVIOUS
    <3> HIDE DEF n
    <3> QED
      BY <2>1, <3>1, <3>2, <3>3
  <2>4. CASE ~Presence!Current(h, g)
    BY <2>4 DEF Presence!Failed
  <2> QED
    BY <2>3, <2>4
<1> QED
  BY <1>3, <1>4, <1>5, <1>6, <1>7

LEMMA PresenceInit == Presence!Init => PresenceInv
<1> SUFFICES ASSUME Presence!Init PROVE PresenceInv
  OBVIOUS
<1>1. Cardinality(x4) = 0 /\ IsFiniteSet(x4)
  BY FS_EmptySet DEF Presence!Init
<1>2. OfflineAfter \in Nat /\ MaxProbeGeneration \in Nat /\ MaxProbes \in Nat
                           /\ MaxChanges \in Nat /\ MaxFailures \in Nat
  BY ProgressAssumptions DEF Presence!PresenceProbeAssumption
<1>3. x3 \in Presence!ProbeHealth
  BY <1>2 DEF Presence!Init, Presence!ProbeHealth, Presence!Generation
<1> QED
  BY <1>1, <1>2, <1>3, Sizes DEF Presence!Init, PresenceInv, Presence!TypeOK, Presence!Says,
     Presence!Update

\* A probe that ends leaves no more probes than there were.
LEMMA PresenceProbesLeft ==
  ASSUME PresenceInv, NEW p \in x4, NEW q \in Presence!Probe,
         x4' \in {x4 \ {p}, (x4 \ {p}) \cup {q}}
  PROVE  IsFiniteSet(x4') /\ x4' \subseteq Presence!Probe /\ Cardinality(x4') <= MaxProbes
<1>1. IsFiniteSet(x4 \ {p}) /\ Cardinality(x4 \ {p}) = Cardinality(x4) - 1
  BY FS_RemoveElement DEF PresenceInv
<1>2. /\ IsFiniteSet((x4 \ {p}) \cup {q})
      /\ Cardinality((x4 \ {p}) \cup {q}) \in {Cardinality(x4), Cardinality(x4) - 1}
  <2>1. Cardinality(x4) \in Nat
    BY FS_CardinalityType DEF PresenceInv
  <2> DEFINE S == x4 \ {p}
  <2>2. IsFiniteSet(S) /\ Cardinality(S) = Cardinality(x4) - 1
    BY <1>1
  <2> HIDE DEF PresenceInv, S
  <2>3. IsFiniteSet(S \cup {q}) /\ Cardinality(S \cup {q}) \in {Cardinality(S), Cardinality(S) + 1}
    BY <2>2, FS_AddElement
  <2>4. Cardinality(S \cup {q}) \in {Cardinality(x4), Cardinality(x4) - 1}
    BY <2>1, <2>2, <2>3
  <2> QED
    BY <2>3, <2>4 DEF S
<1>3. Cardinality(x4) \in Nat /\ MaxProbes \in Nat /\ Cardinality(x4) <= MaxProbes
  BY ProgressAssumptions, FS_CardinalityType, Sizes DEF PresenceInv, Presence!TypeOK,
     Presence!PresenceProbeAssumption
<1>4. \A c \in {Cardinality(x4), Cardinality(x4) - 1} : c <= MaxProbes
  BY <1>3
<1>5. x4' \subseteq Presence!Probe
  BY DEF PresenceInv, Presence!TypeOK
<1> QED
  BY <1>1, <1>2, <1>4, <1>5

LEMMA PresenceStep == PresenceInv /\ [Presence!Next]_(Presence!presenceVars) => PresenceInv'
<1> SUFFICES ASSUME PresenceInv, [Presence!Next]_(Presence!presenceVars) PROVE PresenceInv'
  OBVIOUS
<1>0. /\ Presence!TypeOK /\ IsFiniteSet(x4) /\ Cardinality(x4) \in Nat
      /\ MaxProbes \in Nat \ {0} /\ MaxChanges \in Nat /\ MaxFailures \in Nat
      /\ x3 \in Presence!ProbeHealth /\ x8 \in Nat /\ x9 \in Nat
      /\ x5 \in Seq(Presence!Says) /\ x6 \in Seq(Presence!Update)
  BY ProgressAssumptions, FS_CardinalityType DEF Presence!PresenceProbeAssumption, PresenceInv,
     Presence!TypeOK
<1>f. Presence!Fault \/ UNCHANGED x9 => x9' \in 0..MaxFailures
  BY <1>0 DEF Presence!Fault, Presence!TypeOK
<1>c. x8 < MaxChanges /\ x8' = x8 + 1 => x8' \in 0..MaxChanges
  BY <1>0
<1>h. Presence!NextGeneration(x3) \in Presence!Generation
  BY <1>0, ProgressAssumptions, PresenceGenerations
<1>1. CASE Presence!RefreshAllowedPeers \/ Presence!AnnounceChange
  <2>1. Presence!AnnounceOnline /\ x8' \in 0..MaxChanges
    BY <1>1, <1>c DEF Presence!RefreshAllowedPeers, Presence!AnnounceChange, Presence!TypeOK,
       PresenceInv
  <2>2. x3' \in Presence!ProbeHealth /\ x3'.generation \in Presence!Generation
    <3>1. x3' \in Presence!ProbeHealth
      BY <1>0, <2>1, ProgressAssumptions, PresenceGenerations DEF Presence!AnnounceOnline
    <3> QED
      BY <3>1 DEF Presence!ProbeHealth
  <2> DEFINE p == [generation |-> x3'.generation, says |-> "asks"]
  <2>3. p \in Presence!Probe /\ x4' = x4 \cup {p} /\ Cardinality(x4) < MaxProbes
    BY <2>1, <2>2, Sizes DEF Presence!AnnounceOnline, Presence!Probe
  <2> HIDE DEF p
  <2>4. IsFiniteSet(x4') /\ Cardinality(x4') <= MaxProbes
    <3>1. /\ IsFiniteSet(x4 \cup {p})
          /\ Cardinality(x4 \cup {p}) \in {Cardinality(x4), Cardinality(x4) + 1}
      BY <1>0, FS_AddElement
    <3> QED
      BY <1>0, <2>3, <3>1
  <2> QED
    BY <2>1, <2>2, <2>3, <2>4, Sizes DEF Presence!AnnounceOnline, PresenceInv, Presence!TypeOK
<1>2. ASSUME NEW p \in x4, Presence!Ends(p) PROVE PresenceInv'
  <2>1. p \in Presence!Probe /\ \A s \in Presence!Says : [p EXCEPT !.says = s] \in Presence!Probe
    BY <1>0 DEF Presence!Probe, Presence!TypeOK
  <2>2. /\ x3' \in Presence!ProbeHealth /\ x9' \in 0..MaxFailures
        /\ \E s \in Presence!Says : x4' \in {x4 \ {p}, (x4 \ {p}) \cup {[p EXCEPT !.says = s]}}
        /\ UNCHANGED <<x2, x5, x6, x7, x8, x1>>
    <3>1. CASE Presence!ExchangeSucceeds(p)
      BY <1>0, <1>f, <3>1, ProgressAssumptions, PresenceGenerations
         DEF Presence!ExchangeSucceeds, Presence!Says
    <3>2. CASE Presence!ExchangeFails(p)
      <4>1. x9' \in 0..MaxFailures
        BY <1>f, <3>2 DEF Presence!ExchangeFails
      <4>2. x3' \in Presence!ProbeHealth
        BY <1>0, <3>2, ProgressAssumptions, PresenceGenerations DEF Presence!ExchangeFails
      <4> QED
        BY <3>2, <4>1, <4>2 DEF Presence!ExchangeFails, Presence!Says
    <3> QED
      BY <1>2, <3>1, <3>2 DEF Presence!Ends
  <2>3. IsFiniteSet(x4') /\ x4' \subseteq Presence!Probe /\ Cardinality(x4') <= MaxProbes
    BY <1>2, <2>1, <2>2, PresenceProbesLeft
  <2> QED
    BY <2>2, <2>3, Sizes DEF PresenceInv, Presence!TypeOK
<1>3. ASSUME NEW p \in x4, Presence!QueueUpdate(p) PROVE PresenceInv'
  <2> DEFINE u == IF Presence!Overtaken(p) THEN "late" ELSE p.says
  <2>1. p \in Presence!Probe /\ x6' = Append(x6, u) /\ x4' = x4 \ {p}
    BY <1>0, <1>3 DEF Presence!TypeOK, Presence!QueueUpdate
  <2>2. x6' \in Seq(Presence!Update)
    <3>1. p.says \in {"online", "offline"}
      BY <1>3, <2>1 DEF Presence!Probe, Presence!QueueUpdate, Presence!Says
    <3>2. u \in {"online", "offline", "late"}
      BY <3>1, Zenon
    <3> HIDE DEF u
    <3> QED
      BY <1>0, <2>1, <3>2 DEF Presence!Update, Presence!Says
  <2>3. IsFiniteSet(x4') /\ x4' \subseteq Presence!Probe /\ Cardinality(x4') <= MaxProbes
    BY <1>3, <2>1, PresenceProbesLeft
  <2> QED
    BY <1>3, <2>2, <2>3, Sizes DEF Presence!QueueUpdate, PresenceInv, Presence!TypeOK
<1>4. CASE Presence!Accept
  <2>1. x5' \in Seq(Presence!Says) /\ Head(x5) \in Presence!Says
    BY <1>0, <1>4 DEF Presence!Accept
  <2>2. Presence!ObservedInbound(x3) \in Presence!ProbeHealth
    BY <1>0, ProgressAssumptions, PresenceGenerations
  <2>3. Append(x6, Head(x5)) \in Seq(Presence!Update)
    BY <1>0, <2>1 DEF Presence!Update
  <2>4. x3' \in Presence!ProbeHealth /\ x6' \in Seq(Presence!Update)
    BY <1>0, <1>4, <2>2, <2>3 DEF Presence!Accept
  <2> QED
    BY <1>4, <2>1, <2>4 DEF Presence!Accept, PresenceInv, Presence!TypeOK
<1>5. CASE Presence!NextUpdate
  <2>1. x6' \in Seq(Presence!Update) /\ x7' \in Presence!Update
    BY <1>0, <1>5 DEF Presence!NextUpdate
  <2> QED
    BY <1>5, <2>1 DEF Presence!NextUpdate, PresenceInv, Presence!TypeOK
<1>6. CASE Presence!ContactStarts \/ Presence!ContactStops
  <2>1. x5' \in Seq(Presence!Says) /\ x8' \in 0..MaxChanges /\ x1' \in BOOLEAN
    <3>1. x5' \in {<<>>, Append(x5, "online"), Append(x5, "offline")}
      BY <1>6 DEF Presence!ContactStarts, Presence!ContactStops
    <3>2. /\ <<>> \in Seq(Presence!Says) /\ Append(x5, "online") \in Seq(Presence!Says)
          /\ Append(x5, "offline") \in Seq(Presence!Says)
      <4>1. "online" \in Presence!Says /\ "offline" \in Presence!Says
        BY DEF Presence!Says
      <4> QED
        BY <1>0, <4>1
    <3>3. x5' \in Seq(Presence!Says)
      BY <3>1, <3>2
    <3> QED
      BY <1>6, <1>c, <3>3 DEF Presence!ContactStarts, Presence!ContactStops
  <2> QED
    BY <1>6, <2>1 DEF Presence!ContactStarts, Presence!ContactStops, PresenceInv,
       Presence!TypeOK
<1>7. CASE Presence!ReplaceAllowedPeers
  BY <1>7, <1>c DEF Presence!ReplaceAllowedPeers, PresenceInv, Presence!TypeOK
<1>8. CASE UNCHANGED Presence!presenceVars
  BY <1>8 DEF Presence!presenceVars, PresenceInv, Presence!TypeOK
<1> QED
  BY <1>1, <1>2, <1>3, <1>4, <1>5, <1>6, <1>7, <1>8 DEF Presence!Next

-----------------------------------------------------------------------------
(*************************************************************************)
(* Updates, for whose variables the following stand: x1 builds, x2       *)
(* prompt, x3 candidates, x4 commands, x5 events, x6 asks, x7 asking, x8 *)
(* downloads, x9 staged, x10 hosted, x11 process, x12 helpers, x13       *)
(* installed, x14 begins, x15 launches, x16 faults.  What bounds the     *)
(* commands and events that wait is how often the user may still begin:  *)
(* each that waits or is being answered has had its own beginning.       *)
(*************************************************************************)

LEMMA UpdatesConstants ==
  /\ NoFriend \notin Friend
  /\ MaxBuild \in Nat /\ MaxFiles \in Nat /\ MaxBegins \in Nat /\ MaxRelaunches \in Nat
  /\ MaxFailures \in Nat
BY ProgressAssumptions DEF Updating!UpdatesAssumption

LEMMA UpdatesBuilds ==
  /\ 0 \in Updating!Builds /\ MaxBuild \in Updating!Builds
  /\ Updating!Newer \subseteq Updating!Builds /\ 0 \notin Updating!Newer
  /\ Updating!File \subseteq Nat /\ Updating!File \subseteq 0..MaxFiles /\ 0 \in 0..MaxFiles
  /\ (0..MaxFiles) \ {0} \subseteq Updating!File
BY UpdatesConstants DEF Updating!Builds, Updating!Newer, Updating!File

\* The flow on the screen: an offer that can be accepted is that of a friend.
Flow(q) == q \in Updating!PeerUpdateState /\ (q.offer \in Updating!Newer => q.active \in Friend)
Fetch(p) == [kind |-> "fetch", peer |-> p]

UpdatesInv ==
  /\ x1 \in [Friend -> Updating!Builds] /\ x3 \in [Friend -> Updating!Builds]
  /\ Flow(x2)
  /\ x4 \in Seq(Updating!Command) /\ x5 \in Seq(Updating!Event)
  /\ x14 \in 0..MaxBegins
  /\ x6 \in [Friend -> Nat] /\ \A p \in Friend : x6[p] + Count(x4, Fetch(p)) <= x14
  /\ x7 \in Friend \cup {NoFriend}
  /\ x8 \in [Friend -> Updating!Download]
  /\ \A p \in Friend : x8[p].stage # "none" => x8[p].file \in Updating!File
  /\ x9 \in [Updating!File -> Updating!Content] /\ x10 \in Updating!Hosted
  /\ x11 \in {"runs", "exits", "gone"}
  /\ x12 \subseteq Updating!File /\ x13 \in Updating!Builds

LEMMA UpdatesTyped == UpdatesInv => Updating!TypeOK
<1> SUFFICES ASSUME UpdatesInv PROVE Updating!TypeOK
  OBVIOUS
<1>1. x6 \in [Friend -> 0..MaxBegins]
  <2>1. ASSUME NEW p \in Friend PROVE x6[p] \in 0..MaxBegins
    <3>1. x6[p] \in Nat /\ x6[p] + Count(x4, Fetch(p)) <= x14 /\ x14 \in 0..MaxBegins
      BY DEF UpdatesInv
    <3>2. x4 \in Seq(Updating!Command)
      BY DEF UpdatesInv
    <3>3. Count(x4, Fetch(p)) \in Nat
      BY <3>2, CountIs
    <3> QED
      BY <3>1, <3>3, UpdatesConstants
  <2>2. x6 \in [Friend -> Nat]
    BY DEF UpdatesInv
  <2> QED
    BY <2>1, <2>2
<1> QED
  BY <1>1 DEF UpdatesInv, Flow, Updating!TypeOK

LEMMA UpdatesFlows ==
  ASSUME NEW q, Flow(q), NEW b \in BOOLEAN
  PROVE  /\ Flow([q EXCEPT !.open = b]) /\ [q EXCEPT !.open = b].active = q.active
         /\ Flow([q EXCEPT !.error = b]) /\ [q EXCEPT !.error = b].active = q.active
         /\ Flow([q EXCEPT !.transfer = b])
BY DEF Flow, Updating!PeerUpdateState

LEMMA UpdatesOffered ==
  ASSUME NEW q, Flow(q), q.active \in Friend, NEW b \in Updating!Builds
  PROVE  Flow([q EXCEPT !.offer = b])
BY DEF Flow, Updating!PeerUpdateState

LEMMA UpdatesPrompts ==
  /\ Flow(Updating!NoFlow) /\ Flow([Updating!NoFlow EXCEPT !.open = TRUE])
  /\ \A p \in Friend : Flow([Updating!NoFlow EXCEPT !.active = p, !.open = TRUE])
<1>1. Flow(Updating!NoFlow)
  BY UpdatesBuilds DEF Flow, Updating!NoFlow, Updating!PeerUpdateState
<1>2. Flow([Updating!NoFlow EXCEPT !.open = TRUE])
  <2> HIDE DEF Updating!NoFlow
  <2> QED
    BY <1>1, UpdatesFlows
<1>3. ASSUME NEW p \in Friend PROVE Flow([Updating!NoFlow EXCEPT !.active = p, !.open = TRUE])
  <2> DEFINE q == [Updating!NoFlow EXCEPT !.active = p]
  <2>1. Flow(q)
    BY <1>1, UpdatesBuilds DEF Flow, Updating!NoFlow, Updating!PeerUpdateState
  <2>2. [Updating!NoFlow EXCEPT !.active = p, !.open = TRUE] = [q EXCEPT !.open = TRUE]
    OBVIOUS
  <2> HIDE DEF q
  <2> QED
    BY <2>1, <2>2, UpdatesFlows
<1> QED
  BY <1>1, <1>2, <1>3

LEMMA UpdatesTwo ==
  ASSUME NEW q, Flow(q)
  PROVE  /\ Flow([q EXCEPT !.transfer = TRUE, !.open = FALSE])
         /\ Flow([q EXCEPT !.transfer = TRUE, !.open = TRUE])
         /\ Flow([q EXCEPT !.error = TRUE, !.open = TRUE])
         /\ Flow([q EXCEPT !.error = TRUE, !.transfer = FALSE, !.open = TRUE])
         /\ \A b \in Updating!Builds : q.active \in Friend => Flow([q EXCEPT !.offer = b,
              !.error = FALSE, !.open = TRUE])
<1>1. \A r : Flow(r) => Flow([r EXCEPT !.open = TRUE]) /\ Flow([r EXCEPT !.open = FALSE])
                        /\ Flow([r EXCEPT !.error = FALSE]) /\ Flow([r EXCEPT !.transfer = FALSE])
  BY UpdatesFlows
<1>2. Flow([q EXCEPT !.transfer = TRUE, !.open = FALSE]) /\ Flow([q EXCEPT !.transfer = TRUE,
           !.open = TRUE])
  <2> DEFINE r == [q EXCEPT !.transfer = TRUE]
  <2>1. Flow(r)
    BY UpdatesFlows
  <2> HIDE DEF r
  <2>2. Flow([r EXCEPT !.open = FALSE]) /\ Flow([r EXCEPT !.open = TRUE])
    BY <1>1, <2>1
  <2> QED
    BY <2>2 DEF r
<1>3. /\ Flow([q EXCEPT !.error = TRUE, !.open = TRUE])
      /\ Flow([q EXCEPT !.error = TRUE, !.transfer = FALSE, !.open = TRUE])
  <2> DEFINE r == [q EXCEPT !.error = TRUE]
             s == [r EXCEPT !.transfer = FALSE]
  <2>1. Flow(r)
    BY UpdatesFlows
  <2> HIDE DEF r
  <2>2. Flow(s)
    BY <1>1, <2>1
  <2> HIDE DEF s
  <2>3. Flow([r EXCEPT !.open = TRUE]) /\ Flow([s EXCEPT !.open = TRUE])
    BY <1>1, <2>1, <2>2
  <2>4. Flow([r EXCEPT !.transfer = FALSE, !.open = TRUE])
    BY <2>3 DEF s
  <2> QED
    BY <2>3, <2>4 DEF r
<1>4. ASSUME NEW b \in Updating!Builds, q.active \in Friend
      PROVE  Flow([q EXCEPT !.offer = b, !.error = FALSE, !.open = TRUE])
  <2> DEFINE r == [q EXCEPT !.offer = b]
             s == [r EXCEPT !.error = FALSE]
  <2>1. Flow(r)
    BY <1>4, UpdatesOffered
  <2> HIDE DEF r
  <2>2. Flow(s)
    BY <1>1, <2>1
  <2> HIDE DEF s
  <2>3. Flow([s EXCEPT !.open = TRUE])
    BY <1>1, <2>2
  <2>4. Flow([r EXCEPT !.error = FALSE, !.open = TRUE])
    BY <2>3 DEF s
  <2> QED
    BY <2>4 DEF r
<1> QED
  BY <1>2, <1>3, <1>4

LEMMA UpdatesContents ==
  /\ Updating!Absent \in Updating!Content /\ Updating!Partial \in Updating!Content
  /\ \A b \in Updating!Builds : Updating!Whole(b) \in Updating!Content
  /\ \A f : x9 \in [Updating!File -> Updating!Content] => Updating!Dropped(f)
       \in [Updating!File -> Updating!Content]
  /\ x9 \in [Updating!File -> Updating!Content] => Updating!SweepStaged
       \in [Updating!File -> Updating!Content]
<1>1. /\ Updating!Absent \in Updating!Content /\ Updating!Partial \in Updating!Content
      /\ \A b \in Updating!Builds : Updating!Whole(b) \in Updating!Content
  BY UpdatesBuilds DEF Updating!Absent, Updating!Partial, Updating!Whole, Updating!Content
<1>2. \A f : x9 \in [Updating!File -> Updating!Content] => Updating!Dropped(f)
           \in [Updating!File -> Updating!Content]
  <2> HIDE DEF Updating!Content, Updating!Absent
  <2> QED
    BY <1>1 DEF Updating!Dropped
<1>3. x9 \in [Updating!File -> Updating!Content] => Updating!SweepStaged
           \in [Updating!File -> Updating!Content]
  <2> SUFFICES ASSUME x9 \in [Updating!File -> Updating!Content] PROVE Updating!SweepStaged \in [Updating!File -> Updating!Content]
    OBVIOUS
  <2>1. \A f \in Updating!File : (IF x9[f].is = "unused" THEN x9[f] ELSE Updating!Absent)
             \in Updating!Content
    BY <1>1
  <2> QED
    BY <2>1 DEF Updating!SweepStaged
<1> QED
  BY <1>1, <1>2, <1>3

LEMMA UpdatesAnswers ==
  ASSUME NEW p \in Friend
  PROVE  /\ \A b \in Updating!Builds : Updating!Answer("offer", p, b) \in Updating!Event
         /\ Updating!Answer("failed", p, 0) \in Updating!Event
         /\ Updating!Answer("progress", p, 0) \in Updating!Event
         /\ \A f \in Updating!File : [kind |-> "ready", peer |-> p, file |-> f] \in Updating!Event
<1>1. \A k \in {"offer", "progress", "failed"} : \A b
           \in Updating!Builds : Updating!Answer(k, p, b) \in Updating!Event
  BY DEF Updating!Answer, Updating!Event
<1>2. \A f \in Updating!File : [kind |-> "ready", peer |-> p, file |-> f] \in Updating!Event
  BY DEF Updating!Event
<1> QED
  BY <1>1, <1>2, UpdatesBuilds

LEMMA UpdatesEvents ==
  ASSUME NEW e \in Updating!Event
  PROVE  e.peer \in Friend /\ (e.kind = "ready" => e.file \in Updating!File)
BY DEF Updating!Event

LEMMA UpdatesNextFile ==
  Updating!Unused # {}
     => Updating!NextFile \in Updating!Unused /\ Updating!NextFile \in Updating!File
<1> SUFFICES ASSUME Updating!Unused # {}
             PROVE Updating!NextFile \in Updating!Unused /\ Updating!NextFile \in Updating!File
  OBVIOUS
<1>1. Updating!Unused \in SUBSET Nat /\ Updating!Unused \subseteq Updating!File
  BY UpdatesBuilds DEF Updating!Unused
<1>2. \E f \in Updating!Unused : \A g \in Updating!Unused : f <= g
  BY <1>1, Least
<1>3. Updating!NextFile \in Updating!Unused
  BY <1>2 DEF Updating!NextFile
<1> QED
  BY <1>1, <1>3

LEMMA UpdatesDownloads ==
  /\ Updating!NoDownload \in Updating!Download /\ Updating!NoDownload.stage = "none"
  /\ \A f \in Updating!File, b \in Updating!Builds :
       LET d == [Updating!NoDownload EXCEPT !.file = f, !.expects = b, !.stage = "connects"]
       IN  d \in Updating!Download /\ d.file = f
<1>1. Updating!NoDownload \in Updating!Download /\ Updating!NoDownload.stage = "none"
  BY UpdatesBuilds DEF Updating!NoDownload, Updating!Download
<1>2. ASSUME NEW f \in Updating!File, NEW b \in Updating!Builds
      PROVE  LET d == [Updating!NoDownload EXCEPT !.file = f, !.expects = b, !.stage = "connects"]
             IN  d \in Updating!Download /\ d.file = f
  <2> DEFINE d == [file |-> f, expects |-> b, sends |-> 0, stage |-> "connects"]
  <2>1. [Updating!NoDownload EXCEPT !.file = f, !.expects = b, !.stage = "connects"] = d
    <3> DEFINE d1 == [file |-> f, expects |-> 0, sends |-> 0, stage |-> "none"]
               d2 == [file |-> f, expects |-> b, sends |-> 0, stage |-> "none"]
    <3>1. [Updating!NoDownload EXCEPT !.file = f] = d1
      BY DEF Updating!NoDownload
    <3>2. [d1 EXCEPT !.expects = b] = d2
      OBVIOUS
    <3>3. [d2 EXCEPT !.stage = "connects"] = d
      OBVIOUS
    <3> HIDE DEF d1, d2, d
    <3> QED
      BY <3>1, <3>2, <3>3
  <2>2. d \in Updating!Download /\ d.file = f
    BY UpdatesBuilds DEF Updating!Download
  <2> HIDE DEF d
  <2> QED
    BY <2>1, <2>2
<1> QED
  BY <1>1, <1>2

LEMMA UpdatesInit == Updating!Init => UpdatesInv
<1> SUFFICES ASSUME Updating!Init PROVE UpdatesInv
  OBVIOUS
<1>1. x1 \in [Friend -> Updating!Builds] /\ x3 \in [Friend -> Updating!Builds]
  BY UpdatesBuilds DEF Updating!Init
<1>2. Flow(x2)
  BY UpdatesPrompts DEF Updating!Init
<1>3. x4 \in Seq(Updating!Command) /\ x5 \in Seq(Updating!Event)
  BY DEF Updating!Init
<1>4. x14 \in 0..MaxBegins
  BY UpdatesConstants DEF Updating!Init
<1>5. x6 \in [Friend -> Nat] /\ \A p \in Friend : x6[p] + Count(x4, Fetch(p)) <= x14
  BY CountEmpty DEF Updating!Init
<1>6. x8 \in [Friend -> Updating!Download] /\ \A p \in Friend : x8[p].stage # "none"
           => x8[p].file \in Updating!File
  BY UpdatesDownloads DEF Updating!Init
<1>7. x9 \in [Updating!File -> Updating!Content]
  BY UpdatesBuilds DEF Updating!Init, Updating!Content
<1>8. x10 \in Updating!Hosted
  BY UpdatesBuilds DEF Updating!Init, Updating!Hosted
<1>9. /\ x11 \in {"runs", "exits", "gone"} /\ x12 \subseteq Updating!File
      /\ x13 \in Updating!Builds
      /\ x7 \in Friend \cup {NoFriend}
  BY UpdatesBuilds DEF Updating!Init
<1> QED
  BY <1>1, <1>2, <1>3, <1>4, <1>5, <1>6, <1>7, <1>8, <1>9 DEF UpdatesInv

LEMMA UpdatesStep == UpdatesInv /\ [Updating!Next]_(Updating!updateVars) => UpdatesInv'
<1> SUFFICES ASSUME UpdatesInv, [Updating!Next]_(Updating!updateVars) PROVE UpdatesInv'
  OBVIOUS
<1> DEFINE Served == x6 \in [Friend -> Nat] /\ \A p \in Friend : x6[p] + Count(x4, Fetch(p)) <= x14
           Placed == \A p \in Friend : x8[p].stage # "none" => x8[p].file \in Updating!File
<1>0. /\ x1 \in [Friend -> Updating!Builds] /\ x3 \in [Friend -> Updating!Builds] /\ Flow(x2)
      /\ x4 \in Seq(Updating!Command) /\ x5 \in Seq(Updating!Event) /\ x14 \in 0..MaxBegins
      /\ Served /\ x7 \in Friend \cup {NoFriend} /\ x8 \in [Friend -> Updating!Download] /\ Placed
      /\ x9 \in [Updating!File -> Updating!Content] /\ x10 \in Updating!Hosted
      /\ x11 \in {"runs", "exits", "gone"}
      /\ x12 \subseteq Updating!File /\ x13 \in Updating!Builds
  BY DEF UpdatesInv
<1>k. /\ (UNCHANGED x2 => Flow(x2)')
      /\ (UNCHANGED <<x6, x4, x14>> => Served')
      /\ (UNCHANGED x8 => Placed')
  BY <1>0 DEF Flow, Count, Positions
<1> HIDE DEF Served, Placed
<1> DEFINE Kept == /\ x1' \in [Friend -> Updating!Builds] /\ x3' \in [Friend -> Updating!Builds] /\ Flow(x2)'
                   /\ x4' \in Seq(Updating!Command) /\ x5' \in Seq(Updating!Event)
                   /\ x14' \in 0..MaxBegins
                   /\ Served' /\ x7' \in Friend \cup {NoFriend}
                   /\ x8' \in [Friend -> Updating!Download] /\ Placed'
                   /\ x9' \in [Updating!File -> Updating!Content] /\ x10' \in Updating!Hosted
                   /\ x11' \in {"runs", "exits", "gone"}
                   /\ x12' \subseteq Updating!File /\ x13' \in Updating!Builds
<1> SUFFICES Kept
  BY DEF UpdatesInv, Served, Placed
<1>e. ASSUME NEW e \in Updating!Event, Updating!Emit(e) PROVE x5' \in Seq(Updating!Event)
  <2>1. x5' = Append(x5, e) /\ x5 \in Seq(Updating!Event)
    BY <1>0, <1>e DEF Updating!Emit
  <2> HIDE DEF Updating!Event
  <2> QED
    BY <2>1
<1>h. ASSUME NEW k, Updating!TakeEvent(k)
      PROVE  Head(x5) \in Updating!Event /\ Head(x5).kind = k /\ x5' \in Seq(Updating!Event)
  <2>1. x5 # <<>> /\ Head(x5).kind = k /\ x5' = Tail(x5) /\ x5 \in Seq(Updating!Event)
    BY <1>0, <1>h DEF Updating!TakeEvent
  <2> QED
    BY <2>1
<1>s. \A s \in {"idle", "checking", "uptodate", "available", "downloading", "error"} :
         Updating!Status(s) => x10' \in Updating!Hosted
  BY UpdatesBuilds DEF Updating!Status, Updating!Hosted
<1> USE DEF Updating!promptVars, Updating!workerVars, Updating!boundVars
<1>1. ASSUME NEW p \in Friend, Updating!FriendUpdates(p) PROVE Kept
  <2>1. x1' \in [Friend -> Updating!Builds]
    BY <1>0, <1>1, UpdatesBuilds DEF Updating!FriendUpdates
  <2> QED
    BY <1>0, <1>k, <1>1, <2>1 DEF Updating!FriendUpdates
<1>2. ASSUME NEW p \in Friend, Updating!Presence(p) PROVE Kept
  <2>1. x3' \in [Friend -> Updating!Builds]
    BY <1>0, <1>2, UpdatesBuilds DEF Updating!Presence
  <2> QED
    BY <1>0, <1>k, <1>2, <2>1 DEF Updating!Presence
<1>3. ASSUME NEW p \in Friend, Updating!BeginPeerUpdate(p) PROVE Kept
  <2>1. /\ x14 < MaxBegins /\ x14' = x14 + 1
        /\ UNCHANGED <<x1, x3, x5, Updating!workerVars, x9, x10, x11, x12,
                       x13, x15, x16>>
    BY <1>3 DEF Updating!BeginPeerUpdate
  <2>2. x14' \in 0..MaxBegins /\ x14 \in Nat
    BY <1>0, <2>1, UpdatesConstants
  <2>3. CASE Updating!InFlight
    <3>1. x2' = [x2 EXCEPT !.open = TRUE] /\ UNCHANGED x4
      BY <1>3, <2>3 DEF Updating!BeginPeerUpdate
    <3>2. Flow(x2)'
      BY <1>0, <3>1, UpdatesFlows DEF Flow
    <3>3. Served'
      <4>1. \A r \in Friend : x6[r] \in Nat /\ Count(x4, Fetch(r)) \in Nat
        BY <1>0, CountIs DEF Served
      <4>2. \A r \in Friend : Count(x4, Fetch(r))' = Count(x4, Fetch(r))
        BY <3>1 DEF Count, Positions, Fetch
      <4> QED
        BY <1>0, <2>1, <2>2, <4>1, <4>2 DEF Served
    <3> QED
      BY <1>0, <1>k, <2>1, <2>2, <3>1, <3>2, <3>3
  <2>4. CASE ~Updating!InFlight
    <3>1. x2' = [Updating!NoFlow EXCEPT !.active = p, !.open = TRUE] /\ x4' = Append(x4, Fetch(p))
      BY <1>3, <2>4 DEF Updating!BeginPeerUpdate, Fetch
    <3>2. Flow(x2)'
      BY <3>1, UpdatesPrompts DEF Flow
    <3>3. Fetch(p) \in Updating!Command /\ x4 \in Seq(Updating!Command)
      BY <1>0 DEF Fetch, Updating!Command
    <3>4. x4' \in Seq(Updating!Command)
      <4> HIDE DEF Updating!Command
      <4> QED
        BY <3>1, <3>3
    <3>5. Served'
      <4>1. ASSUME NEW r \in Friend PROVE x6'[r] + Count(x4', Fetch(r)) <= x14'
        <5>1. Count(x4', Fetch(r)) = Count(x4, Fetch(r)) + (IF Fetch(p) = Fetch(r) THEN 1 ELSE 0)
          BY <3>1, <3>3, CountAppend
        <5>2. /\ x6[r] \in Nat /\ Count(x4, Fetch(r)) \in Nat
              /\ x6[r] + Count(x4, Fetch(r)) <= x14 /\ x6' = x6
          BY <1>0, <2>1, <3>3, CountIs DEF Served
        <5> QED
          BY <2>1, <2>2, <5>1, <5>2
      <4>2. x6' \in [Friend -> Nat]
        BY <1>0, <2>1 DEF Served
      <4> QED
        BY <4>1, <4>2 DEF Served, Fetch
    <3> QED
      BY <1>0, <1>k, <2>1, <2>2, <3>2, <3>4, <3>5
  <2> QED
    BY <2>3, <2>4
<1>4. ASSUME NEW p \in Friend, Updating!FetchOffer(p) PROVE Kept
  <2>1. /\ x6[p] > 0 /\ x6' = [x6 EXCEPT ![p] = @ - 1]
        /\ UNCHANGED <<x1, Updating!promptVars, x4, x7, x8, x9, x10, x11,
                 x12, x13, x14, x15>>
    BY <1>4 DEF Updating!FetchOffer
  <2>2. x5' \in Seq(Updating!Event)
    <3>1. PICK e \in Updating!Event : Updating!Emit(e)
      <4>1. x1[p] \in Updating!Builds
        BY <1>0
      <4> QED
        BY <1>4, <4>1, UpdatesAnswers DEF Updating!FetchOffer
    <3> QED
      BY <1>e, <3>1
  <2>3. Served'
    <3>1. x6 \in [Friend -> Nat] /\ x6[p] - 1 \in Nat
      BY <1>0, <2>1 DEF Served
    <3>2. x6' \in [Friend -> Nat] /\ \A r \in Friend : x6'[r] <= x6[r]
      BY <2>1, <3>1
    <3>3. ASSUME NEW r \in Friend PROVE x6'[r] + Count(x4', Fetch(r)) <= x14'
      <4>1. /\ Count(x4, Fetch(r)) \in Nat /\ x6[r] + Count(x4, Fetch(r)) <= x14
            /\ x14 \in Nat /\ x4' = x4 /\ x14' = x14
        BY <1>0, <2>1, CountIs, UpdatesConstants DEF Served
      <4>2. x6[r] \in Nat /\ x6'[r] \in Nat /\ x6'[r] <= x6[r]
        BY <3>1, <3>2
      <4> QED
        BY <4>1, <4>2
    <3> QED
      BY <3>2, <3>3 DEF Served, Fetch
  <2> QED
    BY <1>0, <1>k, <2>1, <2>2, <2>3
<1>30. ASSUME NEW p \in Friend, Updating!Connected(p) PROVE Kept
  <2>1. /\ x8[p].stage = "connects" /\ x8' = [x8 EXCEPT ![p].stage = "asks"]
        /\ UNCHANGED <<x1, Updating!promptVars, x4, x5, x6, x7, x9, x10, x11, x12, x13,
                       Updating!boundVars>>
    BY <1>30 DEF Updating!Connected
  <2>2. /\ x8' \in [Friend -> Updating!Download] /\ \A r \in Friend : x8'[r].file = x8[r].file
        /\ \A r \in Friend : x8'[r].stage # "none" => x8[r].stage # "none"
    BY <1>0, <2>1 DEF Updating!Download
  <2>3. Placed'
    BY <1>0, <2>2 DEF Placed
  <2> QED
    BY <1>0, <1>k, <2>1, <2>2, <2>3
<1>5. ASSUME NEW p \in Friend, Updating!HeaderArrives(p) PROVE Kept
  <2> DEFINE d == [x8 EXCEPT ![p].stage = "receives"]
  <2>1. /\ x8[p].stage = "asks"
        /\ x8' = [x8 EXCEPT ![p].stage = "receives", ![p].sends = x1[p]]
        /\ x9' = [x9 EXCEPT ![x8[p].file] = Updating!Partial]
        /\ UNCHANGED <<x1, Updating!promptVars, x4, x5, x6, x7, x10, x11,
                 x12, x13, Updating!boundVars>>
    BY <1>5 DEF Updating!HeaderArrives
  <2>2. /\ d \in [Friend -> Updating!Download] /\ \A r \in Friend : d[r].file = x8[r].file
        /\ \A r \in Friend : d[r].stage # "none" => x8[r].stage # "none"
    BY <1>0, <2>1 DEF Updating!Download
  <2>3. x8' = [d EXCEPT ![p].sends = x1[p]]
    BY <2>1
  <2> HIDE DEF d
  <2>4. /\ x8' \in [Friend -> Updating!Download] /\ \A r \in Friend : x8'[r].file = d[r].file
        /\ \A r \in Friend : x8'[r].stage = d[r].stage
    <3> DEFINE b == x1[p]
    <3>1. b \in Updating!Builds /\ x8' = [d EXCEPT ![p] = [d[p] EXCEPT !.sends = b]]
      BY <1>0, <2>3
    <3> HIDE DEF b
    <3>2. d[p] \in Updating!Download
      BY <2>2
    <3>3. /\ [d[p] EXCEPT !.sends = b] \in Updating!Download
          /\ [d[p] EXCEPT !.sends = b].file = d[p].file
          /\ [d[p] EXCEPT !.sends = b].stage = d[p].stage
      BY <3>1, <3>2 DEF Updating!Download
    <3> DEFINE e == [d[p] EXCEPT !.sends = b]
    <3>4. x8' = [d EXCEPT ![p] = e] /\ e \in Updating!Download /\ e.file = d[p].file
                                    /\ e.stage = d[p].stage
      BY <3>1, <3>3
    <3> HIDE DEF e
    <3> QED
      BY <2>2, <3>4
  <2>5. Placed'
    BY <1>0, <2>2, <2>4 DEF Placed
  <2>6. x9' \in [Updating!File -> Updating!Content]
    BY <1>0, <2>1, UpdatesContents
  <2> QED
    BY <1>0, <1>k, <2>1, <2>4, <2>5, <2>6
<1>6. ASSUME NEW p \in Friend, Updating!Progress(p) PROVE Kept
  <2>1. x5' \in Seq(Updating!Event)
    BY <1>e, <1>6, UpdatesAnswers DEF Updating!Progress
  <2> QED
    BY <1>0, <1>k, <1>6, <2>1 DEF Updating!Progress
<1>7. ASSUME NEW p \in Friend, Updating!BodyArrives(p) PROVE Kept
  <2>1. /\ x8[p].stage = "receives" /\ x8' = [x8 EXCEPT ![p].stage = "received"]
        /\ UNCHANGED <<x1, Updating!promptVars, x4, x5, x6, x7, x10, x11,
                 x12, x13, Updating!boundVars>>
    BY <1>7 DEF Updating!BodyArrives
  <2>2. /\ x8' \in [Friend -> Updating!Download] /\ \A r \in Friend : x8'[r].file = x8[r].file
        /\ \A r \in Friend : x8'[r].stage # "none" => x8[r].stage # "none"
    BY <1>0, <2>1 DEF Updating!Download
  <2>3. Placed'
    BY <1>0, <2>2 DEF Placed
  <2>4. x9' \in [Updating!File -> Updating!Content]
    <3>1. Updating!Whole(x8[p].sends) \in Updating!Content
      BY <1>0, UpdatesContents DEF Updating!Download
    <3>2. x9' = x9 \/ x9' = [x9 EXCEPT ![x8[p].file] = Updating!Whole(x8[p].sends)]
      BY <1>7 DEF Updating!BodyArrives
    <3> QED
      BY <1>0, <3>1, <3>2
  <2> QED
    BY <1>0, <1>k, <2>1, <2>2, <2>3, <2>4
<1>d. ASSUME NEW p \in Friend, Updating!Ended(p)
      PROVE x8' \in [Friend -> Updating!Download] /\ Placed'
  BY <1>0, <1>d, UpdatesDownloads DEF Updating!Ended, Placed
<1>8. ASSUME NEW p \in Friend, Updating!TransferFails(p) PROVE Kept
  <2>1. /\ x9' = Updating!Dropped(x8[p].file) /\ Updating!Ended(p)
        /\ Updating!Emit(Updating!Answer("failed", p, 0))
        /\ UNCHANGED <<x1, Updating!promptVars, x4, x6, x7, x10, x11, x12,
                 x13, x14, x15>>
    BY <1>8 DEF Updating!TransferFails
  <2>2. x9' \in [Updating!File -> Updating!Content]
    BY <1>0, <2>1, UpdatesContents
  <2>3. x5' \in Seq(Updating!Event)
    BY <1>e, <2>1, UpdatesAnswers
  <2> QED
    BY <1>0, <1>k, <1>d, <2>1, <2>2, <2>3
<1>9. ASSUME NEW p \in Friend, Updating!OnPeerUpdateFinished(p) PROVE Kept
  <2> DEFINE f == x8[p].file
  <2>1. /\ x8[p].stage = "received" /\ Updating!Ended(p)
        /\ \/ Updating!Emit([kind |-> "ready", peer |-> p, file |-> f]) /\ UNCHANGED x9
           \/ Updating!Emit(Updating!Answer("failed", p, 0)) /\ x9' = Updating!Dropped(f)
        /\ UNCHANGED <<x1, Updating!promptVars, x4, x6, x7, x10, x11, x12,
                 x13, Updating!boundVars>>
    BY <1>9 DEF Updating!OnPeerUpdateFinished
  <2>2. f \in Updating!File
    BY <1>0, <2>1 DEF Placed
  <2> HIDE DEF f
  <2>3. x5' \in Seq(Updating!Event)
    BY <1>e, <2>1, <2>2, UpdatesAnswers
  <2>4. x9' \in [Updating!File -> Updating!Content]
    BY <1>0, <2>1, UpdatesContents
  <2> QED
    BY <1>0, <1>k, <1>d, <2>1, <2>3, <2>4
<1>10. CASE Updating!ResetPrompt
  <2>1. Flow(x2)'
    BY <1>10, UpdatesPrompts DEF Updating!ResetPrompt, Flow
  <2> QED
    BY <1>0, <1>k, <1>10, <2>1 DEF Updating!ResetPrompt
<1>11. CASE Updating!Accept
  <2> DEFINE c == [kind |-> "download", peer |-> x2.active]
  <2>1. /\ x2.offer \in Updating!Newer /\ x2' = [x2 EXCEPT !.transfer = TRUE, !.open = FALSE]
        /\ x4' = Append(x4, c)
        /\ UNCHANGED <<x1, x3, x5, Updating!workerVars, x9, x10, x11, x12,
                 x13, Updating!boundVars>>
    BY <1>11 DEF Updating!Accept
  <2>2. c \in Updating!Command /\ \A r \in Friend : c # Fetch(r)
    BY <1>0, <2>1 DEF Flow, Updating!Command, Fetch
  <2>3. Flow(x2)'
    BY <1>0, <2>1, UpdatesTwo DEF Flow
  <2> HIDE DEF c
  <2>4. x4' \in Seq(Updating!Command)
    <3> HIDE DEF Updating!Command
    <3> QED
      BY <1>0, <2>1, <2>2
  <2>5. Served'
    <3>1. ASSUME NEW r \in Friend PROVE Count(x4', Fetch(r)) = Count(x4, Fetch(r))
      <4>1. Count(Append(x4, c), Fetch(r)) = Count(x4, Fetch(r)) + (IF c = Fetch(r) THEN 1 ELSE 0)
        BY <1>0, <2>2, CountAppend
      <4>2. Count(x4, Fetch(r)) \in Nat
        BY <1>0, CountIs
      <4> QED
        BY <2>1, <2>2, <4>1, <4>2
    <3> QED
      BY <1>0, <2>1, <3>1 DEF Served, Fetch
  <2> QED
    BY <1>0, <1>k, <2>1, <2>3, <2>4, <2>5
<1>c. x4 # <<>> => /\ Head(x4) \in Updating!Command /\ Tail(x4) \in Seq(Updating!Command)
                   /\ Head(x4).peer \in Friend
                   /\ \A r \in Friend : Count(x4, Fetch(r))
                        = Count(Tail(x4), Fetch(r)) + (IF Head(x4) = Fetch(r) THEN 1 ELSE 0)
                   /\ \A r \in Friend : Count(Tail(x4), Fetch(r)) \in Nat
  <2> SUFFICES ASSUME x4 # <<>> PROVE
                         /\ Head(x4) \in Updating!Command /\ Tail(x4) \in Seq(Updating!Command)
                         /\ Head(x4).peer \in Friend
                         /\ \A r \in Friend : Count(x4, Fetch(r))
                              = Count(Tail(x4), Fetch(r)) + (IF Head(x4) = Fetch(r) THEN 1 ELSE 0)
                         /\ \A r \in Friend : Count(Tail(x4), Fetch(r)) \in Nat
    OBVIOUS
  <2>1. x4 \in Seq(Updating!Command)
    BY <1>0
  <2>2. Head(x4) \in Updating!Command /\ Tail(x4) \in Seq(Updating!Command)
    BY <2>1, CountTail
  <2>3. Head(x4).peer \in Friend
    BY <2>2 DEF Updating!Command
  <2> QED
    BY <2>1, <2>2, <2>3, CountTail, CountIs
<1>12. CASE Updating!FetchPeerUpdateOffer
  <2> DEFINE p == Head(x4).peer
  <2>1. /\ x4 # <<>> /\ Head(x4).kind = "fetch" /\ x6' = [x6 EXCEPT ![p] = @ + 1]
        /\ x4' = Tail(x4)
        /\ UNCHANGED <<x1, Updating!promptVars, x5, x7, x8, x9, x10, x11,
                 x12, x13, Updating!boundVars>>
    BY <1>12 DEF Updating!FetchPeerUpdateOffer
  <2>2. p \in Friend /\ Head(x4) = Fetch(p)
    BY <1>c, <2>1 DEF Updating!Command, Fetch
  <2> HIDE DEF p
  <2>3. Served'
    <3>1. x6 \in [Friend -> Nat]
      BY <1>0 DEF Served
    <3>2. x6' \in [Friend -> Nat] /\ \A r \in Friend : x6'[r] = x6[r] + (IF r = p THEN 1 ELSE 0)
      BY <2>1, <2>2, <3>1
    <3>3. ASSUME NEW r \in Friend PROVE x6'[r] + Count(x4', Fetch(r)) <= x14'
      <4>1. Count(x4, Fetch(r)) = Count(x4', Fetch(r)) + (IF Fetch(p) = Fetch(r) THEN 1 ELSE 0)
        BY <1>c, <2>1, <2>2
      <4>2. Fetch(p) = Fetch(r) <=> p = r
        BY DEF Fetch
      <4>3. /\ x6[r] \in Nat /\ x6[r] + Count(x4, Fetch(r)) <= x14 /\ x14' = x14
            /\ Count(x4', Fetch(r)) \in Nat /\ x14 \in Nat
        BY <1>0, <1>c, <2>1, UpdatesConstants DEF Served
      <4>4. x6'[r] = x6[r] + (IF r = p THEN 1 ELSE 0)
        BY <3>2
      <4>5. CASE r = p
        BY <4>1, <4>2, <4>3, <4>4, <4>5
      <4>6. CASE r # p
        BY <4>1, <4>2, <4>3, <4>4, <4>6
      <4> QED
        BY <4>5, <4>6
    <3> QED
      BY <3>2, <3>3 DEF Served, Fetch
  <2> QED
    BY <1>0, <1>c, <1>k, <2>1, <2>3
<1>13. CASE Updating!DownloadPeerUpdate
  <2>1. /\ x4 # <<>> /\ Head(x4).kind = "download"
        /\ x7' = IF Updating!Pending(Head(x4).peer) THEN NoFriend ELSE Head(x4).peer
        /\ x4' = Tail(x4)
        /\ UNCHANGED <<x1, Updating!promptVars, x5, x6, x8, x9, x10, x11,
                 x12, x13, Updating!boundVars>>
    BY <1>13 DEF Updating!DownloadPeerUpdate
  <2>2. x7' \in Friend \cup {NoFriend}
    BY <1>c, <2>1
  <2>3. Served'
    <3>1. ASSUME NEW r \in Friend PROVE Count(x4', Fetch(r)) = Count(x4, Fetch(r))
      <4>1. Head(x4) # Fetch(r)
        BY <2>1 DEF Fetch
      <4> QED
        BY <1>c, <2>1, <4>1
    <3> QED
      BY <1>0, <2>1, <3>1 DEF Served, Fetch
  <2> QED
    BY <1>0, <1>c, <1>k, <2>1, <2>2, <2>3
<1>14. CASE Updating!OfferAnswered
  <2>1. /\ x7 \in Friend /\ x7' = NoFriend
        /\ UNCHANGED <<x1, Updating!promptVars, x4, x6, x10, x11, x12, x13,
                 x14, x15>>
    BY <1>0, <1>14 DEF Updating!OfferAnswered
  <2>2. CASE /\ Updating!Unused # {}
             /\ x8' = [x8 EXCEPT ![x7] =
                  [Updating!NoDownload EXCEPT !.file = Updating!NextFile, !.expects = x1[x7],
                       !.stage = "connects"]]
             /\ x9' = [x9 EXCEPT ![Updating!NextFile] = Updating!Absent]
             /\ UNCHANGED <<x5, x16>>
    <3> DEFINE d == [Updating!NoDownload EXCEPT !.file = Updating!NextFile, !.expects = x1[x7],
         !.stage = "connects"]
    <3>1. Updating!NextFile \in Updating!File /\ x1[x7] \in Updating!Builds
      BY <1>0, <2>1, <2>2, UpdatesNextFile
    <3>2. d \in Updating!Download /\ d.file = Updating!NextFile
      BY <3>1, UpdatesDownloads
    <3>3. x8' = [x8 EXCEPT ![x7] = d]
      BY <2>2
    <3> HIDE DEF d
    <3>4. x8' \in [Friend -> Updating!Download] /\ Placed'
      BY <1>0, <2>1, <3>1, <3>2, <3>3 DEF Placed
    <3>5. x9' \in [Updating!File -> Updating!Content]
      BY <1>0, <2>2, UpdatesContents
    <3> QED
      BY <1>0, <1>k, <2>1, <2>2, <3>4, <3>5
  <2>3. CASE Updating!Emit(Updating!Answer("failed", x7, 0)) /\ UNCHANGED <<x8, x9>>
    <3>1. x5' \in Seq(Updating!Event)
      BY <1>e, <2>1, <2>3, UpdatesAnswers
    <3> QED
      BY <1>0, <1>k, <2>1, <2>3, <3>1
  <2> QED
    BY <1>14, <2>2, <2>3 DEF Updating!OfferAnswered
<1>15. CASE Updating!OnPeerUpdateOffer
  <2> DEFINE e == Head(x5)
  <2>1. /\ Updating!TakeEvent("offer")
        /\ x2' = IF ~Updating!IsActive(e) THEN x2
               ELSE IF e.build \notin Updating!Newer THEN [x2 EXCEPT !.error = TRUE, !.open = TRUE]
               ELSE [x2 EXCEPT !.offer = e.build, !.error = FALSE, !.open = TRUE]
        /\ UNCHANGED <<x1, x3, x4, Updating!workerVars, x9, x10, x11, x12,
                 x13, Updating!boundVars>>
    BY <1>15 DEF Updating!OnPeerUpdateOffer
  <2>2. x5' \in Seq(Updating!Event) /\ e \in Updating!Event
    BY <1>h, <2>1
  <2>3. Updating!IsActive(e) => x2.active \in Friend
    BY <2>2, UpdatesEvents DEF Updating!IsActive
  <2> HIDE DEF e
  <2>4. Flow(x2')
    <3>1. CASE ~Updating!IsActive(e)
      BY <1>0, <2>1, <3>1
    <3>2. CASE Updating!IsActive(e) /\ e.build \notin Updating!Newer
      BY <1>0, <2>1, <3>2, UpdatesTwo
    <3>3. CASE Updating!IsActive(e) /\ e.build \in Updating!Newer
      BY <1>0, <2>1, <2>3, <3>3, UpdatesTwo, UpdatesBuilds
    <3> QED
      BY <3>1, <3>2, <3>3
  <2>5. Flow(x2)'
    BY <2>4 DEF Flow
  <2> QED
    BY <1>0, <1>k, <2>1, <2>2, <2>5
<1>16. CASE Updating!OnPeerUpdateProgress
  <2>1. x5' \in Seq(Updating!Event)
    BY <1>h, <1>16 DEF Updating!OnPeerUpdateProgress
  <2>2. Flow(x2')
    BY <1>0, <1>16, UpdatesTwo DEF Updating!OnPeerUpdateProgress
  <2>3. Flow(x2)'
    BY <2>2 DEF Flow
  <2> QED
    BY <1>0, <1>k, <1>16, <2>1, <2>3 DEF Updating!OnPeerUpdateProgress
<1>17. CASE Updating!OnPeerUpdateFailed
  <2>1. x5' \in Seq(Updating!Event)
    BY <1>h, <1>17 DEF Updating!OnPeerUpdateFailed
  <2>2. Flow(x2')
    BY <1>0, <1>17, UpdatesTwo DEF Updating!OnPeerUpdateFailed
  <2>3. Flow(x2)'
    BY <2>2 DEF Flow
  <2> QED
    BY <1>0, <1>k, <1>17, <2>1, <2>3 DEF Updating!OnPeerUpdateFailed
<1>i. ASSUME NEW f \in Updating!File, Updating!InstallAndRelaunch(f) \/ Updating!CannotInstall(f)
      PROVE  /\ x9' \in [Updating!File -> Updating!Content] /\ x11' \in {"runs", "exits", "gone"}
             /\ x12' \subseteq Updating!File
  BY <1>0, <1>i, UpdatesContents DEF Updating!InstallAndRelaunch, Updating!CannotInstall
<1>18. CASE Updating!OnPeerUpdateReady
  <2> DEFINE e == Head(x5)
  <2>1. /\ Updating!TakeEvent("ready")
        /\ \/ /\ x9' = Updating!Dropped(e.file)
              /\ UNCHANGED <<x2, x12, x11, x16>>
           \/ Updating!InstallAndRelaunch(e.file) /\ x2' = Updating!NoFlow
           \/ Updating!CannotInstall(e.file) /\ x2' = [Updating!NoFlow EXCEPT !.open = TRUE]
        /\ UNCHANGED <<x1, x3, x4, Updating!workerVars, x10, x13, x14, x15>>
    BY <1>18 DEF Updating!OnPeerUpdateReady
  <2>2. x5' \in Seq(Updating!Event) /\ e \in Updating!Event /\ e.file \in Updating!File
    BY <1>h, <2>1, UpdatesEvents
  <2> HIDE DEF e
  <2>3. Flow(x2')
    BY <1>0, <2>1, UpdatesPrompts
  <2>4. Flow(x2)'
    BY <2>3 DEF Flow
  <2>5. /\ x9' \in [Updating!File -> Updating!Content] /\ x11' \in {"runs", "exits", "gone"}
        /\ x12' \subseteq Updating!File
    BY <1>0, <1>i, <2>1, <2>2, UpdatesContents
  <2> QED
    BY <1>0, <1>k, <2>1, <2>2, <2>4, <2>5
<1>19. CASE Updating!CheckFinished
  <2>1. x10' \in Updating!Hosted
    BY <1>s, <1>19 DEF Updating!CheckFinished
  <2> QED
    BY <1>0, <1>k, <1>19, <2>1 DEF Updating!CheckFinished
<1>20. CASE Updating!DownloadFinished
  <2>1. /\ x10.file # 0
        /\ \/ Updating!InstallAndRelaunch(x10.file) /\ x10' = [x10 EXCEPT !.file = 0]
           \/ Updating!CannotInstall(x10.file) /\ Updating!Status("error")
        /\ UNCHANGED <<x1, Updating!promptVars, x4, x5, Updating!workerVars, x13, x14, x15>>
    BY <1>20 DEF Updating!DownloadFinished
  <2>2. x10.file \in Updating!File
    BY <1>0, <2>1, UpdatesBuilds DEF Updating!Hosted
  <2>3. x10' \in Updating!Hosted
    <3>1. [x10 EXCEPT !.file = 0] \in Updating!Hosted
      BY <1>0, UpdatesBuilds DEF Updating!Hosted
    <3> QED
      BY <1>s, <2>1, <3>1
  <2>4. /\ x9' \in [Updating!File -> Updating!Content] /\ x11' \in {"runs", "exits", "gone"}
        /\ x12' \subseteq Updating!File
    BY <1>i, <2>1, <2>2
  <2> QED
    BY <1>0, <1>k, <2>1, <2>3, <2>4
<1>21. CASE Updating!StartUpdateCheck
  <2>1. /\ x14 < MaxBegins /\ x14' = x14 + 1 /\ Updating!Status("checking")
        /\ UNCHANGED <<x1, Updating!promptVars, x4, x5, Updating!workerVars, x9, x11, x12,
                 x13, x15, x16>>
    BY <1>21 DEF Updating!StartUpdateCheck
  <2>2. x14' \in 0..MaxBegins /\ x14 \in Nat
    BY <1>0, <2>1, UpdatesConstants
  <2>3. Served'
    <3>1. \A r \in Friend : x6[r] \in Nat /\ Count(x4, Fetch(r)) \in Nat
      BY <1>0, CountIs DEF Served
    <3>2. \A r \in Friend : Count(x4, Fetch(r))' = Count(x4, Fetch(r))
      BY <2>1 DEF Count, Positions, Fetch
    <3> QED
      BY <1>0, <2>1, <2>2, <3>1, <3>2 DEF Served
  <2>4. x10' \in Updating!Hosted
    BY <1>s, <2>1
  <2> QED
    BY <1>0, <1>k, <2>1, <2>2, <2>3, <2>4
<1>22. CASE Updating!StartUpdateDownload
  <2>1. x10' \in Updating!Hosted
    BY <1>s, <1>22 DEF Updating!StartUpdateDownload
  <2> QED
    BY <1>0, <1>k, <1>22, <2>1 DEF Updating!StartUpdateDownload
<1>23. CASE Updating!DownloadUpdate
  <2>1. UNCHANGED <<x1, Updating!promptVars, x4, x5, Updating!workerVars, x11, x12,
                 x13, x14, x15>>
    BY <1>23 DEF Updating!DownloadUpdate
  <2>2. x9' \in [Updating!File -> Updating!Content] /\ x10' \in Updating!Hosted
    <3>1. CASE /\ Updating!Unused # {}
               /\ x9' = [x9 EXCEPT ![Updating!NextFile] = Updating!Whole(MaxBuild)]
               /\ x10' = [x10 EXCEPT !.file = Updating!NextFile]
      <4>1. Updating!NextFile \in 0..MaxFiles /\ Updating!Whole(MaxBuild) \in Updating!Content
        BY <3>1, UpdatesNextFile, UpdatesBuilds, UpdatesContents
      <4>2. x10' \in Updating!Hosted
        BY <1>0, <3>1, <4>1 DEF Updating!Hosted
      <4>3. x9' \in [Updating!File -> Updating!Content]
        BY <1>0, <3>1, <4>1
      <4> QED
        BY <4>2, <4>3
    <3>2. CASE Updating!Status("error") /\ UNCHANGED x9
      BY <1>0, <1>s, <3>2
    <3> QED
      BY <1>23, <3>1, <3>2 DEF Updating!DownloadUpdate
  <2> QED
    BY <1>0, <1>k, <2>1, <2>2
<1>24. CASE Updating!SecondLaunch
  <2>1. x9' \in [Updating!File -> Updating!Content]
    BY <1>0, <1>24, UpdatesContents DEF Updating!SecondLaunch
  <2> QED
    BY <1>0, <1>k, <1>24, <2>1 DEF Updating!SecondLaunch
<1>25. CASE Updating!Exit
  <2>1. /\ x11' = "gone" /\ x2' = Updating!NoFlow /\ x3' = [p \in Friend |-> 0]
        /\ x4' = <<>> /\ x5' = <<>> /\ x6' = [p \in Friend |-> 0] /\ x7' = NoFriend
        /\ x8' = [p \in Friend |-> Updating!NoDownload] /\ Updating!Status("checking")
        /\ UNCHANGED <<x1, x9, x12, x13, Updating!boundVars>>
    BY <1>25 DEF Updating!Exit
  <2>2. Flow(x2)'
    BY <2>1, UpdatesPrompts DEF Flow
  <2>3. Served'
    <3>1. \A r \in Friend : x6'[r] = 0 /\ Count(x4', Fetch(r)) = 0
      BY <2>1, CountEmpty
    <3>2. x14' = x14 /\ x14 \in Nat /\ 0 + 0 <= x14
      BY <1>0, <2>1, UpdatesConstants
    <3>3. x6' \in [Friend -> Nat]
      BY <2>1
    <3> QED
      BY <3>1, <3>2, <3>3 DEF Served, Fetch
  <2>4. x8' \in [Friend -> Updating!Download] /\ Placed'
    BY <2>1, UpdatesDownloads DEF Placed
  <2>5. x10' \in Updating!Hosted
    BY <1>s, <2>1
  <2>6. /\ x3' \in [Friend -> Updating!Builds] /\ x4' \in Seq(Updating!Command)
        /\ x5' \in Seq(Updating!Event)
        /\ x7' \in Friend \cup {NoFriend}
    BY <2>1, UpdatesBuilds
  <2> QED
    BY <1>0, <2>1, <2>2, <2>3, <2>4, <2>5, <2>6
<1>26. CASE Updating!Launch
  <2>1. x9' \in [Updating!File -> Updating!Content]
    BY <1>0, <1>26, UpdatesContents DEF Updating!Launch
  <2> QED
    BY <1>0, <1>k, <1>26, <2>1 DEF Updating!Launch
<1>27. ASSUME NEW f \in Updating!File, Updating!HelperMoves(f) PROVE Kept
  <2>1. /\ x13' = x9[f].build /\ x9' = Updating!Dropped(f) /\ x12' = x12 \ {f}
        /\ UNCHANGED <<x1, Updating!promptVars, x4, x5, Updating!workerVars, x10, x11, Updating!boundVars>>
    BY <1>27 DEF Updating!HelperMoves
  <2>2. x9' \in [Updating!File -> Updating!Content]
    BY <1>0, <2>1, UpdatesContents
  <2>3. x13' \in Updating!Builds
    BY <1>0, <2>1 DEF Updating!Content
  <2> QED
    BY <1>0, <1>k, <2>1, <2>2, <2>3
<1>28. ASSUME NEW f \in Updating!File, Updating!HelperGivesUp(f) PROVE Kept
  BY <1>0, <1>k, <1>28 DEF Updating!HelperGivesUp
<1>29. CASE UNCHANGED Updating!updateVars
  BY <1>0, <1>k, <1>29 DEF Updating!updateVars
<1> HIDE DEF Kept
<1> QED
  BY <1>1, <1>2, <1>3, <1>4, <1>5, <1>6, <1>7, <1>8, <1>9, <1>10, <1>11, <1>12, <1>13, <1>14,
     <1>15,
     <1>16, <1>17, <1>18, <1>19, <1>20, <1>21, <1>22, <1>23, <1>24, <1>25, <1>26, <1>27, <1>28,
     <1>29, <1>30
     DEF Updating!Next, Updating!Screen

-----------------------------------------------------------------------------
(*************************************************************************)
(* VoicePath, for whose variables the following stand: x1 captured, x2   *)
(* sink, x3 out, x4 sender, x5 wire, x6 gap, x7 receiver, x8 held, x9    *)
(* track, x10 source, x11 buffered, x12 underflows, x13 pause, x14       *)
(* playing, x15 phase, x16 open, x17 losses, x18 errors.  TypeOK is      *)
(* inductive.                                                            *)
(*************************************************************************)

LEMMA VoiceConstants ==
  /\ RingTicks \in Nat \ {0} /\ TrackCapacity \in Nat \ {0} /\ FramesPerTick \in Nat \ {0}
  /\ PauseTicks \in Nat \ {0} /\ SkipTicks \in Nat \ {0} /\ MaxWire \in Nat \ {0}
  /\ MaxDrift \in Nat \ {0} /\ MaxUnderflows \in Nat /\ MaxLate \in Nat /\ MaxLag \in Nat
  /\ MaxLosses \in Nat /\ MaxErrors \in Nat /\ Limit \in Nat /\ SkipTicks <= Limit
  /\ Limit < MaxBuffered /\ MaxBuffered \in Nat
BY ProgressAssumptions DEF Voice!VoicePathAssumption

LEMMA VoiceSmallest ==
  ASSUME NEW a \in Nat, NEW b \in Nat
  PROVE  Voice!Smaller(a, b) \in Nat /\ Voice!Smaller(a, b) <= a /\ Voice!Smaller(a, b) <= b
BY DEF Voice!Smaller

\* What a broadcast channel keeps.
LEMMA VoiceBroadcast ==
  ASSUME NEW channel \in Voice!MediaTrack, NEW frames \in Seq(Nat)
  PROVE  /\ Voice!Broadcast(channel, frames) \in Voice!MediaTrack
         /\ Len(Voice!Broadcast(channel, frames).frames) <= TrackCapacity
<1> DEFINE all == channel.frames \o frames
           over == IF Len(all) > TrackCapacity THEN Len(all) - TrackCapacity ELSE 0
           rest == SubSeq(all, over + 1, Len(all))
           lag == Voice!Smaller(channel.lag + over, MaxLag)
<1>1. channel.frames \in Seq(Nat) /\ channel.lag \in 0..MaxLag /\ channel.lag \in Nat
  BY VoiceConstants DEF Voice!MediaTrack
<1>2. all \in Seq(Nat) /\ Len(all) \in Nat
  BY <1>1
<1> HIDE DEF all
<1>3. over \in Nat /\ Len(all) - over <= TrackCapacity /\ over <= Len(all)
  BY <1>2, VoiceConstants
<1> HIDE DEF over
<1>4. rest \in Seq(Nat) /\ Len(rest) <= TrackCapacity
  <2>1. \A i \in 1..Len(all) : all[i] \in Nat
    BY <1>2
  <2>2. rest \in Seq(Nat) /\ Len(rest) = IF over + 1 <= Len(all) THEN Len(all) - over ELSE 0
    BY <1>2, <1>3, <2>1
  <2> QED
    BY <1>2, <1>3, <2>2, VoiceConstants
<1>5. lag \in 0..MaxLag
  <2>1. channel.lag + over \in Nat /\ MaxLag \in Nat
    BY <1>1, <1>3, VoiceConstants
  <2>2. lag \in Nat /\ lag <= MaxLag
    BY <2>1, VoiceSmallest
  <2> HIDE DEF lag
  <2> QED
    BY <2>1, <2>2
<1>6. Voice!Broadcast(channel, frames) = [frames |-> rest, lag |-> lag]
  BY DEF Voice!Broadcast, all, over
<1> HIDE DEF rest, lag
<1> QED
  BY <1>4, <1>5, <1>6 DEF Voice!MediaTrack

LEMMA VoiceFrames ==
  ASSUME NEW q \in Seq(Nat)
  PROVE  Cardinality(Voice!Frames(q)) \in Nat
<1> DEFINE S == {{i} \X (0..q[i]) : i \in DOMAIN q}
           f == [i \in 1..Len(q) |-> {i} \X (0..q[i])]
<1>1. IsFiniteSet(S)
  <2>1. DOMAIN q = 1..Len(q) /\ Len(q) \in Nat
    OBVIOUS
  <2>2. IsFiniteSet(1..Len(q))
    BY <2>1, FS_Interval
  <2>3. f \in Surjection(1..Len(q), S)
    BY <2>1 DEF Surjection
  <2> QED
    BY <2>2, <2>3, FS_Surjection
<1>2. \A T \in S : IsFiniteSet(T)
  <2> TAKE T \in S
  <2>1. PICK i \in DOMAIN q : T = {i} \X (0..q[i])
    OBVIOUS
  <2>2. q[i] \in Nat
    OBVIOUS
  <2>3. IsFiniteSet({i})
    BY FS_Singleton
  <2>4. IsFiniteSet(0..q[i])
    <3>1. 0 \in Int /\ q[i] \in Int
      BY <2>2
    <3> QED
      BY <3>1, FS_Interval
  <2> QED
    BY <2>1, <2>3, <2>4, FS_Product
<1> HIDE DEF S
<1>3. IsFiniteSet(UNION S)
  BY <1>1, <1>2, FS_UNION
<1> QED
  BY <1>3, FS_CardinalityType DEF Voice!Frames, S

LEMMA VoiceInit == Voice!Init => Voice!TypeOK
<1> SUFFICES ASSUME Voice!Init PROVE Voice!TypeOK
  OBVIOUS
<1>1. /\ x3 = Voice!Empty /\ x9 = Voice!Empty /\ Voice!Empty \in Voice!MediaTrack
      /\ Len(Voice!Empty.frames) <= TrackCapacity
      /\ x5 = <<>> /\ x8 = <<>>
  BY VoiceConstants DEF Voice!Init, Voice!Empty, Voice!MediaTrack
<1>2. /\ x5 \in Seq(Nat) /\ Len(x5) <= MaxWire /\ x8 \in Seq(Nat) /\ Len(x8) <= MaxLate + 1
  BY <1>1, VoiceConstants
<1>3. /\ x1 \in 0..RingTicks /\ x6 \in Nat /\ x11 \in 0..MaxBuffered
      /\ x12 \in 0..MaxUnderflows /\ x13 \in 0..PauseTicks
      /\ x17 \in 0..MaxLosses /\ x18 \in 0..MaxErrors
  BY VoiceConstants DEF Voice!Init
<1>4. x15 \in -MaxDrift..MaxDrift
  BY VoiceConstants DEF Voice!Init
<1> QED
  BY <1>1, <1>2, <1>3, <1>4 DEF Voice!Init, Voice!TypeOK

\* What PlayFrom leaves of the ticks it was given.
LEMMA VoicePlays ==
  ASSUME Voice!TypeOK, NEW ticks \in 0..MaxBuffered, Voice!PlayFrom(ticks)
  PROVE  /\ x11' \in 0..MaxBuffered /\ x12' \in 0..MaxUnderflows
         /\ x13' \in 0..PauseTicks /\ x14' \in BOOLEAN
<1>1. /\ x12 \in Nat /\ x12 \in 0..MaxUnderflows /\ x13 \in Nat
      /\ x13 \in 0..PauseTicks /\ ticks \in Nat /\ ticks <= MaxBuffered /\ MaxBuffered \in Nat
  BY VoiceConstants DEF Voice!TypeOK
<1>2. CASE x13 > 0
  <2>1. x13' = x13 - 1 /\ x11' = ticks /\ x14' = FALSE /\ x12' = x12
    BY <1>2 DEF Voice!PlayFrom
  <2>2. x11' \in 0..MaxBuffered /\ x12' \in 0..MaxUnderflows
    BY <1>1, <2>1
  <2>3. x13' \in 0..PauseTicks
    BY <1>1, <1>2, <2>1, VoiceConstants
  <2> QED
    BY <2>1, <2>2, <2>3
<1>3. CASE ~(x13 > 0) /\ ticks = 0
  <2>1. /\ x12' = IF x12 + 1 > MaxUnderflows THEN 0 ELSE x12 + 1
        /\ x13' = IF x12 + 1 > MaxUnderflows THEN PauseTicks ELSE 0
        /\ x11' = ticks /\ x14' = FALSE
    BY <1>3 DEF Voice!PlayFrom
  <2>2. x11' \in 0..MaxBuffered
    BY <1>1, <2>1
  <2>3. x13' \in 0..PauseTicks
    BY <2>1, VoiceConstants
  <2>4. x12' \in 0..MaxUnderflows
    BY <1>1, <2>1, VoiceConstants
  <2> QED
    BY <2>1, <2>2, <2>3, <2>4
<1>4. CASE ~(x13 > 0) /\ ticks # 0
  <2>1. Voice!Shorten(ticks) \in Nat /\ Voice!Shorten(ticks) >= 1
                                     /\ Voice!Shorten(ticks) <= MaxBuffered
    BY <1>1, <1>4, VoiceConstants DEF Voice!Shorten
  <2> QED
    BY <1>1, <1>4, <2>1 DEF Voice!PlayFrom
<1> QED
  BY <1>2, <1>3, <1>4

LEMMA VoiceStep == Voice!TypeOK /\ [Voice!Next]_(Voice!voiceVars) => Voice!TypeOK'
<1> SUFFICES ASSUME Voice!TypeOK, [Voice!Next]_(Voice!voiceVars) PROVE Voice!TypeOK'
  OBVIOUS
<1>0. /\ x1 \in 0..RingTicks /\ x1 \in Nat /\ x3 \in Voice!MediaTrack /\ x9 \in Voice!MediaTrack
      /\ x3.frames \in Seq(Nat) /\ x3.lag \in Nat /\ x9.frames \in Seq(Nat) /\ x9.lag \in Nat
      /\ Len(x3.frames) <= TrackCapacity /\ Len(x9.frames) <= TrackCapacity
      /\ x5 \in Seq(Nat) /\ Len(x5) <= MaxWire /\ x6 \in Nat
      /\ x8 \in Seq(Nat) /\ Len(x8) <= MaxLate + 1
      /\ x11 \in Nat /\ x15 \in Int /\ x15 \in -MaxDrift..MaxDrift
      /\ x17 \in Nat /\ x18 \in Nat /\ x17 \in 0..MaxLosses /\ x18 \in 0..MaxErrors
      /\ x2 \in BOOLEAN
  BY VoiceConstants DEF Voice!TypeOK, Voice!MediaTrack
<1>1. CASE Voice!CaptureCallback
  <2>1. x1' \in 0..RingTicks
    <3>1. x1 + 1 \in Nat /\ RingTicks \in Nat
      BY <1>0, VoiceConstants
    <3>2. x1' = Voice!Smaller(x1 + 1, RingTicks)
      BY <1>1 DEF Voice!CaptureCallback
    <3> QED
      BY <3>1, <3>2, VoiceSmallest
  <2> QED
    BY <1>1, <2>1 DEF Voice!CaptureCallback, Voice!network, Voice!arriving, Voice!decoder,
       Voice!TypeOK
<1>2. CASE Voice!CaptureTick
  <2> DEFINE ticks == Voice!Smaller(x1, 1)
  <2>1. ticks \in 0..1 /\ x1 - ticks \in 0..RingTicks
    <3>1. x1 \in Nat /\ x1 <= RingTicks /\ RingTicks \in Nat /\ 1 \in Nat
      BY <1>0, VoiceConstants
    <3>2. ticks \in Nat /\ ticks <= x1 /\ ticks <= 1
      BY <3>1, VoiceSmallest
    <3> HIDE DEF ticks
    <3> QED
      BY <3>1, <3>2
  <2>2. /\ x15 < MaxDrift /\ x15' = x15 + 1 /\ x1' = x1 - ticks /\ Voice!EncoderTicks(ticks)
        /\ UNCHANGED <<x4, Voice!network, Voice!arriving, x9, Voice!decoder, x14, x16, x18>>
    BY <1>2 DEF Voice!CaptureTick
  <2> HIDE DEF ticks
  <2>3. Voice!Encoded(ticks) \in Seq(Nat)
    <3>1. ticks * FramesPerTick \in Nat
      BY <2>1, VoiceConstants
    <3> QED
      BY <3>1 DEF Voice!Encoded
  <2>4. x3' \in Voice!MediaTrack /\ Len(x3'.frames) <= TrackCapacity /\ x2' \in BOOLEAN
    <3>1. CASE x2 /\ x4
      BY <1>0, <2>2, <2>3, <3>1, VoiceBroadcast DEF Voice!EncoderTicks
    <3>2. CASE ~(x2 /\ x4)
      <4>1. UNCHANGED x3 /\ x2' = (x2 /\ ticks = 0)
        BY <2>2, <3>2 DEF Voice!EncoderTicks
      <4> QED
        BY <1>0, <4>1
    <3> QED
      BY <3>1, <3>2
  <2>5. x15' \in -MaxDrift..MaxDrift
    BY <1>0, <2>2, VoiceConstants
  <2> QED
    BY <2>1, <2>2, <2>4, <2>5 DEF Voice!network, Voice!arriving, Voice!decoder, Voice!TypeOK
<1>3. CASE Voice!Transmit
  <2>1. /\ x5' \in Seq(Nat) /\ Len(x5') <= MaxWire /\ x4' \in BOOLEAN
        /\ x3' \in Voice!MediaTrack /\ Len(x3'.frames) <= TrackCapacity
    <3>1. CASE ~x16
      BY <1>0, <1>3, <3>1 DEF Voice!Transmit, Voice!TypeOK
    <3>2. CASE x16
      <4>1. /\ x3.frames # <<>> /\ Len(x5) < MaxWire /\ x5' = Append(x5, x3.lag)
            /\ x3' = [frames |-> Tail(x3.frames), lag |-> 0] /\ UNCHANGED x4
        BY <1>3, <3>2 DEF Voice!Transmit
      <4>2. x5' \in Seq(Nat) /\ Len(x5') <= MaxWire
        <5>1. x5 \in Seq(Nat) /\ Len(x5) < MaxWire /\ MaxWire \in Nat /\ x3.lag \in Nat
          BY <1>0, <4>1, VoiceConstants
        <5>2. x5' = Append(x5, x3.lag)
          BY <4>1
        <5> QED
          BY <5>1, <5>2
      <4>3. Tail(x3.frames) \in Seq(Nat) /\ Len(Tail(x3.frames)) <= TrackCapacity
        <5>1. /\ x3.frames \in Seq(Nat) /\ Len(x3.frames) <= TrackCapacity
              /\ TrackCapacity \in Nat /\ x3.frames # <<>>
          BY <1>0, <4>1, VoiceConstants
        <5> QED
          BY <5>1
      <4>4. x3' \in Voice!MediaTrack /\ Len(x3'.frames) <= TrackCapacity
        BY <4>1, <4>3, VoiceConstants DEF Voice!MediaTrack
      <4> QED
        BY <4>1, <4>2, <4>4 DEF Voice!TypeOK
    <3> QED
      BY <3>1, <3>2
  <2> QED
    BY <1>3, <2>1 DEF Voice!Transmit, Voice!capturing, Voice!arriving, Voice!decoder,
       Voice!TypeOK
<1>4. CASE Voice!Lose
  <2>1. /\ x5 # <<>> /\ x5' = Tail(x5) /\ x6' = x6 + 1 + Head(x5)
        /\ x17 < MaxLosses /\ x17' = x17 + 1
    BY <1>4 DEF Voice!Lose
  <2>2. x5' \in Seq(Nat) /\ Len(x5') <= MaxWire /\ Head(x5) \in Nat
    <3>1. x5 \in Seq(Nat) /\ Len(x5) <= MaxWire /\ MaxWire \in Nat
      BY <1>0, VoiceConstants
    <3>2. x5 # <<>> /\ x5' = Tail(x5)
      BY <2>1
    <3> QED
      BY <3>1, <3>2
  <2>3. x6' \in Nat /\ x17' \in 0..MaxLosses
    <3>1. x17 \in 0..MaxLosses /\ MaxLosses \in Nat /\ x6 \in Nat
      BY <1>0, VoiceConstants
    <3> DEFINE h == Head(x5)
    <3>2. h \in Nat /\ x6' = x6 + 1 + h
      BY <2>1, <2>2
    <3> HIDE DEF h
    <3> QED
      BY <2>1, <3>1, <3>2
  <2> QED
    BY <1>4, <2>2, <2>3 DEF Voice!Lose, Voice!capturing, Voice!arriving, Voice!decoder,
       Voice!TypeOK
<1>5. CASE Voice!Receive
  <2> DEFINE packets == Append(x8, Voice!Smaller(x6 + Head(x5), MaxLag))
  <2>1. /\ x5 # <<>> /\ x5' = Tail(x5) /\ x6' = 0 /\ Voice!AddTrack
        /\ UNCHANGED <<Voice!capturing, x3, x4, x17, x11, x12, x13,
                   x14, x15, x16, x18>>
    BY <1>5 DEF Voice!Receive
  <2>2. x5' \in Seq(Nat) /\ Len(x5') <= MaxWire /\ Head(x5) \in Nat
    <3>1. x5 \in Seq(Nat) /\ Len(x5) <= MaxWire /\ MaxWire \in Nat
      BY <1>0, VoiceConstants
    <3>2. x5 # <<>> /\ x5' = Tail(x5)
      BY <2>1
    <3> QED
      BY <3>1, <3>2
  <2>3. /\ packets \in Seq(Nat) /\ Len(packets) = Len(x8) + 1 /\ packets # <<>>
        /\ Head(packets) \in Nat /\ Tail(packets) \in Seq(Nat)
        /\ Len(Tail(packets)) <= MaxLate + 1
    <3> DEFINE h == Head(x5)
               s == Voice!Smaller(x6 + h, MaxLag)
    <3>0. h \in Nat
      BY <2>2
    <3> HIDE DEF h
    <3>1. s \in Nat
      <4>1. x6 + h \in Nat /\ MaxLag \in Nat
        BY <1>0, <3>0, VoiceConstants
      <4> QED
        BY <4>1, VoiceSmallest
    <3>2. packets = Append(x8, s)
      BY DEF h
    <3>3. x8 \in Seq(Nat) /\ Len(x8) <= MaxLate + 1 /\ MaxLate \in Nat
      BY <1>0, VoiceConstants
    <3> HIDE DEF packets, s
    <3>4. packets \in Seq(Nat) /\ Len(packets) = Len(x8) + 1 /\ packets # <<>>
      BY <3>1, <3>2, <3>3
    <3> QED
      BY <3>3, <3>4
  <2>4. /\ x8' \in Seq(Nat) /\ Len(x8') <= MaxLate + 1
        /\ x7' \in {"waiting", "running", "ended"}
        /\ x9' \in Voice!MediaTrack /\ Len(x9'.frames) <= TrackCapacity
    <3>1. CASE ~Voice!Releases(packets) /\ x8' = packets /\ Voice!RecvTrack /\ UNCHANGED x9
      <4> HIDE DEF packets
      <4>1. Len(x8') <= MaxLate + 1
        BY <1>0, <2>3, <3>1, VoiceConstants DEF Voice!Releases
      <4> QED
        BY <1>0, <2>3, <3>1, <4>1 DEF Voice!RecvTrack
    <3>2. CASE x8' = Tail(packets) /\ x7' = "ended" /\ UNCHANGED x9
      BY <1>0, <2>3, <3>2
    <3>3. CASE x8' = Tail(packets) /\ Voice!RecvTrack
                                   /\ x9' = Voice!Broadcast(x9, <<Head(packets)>>)
      <4> HIDE DEF packets
      <4>1. <<Head(packets)>> \in Seq(Nat)
        BY <2>3
      <4> QED
        BY <1>0, <2>3, <3>3, <4>1, VoiceBroadcast DEF Voice!RecvTrack
    <3> QED
      BY <1>5, <3>1, <3>2, <3>3 DEF Voice!Receive
  <2>5. x10' \in {"none", "queued", "mixed", "removed"}
    BY <2>1 DEF Voice!AddTrack, Voice!TypeOK
  <2> QED
    BY <2>1, <2>2, <2>4, <2>5 DEF Voice!capturing, Voice!TypeOK
<1>6. CASE Voice!ReceiverEnds
  BY <1>6 DEF Voice!ReceiverEnds, Voice!capturing, Voice!network, Voice!decoder, Voice!TypeOK
<1>7. CASE Voice!PlaybackTick
  <2>1. /\ x15 > -MaxDrift /\ x15' = x15 - 1
        /\ UNCHANGED <<Voice!capturing, x3, x4, Voice!network, Voice!arriving, x16>>
    BY <1>7 DEF Voice!PlaybackTick
  <2>2. x15' \in -MaxDrift..MaxDrift
    BY <1>0, <2>1, VoiceConstants
  <2>3. Voice!Decoded \in 0..MaxBuffered
    <3>1. Cardinality(Voice!Frames(x9.frames)) \in Nat
      BY <1>0, VoiceFrames
    <3> DEFINE c == Cardinality(Voice!Frames(x9.frames))
    <3> HIDE DEF c
    <3>2. MaxBuffered \in Nat /\ x11 + x9.lag + c \in Nat
      BY <1>0, <3>1, VoiceConstants DEF c
    <3>3. Voice!Decoded = Voice!Smaller(MaxBuffered, x11 + x9.lag + c)
      BY Sizes DEF Voice!Decoded, c
    <3>4. Voice!Decoded \in Nat /\ Voice!Decoded <= MaxBuffered
      BY <3>2, <3>3, VoiceSmallest
    <3> QED
      BY <3>2, <3>4
  <2>4. Voice!Empty \in Voice!MediaTrack /\ Len(Voice!Empty.frames) <= TrackCapacity
    BY VoiceConstants DEF Voice!Empty, Voice!MediaTrack
  <2>5. /\ x9' \in Voice!MediaTrack /\ Len(x9'.frames) <= TrackCapacity /\ x18' \in 0..MaxErrors
        /\ x10' \in {"none", "queued", "mixed", "removed"}
        /\ x11' \in 0..MaxBuffered /\ x12' \in 0..MaxUnderflows
        /\ x13' \in 0..PauseTicks /\ x14' \in BOOLEAN
    <3>1. CASE x9' = Voice!Empty /\ Voice!Removed /\ x18' \in {x18, x18 + 1}
                                 /\ (x18' # x18 => x18 < MaxErrors)
      <4>1. x18' \in 0..MaxErrors /\ 0 \in 0..MaxBuffered
        <5>1. x18 \in 0..MaxErrors /\ MaxErrors \in Nat /\ MaxBuffered \in Nat
          BY <1>0, VoiceConstants
        <5>2. x18' = x18 \/ (x18' = x18 + 1 /\ x18 < MaxErrors)
          BY <3>1
        <5> QED
          BY <5>1, <5>2
      <4> QED
        BY <2>4, <3>1, <4>1 DEF Voice!Removed, Voice!TypeOK
    <3>2. CASE x9' = Voice!Empty /\ x10' = "mixed" /\ Voice!PlayFrom(Voice!Decoded)
                                 /\ UNCHANGED x18
      BY <1>0, <2>3, <2>4, <3>2, VoicePlays
    <3>3. CASE x14' = FALSE /\ UNCHANGED <<Voice!decoder, x9, x18>>
      BY <1>0, <3>3 DEF Voice!decoder, Voice!TypeOK
    <3> QED
      BY <1>7, <3>1, <3>2, <3>3 DEF Voice!PlaybackTick
  <2> QED
    BY <2>1, <2>2, <2>5 DEF Voice!capturing, Voice!network, Voice!arriving, Voice!TypeOK
<1>8. CASE Voice!Close
  <2>1. x5' \in Seq(Nat) /\ Len(x5') <= MaxWire
    BY <1>8, VoiceConstants DEF Voice!Close
  <2> QED
    BY <1>8, <2>1 DEF Voice!Close, Voice!capturing, Voice!arriving, Voice!decoder, Voice!TypeOK
<1>9. CASE UNCHANGED Voice!voiceVars
  BY <1>9 DEF Voice!voiceVars, Voice!capturing, Voice!network, Voice!arriving, Voice!decoder,
     Voice!TypeOK
<1> QED
  BY <1>1, <1>2, <1>3, <1>4, <1>5, <1>6, <1>7, <1>8, <1>9 DEF Voice!Next

-----------------------------------------------------------------------------
(*************************************************************************)
(* CaptureEncoder, for whose variables the following stand: x1 source,   *)
(* x2 capturing, x3 size, x4 arrived, x5 channel, x6 step, x7 frame, x8  *)
(* encoder, x9 transform, x10 mood, x11 listeners, x12 made, x13         *)
(* preview, x14 stopFlag, x15 startup, x16 choices, x17 faults.  What a  *)
(* transform holds is bounded by the requests it has granted.            *)
(*************************************************************************)

LEMMA EncoderConstants ==
  /\ EmptyFallback \in Nat /\ EmptyFallback > 0 /\ ErrorFallback \in Nat /\ ErrorFallback > 0
  /\ Depth \in Nat /\ Depth > 0 /\ MaxSize \in Nat /\ MaxSize > 0
  /\ HoldsBack \in Nat
BY ProgressAssumptions DEF Encoder!CaptureEncoderAssumption

\* Requests waiting and being asked are requests that were granted, and those
\* together with the frames inside never exceed what the transform asks for ahead.
Credited(t) ==
  /\ t \in Encoder!MfH264Encoder
  /\ t.pending + t.asked <= t.granted
  /\ t.granted + t.inside <= Depth

EncoderInv ==
  /\ x1 \in Encoder!CaptureSource /\ x6 \in {"idle", "submitting", "waiting", "over"}
  /\ x3 \in Encoder!Sizes /\ x4 \in Encoder!Frames /\ x5 \in Encoder!Frames
  /\ x7 \in Encoder!Frames
  /\ x8 \in Encoder!FrameEncoder /\ Credited(x9)
  /\ x10 \in [{"shared", "fed"} -> Encoder!Mood]
  /\ x15 \in {"waiting", "started", "failed", "reported"}
  /\ x2 \in BOOLEAN /\ x11 \in BOOLEAN /\ x12 \in BOOLEAN
  /\ x13 \in BOOLEAN /\ x14 \in BOOLEAN

LEMMA EncoderTyped == EncoderInv => Encoder!TypeOK
<1> SUFFICES ASSUME EncoderInv PROVE Encoder!TypeOK
  OBVIOUS
<1>1. {x2, x11, x12, x13, x14} \subseteq BOOLEAN
  BY DEF EncoderInv
<1>2. x9 \in Encoder!MfH264Encoder
  BY DEF EncoderInv, Credited
<1>3. {x4, x5, x7} \subseteq Encoder!Frames
  BY DEF EncoderInv
<1> QED
  BY <1>1, <1>2, <1>3 DEF EncoderInv, Encoder!TypeOK

LEMMA EncoderFrames ==
  /\ <<>> \in Encoder!Frames
  /\ \A f \in 0..MaxSize : <<f>> \in Encoder!Frames
  /\ \A q \in Encoder!Frames : q # <<>> => q[1] \in 0..MaxSize
<1>1. <<>> \in Encoder!Frames
  <2>1. <<>> \in [1..0 -> 0..MaxSize]
    OBVIOUS
  <2> QED
    BY <2>1 DEF Encoder!Frames
<1>2. \A f \in 0..MaxSize : <<f>> \in Encoder!Frames
  <2> TAKE f \in 0..MaxSize
  <2>1. <<f>> \in [1..1 -> 0..MaxSize]
    OBVIOUS
  <2> QED
    BY <2>1 DEF Encoder!Frames
<1>3. \A q \in Encoder!Frames : q # <<>> => q[1] \in 0..MaxSize
  <2> TAKE q \in Encoder!Frames
  <2>1. PICK n \in 0..1 : q \in [1..n -> 0..MaxSize]
    BY DEF Encoder!Frames
  <2>2. CASE n = 0
    <3>1. q = <<>>
      BY <2>1, <2>2
    <3> QED
      BY <3>1
  <2>3. CASE n = 1
    BY <2>1, <2>3
  <2> QED
    BY <2>2, <2>3
<1> QED
  BY <1>1, <1>2, <1>3

LEMMA EncoderConfigured ==
  /\ Credited(Encoder!NoTransform)
  /\ \A async \in BOOLEAN : Credited(Encoder!Configured(async))
<1>1. Credited(Encoder!NoTransform)
  <2>1. Encoder!NoTransform \in Encoder!MfH264Encoder
    BY EncoderConstants DEF Encoder!NoTransform, Encoder!MfH264Encoder
  <2> QED
    BY <2>1, EncoderConstants DEF Encoder!NoTransform, Credited
<1>2. ASSUME NEW async \in BOOLEAN PROVE Credited(Encoder!Configured(async))
  <2> DEFINE p == IF async THEN 1 ELSE 0
             n == FALSE
             e == [async |-> async, pending |-> p, granted |-> 1, asked |-> 0,
                   ready |-> 0, inside |-> 0, refused |-> n]
  <2>1. p \in 0..1 /\ n \in BOOLEAN
    OBVIOUS
  <2>2. Encoder!Configured(async) = e
    <3> DEFINE e0 == [async |-> n, pending |-> 0, granted |-> 0, asked |-> 0,
                      ready |-> 0, inside |-> 0, refused |-> n]
               e1 == [async |-> async, pending |-> 0, granted |-> 0, asked |-> 0,
                      ready |-> 0, inside |-> 0, refused |-> n]
               e2 == [async |-> async, pending |-> p, granted |-> 0, asked |-> 0,
                      ready |-> 0, inside |-> 0, refused |-> n]
    <3>1. Encoder!NoTransform = e0
      BY Zenon DEF Encoder!NoTransform
    <3>2. Encoder!Configured(async) = [Encoder!NoTransform EXCEPT !.async = async, !.pending = p,
                                                                  !.granted = @ + 1]
      BY Zenon DEF Encoder!Configured
    <3> HIDE DEF p, n
    <3>3. e0.granted + 1 = 1
      OBVIOUS
    <3>4. [e0 EXCEPT !.async = async] = e1
      OBVIOUS
    <3>5. [e1 EXCEPT !.pending = p] = e2
      OBVIOUS
    <3>6. [e2 EXCEPT !.granted = 1] = e
      OBVIOUS
    <3>7. Encoder!Configured(async) = [e0 EXCEPT !.async = async, !.pending = p, !.granted = 1]
      BY <3>1, <3>2, <3>3
    <3> HIDE DEF e0, e1, e2, e
    <3> QED
      BY <3>4, <3>5, <3>6, <3>7
  <2> HIDE DEF p, n
  <2>3. e \in Encoder!MfH264Encoder
    BY <2>1, EncoderConstants DEF Encoder!MfH264Encoder
  <2>4. e.pending + e.asked <= e.granted /\ e.granted + e.inside <= Depth
    BY <2>1, EncoderConstants
  <2> HIDE DEF e
  <2> QED
    BY <2>2, <2>3, <2>4 DEF Credited
<1> QED
  BY <1>1, <1>2

\* A transform whose counts are replaced is one.
LEMMA EncoderCounts ==
  ASSUME NEW t \in Encoder!MfH264Encoder, NEW p \in 0..Depth, NEW g \in 0..Depth, NEW a \in 0..Depth,
         NEW r \in 0..1, NEW i \in 0..Depth, p + a <= g, g + i <= Depth
  PROVE  Credited([t EXCEPT !.pending = p, !.granted = g, !.asked = a, !.ready = r, !.inside = i])
<1> DEFINE e0 == [async |-> t.async, pending |-> t.pending, granted |-> t.granted, asked |-> t.asked,
                  ready |-> t.ready, inside |-> t.inside,
                  refused |-> t.refused]
           e1 == [async |-> t.async, pending |-> p, granted |-> t.granted, asked |-> t.asked,
                  ready |-> t.ready, inside |-> t.inside,
                  refused |-> t.refused]
           e2 == [async |-> t.async, pending |-> p, granted |-> g, asked |-> t.asked,
                  ready |-> t.ready, inside |-> t.inside,
                  refused |-> t.refused]
           e3 == [async |-> t.async, pending |-> p, granted |-> g, asked |-> a,
                  ready |-> t.ready, inside |-> t.inside,
                  refused |-> t.refused]
           e4 == [async |-> t.async, pending |-> p, granted |-> g, asked |-> a,
                  ready |-> r, inside |-> t.inside,
                  refused |-> t.refused]
           u == [async |-> t.async, pending |-> p, granted |-> g, asked |-> a, ready |-> r, inside |-> i,
                  refused |-> t.refused]
<1>1. t = e0
  BY DEF Encoder!MfH264Encoder
<1>2. [e0 EXCEPT !.pending = p] = e1
  OBVIOUS
<1>3. [e1 EXCEPT !.granted = g] = e2
  OBVIOUS
<1>4. [e2 EXCEPT !.asked = a] = e3
  OBVIOUS
<1>5. [e3 EXCEPT !.ready = r] = e4
  OBVIOUS
<1>6. [e4 EXCEPT !.inside = i] = u
  OBVIOUS
<1>7. u \in Encoder!MfH264Encoder
  BY DEF Encoder!MfH264Encoder
<1>8. Credited(u)
  BY <1>7 DEF Credited
<1> HIDE DEF e0, e1, e2, e3, e4, u
<1>9. [t EXCEPT !.pending = p, !.granted = g, !.asked = a, !.ready = r, !.inside = i] = u
  BY <1>1, <1>2, <1>3, <1>4, <1>5, <1>6
<1> QED
  BY <1>8, <1>9

LEMMA EncoderPumped ==
  ASSUME Credited(x9)
  PROVE  /\ Credited(Encoder!Pumped)
         /\ Encoder!Pumped.asked = 0 /\ Encoder!Pumped.granted = x9.granted
         /\ Encoder!Pumped.inside = x9.inside
         /\ Encoder!Pumped.ready = 0 /\ Encoder!Pumped.async = x9.async
<1> DEFINE t == x9
<1>1. /\ t \in Encoder!MfH264Encoder /\ t.pending \in 0..Depth /\ t.granted \in 0..Depth
      /\ t.asked \in 0..Depth
      /\ t.inside \in 0..Depth /\ t.ready \in 0..1
      /\ t.pending + t.asked <= t.granted /\ t.granted + t.inside <= Depth
  BY DEF Credited, Encoder!MfH264Encoder
<1>2. Encoder!Pumped = [t EXCEPT !.pending = t.pending + t.asked, !.granted = t.granted, !.asked = 0,
                         !.ready = 0, !.inside = t.inside]
  BY <1>1 DEF Encoder!Pumped, Encoder!MfH264Encoder
<1>3. t.pending + t.asked \in 0..Depth /\ 0 \in 0..Depth /\ 0 \in 0..1
  BY <1>1, EncoderConstants
<1>4. t.pending + t.asked + 0 <= t.granted
  BY <1>1, EncoderConstants
<1>5. Credited(Encoder!Pumped)
  BY <1>1, <1>2, <1>3, <1>4, EncoderCounts
<1> QED
  BY <1>1, <1>5 DEF Encoder!Pumped, Encoder!MfH264Encoder

LEMMA EncoderTakes ==
  ASSUME Credited(x9), Encoder!Pumped.pending > 0
  PROVE  /\ \A again \in BOOLEAN : Credited(Encoder!Refused(again))
         /\ Credited([Encoder!Pumped EXCEPT !.pending = @ - 1, !.granted = @ - 1, !.inside = @ + 1])
<1> DEFINE t == Encoder!Pumped
<1>0. Credited(t) /\ t.pending > 0
  BY EncoderPumped
<1> HIDE DEF t
<1>1. /\ t \in Encoder!MfH264Encoder /\ t.pending \in 0..Depth /\ t.granted \in 0..Depth
      /\ t.asked \in 0..Depth
      /\ t.inside \in 0..Depth /\ t.ready \in 0..1 /\ t.pending > 0
      /\ t.pending + t.asked <= t.granted /\ t.granted + t.inside <= Depth
  BY <1>0 DEF Credited, Encoder!MfH264Encoder
<1>3. /\ t.pending - 1 \in 0..Depth /\ t.granted - 1 \in 0..Depth
      /\ t.pending - 1 + t.asked <= t.granted - 1
  BY <1>1, EncoderConstants
<1>4. ASSUME NEW again \in BOOLEAN PROVE Credited(Encoder!Refused(again))
  <2> DEFINE g == IF again THEN t.granted - 1 ELSE t.granted
             e == [t EXCEPT !.pending = t.pending - 1, !.granted = g, !.asked = t.asked,
                            !.ready = t.ready, !.inside = t.inside]
  <2>1. /\ t.pending - 1 \in 0..Depth /\ g \in 0..Depth /\ t.pending - 1 + t.asked <= g
        /\ g + t.inside <= Depth
    BY <1>1, <1>3, EncoderConstants
  <2> HIDE DEF g
  <2>2. Credited(e)
    BY <1>1, <2>1, EncoderCounts
  <2>3. Encoder!Refused(again) = [e EXCEPT !.refused = ~again]
    BY <1>1 DEF Encoder!Refused, t, g, Encoder!MfH264Encoder
  <2> HIDE DEF e
  <2> QED
    BY <2>2, <2>3 DEF Credited, Encoder!MfH264Encoder
<1>5. [t EXCEPT !.pending = @ - 1, !.granted = @ - 1, !.inside = @ + 1]
        = [t EXCEPT !.pending = t.pending - 1, !.granted = t.granted - 1, !.asked = t.asked,
                    !.ready = t.ready, !.inside = t.inside + 1]
  BY <1>1 DEF Encoder!MfH264Encoder
<1>6. /\ t.granted - 1 \in 0..Depth /\ t.pending - 1 + t.asked <= t.granted - 1
      /\ t.inside + 1 \in 0..Depth /\ t.granted - 1 + (t.inside + 1) <= Depth
  BY <1>1, EncoderConstants
<1>7. Credited([t EXCEPT !.pending = @ - 1, !.granted = @ - 1, !.inside = @ + 1])
  <2> DEFINE p == t.pending - 1
             h == t.granted - 1
             i == t.inside + 1
  <2>1. /\ p \in 0..Depth /\ h \in 0..Depth /\ i \in 0..Depth /\ p + t.asked <= h
        /\ h + i <= Depth
    BY <1>3, <1>6
  <2> HIDE DEF p, h, i
  <2>2. Credited([t EXCEPT !.pending = p, !.granted = h, !.asked = t.asked, !.ready = t.ready,
             !.inside = i])
    BY <1>1, <2>1, EncoderCounts
  <2> QED
    BY <1>5, <2>2 DEF p, h, i
<1> QED
  BY <1>4, <1>7 DEF t

Offers == [kind : {"shared", "fed", "openh264"}, async : BOOLEAN]

LEMMA EncoderOffers ==
  Encoder!OpenOnDevice \subseteq Offers /\ Encoder!OpenForCpu \subseteq Offers
       /\ Encoder!OpenSoftware \subseteq Offers
<1>1. Encoder!OpenOnDevice \subseteq Offers
  BY DEF Encoder!OpenOnDevice, Encoder!Candidates, Offers
<1>2. Encoder!OpenSoftware \subseteq Offers
  BY DEF Encoder!OpenSoftware, Offers
<1>3. Encoder!OpenForCpu \subseteq Offers
  <2>1. CASE Encoder!AnswersProbe
    <3>1. Encoder!OpenForCpu = [kind : {"fed"}, async : BOOLEAN]
      BY <2>1 DEF Encoder!OpenForCpu, Encoder!Candidates
    <3> QED
      BY <3>1 DEF Offers
  <2>2. CASE ~Encoder!AnswersProbe
    <3>1. Encoder!OpenForCpu = {[kind |-> "openh264", async |-> FALSE]}
      BY <2>2 DEF Encoder!OpenForCpu
    <3> QED
      BY <3>1 DEF Offers
  <2> QED
    BY <2>1, <2>2
<1> QED
  BY <1>1, <1>2, <1>3

LEMMA EncoderReplaces ==
  ASSUME NEW o \in Offers, NEW now \in Encoder!FrameEncoder, Encoder!Replaces(o, now)
  PROVE  x8' \in Encoder!FrameEncoder /\ Credited(x9)'
<1>1. x8' \in Encoder!FrameEncoder
  BY DEF Encoder!Replaces, Encoder!FrameEncoder, Offers
<1>2. x9' = Encoder!NoTransform \/ x9' = Encoder!Configured(o.async)
  BY DEF Encoder!Replaces
<1>3. o.async \in BOOLEAN
  BY DEF Offers
<1>4. Credited(x9')
  BY <1>2, <1>3, EncoderConfigured
<1> QED
  BY <1>1, <1>4 DEF Credited

\* What remembers nothing of frames without output, or of errors, or counts
\* another one, is an encoder.
LEMMA EncoderRemembers ==
  ASSUME NEW e \in Encoder!FrameEncoder
  PROVE  /\ [e EXCEPT !.empty = 0] \in Encoder!FrameEncoder
         /\ [e EXCEPT !.errors = 0] \in Encoder!FrameEncoder
         /\ e.empty + 1 < EmptyFallback => [e EXCEPT !.empty = @ + 1] \in Encoder!FrameEncoder
         /\ e.errors + 1 < ErrorFallback => [e EXCEPT !.errors = @ + 1] \in Encoder!FrameEncoder
         /\ \A f \in 0..MaxSize : [e EXCEPT !.fit = f] \in Encoder!FrameEncoder
<1>1. e.empty \in 0..EmptyFallback /\ e.errors \in 0..ErrorFallback
  BY DEF Encoder!FrameEncoder
<1>2. 0 \in 0..EmptyFallback /\ 0 \in 0..ErrorFallback
  BY EncoderConstants
<1>3. e.empty + 1 < EmptyFallback => e.empty + 1 \in 0..EmptyFallback
  BY <1>1, EncoderConstants
<1>4. e.errors + 1 < ErrorFallback => e.errors + 1 \in 0..ErrorFallback
  BY <1>1, EncoderConstants
<1>5. \A n \in 0..EmptyFallback : [e EXCEPT !.empty = n] \in Encoder!FrameEncoder
  BY DEF Encoder!FrameEncoder
<1>6. \A n \in 0..ErrorFallback : [e EXCEPT !.errors = n] \in Encoder!FrameEncoder
  BY DEF Encoder!FrameEncoder
<1>7. \A f \in 0..MaxSize : [e EXCEPT !.fit = f] \in Encoder!FrameEncoder
  BY DEF Encoder!FrameEncoder
<1> QED
  BY <1>2, <1>3, <1>4, <1>5, <1>6, <1>7

LEMMA EncoderGives ==
  ASSUME x8 \in Encoder!FrameEncoder, Credited(x9)
  PROVE  /\ Encoder!GivesPicture => x8' \in Encoder!FrameEncoder /\ Credited(x9)'
         /\ Encoder!GivesNothing => x8' \in Encoder!FrameEncoder /\ Credited(x9)'
         /\ \A left : Credited(left) /\ Encoder!GivesError(left) => x8'
              \in Encoder!FrameEncoder /\ Credited(x9)'
<1>0. UNCHANGED x9 => Credited(x9)'
  BY DEF Credited
<1>1. Encoder!GivesPicture => x8' \in Encoder!FrameEncoder /\ Credited(x9)'
  BY <1>0, EncoderRemembers DEF Encoder!GivesPicture
<1>2. ASSUME Encoder!GivesNothing PROVE x8' \in Encoder!FrameEncoder /\ Credited(x9)'
  <2>1. CASE x8.empty + 1 < EmptyFallback
    BY <1>0, <1>2, <2>1, EncoderRemembers DEF Encoder!GivesNothing
  <2>2. CASE ~(x8.empty + 1 < EmptyFallback)
    <3>1. PICK o \in Offers : Encoder!Replaces(o, [x8 EXCEPT !.empty = 0])
      BY <1>2, <2>2, EncoderOffers DEF Encoder!GivesNothing
    <3> QED
      BY <3>1, EncoderReplaces, EncoderRemembers
  <2> QED
    BY <2>1, <2>2
<1>3. ASSUME NEW left, Credited(left), Encoder!GivesError(left)
      PROVE  x8' \in Encoder!FrameEncoder /\ Credited(x9)'
  <2>1. CASE /\ x8.errors + 1 < ErrorFallback
             /\ x8' = [x8 EXCEPT !.errors = @ + 1] /\ x9' = left
    BY <1>3, <2>1, EncoderRemembers DEF Credited
  <2>2. CASE \E o \in IF x8.kind = "shared" THEN Encoder!OpenForCpu ELSE Encoder!OpenSoftware :
                Encoder!Replaces(o, [x8 EXCEPT !.errors = 0])
    <3>1. PICK o \in Offers : Encoder!Replaces(o, [x8 EXCEPT !.errors = 0])
      BY <2>2, EncoderOffers
    <3> QED
      BY <3>1, EncoderReplaces, EncoderRemembers
  <2> QED
    BY <1>3, <2>1, <2>2 DEF Encoder!GivesError
<1> QED
  BY <1>1, <1>2, <1>3

LEMMA EncoderInit == Encoder!Init => EncoderInv
<1> SUFFICES ASSUME Encoder!Init PROVE EncoderInv
  OBVIOUS
<1>1. /\ x4 = <<>> /\ x5 = <<>> /\ x7 = <<>> /\ x3 = 1
      /\ x8 = [kind |-> "none", fit |-> 0, empty |-> 0, errors |-> 0]
      /\ x9 = Encoder!NoTransform /\ x10 \in [{"shared", "fed"} -> Encoder!Mood]
      /\ x1 = "opening" /\ x6 = "idle" /\ x15 = "waiting"
      /\ x2 = FALSE /\ x11 = FALSE /\ x12 = FALSE /\ x13 = FALSE /\ x14 = FALSE
  BY DEF Encoder!Init
<1>2. x8 \in Encoder!FrameEncoder
  BY <1>1, EncoderConstants DEF Encoder!FrameEncoder
<1>3. Credited(x9)
  BY <1>1, EncoderConfigured
<1>4. x3 \in Encoder!Sizes
  BY <1>1, EncoderConstants DEF Encoder!Sizes
<1>5. x4 \in Encoder!Frames /\ x5 \in Encoder!Frames /\ x7 \in Encoder!Frames
  BY <1>1, EncoderFrames
<1> QED
  BY <1>1, <1>2, <1>3, <1>4, <1>5 DEF EncoderInv, Encoder!CaptureSource

LEMMA EncoderStep == EncoderInv /\ [Encoder!Next]_(Encoder!captureVars) => EncoderInv'
<1> SUFFICES ASSUME EncoderInv, [Encoder!Next]_(Encoder!captureVars) PROVE EncoderInv'
  OBVIOUS
<1>0. /\ x1 \in Encoder!CaptureSource /\ x6 \in {"idle", "submitting", "waiting", "over"}
      /\ x3 \in Encoder!Sizes /\ x4 \in Encoder!Frames /\ x5 \in Encoder!Frames
      /\ x7 \in Encoder!Frames
      /\ x8 \in Encoder!FrameEncoder /\ Credited(x9)
      /\ x10 \in [{"shared", "fed"} -> Encoder!Mood]
      /\ x15 \in {"waiting", "started", "failed", "reported"}
  BY DEF EncoderInv
<1>b. /\ x2 \in BOOLEAN /\ x11 \in BOOLEAN /\ x12 \in BOOLEAN /\ x13 \in BOOLEAN
      /\ x14 \in BOOLEAN
  BY DEF EncoderInv
<1>t. UNCHANGED x9 => Credited(x9)'
  BY <1>0 DEF Credited
<1>s. x3 \in 0..MaxSize
  BY <1>0, EncoderConstants DEF Encoder!Sizes
<1> DEFINE Kept == /\ x1' \in Encoder!CaptureSource /\ x6' \in {"idle", "submitting", "waiting", "over"}
                 /\ x3' \in Encoder!Sizes /\ x4' \in Encoder!Frames /\ x5' \in Encoder!Frames
                 /\ x7' \in Encoder!Frames
                 /\ x8' \in Encoder!FrameEncoder /\ Credited(x9)'
                 /\ x10' \in [{"shared", "fed"} -> Encoder!Mood]
                 /\ x15' \in {"waiting", "started", "failed", "reported"}
                 /\ x2' \in BOOLEAN /\ x11' \in BOOLEAN /\ x12' \in BOOLEAN
                 /\ x13' \in BOOLEAN /\ x14' \in BOOLEAN
<1> SUFFICES Kept
  BY DEF EncoderInv
<1>1. CASE Encoder!InitCaptureSource
  <2>1. x1' \in Encoder!CaptureSource /\ x15' \in {"waiting", "started", "failed", "reported"}
    BY <1>0, <1>1 DEF Encoder!InitCaptureSource, Encoder!StartsGraphics, Encoder!StartsPolling,
       Encoder!StartsNothing, Encoder!CaptureSource
  <2>2. x4' \in Encoder!Frames
    BY <1>0, <1>s, <1>1, EncoderFrames DEF Encoder!InitCaptureSource, Encoder!StartsGraphics,
       Encoder!StartsPolling, Encoder!StartsNothing
  <2> QED
    BY <1>0, <1>b, <1>t, <1>1, <2>1, <2>2 DEF Encoder!InitCaptureSource
<1>2. CASE Encoder!BeginCapture
  <2>1. x1' \in Encoder!CaptureSource /\ x2' \in BOOLEAN
    BY <1>0, <1>b, <1>2 DEF Encoder!BeginCapture, Encoder!CaptureSource
  <2> QED
    BY <1>0, <1>b, <1>t, <1>2, <2>1 DEF Encoder!BeginCapture
<1>3. CASE Encoder!CaptureGpu
  <2>1. x4' = <<>> /\ x4 # <<>> /\ Encoder!Forward(x4[1])
    BY <1>3 DEF Encoder!CaptureGpu
  <2>2. x5' \in Encoder!Frames /\ x4' \in Encoder!Frames
    BY <1>0, <2>1, EncoderFrames DEF Encoder!Forward
  <2>3. x1' \in Encoder!CaptureSource /\ x15' \in {"waiting", "started", "failed", "reported"}
    BY <1>0, <2>1 DEF Encoder!Forward, Encoder!CaptureSource
  <2> QED
    BY <1>0, <1>b, <1>t, <2>1, <2>2, <2>3 DEF Encoder!Forward
<1>4. CASE Encoder!CapturePolled
  <2>1. UNCHANGED x4 /\ Encoder!Forward(0)
    BY <1>4 DEF Encoder!CapturePolled, Encoder!Scaled
  <2>2. 0 \in 0..MaxSize
    BY EncoderConstants
  <2>3. x5' \in Encoder!Frames
    BY <1>0, <2>1, <2>2, EncoderFrames DEF Encoder!Forward
  <2>4. x1' \in Encoder!CaptureSource /\ x15' \in {"waiting", "started", "failed", "reported"}
    BY <1>0, <2>1 DEF Encoder!Forward, Encoder!CaptureSource
  <2> QED
    BY <1>0, <1>b, <1>t, <2>1, <2>3, <2>4 DEF Encoder!Forward
<1>5. CASE Encoder!CaptureIdle
  BY <1>0, <1>b, <1>t, <1>5 DEF Encoder!CaptureIdle
<1>6. CASE Encoder!CaptureFails
  BY <1>0, <1>b, <1>t, <1>6 DEF Encoder!CaptureFails, Encoder!CaptureSource
<1>7. CASE Encoder!OnFrameArrived
  <2>1. x4' \in Encoder!Frames
    BY <1>s, <1>7, EncoderFrames DEF Encoder!OnFrameArrived
  <2> QED
    BY <1>0, <1>b, <1>t, <1>7, <2>1 DEF Encoder!OnFrameArrived
<1>8. CASE Encoder!TakeFrame
  <2> DEFINE f == x5[1]
  <2>1. /\ x5 # <<>> /\ x5' = <<>> /\ Encoder!OffersPreview
        /\ UNCHANGED <<x1, x2, x3, x4, x10, x11, x14, x15, x16, x17>>
    BY <1>8 DEF Encoder!TakeFrame
  <2>2. f \in 0..MaxSize /\ x5' \in Encoder!Frames
    BY <1>0, <2>1, EncoderFrames
  <2>3. x13' \in BOOLEAN
    BY <1>b, <2>1 DEF Encoder!OffersPreview, Encoder!Scales
  <2>4. CASE ~x11
    <3>1. UNCHANGED <<x6, x7, x8, x9, x12>>
      BY <1>8, <2>4 DEF Encoder!TakeFrame
    <3> QED
      BY <1>0, <1>b, <1>t, <2>1, <2>2, <2>3, <3>1
  <2>5. CASE x11
    <3>1. /\ x6' = "submitting" /\ x7' = <<f>> /\ x12' = FALSE
          /\ IF x8.kind # "none" /\ ~Encoder!Outgrown(f)
             THEN UNCHANGED <<x8, x9>>
             ELSE \E o \in IF f = 0 THEN Encoder!OpenForCpu ELSE Encoder!OpenOnDevice \cup Encoder!OpenForCpu :
                       Encoder!Replaces(o, [x8 EXCEPT !.fit = f])
      BY <1>8, <2>5 DEF Encoder!TakeFrame
    <3> HIDE DEF f
    <3>2. x7' \in Encoder!Frames
      BY <2>2, <3>1, EncoderFrames
    <3>3. x8' \in Encoder!FrameEncoder /\ Credited(x9)'
      <4>1. CASE UNCHANGED <<x8, x9>>
        BY <1>0, <1>t, <4>1
      <4>2. CASE \E o \in Offers : Encoder!Replaces(o, [x8 EXCEPT !.fit = f])
        BY <1>0, <2>2, <4>2, EncoderReplaces, EncoderRemembers
      <4> QED
        BY <3>1, <4>1, <4>2, EncoderOffers
    <3> QED
      BY <1>0, <1>b, <2>1, <2>2, <2>3, <3>1, <3>2, <3>3
  <2> QED
    BY <1>b, <2>4, <2>5
<1>g. ASSUME NEW picture \in BOOLEAN, Encoder!Gave(picture), x8'
           \in Encoder!FrameEncoder, Credited(x9)'
      PROVE  Kept
  <2>1. /\ x12' = picture /\ x6' = "idle" /\ x7' = <<>>
        /\ UNCHANGED <<x1, x2, x3, x4, x5, x10, x11, x13, x14,
                       x15, x16, x17>>
    BY <1>g DEF Encoder!Gave
  <2>2. x7' \in Encoder!Frames
    BY <2>1, EncoderFrames
  <2> QED
    BY <1>0, <1>b, <1>g, <2>1, <2>2
<1>p. Encoder!GivesPicture \/ Encoder!GivesNothing \/ (\E left : Credited(left)
           /\ Encoder!GivesError(left)) => Kept
  <2>1. CASE Encoder!GivesPicture
    <3>1. Encoder!Gave(TRUE)
      BY <2>1 DEF Encoder!GivesPicture
    <3> QED
      BY <1>0, <1>g, <2>1, <3>1, EncoderGives
  <2>2. CASE Encoder!GivesNothing
    <3>1. Encoder!Gave(FALSE)
      BY <2>2 DEF Encoder!GivesNothing
    <3> QED
      BY <1>0, <1>g, <2>2, <3>1, EncoderGives
  <2>3. ASSUME NEW left, Credited(left), Encoder!GivesError(left) PROVE Kept
    <3>1. Encoder!Gave(FALSE)
      BY <2>3 DEF Encoder!GivesError
    <3> QED
      BY <1>0, <1>g, <2>3, <3>1, EncoderGives
  <2> QED
    BY <2>1, <2>2, <2>3
<1>9. CASE Encoder!EncodeSoftware
  BY <1>p, <1>9 DEF Encoder!EncodeSoftware
<1>10. CASE Encoder!ProcessSync
  <2>1. Encoder!GivesPicture \/ Encoder!GivesNothing \/ Encoder!GivesError(x9)
    BY <1>10 DEF Encoder!ProcessSync
  <2> QED
    BY <1>0, <1>p, <2>1
<1>11. CASE Encoder!ProcessInput
  <2>1. Encoder!Pumped.pending > 0
    BY <1>11 DEF Encoder!ProcessInput
  <2>2. ASSUME NEW again \in BOOLEAN, Encoder!GivesError(Encoder!Refused(again))
        PROVE  Kept
    BY <1>0, <1>p, <2>1, <2>2, EncoderTakes
  <2>3. CASE /\ x9' = [Encoder!Pumped EXCEPT !.pending = @ - 1, !.granted = @ - 1, !.inside = @ + 1]
             /\ x12' = (x9.ready > 0) /\ x6' = "waiting"
             /\ UNCHANGED <<x1, x2, x3, x4, x5, x7, x8, x10, x11,
                            x13, x14, x15, x16, x17>>
    <3>1. Credited(x9)'
      BY <1>0, <2>1, <2>3, EncoderTakes DEF Credited
    <3>2. x12' \in BOOLEAN
      BY <2>3
    <3> QED
      BY <1>0, <1>b, <2>3, <3>1, <3>2
  <2> QED
    BY <1>11, <2>2, <2>3 DEF Encoder!ProcessInput
<1>12. CASE Encoder!WaitForEvent
  <2>1. CASE x8' = [x8 EXCEPT !.empty = 0] /\ x9' = Encoder!Pumped /\ Encoder!Gave(TRUE)
    <3>1. Credited(x9)'
      BY <1>0, <2>1, EncoderPumped DEF Credited
    <3> QED
      BY <1>0, <1>g, <2>1, <3>1, EncoderRemembers
  <2>2. CASE /\ x8.empty + 1 < EmptyFallback
             /\ x8' = [x8 EXCEPT !.empty = @ + 1] /\ x9' = Encoder!Pumped /\ Encoder!Gave(FALSE)
    <3>1. Credited(x9)'
      BY <1>0, <2>2, EncoderPumped DEF Credited
    <3> QED
      BY <1>0, <1>g, <2>2, <3>1, EncoderRemembers
  <2>3. CASE Encoder!GivesNothing
    BY <1>p, <2>3
  <2> QED
    BY <1>12, <2>1, <2>2, <2>3 DEF Encoder!WaitForEvent
<1>13. CASE Encoder!EncodeEnds
  BY <1>0, <1>b, <1>t, <1>13 DEF Encoder!EncodeEnds
<1>14. CASE Encoder!EncodeFails
  <2>1. x7' \in Encoder!Frames
    BY <1>14, EncoderFrames DEF Encoder!EncodeFails
  <2> QED
    BY <1>0, <1>b, <1>t, <1>14, <2>1 DEF Encoder!EncodeFails
<1>15. CASE Encoder!PreviewLoop
  BY <1>0, <1>b, <1>t, <1>15 DEF Encoder!PreviewLoop
<1> DEFINE t == x9
<1>c. /\ t \in Encoder!MfH264Encoder /\ t.pending \in 0..Depth /\ t.granted \in 0..Depth
      /\ t.asked \in 0..Depth
      /\ t.inside \in 0..Depth /\ t.ready \in 0..1
      /\ t.pending + t.asked <= t.granted /\ t.granted + t.inside <= Depth
  BY <1>0 DEF Credited, Encoder!MfH264Encoder
<1>16. CASE Encoder!Asks
  <2>1. /\ t.granted + t.inside < Depth
        /\ x9' = [t EXCEPT !.pending = t.pending, !.granted = t.granted + 1, !.asked = t.asked + 1,
                                  !.ready = t.ready, !.inside = t.inside]
    BY <1>c, <1>16 DEF Encoder!Asks, Encoder!MfH264Encoder
  <2>2. /\ t.granted + 1 \in 0..Depth /\ t.asked + 1 \in 0..Depth
        /\ t.pending + (t.asked + 1) <= t.granted + 1 /\ t.granted + 1 + t.inside <= Depth
    BY <1>c, <2>1, EncoderConstants
  <2>3. Credited(x9)'
    BY <1>c, <2>1, <2>2, EncoderCounts DEF Credited
  <2> QED
    BY <1>0, <1>b, <1>16, <2>3 DEF Encoder!Asks
<1>17. CASE Encoder!Delivers
  <2> DEFINE r == IF Encoder!Outcome = "good" THEN 1 ELSE t.ready
  <2>1. /\ t.inside > HoldsBack
        /\ x9' = [t EXCEPT !.pending = t.pending, !.granted = t.granted, !.asked = t.asked,
                                  !.ready = r, !.inside = t.inside - 1]
    BY <1>c, <1>17 DEF Encoder!Delivers, Encoder!MfH264Encoder
  <2>2. t.inside - 1 \in 0..Depth /\ t.granted + (t.inside - 1) <= Depth /\ r \in 0..1
    BY <1>c, <2>1, EncoderConstants
  <2> HIDE DEF r
  <2>3. Credited(x9)'
    BY <1>c, <2>1, <2>2, EncoderCounts DEF Credited
  <2> QED
    BY <1>0, <1>b, <1>17, <2>3 DEF Encoder!Delivers
<1>18. CASE Encoder!ReportFailure
  BY <1>0, <1>b, <1>t, <1>18 DEF Encoder!ReportFailure
<1>19. CASE Encoder!StartupTimesOut \/ Encoder!Stop
  BY <1>0, <1>b, <1>t, <1>19 DEF Encoder!StartupTimesOut, Encoder!Stop, Encoder!SetsStopFlag
<1>20. CASE Encoder!Listen
  BY <1>0, <1>b, <1>t, <1>20 DEF Encoder!Listen
<1>21. CASE Encoder!Resize
  <2>1. x3' \in Encoder!Sizes
    BY <1>0, <1>21, EncoderConstants DEF Encoder!Resize, Encoder!Sizes
  <2> QED
    BY <1>0, <1>b, <1>t, <1>21, <2>1 DEF Encoder!Resize
<1>22. CASE Encoder!MoodChanges
  BY <1>0, <1>b, <1>t, <1>22 DEF Encoder!MoodChanges
<1>23. CASE UNCHANGED Encoder!captureVars
  BY <1>0, <1>b, <1>t, <1>23 DEF Encoder!captureVars
<1> QED
  BY <1>1, <1>2, <1>3, <1>4, <1>5, <1>6, <1>7, <1>8, <1>9, <1>10, <1>11, <1>12, <1>13, <1>14,
     <1>15,
     <1>16, <1>17, <1>18, <1>19, <1>20, <1>21, <1>22, <1>23
     DEF Encoder!Next, Encoder!CaptureStep, Encoder!EncodeStep, Encoder!CaptureFrame

-----------------------------------------------------------------------------
(*************************************************************************)
(* VideoPresentation, for whose variables the following stand: x1        *)
(* decoder, x2 mood, x3 pool, x4 pools, x5 queue, x6 picture, x7 fresh,  *)
(* x8 painted, x9 presenter, x10 window, x11 choices, x12 faults.  What  *)
(* a pool has free or back is bounded by its allocations because every   *)
(* other texture is with one picture.                                    *)
(*************************************************************************)

\* Of the pictures in q, and whether v is, of the decoder's own pool d.
Out(d, q) == IF d = 0 THEN 0 ELSE Count(q, d)
One(d, v) == IF v = d /\ v # 0 THEN 1 ELSE 0

\* Every texture of the pool is free, has been given back, or is with one of
\* n pictures.
Balanced(p, n) ==
  /\ p \in [allocated : 0..Textures, free : Nat, returned : Nat]
  /\ p.allocated = p.free + p.returned + n

PresentationInv ==
  /\ Presentation!TypeOK
  /\ x1.pool <= x4 /\ x6 <= x4
  /\ \A i \in DOMAIN x5 : x5[i] <= x4
  /\ Balanced(x3, Out(x1.pool, x5) + One(x1.pool, x6))
  /\ x1.pool = 0 => x3.allocated = 0

LEMMA PresentationBalanced ==
  ASSUME Presentation!VideoPresentationAssumption, NEW p, NEW n \in Nat, Balanced(p, n)
  PROVE  p \in Presentation!DecoderPresentationPool
<1>1. Textures \in Nat
  BY DEF Presentation!VideoPresentationAssumption
<1>2. /\ p = [allocated |-> p.allocated, free |-> p.free, returned |-> p.returned]
      /\ p.allocated \in 0..Textures /\ p.free \in Nat /\ p.returned \in Nat
      /\ p.allocated = p.free + p.returned + n
  BY DEF Balanced
<1>3. p.free \in 0..Textures /\ p.returned \in 0..Textures
  BY <1>1, <1>2
<1> QED
  BY <1>2, <1>3 DEF Presentation!DecoderPresentationPool

LEMMA PresentationBuilt ==
  ASSUME NEW a \in 0..Textures, NEW f \in Nat, NEW r \in Nat, NEW n, a = f + r + n
  PROVE  Balanced([allocated |-> a, free |-> f, returned |-> r], n)
BY DEF Balanced

LEMMA PresentationPools ==
  ASSUME NEW a, NEW f, NEW r, NEW b
  PROVE  LET p == [allocated |-> a, free |-> f, returned |-> r]
         IN  /\ [p EXCEPT !.free = b, !.returned = 0]
                  = [allocated |-> a, free |-> b, returned |-> 0]
             /\ [p EXCEPT !.free = b] = [allocated |-> a, free |-> b, returned |-> r]
             /\ [p EXCEPT !.allocated = b] = [allocated |-> b, free |-> f, returned |-> r]
<1> DEFINE p == [allocated |-> a, free |-> f, returned |-> r]
<1>1. [p EXCEPT !.free = b] = [allocated |-> a, free |-> b, returned |-> r]
  OBVIOUS
<1>2. [p EXCEPT !.allocated = b] = [allocated |-> b, free |-> f, returned |-> r]
  OBVIOUS
<1>3. [p EXCEPT !.free = b, !.returned = 0] = [allocated |-> a, free |-> b, returned |-> 0]
  <2> DEFINE q == [allocated |-> a, free |-> b, returned |-> r]
  <2>1. [q EXCEPT !.returned = 0] = [allocated |-> a, free |-> b, returned |-> 0]
    OBVIOUS
  <2>2. [p EXCEPT !.free = b, !.returned = 0] = [q EXCEPT !.returned = 0]
    BY <1>1
  <2> QED
    BY <2>1, <2>2
<1> QED
  BY <1>1, <1>2, <1>3

\* What is dropped is given back.
LEMMA PresentationGivenBack ==
  ASSUME NEW d \in Seq(Presentation!Pools), NEW p, NEW n \in Nat, NEW m \in Nat,
         Balanced(p, n), n = m + Out(x1.pool, d)
  PROVE  /\ Balanced(Presentation!GivenBack(p, d), m)
         /\ Presentation!GivenBack(p, d).allocated = p.allocated
<1> DEFINE ours == {i \in DOMAIN d : d[i] = x1.pool /\ d[i] # 0}
           k == Cardinality(ours)
<1>1. k = Out(x1.pool, d)
  <2>1. CASE x1.pool = 0
    <3>1. ours = {}
      BY <2>1
    <3> QED
      BY <2>1, <3>1, FS_EmptySet DEF Out
  <2>2. CASE x1.pool # 0
    <3>1. ours = Positions(d, x1.pool)
      BY <2>2 DEF Positions
    <3> QED
      BY <2>2, <3>1 DEF Out, Count
  <2> QED
    BY <2>1, <2>2
<1>2. k \in Nat
  BY <1>1, CountIs DEF Out
<1>3. Presentation!GivenBack(p, d) = [p EXCEPT !.returned = @ + k]
  BY Sizes DEF Presentation!GivenBack
<1> HIDE DEF ours, k
<1>4. /\ p.allocated \in 0..Textures /\ p.free \in Nat /\ p.returned \in Nat
      /\ p.allocated = p.free + p.returned + n
      /\ Presentation!GivenBack(p, d)
           = [allocated |-> p.allocated, free |-> p.free, returned |-> p.returned + k]
  BY <1>3 DEF Balanced
<1>5. p.returned + k \in Nat /\ p.allocated = p.free + (p.returned + k) + m
  BY <1>1, <1>2, <1>4
<1> QED
  BY <1>4, <1>5, PresentationBuilt

LEMMA PresentationOut ==
  ASSUME NEW d
  PROVE  /\ Out(d, <<>>) = 0
         /\ \A v : One(d, v) \in 0..1
         /\ \A q \in Seq(Presentation!Pools) : Out(d, q) \in Nat
         /\ \A q \in Seq(Presentation!Pools), v \in Presentation!Pools :
              /\ Append(q, v) \in Seq(Presentation!Pools)
              /\ Out(d, Append(q, v)) = Out(d, q) + One(d, v)
<1>1. Out(d, <<>>) = 0
  BY CountEmpty DEF Out
<1>2. \A v : One(d, v) \in 0..1
  BY DEF One
<1>3. \A q \in Seq(Presentation!Pools) : Out(d, q) \in Nat
  BY CountIs DEF Out
<1>4. ASSUME NEW q \in Seq(Presentation!Pools), NEW v \in Presentation!Pools
      PROVE  Append(q, v) \in Seq(Presentation!Pools) /\ Out(d, Append(q, v))
                  = Out(d, q) + One(d, v)
  <2>1. Append(q, v) \in Seq(Presentation!Pools)
    OBVIOUS
  <2>2. Count(Append(q, v), d) = Count(q, d) + (IF v = d THEN 1 ELSE 0)
    BY CountAppend
  <2>3. CASE d = 0
    BY <2>1, <2>3 DEF Out, One
  <2>4. CASE d # 0
    BY <2>1, <2>2, <2>4 DEF Out, One
  <2> QED
    BY <2>3, <2>4
<1> QED
  BY <1>1, <1>2, <1>3, <1>4

\* What the window drops when it takes the newest picture.
LEMMA PresentationDropped ==
  ASSUME Presentation!TypeOK, NEW o
  PROVE  /\ Presentation!Newest \in Presentation!Pools
         /\ Presentation!Dropped \in Seq(Presentation!Pools)
         /\ Out(o, Presentation!Dropped) + One(o, Presentation!Newest) = Out(o, x5) + One(o, x6)
         /\ Append(Presentation!Dropped, Presentation!Newest) \in Seq(Presentation!Pools)
         /\ Out(o, Append(Presentation!Dropped, Presentation!Newest)) = Out(o, x5) + One(o, x6)
         /\ Presentation!Newest = x6 \/ \E i \in DOMAIN x5 : Presentation!Newest = x5[i]
<1>1. x5 \in Seq(Presentation!Pools) /\ x6 \in Presentation!Pools
  BY DEF Presentation!TypeOK
<1>2. /\ Presentation!Newest \in Presentation!Pools
      /\ Presentation!Dropped \in Seq(Presentation!Pools)
      /\ Out(o, Presentation!Dropped) + One(o, Presentation!Newest) = Out(o, x5) + One(o, x6)
      /\ Presentation!Newest = x6 \/ \E i \in DOMAIN x5 : Presentation!Newest = x5[i]
  <2>1. CASE x5 = <<>>
    <3>1. Presentation!Dropped = x5 /\ Presentation!Newest = x6
      BY <2>1 DEF Presentation!Dropped, Presentation!Newest
    <3> QED
      BY <1>1, <3>1
  <2>2. CASE x5 # <<>>
    <3> DEFINE d == <<x6>> \o SubSeq(x5, 1, Len(x5) - 1)
               l == x5[Len(x5)]
    <3>1. Presentation!Dropped = d /\ Presentation!Newest = l
      BY <2>2 DEF Presentation!Dropped, Presentation!Newest
    <3>2. d \in Seq(Presentation!Pools) /\ l \in Presentation!Pools
      BY <1>1, <2>2, CountRotate
    <3>3. Count(d, o) + (IF l = o THEN 1 ELSE 0)
            = Count(x5, o) + (IF x6 = o THEN 1 ELSE 0)
      BY <1>1, <2>2, CountRotate
    <3>4. Len(x5) \in DOMAIN x5 /\ l = x5[Len(x5)]
      BY <1>1, <2>2
    <3> HIDE DEF d, l
    <3>5. Out(o, d) + One(o, l) = Out(o, x5) + One(o, x6)
      <4>1. CASE o = 0
        BY <4>1 DEF Out, One
      <4>2. CASE o # 0
        BY <3>3, <4>2 DEF Out, One
      <4> QED
        BY <4>1, <4>2
    <3> QED
      BY <3>1, <3>2, <3>4, <3>5
  <2> QED
    BY <2>1, <2>2
<1> QED
  BY <1>2, PresentationOut

\* What changes when a picture is handed to the queue, or kept from it.
QueueOK ==
  /\ x5' \in Seq(Presentation!Pools) /\ Len(x5') <= PictureCap
  /\ \A i \in DOMAIN x5' : x5'[i] <= x4
  /\ Balanced(x3', Out(x1.pool, x5') + One(x1.pool, x6))
  /\ x3' \in Presentation!DecoderPresentationPool
  /\ x1.pool = 0 => x3'.allocated = 0

\* A picture handed to the queue, of a pool p that has one texture more out
\* when the picture travels in one.
LEMMA PresentationPublish ==
  ASSUME PresentationInv, NEW p \in Presentation!Pools, NEW left, Presentation!Publish(p, left), p <= x4,
         Balanced(left, Out(x1.pool, x5) + One(x1.pool, x6) + One(x1.pool, p)),
         x1.pool = 0 => left.allocated = 0
  PROVE  QueueOK
<1> DEFINE n == Out(x1.pool, x5) + One(x1.pool, x6)
           b == One(x1.pool, p)
<1>1. /\ x5 \in Seq(Presentation!Pools) /\ Len(x5) <= PictureCap /\ PictureCap \in Nat
      /\ x4 \in Nat
      /\ \A i \in DOMAIN x5 : x5[i] <= x4
      /\ Out(x1.pool, x5) \in Nat /\ One(x1.pool, x6) \in 0..1 /\ b \in 0..1
  <2>1. /\ x5 \in Seq(Presentation!Pools) /\ Len(x5) <= PictureCap /\ PictureCap \in Nat
        /\ x4 \in Presentation!Pools
        /\ \A i \in DOMAIN x5 : x5[i] <= x4
    BY ProgressAssumptions DEF PresentationInv, Presentation!TypeOK,
       Presentation!VideoPresentationAssumption
  <2>2. x4 \in Nat
    BY <2>1, ProgressAssumptions DEF Presentation!Pools,
       Presentation!VideoPresentationAssumption
  <2> QED
    BY <2>1, <2>2, PresentationOut
<1>2. n \in Nat /\ n + b \in Nat
  BY <1>1
<1>3. CASE Len(x5) < PictureCap /\ x5' = Append(x5, p) /\ x3' = left
  <2>1. x5' \in Seq(Presentation!Pools) /\ Len(x5') <= PictureCap
                                        /\ \A i \in DOMAIN x5' : x5'[i] <= x4
    BY <1>1, <1>3
  <2>2. Out(x1.pool, x5') = Out(x1.pool, x5) + b
    BY <1>1, <1>3, PresentationOut
  <2>3. Out(x1.pool, x5') + One(x1.pool, x6) = n + b
    BY <1>1, <2>2
  <2>4. Balanced(x3', n + b)
    BY <1>3
  <2>5. x3' \in Presentation!DecoderPresentationPool
    BY <1>2, <2>4, ProgressAssumptions, PresentationBalanced
  <2> QED
    BY <1>3, <2>1, <2>3, <2>4, <2>5 DEF QueueOK
<1>4. CASE x5' = x5 /\ x3' = Presentation!GivenBack(left, <<p>>)
  <2>1. <<p>> \in Seq(Presentation!Pools) /\ <<p>> = Append(<<>>, p)
                                          /\ <<>> \in Seq(Presentation!Pools)
    OBVIOUS
  <2>2. Out(x1.pool, <<p>>) = b
    <3>1. Out(x1.pool, Append(<<>>, p)) = Out(x1.pool, <<>>) + One(x1.pool, p)
      BY <2>1, PresentationOut
    <3>2. Out(x1.pool, <<>>) = 0
      BY PresentationOut
    <3> QED
      BY <1>1, <2>1, <3>1, <3>2
  <2>3. Balanced(x3', n) /\ x3'.allocated = left.allocated
    BY <1>2, <1>4, <2>1, <2>2, PresentationGivenBack
  <2>4. x3' \in Presentation!DecoderPresentationPool
    BY <1>2, <2>3, ProgressAssumptions, PresentationBalanced
  <2> QED
    BY <1>1, <1>4, <2>3, <2>4 DEF QueueOK
<1> QED
  BY <1>3, <1>4 DEF Presentation!Publish

LEMMA PresentationHardware ==
  ASSUME PresentationInv, Presentation!HardwarePicture
  PROVE  QueueOK
<1> DEFINE n == Out(x1.pool, x5) + One(x1.pool, x6)
<1>1. /\ x1.pool \in Presentation!Pools /\ x1.pool <= x4 /\ x4 \in Nat
      /\ 0 \in Presentation!Pools /\ 0 <= x4
      /\ n \in Nat /\ Balanced(x3, n) /\ Textures \in Nat \ {0}
      /\ x5 \in Seq(Presentation!Pools) /\ Len(x5) <= PictureCap
      /\ \A i \in DOMAIN x5 : x5[i] <= x4
  <2>1. /\ x5 \in Seq(Presentation!Pools) /\ Len(x5) <= PictureCap /\ x4 \in Presentation!Pools
        /\ \A i \in DOMAIN x5 : x5[i] <= x4
        /\ x1.pool <= x4 /\ Balanced(x3, n) /\ Textures \in Nat \ {0}
    BY ProgressAssumptions DEF PresentationInv, Presentation!TypeOK,
       Presentation!VideoPresentationAssumption
  <2>2. x1.pool \in Presentation!Pools
    BY DEF PresentationInv, Presentation!TypeOK, Presentation!MfH264Decoder
  <2>3. x4 \in Nat /\ 0 \in Presentation!Pools /\ 0 <= x4
    BY <2>1, ProgressAssumptions DEF Presentation!Pools,
       Presentation!VideoPresentationAssumption
  <2>4. Out(x1.pool, x5) \in Nat /\ One(x1.pool, x6) \in 0..1
    BY <2>1, PresentationOut
  <2> QED
    BY <2>1, <2>2, <2>3, <2>4
<1>2. /\ x3 = [allocated |-> x3.allocated, free |-> x3.free, returned |-> x3.returned]
      /\ x3.allocated \in 0..Textures /\ x3.free \in Nat /\ x3.returned \in Nat
      /\ x3.allocated = x3.free + x3.returned + n
  BY <1>1 DEF Balanced
<1>3. Presentation!Reclaimed
           = [allocated |-> x3.allocated, free |-> x3.free + x3.returned, returned |-> 0]
  <2>1. Presentation!Reclaimed = [x3 EXCEPT !.free = x3.free + x3.returned, !.returned = 0]
    BY DEF Presentation!Reclaimed
  <2> QED
    BY <1>2, <2>1, PresentationPools
<1>4. CASE x1.pool = 0 /\ Presentation!Publish(0, x3)
  <2>1. One(x1.pool, 0) = 0
    BY DEF One
  <2>2. Balanced(x3, n + One(x1.pool, 0)) /\ x3.allocated = 0
    BY <1>1, <1>4, <2>1 DEF PresentationInv
  <2> QED
    BY <1>1, <1>4, <2>2, PresentationPublish
<1>5. CASE x1.pool # 0 /\ x5' = x5 /\ x3' = Presentation!Reclaimed
  <2>1. Balanced(Presentation!Reclaimed, n)
    <3>1. /\ x3.free + x3.returned \in Nat /\ 0 \in Nat
          /\ x3.allocated = (x3.free + x3.returned) + 0 + n
      BY <1>1, <1>2
    <3> QED
      BY <1>2, <1>3, <3>1, PresentationBuilt
  <2>2. x3' \in Presentation!DecoderPresentationPool
    BY <1>1, <1>5, <2>1, ProgressAssumptions, PresentationBalanced
  <2> QED
    BY <1>1, <1>5, <2>1, <2>2 DEF QueueOK
<1>6. CASE x1.pool # 0 /\ ~Presentation!AllHeld
                       /\ Presentation!Publish(x1.pool, Presentation!Taken)
  <2>1. One(x1.pool, x1.pool) = 1
    BY <1>6 DEF One
  <2>2. CASE Presentation!Reclaimed.free > 0
    <3> DEFINE f == x3.free + x3.returned
    <3>1. Presentation!Reclaimed = [allocated |-> x3.allocated, free |-> f, returned |-> 0]
      BY <1>3
    <3>2. f \in Nat /\ x3.allocated = f + n
      BY <1>1, <1>2
    <3> HIDE DEF f
    <3>3. Presentation!Taken = [allocated |-> x3.allocated, free |-> f - 1, returned |-> 0]
      <4>1. Presentation!Taken = [Presentation!Reclaimed EXCEPT !.free
                 = Presentation!Reclaimed.free - 1]
        BY <2>2 DEF Presentation!Taken
      <4>2. Presentation!Reclaimed.free = f
        BY <3>1
      <4> QED
        BY <3>1, <4>1, <4>2, PresentationPools
    <3>4. Balanced(Presentation!Taken, n + 1)
      <4>1. f > 0
        BY <2>2, <3>1
      <4>2. f - 1 \in Nat /\ x3.allocated = (f - 1) + 0 + (n + 1)
        BY <1>1, <3>2, <4>1
      <4> QED
        BY <1>2, <3>3, <4>2, PresentationBuilt
    <3> QED
      BY <1>1, <1>6, <2>1, <3>4, PresentationPublish
  <2>3. CASE ~(Presentation!Reclaimed.free > 0)
    <3>1. x3.free = 0 /\ x3.returned = 0 /\ x3.allocated < Textures
      BY <1>2, <1>3, <1>1, <1>6, <2>3 DEF Presentation!AllHeld
    <3>2. Presentation!Taken = [allocated |-> x3.allocated + 1, free |-> 0, returned |-> 0]
      <4>1. Presentation!Taken = [Presentation!Reclaimed EXCEPT !.allocated = x3.allocated + 1]
        BY <1>3, <2>3 DEF Presentation!Taken
      <4> QED
        <5>1. Presentation!Reclaimed = [allocated |-> x3.allocated, free |-> 0, returned |-> 0]
          BY <1>3, <3>1
        <5> QED
          BY <4>1, <5>1, PresentationPools
    <3>3. x3.allocated + 1 \in 0..Textures /\ x3.allocated + 1 = 0 + 0 + (n + 1)
      BY <1>1, <1>2, <3>1
    <3>4. Balanced(Presentation!Taken, n + 1)
      BY <3>2, <3>3, PresentationBuilt
    <3> QED
      BY <1>1, <1>6, <2>1, <3>4, PresentationPublish
  <2> QED
    BY <2>2, <2>3
<1> QED
  BY <1>4, <1>5, <1>6 DEF Presentation!HardwarePicture

LEMMA PresentationFacts ==
  ASSUME PresentationInv
  PROVE  /\ Presentation!TypeOK /\ x1 \in Presentation!MfH264Decoder
         /\ x1.pool \in Presentation!Pools /\ x1.pool \in Nat
         /\ ErrorFallback \in Nat \ {0} /\ 0 \in 0..ErrorFallback
         /\ x4 \in Nat /\ x4 \in Presentation!Pools /\ 0 \in Presentation!Pools
         /\ x5 \in Seq(Presentation!Pools) /\ Len(x5) <= PictureCap /\ PictureCap \in Nat
         /\ x1.pool <= x4 /\ x6 <= x4 /\ x6 \in Presentation!Pools /\ x6 \in Nat
         /\ \A i \in DOMAIN x5 : x5[i] <= x4 /\ x5[i] \in Nat
         /\ x3 \in Presentation!DecoderPresentationPool
         /\ MaxPools \in Nat /\ MaxSwitches \in Nat /\ MaxFailures \in Nat /\ Textures \in Nat
<1>1. /\ MaxPools \in Nat /\ MaxSwitches \in Nat /\ MaxFailures \in Nat /\ Textures \in Nat
      /\ PictureCap \in Nat /\ ErrorFallback \in Nat \ {0}
  BY ProgressAssumptions DEF Presentation!VideoPresentationAssumption
<1>2. /\ Presentation!TypeOK /\ x1 \in Presentation!MfH264Decoder /\ x4 \in Presentation!Pools
      /\ x6 \in Presentation!Pools
      /\ x5 \in Seq(Presentation!Pools) /\ Len(x5) <= PictureCap
      /\ x3 \in Presentation!DecoderPresentationPool
      /\ x1.pool <= x4 /\ x6 <= x4
      /\ \A i \in DOMAIN x5 : x5[i] <= x4
  BY DEF PresentationInv, Presentation!TypeOK
<1>3. x1.pool \in Presentation!Pools
  BY <1>2 DEF Presentation!MfH264Decoder
<1>4. \A i \in DOMAIN x5 : x5[i] \in Presentation!Pools
  BY <1>2
<1> QED
  BY <1>1, <1>2, <1>3, <1>4 DEF Presentation!Pools

LEMMA PresentationMade ==
  ASSUME 0 \in Presentation!Pools, 0 \in 0..ErrorFallback, NEW d \in Presentation!MakeDecoder
  PROVE  d \in Presentation!MfH264Decoder /\ d.pool = 0
<1>1. Presentation!Software \in Presentation!MfH264Decoder /\ Presentation!Software.pool = 0
  BY DEF Presentation!Software, Presentation!MfH264Decoder
<1>2. \A m \in Presentation!MfH264Decoder, b \in BOOLEAN :
        /\ [m EXCEPT !.kind = "hardware"] \in Presentation!MfH264Decoder
        /\ [m EXCEPT !.kind = "hardware"].pool = m.pool
        /\ [m EXCEPT !.device = b] \in Presentation!MfH264Decoder
        /\ [m EXCEPT !.device = b].pool = m.pool
        /\ [m EXCEPT !.configured = b] \in Presentation!MfH264Decoder
        /\ [m EXCEPT !.configured = b].pool = m.pool
  BY DEF Presentation!MfH264Decoder
<1>3. ASSUME NEW b \in BOOLEAN
      PROVE  /\ [Presentation!Software EXCEPT !.kind = "hardware", !.device = b, !.configured
                  = FALSE] \in Presentation!MfH264Decoder
             /\ [Presentation!Software EXCEPT !.kind = "hardware", !.device = b, !.configured
                  = FALSE].pool = 0
  <2> DEFINE m == [Presentation!Software EXCEPT !.kind = "hardware"]
             n == [m EXCEPT !.device = b]
  <2>1. m \in Presentation!MfH264Decoder /\ m.pool = 0
    BY <1>1, <1>2
  <2>2. n \in Presentation!MfH264Decoder /\ n.pool = 0
    <3> HIDE DEF m
    <3> QED
      BY <1>2, <2>1
  <2>3. [n EXCEPT !.configured = FALSE] \in Presentation!MfH264Decoder
             /\ [n EXCEPT !.configured = FALSE].pool = 0
    <3> HIDE DEF n
    <3> QED
      BY <1>2, <2>2
  <2> QED
    BY <2>3
<1> QED
  BY <1>1, <1>3 DEF Presentation!MakeDecoder

\* The counts of the next state.
PoolOK ==
  /\ Balanced(x3', Out(x1'.pool, x5') + One(x1'.pool, x6'))
  /\ x3' \in Presentation!DecoderPresentationPool
  /\ x1'.pool = 0 => x3'.allocated = 0

\* A pool that has just been made has no texture anywhere.
LEMMA PresentationNew ==
  ASSUME PresentationInv, x3' = Presentation!NewPool, x5' = x5, x6' = x6,
         x1'.pool = 0 \/ x1'.pool = x4 + 1
  PROVE  PoolOK
<1>1. x4 \in Nat /\ Textures \in Nat /\ x5 \in Seq(Presentation!Pools) /\ x6 <= x4 /\ x6 \in Nat
      /\ \A i \in DOMAIN x5 : x5[i] <= x4 /\ x5[i] \in Nat
  BY PresentationFacts
<1>2. Out(x1'.pool, x5) = 0
  <2>1. CASE x1'.pool = 0
    BY <2>1 DEF Out
  <2>2. CASE x1'.pool = x4 + 1
    <3>1. Positions(x5, x4 + 1) = {}
      BY <1>1 DEF Positions
    <3> QED
      BY <1>1, <2>2, <3>1, FS_EmptySet DEF Out, Count
  <2> QED
    BY <2>1, <2>2
<1>3. One(x1'.pool, x6) = 0
  BY <1>1 DEF One
<1>4. Balanced(Presentation!NewPool, 0)
  <2>1. 0 \in 0..Textures /\ 0 \in Nat /\ 0 = 0 + 0 + 0
    BY <1>1
  <2> QED
    BY <2>1, PresentationBuilt DEF Presentation!NewPool
<1>5. Presentation!NewPool \in Presentation!DecoderPresentationPool
           /\ Presentation!NewPool.allocated = 0
  BY <1>1 DEF Presentation!NewPool, Presentation!DecoderPresentationPool
<1> QED
  BY <1>2, <1>3, <1>4, <1>5 DEF PoolOK

LEMMA PresentationInit == Presentation!Init => PresentationInv
<1> SUFFICES ASSUME Presentation!Init PROVE PresentationInv
  OBVIOUS
<1>1. /\ MaxPools \in Nat /\ MaxSwitches \in Nat /\ MaxFailures \in Nat /\ Textures \in Nat
      /\ PictureCap \in Nat /\ ErrorFallback \in Nat \ {0} /\ 0 \in Presentation!Pools
      /\ 0 \in 0..ErrorFallback
  BY ProgressAssumptions DEF Presentation!VideoPresentationAssumption, Presentation!Pools
<1>2. x1 \in Presentation!MfH264Decoder /\ x1.pool = 0
  BY <1>1, PresentationMade DEF Presentation!Init
<1>3. Balanced(x3, Out(x1.pool, x5) + One(x1.pool, x6))
  <2>1. Out(x1.pool, x5) + One(x1.pool, x6) = 0
    BY <1>2, PresentationOut DEF Presentation!Init, Out, One
  <2>2. 0 \in 0..Textures /\ 0 \in Nat /\ 0 = 0 + 0 + 0
    BY <1>1
  <2> QED
    BY <2>1, <2>2, PresentationBuilt DEF Presentation!Init, Presentation!NoPool,
       Presentation!NewPool
<1>4. x3 \in Presentation!DecoderPresentationPool /\ x3.allocated = 0
  BY <1>1 DEF Presentation!Init, Presentation!NoPool, Presentation!NewPool,
     Presentation!DecoderPresentationPool
<1>5. {x7, x8} \subseteq BOOLEAN
  BY DEF Presentation!Init
<1>6. /\ x5 \in Seq(Presentation!Pools) /\ Len(x5) <= PictureCap
      /\ (\A i \in DOMAIN x5 : x5[i] <= x4)
      /\ x4 = 0 /\ x6 = 0 /\ x2 \in Presentation!Mood
  BY <1>1 DEF Presentation!Init
<1>7. x9 \in [visible : BOOLEAN, failed : BOOLEAN] /\ x10 \in [shown : BOOLEAN, covered : BOOLEAN]
  BY DEF Presentation!Init
<1> QED
  BY <1>1, <1>2, <1>3, <1>4, <1>5, <1>6, <1>7 DEF PresentationInv, Presentation!TypeOK

LEMMA PresentationDecodes ==
  ASSUME PresentationInv, NEW key, Presentation!DecodePacket(key)
  PROVE  PresentationInv'
<1>0. /\ x1 \in Presentation!MfH264Decoder /\ ErrorFallback \in Nat \ {0}
      /\ 0 \in 0..ErrorFallback
      /\ x4 \in Nat /\ 0 \in Presentation!Pools /\ x1.pool \in Presentation!Pools
      /\ Presentation!TypeOK
      /\ x1.pool <= x4 /\ 0 <= x4 /\ x5 \in Seq(Presentation!Pools) /\ x6 \in Presentation!Pools
  BY PresentationFacts
<1>1. UNCHANGED <<x2, x4, x6, x7, x8, x9, x10>>
  BY DEF Presentation!DecodePacket
<1>o. Out(x1.pool, x5) \in Nat /\ One(x1.pool, x6) \in 0..1
      /\ One(x1.pool, 0) = 0
  BY <1>0, PresentationOut DEF One
<1>b. Balanced(x3, Out(x1.pool, x5) + One(x1.pool, x6))
      /\ (x1.pool = 0 => x3.allocated = 0)
  BY DEF PresentationInv
<1>s. x5' = x5 /\ x3' = x3 => QueueOK
  BY DEF PresentationInv, Presentation!TypeOK, QueueOK
<1>2. ASSUME x1' \in Presentation!MfH264Decoder, x1'.pool = x1.pool, QueueOK
      PROVE  PresentationInv'
  BY <1>1, <1>2 DEF PresentationInv, Presentation!TypeOK, QueueOK, Presentation!Mood
<1>3. \A e \in 0..ErrorFallback :
        /\ [x1 EXCEPT !.errors = e] \in Presentation!MfH264Decoder
        /\ [x1 EXCEPT !.errors = e].pool = x1.pool
  BY <1>0 DEF Presentation!MfH264Decoder
<1>4. CASE /\ x1' = [x1 EXCEPT !.waiting = FALSE, !.errors = 0]
           /\ Presentation!Publish(0, x3)
  <2>1. x1' \in Presentation!MfH264Decoder /\ x1'.pool = x1.pool
    BY <1>0, <1>4 DEF Presentation!MfH264Decoder
  <2>2. Out(x1.pool, x5) + One(x1.pool, x6) + One(x1.pool, 0)
          = Out(x1.pool, x5) + One(x1.pool, x6)
    BY <1>o
  <2>3. QueueOK
    BY <1>0, <1>b, <1>4, <2>2, PresentationPublish
  <2> QED
    BY <1>2, <2>1, <2>3
<1>5. CASE x1' = [x1 EXCEPT !.errors = 0] /\ Presentation!HardwarePicture
  BY <1>0, <1>2, <1>3, <1>5, PresentationHardware
<1>6. CASE x1' = [x1 EXCEPT !.errors = 0] /\ UNCHANGED <<x5, x3>>
  BY <1>0, <1>2, <1>3, <1>6, <1>s
<1>7. CASE /\ x1.errors + 1 < ErrorFallback
           /\ x1' = [x1 EXCEPT !.errors = @ + 1] /\ UNCHANGED <<x5, x3>>
  <2>1. x1.errors + 1 \in 0..ErrorFallback
    BY <1>0, <1>7 DEF Presentation!MfH264Decoder
  <2> QED
    BY <1>2, <1>3, <1>7, <1>s, <2>1
<1>8. CASE x1' = [Presentation!Software EXCEPT !.waiting = TRUE] /\ x3' = Presentation!NoPool
                                                                 /\ UNCHANGED x5
  <2>1. x1' \in Presentation!MfH264Decoder /\ x1'.pool = 0
    BY <1>0, <1>8 DEF Presentation!Software, Presentation!MfH264Decoder
  <2>2. PoolOK
    BY <1>1, <1>8, <2>1, PresentationNew DEF Presentation!NoPool
  <2> QED
    BY <1>0, <1>1, <1>8, <2>1, <2>2 DEF PresentationInv, Presentation!TypeOK, PoolOK,
       Presentation!Mood
<1> QED
  BY <1>4, <1>5, <1>6, <1>7, <1>8 DEF Presentation!DecodePacket

LEMMA PresentationStep ==
  PresentationInv /\ [Presentation!Next]_(Presentation!presentationVars) => PresentationInv'
<1> SUFFICES ASSUME PresentationInv, [Presentation!Next]_(Presentation!presentationVars)
             PROVE PresentationInv'
  OBVIOUS
<1>0. /\ Presentation!TypeOK /\ x1 \in Presentation!MfH264Decoder
      /\ x1.pool \in Presentation!Pools /\ x1.pool \in Nat
      /\ ErrorFallback \in Nat \ {0} /\ 0 \in 0..ErrorFallback
      /\ x4 \in Nat /\ x4 \in Presentation!Pools /\ 0 \in Presentation!Pools
      /\ x5 \in Seq(Presentation!Pools) /\ Len(x5) <= PictureCap /\ PictureCap \in Nat
      /\ x1.pool <= x4 /\ x6 <= x4 /\ x6 \in Presentation!Pools /\ x6 \in Nat
      /\ \A i \in DOMAIN x5 : x5[i] <= x4 /\ x5[i] \in Nat
      /\ x3 \in Presentation!DecoderPresentationPool
      /\ MaxPools \in Nat
  BY PresentationFacts
<1> DEFINE dp == x1.pool
<1>n. /\ Out(x1.pool, x5) \in Nat /\ One(x1.pool, x6) \in Nat
      /\ Balanced(x3, Out(x1.pool, x5) + One(x1.pool, x6))
  <2>1. Balanced(x3, Out(x1.pool, x5) + One(x1.pool, x6))
    BY DEF PresentationInv
  <2>2. One(x1.pool, x6) \in 0..1
    BY PresentationOut
  <2>3. Out(x1.pool, x5) \in Nat
    BY <1>0, PresentationOut
  <2> QED
    BY <2>1, <2>2, <2>3
<1>1. CASE Presentation!Restart
  <2>1. x1' \in Presentation!MfH264Decoder /\ x1'.pool = 0
    BY <1>0, <1>1, PresentationMade DEF Presentation!Restart
  <2>2. PoolOK
    BY <1>1, <2>1, PresentationNew DEF Presentation!Restart, Presentation!NoPool
  <2> QED
    BY <1>0, <1>1, <2>1, <2>2 DEF Presentation!Restart, PresentationInv, Presentation!TypeOK,
       PoolOK, Presentation!Mood
<1>2. CASE Presentation!Renegotiate
  <2>1. x4' = x4 + 1 /\ x4' \in Presentation!Pools /\ x4' \in Nat
    BY <1>0, <1>2 DEF Presentation!Renegotiate, Presentation!Pools
  <2>2. \A v \in Presentation!Pools : /\ [x1 EXCEPT !.pool = v, !.errors = 0, !.configured = TRUE] \in Presentation!MfH264Decoder
                                      /\ [x1 EXCEPT !.pool = v, !.errors = 0, !.configured
                                           = TRUE].pool = v
    BY <1>0 DEF Presentation!MfH264Decoder
  <2>3. x1' \in Presentation!MfH264Decoder /\ (x1'.pool = 0 \/ x1'.pool = x4 + 1)
    <3>1. (IF x1.device THEN x4 + 1 ELSE 0) \in Presentation!Pools
      BY <1>0, <2>1
    <3> QED
      BY <1>2, <2>2, <3>1 DEF Presentation!Renegotiate
  <2>4. PoolOK
    BY <1>2, <2>3, PresentationNew DEF Presentation!Renegotiate
  <2>5. x1'.pool <= x4' /\ x6' <= x4' /\ \A i \in DOMAIN x5' : x5'[i] <= x4'
    BY <1>0, <1>2, <2>1, <2>3 DEF Presentation!Renegotiate
  <2> QED
    BY <1>0, <1>2, <2>1, <2>3, <2>4, <2>5 DEF Presentation!Renegotiate, PresentationInv,
       Presentation!TypeOK, PoolOK, Presentation!Mood
<1>3. ASSUME NEW key \in BOOLEAN, Presentation!DecodePacket(key) PROVE PresentationInv'
  BY <1>3, PresentationDecodes
<1>4. CASE Presentation!HandoffFails
  <2>1. x1' \in Presentation!MfH264Decoder /\ x1'.pool = 0
    BY <1>0, <1>4 DEF Presentation!HandoffFails, Presentation!MfH264Decoder
  <2>2. x3' = Presentation!NewPool
    <3>1. {i \in DOMAIN <<0>> : <<0>>[i] = x1.pool /\ <<0>>[i] # 0} = {}
      OBVIOUS
    <3>2. Presentation!GivenBack(Presentation!NoPool, <<0>>)
               = [Presentation!NoPool EXCEPT !.returned = Presentation!NoPool.returned + 0]
      BY <3>1, FS_EmptySet, Sizes DEF Presentation!GivenBack
    <3>3. [Presentation!NoPool EXCEPT !.returned = Presentation!NoPool.returned + 0]
               = Presentation!NewPool
      BY DEF Presentation!NoPool, Presentation!NewPool
    <3> QED
      BY <1>4, <3>2, <3>3 DEF Presentation!HandoffFails, Presentation!Publish,
         Presentation!NoPool
  <2>3. x5' \in Seq(Presentation!Pools) /\ Len(x5') <= PictureCap
                                        /\ \A i \in DOMAIN x5' : x5'[i] <= x4
    <3>1. x5' = x5 \/ (Len(x5) < PictureCap /\ x5' = Append(x5, 0))
      BY <1>4 DEF Presentation!HandoffFails, Presentation!Publish
    <3>2. CASE x5' = x5
      BY <1>0, <3>2
    <3>3. CASE Len(x5) < PictureCap /\ x5' = Append(x5, 0)
      <4>1. 0 <= x4
        BY <1>0
      <4> QED
        BY <1>0, <3>3, <4>1
    <3> QED
      BY <3>1, <3>2, <3>3
  <2>4. /\ Balanced(x3', Out(x1'.pool, x5') + One(x1'.pool, x6))
        /\ x3' \in Presentation!DecoderPresentationPool /\ x3'.allocated = 0
    <3>1. Out(x1'.pool, x5') + One(x1'.pool, x6) = 0
      BY <2>1 DEF Out, One
    <3>2. Textures \in Nat
      BY PresentationFacts
    <3>3. 0 \in 0..Textures /\ 0 \in Nat /\ 0 = 0 + 0 + 0
      BY <3>2
    <3>4. Balanced(Presentation!NewPool, 0)
      BY <3>3, PresentationBuilt DEF Presentation!NewPool
    <3>5. Presentation!NewPool \in Presentation!DecoderPresentationPool
               /\ Presentation!NewPool.allocated = 0
      BY <3>3 DEF Presentation!NewPool, Presentation!DecoderPresentationPool
    <3> QED
      BY <2>2, <3>1, <3>4, <3>5
  <2> QED
    BY <1>0, <1>4, <2>1, <2>3, <2>4 DEF Presentation!HandoffFails, PresentationInv,
       Presentation!TypeOK, Presentation!Mood
<1>5. CASE Presentation!MoodChanges
  BY <1>0, <1>5 DEF Presentation!MoodChanges, PresentationInv, Presentation!TypeOK,
     Presentation!Mood
<1>6. CASE Presentation!Repaint
  <2>1. Presentation!Shows \/ Presentation!Later => {x7', x8'} \subseteq BOOLEAN
    <3>1. x8 \in BOOLEAN
      BY <1>0 DEF Presentation!TypeOK
    <3> QED
      BY <3>1, Zenon DEF Presentation!Shows, Presentation!Later
  <2>2. UNCHANGED <<x1, x2, x4, x10>> /\ x5' = <<>>
    BY <1>6 DEF Presentation!Repaint
  <2>3. /\ \/ x6' = Presentation!Newest /\ x3' = Presentation!GivenBack(x3, Presentation!Dropped)
           \/ x6' = 0 /\ x3'
                = Presentation!GivenBack(x3, Append(Presentation!Dropped, Presentation!Newest))
        /\ x9' \in {Presentation!Hidden, [Presentation!Hidden EXCEPT !.failed
             = TRUE], [x9 EXCEPT !.visible = TRUE]}
        /\ Presentation!Shows \/ Presentation!Later
    <3>1. CASE Presentation!Newest = 0
                    /\ Presentation!PaintMemory(Presentation!GivenBack(x3, Presentation!Dropped))
      BY <3>1 DEF Presentation!PaintMemory
    <3>2. CASE Presentation!PaintCovered
      BY <3>2 DEF Presentation!PaintCovered, Presentation!PaintMemory
    <3>3. CASE Presentation!Present
      BY <3>3 DEF Presentation!Present, Presentation!Blit
    <3>4. CASE Presentation!PresenterFails
      BY <3>4 DEF Presentation!PresenterFails
    <3> QED
      BY <1>6, <3>1, <3>2, <3>3, <3>4 DEF Presentation!Repaint, Presentation!PaintNative
  <2>4. x9' \in [visible : BOOLEAN, failed : BOOLEAN]
    <3>1. x9 \in [visible : BOOLEAN, failed : BOOLEAN]
      BY <1>0 DEF Presentation!TypeOK
    <3>2. Presentation!Hidden \in [visible : BOOLEAN, failed : BOOLEAN]
      BY <3>1 DEF Presentation!Hidden
    <3> HIDE DEF Presentation!Hidden
    <3> QED
      BY <2>3, <3>1, <3>2
  <2>5. /\ x6' \in Presentation!Pools /\ x6' <= x4
        /\ Balanced(x3', One(x1.pool, x6')) /\ x3'.allocated = x3.allocated
        /\ One(x1.pool, x6') \in Nat
    <3> DEFINE n == Out(x1.pool, x5) + One(x1.pool, x6)
               m == One(x1.pool, Presentation!Newest)
    <3>1. /\ Presentation!Newest \in Presentation!Pools
          /\ Presentation!Dropped \in Seq(Presentation!Pools)
          /\ Out(x1.pool, Presentation!Dropped) + m = n
          /\ Append(Presentation!Dropped, Presentation!Newest) \in Seq(Presentation!Pools)
          /\ Out(x1.pool, Append(Presentation!Dropped, Presentation!Newest)) = n
      BY <1>0, PresentationDropped
    <3>2. Presentation!Newest <= x4
      <4>1. Presentation!Newest = x6 \/ \E i \in DOMAIN x5 : Presentation!Newest = x5[i]
        BY <1>0, PresentationDropped
      <4> QED
        BY <1>0, <4>1
    <3>3. /\ n \in Nat /\ Balanced(x3, n) /\ m \in Nat
          /\ Out(x1.pool, Presentation!Dropped) \in Nat
          /\ One(x1.pool, 0) = 0
      <4>1. m \in 0..1 /\ Out(x1.pool, Presentation!Dropped) \in Nat
        BY <3>1, PresentationOut
      <4>2. One(x1.pool, 0) = 0
        BY DEF One
      <4> QED
        BY <1>n, <4>1, <4>2
    <3> HIDE DEF n, m
    <3>4. CASE x6' = Presentation!Newest /\ x3' = Presentation!GivenBack(x3, Presentation!Dropped)
      <4>1. n = m + Out(x1.pool, Presentation!Dropped)
        BY <3>1, <3>3
      <4>2. Balanced(x3', m) /\ x3'.allocated = x3.allocated
        BY <3>1, <3>3, <3>4, <4>1, PresentationGivenBack
      <4> QED
        BY <3>1, <3>2, <3>3, <3>4, <4>2 DEF m
    <3>5. CASE x6' = 0 /\ x3' = Presentation!GivenBack(x3, Append(Presentation!Dropped, Presentation!Newest))
      <4>1. n = 0 + Out(x1.pool, Append(Presentation!Dropped, Presentation!Newest))
        BY <3>1, <3>3
      <4>2. Balanced(x3', 0) /\ x3'.allocated = x3.allocated
        BY <3>1, <3>3, <3>5, <4>1, PresentationGivenBack
      <4> QED
        BY <1>0, <3>3, <3>5, <4>2
    <3> QED
      BY <2>3, <3>4, <3>5
  <2>6. x3' \in Presentation!DecoderPresentationPool
    BY <2>5, ProgressAssumptions, PresentationBalanced
  <2>7. Out(x1.pool, x5') + One(x1.pool, x6') = One(x1.pool, x6')
    BY <2>2, <2>5, PresentationOut
  <2>8. x5' \in Seq(Presentation!Pools) /\ Len(x5') <= PictureCap
                                        /\ \A i \in DOMAIN x5' : x5'[i] <= x4
    BY <1>0, <2>2
  <2> QED
    BY <1>0, <2>1, <2>2, <2>3, <2>4, <2>5, <2>6, <2>7, <2>8 DEF PresentationInv,
       Presentation!TypeOK, Presentation!Mood
<1>7. CASE Presentation!HideWindow
  <2>1. /\ Balanced(x3', One(x1.pool, x6)) /\ x3'.allocated = x3.allocated
        /\ x5' = <<>>
    <3>1. Out(x1.pool, x5) + One(x1.pool, x6) =
             One(x1.pool, x6) + Out(x1.pool, x5)
      BY <1>n
    <3> QED
      BY <1>0, <1>7, <1>n, <3>1, PresentationGivenBack DEF Presentation!HideWindow
  <2>2. x3' \in Presentation!DecoderPresentationPool
    BY <1>n, <2>1, ProgressAssumptions, PresentationBalanced
  <2>3. Out(x1.pool, x5') + One(x1.pool, x6) = One(x1.pool, x6)
    BY <1>n, <2>1, PresentationOut
  <2>4. x10' \in [shown : BOOLEAN, covered : BOOLEAN]
    BY <1>0, <1>7 DEF Presentation!HideWindow, Presentation!TypeOK
  <2> QED
    BY <1>0, <1>7, <2>1, <2>2, <2>3, <2>4 DEF Presentation!HideWindow, PresentationInv,
       Presentation!TypeOK, Presentation!Mood
<1>8. CASE Presentation!ShowWindow \/ Presentation!Cover
  <2>1. x10' \in [shown : BOOLEAN, covered : BOOLEAN]
    <3>1. x10 \in [shown : BOOLEAN, covered : BOOLEAN]
      BY <1>0 DEF Presentation!TypeOK
    <3>2. CASE Presentation!ShowWindow
      BY <3>1, <3>2 DEF Presentation!ShowWindow
    <3>3. CASE Presentation!Cover
      <4>1. x10' = [x10 EXCEPT !.covered = ~@]
        BY <3>3 DEF Presentation!Cover
      <4> QED
        BY <3>1, <4>1, Zenon
    <3> QED
      BY <1>8, <3>2, <3>3
  <2> QED
    BY <1>8, <2>1 DEF Presentation!ShowWindow, Presentation!Cover, PresentationInv,
       Presentation!TypeOK, Presentation!Mood
<1>9. CASE UNCHANGED Presentation!presentationVars
  BY <1>9 DEF Presentation!presentationVars, PresentationInv, Presentation!TypeOK,
     Presentation!Mood
<1> QED
  BY <1>1, <1>2, <1>3, <1>4, <1>5, <1>6, <1>7, <1>8, <1>9 DEF Presentation!Next

-----------------------------------------------------------------------------
(*************************************************************************)
(* Presenter, for whose variables the following stand: x1 process, x2    *)
(* request, x3 visible, x4 hidden, x5 onScreen, x6 posted, x7 active, x8 *)
(* toTray, x9 quitting, x10 closing, x11 clicks, x12 redraw, x13 gui,    *)
(* x14 retained, x15 queue, x16 publisher, x17 fact, x18 view, x19       *)
(* plays, x20 kept, x21 watcher, x22 launches, x23 choices.  The events  *)
(* that wait are bounded by the capacity; what is sent of them is        *)
(* defined by a recursion over the queue.                                *)
(*************************************************************************)

LEMMA PresenterConstants ==
  Capacity \in Nat /\ Capacity > 0 /\ MaxFacts \in Nat /\ MaxLaunches \in Nat /\ MaxSwitches \in Nat
BY ProgressAssumptions DEF Host!PresenterAssumption

\* The state events of a queue are numbers of state events.
LEMMA PresenterEvents ==
  ASSUME NEW q \in Seq(Host!Fact \cup {Host!Frame})
  PROVE  Host!StateEvents(q) \in Seq(Host!Fact)
<1> DEFINE W == Seq(Host!Fact)
           more(i, v) == IF q[i] = Host!Frame THEN v ELSE Append(v, q[i])
           upTo == CHOOSE f : f = [i \in 0..Len(q) |->
                     IF i = 0 THEN <<>>
                     ELSE IF q[i] = Host!Frame THEN f[i - 1] ELSE Append(f[i - 1], q[i])]
           step == [i \in 1..Len(q) |-> [v \in W |-> more(i, v)]]
<1>1. Host!StateEvents(q) = upTo[Len(q)]
  BY DEF Host!StateEvents
<1>0. \A i \in 1..Len(q) : \A v \in W : more(i, v) \in W
  <2> TAKE i \in 1..Len(q)
  <2> TAKE v \in W
  <2>1. q[i] \in Host!Fact \cup {Host!Frame} /\ v \in Seq(Host!Fact)
    OBVIOUS
  <2>2. CASE q[i] = Host!Frame
    BY <2>1, <2>2
  <2>3. CASE q[i] # Host!Frame
    <3> DEFINE e == q[i]
    <3>1. e \in Host!Fact /\ v \in Seq(Host!Fact) /\ more(i, v) = Append(v, e)
      BY <2>1, <2>3
    <3> HIDE DEF e, more
    <3>2. Append(v, e) \in Seq(Host!Fact)
      BY <3>1
    <3> QED
      BY <3>1, <3>2
  <2> QED
    BY <2>2, <2>3
<1> HIDE DEF more
<1>2. step \in [1..Len(q) -> [W -> W]]
  <2> HIDE DEF W
  <2> QED
    BY <1>0
<1>3. <<>> \in W /\ Len(q) \in Nat
  OBVIOUS
<1>4. PICK f : Iterates(f, Len(q), W, <<>>, step)
  <2> HIDE DEF W, step
  <2> QED
    BY <1>2, <1>3, Recursion
<1>5. f = [i \in 0..Len(q) |->
             IF i = 0 THEN <<>>
             ELSE IF q[i] = Host!Frame THEN f[i - 1] ELSE Append(f[i - 1], q[i])]
  <2> HIDE DEF W
  <2>1. f \in [0..Len(q) -> W] /\ f[0] = <<>> /\ \A i \in 1..Len(q) : f[i] = step[i][f[i - 1]]
    BY <1>4 DEF Iterates
  <2>2. ASSUME NEW i \in 1..Len(q) PROVE f[i] = more(i, f[i - 1])
    <3>1. i - 1 \in 0..Len(q)
      BY <1>3
    <3>2. f[i - 1] \in W
      BY <2>1, <3>1
    <3>3. step[i][f[i - 1]] = more(i, f[i - 1])
      BY <3>2
    <3> QED
      BY <2>1, <3>3
  <2>3. \A i \in 0..Len(q) : f[i] = IF i = 0 THEN <<>>
             ELSE IF q[i] = Host!Frame THEN f[i - 1] ELSE Append(f[i - 1], q[i])
    <3> TAKE i \in 0..Len(q)
    <3>1. CASE i = 0
      BY <2>1, <3>1
    <3>2. CASE i # 0
      <4>1. i \in 1..Len(q)
        BY <1>3, <3>2
      <4> QED
        BY <2>2, <3>2, <4>1 DEF more
    <3> QED
      BY <3>1, <3>2
  <2> HIDE DEF step
  <2> QED
    BY <2>1, <2>3
<1>6. upTo = [i \in 0..Len(q) |->
                IF i = 0 THEN <<>>
                ELSE IF q[i] = Host!Frame THEN upTo[i - 1] ELSE Append(upTo[i - 1], q[i])]
  BY <1>5
<1> HIDE DEF upTo, W
<1>7. ASSUME NEW i \in 1..Len(q), upTo[i - 1] \in W PROVE upTo[i] \in W
  <2>1. i \in 0..Len(q) /\ i # 0
    BY <1>3
  <2>2. upTo[i] = more(i, upTo[i - 1])
    BY <1>6, <2>1 DEF more
  <2> QED
    BY <1>0, <1>7, <2>2
<1>8. upTo[0] = <<>>
  BY <1>3, <1>6
<1> DEFINE T == {i \in 0..Len(q) : upTo[i] \in W}
<1>9. 0..Len(q) \subseteq T
  <2>1. 0 \in T /\ \A i \in 1..Len(q) : i - 1 \in T => i \in T
    BY <1>3, <1>7, <1>8
  <2> HIDE DEF T
  <2> QED
    BY <1>3, <2>1, UpTo
<1> QED
  BY <1>1, <1>3, <1>9 DEF W

PresenterFlags ==
  /\ x2 \in BOOLEAN /\ x3 \in BOOLEAN /\ x4 \in BOOLEAN /\ x5 \in BOOLEAN
  /\ x6 \in BOOLEAN /\ x7 \in BOOLEAN /\ x8 \in BOOLEAN /\ x9 \in BOOLEAN
  /\ x10 \in BOOLEAN /\ x12 \in BOOLEAN /\ x19 \in BOOLEAN /\ x20 \in BOOLEAN

PresenterData ==
  /\ x1 \in {"gone", "running", "stopping"}
  /\ x11 \in Seq(Host!TrayAction)
  /\ x13 \in {"idle", "tray", "trayShow", "activation", "show", "close", "events"}
  /\ x14 \in Seq(Host!Fact)
  /\ x15 \in Seq(Host!Fact \cup {Host!Frame}) /\ Len(x15) <= Capacity
  /\ x16 \in [pc : {"idle", "send", "wake"}, event : Host!Fact \cup {Host!Frame}, wakes : BOOLEAN]
  /\ x17 \in 0..MaxFacts /\ x18 \in 0..MaxFacts
  /\ x21 \in {"asleep", "seen"}
  /\ x22 \in 0..MaxLaunches /\ x23 \in 0..MaxSwitches

PresenterInv == PresenterFlags /\ PresenterData

LEMMA PresenterTyped == PresenterInv => Host!TypeOK
<1> SUFFICES ASSUME PresenterInv PROVE Host!TypeOK
  OBVIOUS
<1>1. {x2, x3, x4, x5, x6, x7, x8,
        x9, x10, x12, x19, x20} \subseteq BOOLEAN
  BY DEF PresenterInv, PresenterFlags
<1>2. {x17, x18} \subseteq 0..MaxFacts
  BY DEF PresenterInv, PresenterData
<1> QED
  BY <1>1, <1>2 DEF PresenterInv, PresenterData, Host!TypeOK

LEMMA PresenterIdle ==
  Host!Idle \in [pc : {"idle", "send", "wake"}, event : Host!Fact \cup {Host!Frame}, wakes : BOOLEAN]
BY DEF Host!Idle

LEMMA PresenterSent ==
  ASSUME x15 \in Seq(Host!Fact \cup {Host!Frame}), Len(x15) <= Capacity, NEW e
       \in Host!Fact \cup {Host!Frame}
  PROVE  Host!Sent(e) \in Seq(Host!Fact \cup {Host!Frame}) /\ Len(Host!Sent(e)) <= Capacity
<1> DEFINE E == Host!Fact \cup {Host!Frame}
<1>1. x15 \in Seq(E) /\ e \in E /\ Capacity \in Nat
  BY PresenterConstants
<1> HIDE DEF E
<1>2. Append(x15, e) \in Seq(E) /\ Len(Append(x15, e)) = Len(x15) + 1 /\ Len(x15) \in Nat
  BY <1>1
<1> QED
  BY <1>1, <1>2 DEF Host!Sent, E

LEMMA PresenterInit == Host!Init => PresenterInv
<1> SUFFICES ASSUME Host!Init PROVE PresenterInv
  OBVIOUS
<1>1. /\ x17 \in 0..MaxFacts /\ x18 \in 0..MaxFacts /\ x22 \in 0..MaxLaunches
      /\ x23 \in 0..MaxSwitches
  BY PresenterConstants DEF Host!Init
<1>2. /\ x11 \in Seq(Host!TrayAction) /\ x14 \in Seq(Host!Fact)
      /\ x15 \in Seq(Host!Fact \cup {Host!Frame}) /\ Len(x15) <= Capacity
  BY PresenterConstants DEF Host!Init
<1> QED
  BY <1>1, <1>2, PresenterIdle DEF Host!Init, PresenterInv, PresenterFlags, PresenterData

LEMMA PresenterStep == PresenterInv /\ [Host!Next]_(Host!presenterVars) => PresenterInv'
<1> SUFFICES ASSUME PresenterInv, [Host!Next]_(Host!presenterVars) PROVE PresenterInv'
  OBVIOUS
<1>b. /\ x2 \in BOOLEAN /\ x3 \in BOOLEAN /\ x4 \in BOOLEAN /\ x5 \in BOOLEAN
      /\ x6 \in BOOLEAN /\ x7 \in BOOLEAN /\ x8 \in BOOLEAN /\ x9 \in BOOLEAN
      /\ x10 \in BOOLEAN /\ x12 \in BOOLEAN /\ x19 \in BOOLEAN /\ x20 \in BOOLEAN
  BY DEF PresenterInv, PresenterFlags, PresenterData
<1>q. /\ x11 \in Seq(Host!TrayAction) /\ x14 \in Seq(Host!Fact)
      /\ x15 \in Seq(Host!Fact \cup {Host!Frame}) /\ Len(x15) <= Capacity
      /\ x16 \in [pc : {"idle", "send", "wake"}, event : Host!Fact \cup {Host!Frame}, wakes : BOOLEAN]
      /\ x17 \in 0..MaxFacts /\ x18 \in 0..MaxFacts
  BY DEF PresenterInv, PresenterFlags, PresenterData
<1>n. x22 \in 0..MaxLaunches /\ x23 \in 0..MaxSwitches
  BY DEF PresenterInv, PresenterFlags, PresenterData
<1>c. x23 < MaxSwitches => x23 + 1 \in 0..MaxSwitches
  BY <1>n, PresenterConstants
<1>l. x22 < MaxLaunches => x22 + 1 \in 0..MaxLaunches
  BY <1>n, PresenterConstants
<1>e. <<>> \in Seq(Host!Fact \cup {Host!Frame}) /\ Len(<<>>) <= Capacity
                                                /\ <<>> \in Seq(Host!Fact)
                                                /\ <<>> \in Seq(Host!TrayAction)
  BY PresenterConstants
<1> USE DEF Host!windowVars, Host!eventVars, Host!hostVars
<1>1. CASE Host!WatcherLooks
  <2>1. PresenterFlags'
    BY <1>b, <1>1 DEF Host!WatcherLooks, PresenterFlags
  <2>2. PresenterData'
    BY <1>1 DEF Host!WatcherLooks, PresenterInv, PresenterData
  <2> QED
    BY <2>1, <2>2 DEF PresenterInv
<1>2. CASE Host!WatcherActs
  <2>1. PresenterFlags'
    BY <1>b, <1>2 DEF Host!WatcherActs, Host!WatcherReveals, PresenterFlags
  <2>2. PresenterData'
    BY <1>2 DEF Host!WatcherActs, Host!WatcherReveals, PresenterInv, PresenterData
  <2> QED
    BY <2>1, <2>2 DEF PresenterInv
<1>3. CASE Host!PumpShow
  <2>1. PresenterFlags'
    BY <1>b, <1>3 DEF Host!PumpShow, PresenterFlags
  <2>2. PresenterData'
    BY <1>3 DEF Host!PumpShow, PresenterInv, PresenterData
  <2> QED
    BY <2>1, <2>2 DEF PresenterInv
<1>4. CASE Host!Redraw
  <2>1. PresenterFlags'
    BY <1>b, <1>4 DEF Host!Redraw, PresenterFlags
  <2>2. PresenterData'
    BY <1>4 DEF Host!Redraw, PresenterInv, PresenterData
  <2> QED
    BY <2>1, <2>2 DEF PresenterInv
<1>5. CASE Host!ProcessTray
  <2>1. x11' \in Seq(Host!TrayAction)
    <3>1. x11 # <<>> => Tail(x11) \in Seq(Host!TrayAction)
      BY <1>q
    <3> QED
      BY <1>q, <1>5, <3>1 DEF Host!ProcessTray
  <2>8. PresenterFlags'
    <3>1. (x9' = x9 /\ x10' = x10) \/ (x9' = TRUE /\ x10' = TRUE)
      BY <1>5 DEF Host!ProcessTray
    <3>2. x9' \in BOOLEAN /\ x10' \in BOOLEAN
      BY <1>b, <3>1
    <3>3. UNCHANGED <<x2, x3, x4, x5, x6, x7, x8, x12, x19, x20>>
      BY <1>5 DEF Host!ProcessTray
    <3> QED
      BY <1>b, <3>2, <3>3 DEF PresenterFlags
  <2>9. PresenterData'
    BY <1>5, <2>1 DEF Host!ProcessTray, PresenterInv, PresenterData
  <2> QED
    BY <2>8, <2>9 DEF PresenterInv
<1>6. CASE Host!TakeActivationRequest
  <2>1. PresenterFlags'
    BY <1>b, <1>6 DEF Host!TakeActivationRequest, PresenterFlags
  <2>2. PresenterData'
    BY <1>6 DEF Host!TakeActivationRequest, PresenterInv, PresenterData
  <2> QED
    BY <2>1, <2>2 DEF PresenterInv
<1>7. CASE Host!Discard
  <2>1. x14' \in Seq(Host!Fact)
    BY <1>q, <1>7, PresenterEvents DEF Host!Discard
  <2>8. PresenterFlags'
    BY <1>b, <1>e, <1>7, <2>1 DEF Host!Discard, PresenterFlags
  <2>9. PresenterData'
    BY <1>e, <1>7, <2>1 DEF Host!Discard, PresenterInv, PresenterData
  <2> QED
    BY <2>8, <2>9 DEF PresenterInv
<1>8. CASE Host!PutBack
  <2>1. x14 # <<>> /\ x14' = Tail(x14) /\ x15' = Host!Sent(Head(x14))
    BY <1>8 DEF Host!PutBack
  <2>2. Tail(x14) \in Seq(Host!Fact) /\ Head(x14) \in Host!Fact
    BY <1>q, <2>1
  <2>3. x15' \in Seq(Host!Fact \cup {Host!Frame}) /\ Len(x15') <= Capacity
    BY <1>q, <2>1, <2>2, PresenterSent
  <2>4. x14' \in Seq(Host!Fact)
    BY <2>1, <2>2
  <2>8. PresenterFlags'
    BY <1>b, <1>8, <2>3, <2>4 DEF Host!PutBack, PresenterFlags
  <2>9. PresenterData'
    BY <1>8, <2>3, <2>4 DEF Host!PutBack, PresenterInv, PresenterData
  <2> QED
    BY <2>8, <2>9 DEF PresenterInv
<1>9. CASE Host!Shown
  <2>1. x19' \in BOOLEAN /\ x20' \in BOOLEAN
    BY <1>b, <1>9 DEF Host!Shown, Host!ResumeHiddenVideo
  <2>8. PresenterFlags'
    BY <1>b, <1>9, <2>1 DEF Host!Shown, PresenterFlags
  <2>9. PresenterData'
    BY <1>9, <2>1 DEF Host!Shown, PresenterInv, PresenterData
  <2> QED
    BY <2>8, <2>9 DEF PresenterInv
<1>10. CASE Host!HandleCloseRequest
  <2>1. x10' \in BOOLEAN
    BY <1>10 DEF Host!HandleCloseRequest
  <2>2. /\ x3' \in BOOLEAN /\ x4' \in BOOLEAN /\ x7' \in BOOLEAN /\ x5' \in BOOLEAN
        /\ x19' \in BOOLEAN /\ x20' \in BOOLEAN
    BY <1>b, <1>10 DEF Host!HandleCloseRequest, Host!PauseRemoteVideo
  <2>8. PresenterFlags'
    BY <1>b, <1>10, <2>1, <2>2 DEF Host!HandleCloseRequest, PresenterFlags
  <2>9. PresenterData'
    BY <1>10, <2>1, <2>2 DEF Host!HandleCloseRequest, PresenterInv, PresenterData
  <2> QED
    BY <2>8, <2>9 DEF PresenterInv
<1>11. CASE Host!ProcessEvents
  <2>1. x18' \in 0..MaxFacts
    <3> DEFINE facts == Host!StateEvents(x15)
    <3>1. facts \in Seq(Host!Fact)
      BY <1>q, PresenterEvents
    <3>2. x18' = IF facts = <<>> THEN x18 ELSE facts[Len(facts)]
      BY <1>11 DEF Host!ProcessEvents
    <3> HIDE DEF facts
    <3>3. facts # <<>> => facts[Len(facts)] \in Host!Fact
      BY <3>1
    <3>4. Host!Fact \subseteq 0..MaxFacts
      BY PresenterConstants DEF Host!Fact
    <3> QED
      BY <1>q, <3>2, <3>3, <3>4
  <2>2. x11' \in Seq(Host!TrayAction)
    BY <1>q, <1>e, <1>11 DEF Host!ProcessEvents
  <2>3. /\ x1' \in {"gone", "running", "stopping"} /\ x21' \in {"asleep", "seen"}
        /\ x7' \in BOOLEAN /\ x3' \in BOOLEAN /\ x5' \in BOOLEAN
        /\ x6' \in BOOLEAN /\ x12' \in BOOLEAN
    BY <1>11 DEF Host!ProcessEvents, PresenterInv, PresenterData, PresenterFlags
  <2>8. PresenterFlags'
    BY <1>b, <1>e, <1>11, <2>1, <2>2, <2>3 DEF Host!ProcessEvents, PresenterFlags
  <2>9. PresenterData'
    BY <1>e, <1>11, <2>1, <2>2, <2>3 DEF Host!ProcessEvents, PresenterInv, PresenterData
  <2> QED
    BY <2>8, <2>9 DEF PresenterInv
<1>12. CASE Host!PublishFact
  <2>1. x17 < MaxFacts /\ x17' = x17 + 1 /\ x16' = [pc |-> "send", event |-> x17', wakes |-> x7]
    BY <1>12 DEF Host!PublishFact
  <2>2. x17' \in 0..MaxFacts /\ x17' \in Host!Fact
    BY <1>q, <2>1, PresenterConstants DEF Host!Fact
  <2>3. x16' \in [pc : {"idle", "send", "wake"}, event : Host!Fact \cup {Host!Frame}, wakes : BOOLEAN]
    BY <1>b, <2>1, <2>2
  <2>8. PresenterFlags'
    BY <1>b, <1>12, <2>2, <2>3 DEF Host!PublishFact, PresenterFlags
  <2>9. PresenterData'
    BY <1>12, <2>2, <2>3 DEF Host!PublishFact, PresenterInv, PresenterData
  <2> QED
    BY <2>8, <2>9 DEF PresenterInv
<1>13. CASE Host!PublishFrame
  <2>1. x16' \in [pc : {"idle", "send", "wake"}, event : Host!Fact \cup {Host!Frame}, wakes : BOOLEAN]
    BY <1>13 DEF Host!PublishFrame
  <2>8. PresenterFlags'
    BY <1>b, <1>13, <2>1 DEF Host!PublishFrame, PresenterFlags
  <2>9. PresenterData'
    BY <1>13, <2>1 DEF Host!PublishFrame, PresenterInv, PresenterData
  <2> QED
    BY <2>8, <2>9 DEF PresenterInv
<1>14. CASE Host!Send
  <2>1. x16.event \in Host!Fact \cup {Host!Frame}
    BY <1>q
  <2>2. x15' \in Seq(Host!Fact \cup {Host!Frame}) /\ Len(x15') <= Capacity
    BY <1>q, <1>14, <2>1, PresenterSent DEF Host!Send
  <2>3. x16' \in [pc : {"idle", "send", "wake"}, event : Host!Fact \cup {Host!Frame}, wakes : BOOLEAN]
    BY <1>q, <1>14, PresenterIdle DEF Host!Send
  <2>8. PresenterFlags'
    BY <1>b, <1>14, <2>2, <2>3 DEF Host!Send, PresenterFlags
  <2>9. PresenterData'
    BY <1>14, <2>2, <2>3 DEF Host!Send, PresenterInv, PresenterData
  <2> QED
    BY <2>8, <2>9 DEF PresenterInv
<1>15. CASE Host!Wake
  <2>1. x12' \in BOOLEAN
    BY <1>b, <1>15 DEF Host!Wake
  <2>8. PresenterFlags'
    BY <1>b, <1>15, <2>1, PresenterIdle DEF Host!Wake, PresenterFlags
  <2>9. PresenterData'
    BY <1>15, <2>1, PresenterIdle DEF Host!Wake, PresenterInv, PresenterData
  <2> QED
    BY <2>8, <2>9 DEF PresenterInv
<1>16. CASE Host!StreamStarts
  <2>1. PresenterFlags'
    BY <1>b, <1>c, <1>16 DEF Host!StreamStarts, PresenterFlags
  <2>2. PresenterData'
    BY <1>c, <1>16 DEF Host!StreamStarts, PresenterInv, PresenterData
  <2> QED
    BY <2>1, <2>2 DEF PresenterInv
<1>17. CASE Host!UserCloses
  <2>1. PresenterFlags'
    BY <1>b, <1>c, <1>17 DEF Host!UserCloses, PresenterFlags
  <2>2. PresenterData'
    BY <1>c, <1>17 DEF Host!UserCloses, PresenterInv, PresenterData
  <2> QED
    BY <2>1, <2>2 DEF PresenterInv
<1>18. ASSUME NEW what \in Host!TrayAction, Host!TrayClick(what) PROVE PresenterInv'
  <2>1. x11' \in Seq(Host!TrayAction)
    <3>1. x11' = Append(x11, what)
      BY <1>18 DEF Host!TrayClick
    <3> QED
      BY <1>q, <3>1
  <2>8. PresenterFlags'
    BY <1>b, <1>c, <1>18, <2>1 DEF Host!TrayClick, PresenterFlags
  <2>9. PresenterData'
    BY <1>c, <1>18, <2>1 DEF Host!TrayClick, PresenterInv, PresenterData
  <2> QED
    BY <2>8, <2>9 DEF PresenterInv
<1>19. CASE Host!LaunchAgain
  <2>1. PresenterFlags'
    BY <1>b, <1>l, <1>19 DEF Host!LaunchAgain, PresenterFlags
  <2>2. PresenterData'
    BY <1>l, <1>19 DEF Host!LaunchAgain, PresenterInv, PresenterData
  <2> QED
    BY <2>1, <2>2 DEF PresenterInv
<1>20. ASSUME NEW shown \in BOOLEAN, Host!Start(shown) PROVE PresenterInv'
  <2>1. /\ x22' \in 0..MaxLaunches /\ x17' \in 0..MaxFacts /\ x18' \in 0..MaxFacts
    BY <1>l, <1>20, PresenterConstants DEF Host!Start, Host!NewApp
  <2>2. x4' \in BOOLEAN /\ x8' \in BOOLEAN
    BY <1>20 DEF Host!Start, Host!NewApp, Host!TrayIcon
  <2>3. /\ x3' \in BOOLEAN /\ x5' \in BOOLEAN /\ x7' \in BOOLEAN /\ x12' \in BOOLEAN
        /\ x6' = FALSE /\ x9' = FALSE /\ x10' = FALSE /\ x19' = FALSE /\ x20' = FALSE
    BY <1>20 DEF Host!Start, Host!NewApp
  <2>4. /\ x1' = "running" /\ x2' = FALSE /\ x13' = "idle" /\ x11' = <<>> /\ x21' = "asleep"
        /\ x15' = <<>> /\ x14' = <<>> /\ x16' = Host!Idle /\ x23' = x23
    BY <1>20 DEF Host!Start
  <2>5. /\ x2' \in BOOLEAN /\ x6' \in BOOLEAN /\ x9' \in BOOLEAN /\ x10' \in BOOLEAN
        /\ x19' \in BOOLEAN /\ x20' \in BOOLEAN
    BY <2>3, <2>4
  <2> QED
    BY <1>e, <1>n, <2>1, <2>2, <2>3, <2>4, <2>5, PresenterIdle DEF PresenterInv,
       PresenterFlags, PresenterData
<1>21. CASE Host!Stopped
  <2>1. PresenterFlags'
    BY <1>b, <1>21 DEF Host!Stopped, PresenterFlags
  <2>2. PresenterData'
    BY <1>21 DEF Host!Stopped, PresenterInv, PresenterData
  <2> QED
    BY <2>1, <2>2 DEF PresenterInv
<1>22. CASE UNCHANGED Host!presenterVars
  <2>1. PresenterFlags'
    BY <1>b, <1>22 DEF Host!presenterVars, PresenterFlags
  <2>2. PresenterData'
    BY <1>22 DEF Host!presenterVars, PresenterInv, PresenterData
  <2> QED
    BY <2>1, <2>2 DEF PresenterInv
<1> QED
  BY <1>1, <1>2, <1>3, <1>4, <1>5, <1>6, <1>7, <1>8, <1>9, <1>10, <1>11, <1>12, <1>13, <1>14,
     <1>15,
     <1>16, <1>17, <1>18, <1>19, <1>20, <1>21, <1>22
     DEF Host!Next, Host!Watcher, Host!Gui, Host!FrameStep, Host!Service, Host!User, Host!Launch

-----------------------------------------------------------------------------
(*************************************************************************)
(* Profiles, for whose variables the following stand: x1 own, x2         *)
(* editing, x3 chosen, x4 disk, x5 commands, x6 announced, x7 served, x8 *)
(* beat, x9 timeline, x10 known, x11 bytes, x12 cache, x13 cooling, x14  *)
(* asked, x15 fetches, x16 faults.  TypeOK is inductive; what a viewer   *)
(* learns is defined by a recursion over the timeline.                   *)
(*************************************************************************)

LEMMA ProfilesConstants ==
  /\ MaxPictures \in Nat /\ MaxPictures > 0 /\ MaxFetches \in Nat /\ MaxFetches > 0
  /\ MaxSnapshots \in Nat /\ MaxFailures \in Nat
BY ProgressAssumptions DEF Profile!ProfilesAssumption

LEMMA ProfilesPictures ==
  Profile!None \in Profile!Picture /\ Profile!Nothing \notin Profile!Picture
       /\ Profile!Picture \subseteq Int
BY ProfilesConstants DEF Profile!None, Profile!Nothing, Profile!Picture

\* What a viewer knows of one owner.
Knows == [known : Profile!Picture, bytes : Profile!Picture, cooling : BOOLEAN, asked : 0..2]

LEMMA ProfilesRequested ==
  ASSUME NEW v \in Knows
  PROVE  Profile!Requested(v) \in Knows
<1> DEFINE a == IF v.asked = 2 THEN 2 ELSE v.asked + 1
           u == [v EXCEPT !.cooling = TRUE]
<1>1. a \in 0..2
  BY DEF Knows
<1>2. u \in Knows /\ u.asked = v.asked
  BY DEF Knows
<1>3. ~v.cooling => Profile!Requested(v) = [u EXCEPT !.asked = a]
  BY DEF Profile!Requested, Knows
<1>4. v.cooling => Profile!Requested(v) = v
  BY DEF Profile!Requested
<1> HIDE DEF a, u
<1>5. [u EXCEPT !.asked = a] \in Knows
  BY <1>1, <1>2 DEF Knows
<1> QED
  BY <1>3, <1>4, <1>5

LEMMA ProfilesLearn ==
  ASSUME x12 \in Profile!Picture, NEW v \in Knows, NEW hash \in Profile!Picture
  PROVE  Profile!Learn(v, hash) \in Knows
<1> DEFINE now == IF hash = Profile!None THEN v.known ELSE hash
           seen == [v EXCEPT !.known = now]
           lifted == [seen EXCEPT !.cooling = @ /\ now = v.known]
<1>1. now \in Profile!Picture
  BY DEF Knows
<1>2. seen \in Knows
  <2> HIDE DEF now
  <2> QED
    BY <1>1 DEF Knows
<1>3. lifted \in Knows
  <2> DEFINE c == seen.cooling /\ now = v.known
  <2>1. lifted = [seen EXCEPT !.cooling = c]
    OBVIOUS
  <2>2. c \in BOOLEAN
    OBVIOUS
  <2> HIDE DEF c, seen
  <2> QED
    BY <1>2, <2>1, <2>2 DEF Knows
<1>4. Profile!LoadPeerAvatar(seen) \in Knows
  <2> HIDE DEF seen
  <2> QED
    BY <1>2 DEF Profile!LoadPeerAvatar, Knows
<1>5. Profile!Requested(lifted) \in Knows
  <2> HIDE DEF lifted
  <2> QED
    BY <1>3, ProfilesRequested
<1>6. Profile!Learn(v, hash) = CASE now = Profile!None \/ v.bytes = now -> seen
          [] now # Profile!None /\ v.bytes # now /\ x12 = now -> Profile!LoadPeerAvatar(seen)
          [] OTHER -> Profile!Requested(lifted)
  BY DEF Profile!Learn
<1> HIDE DEF now, seen, lifted
<1> QED
  BY <1>2, <1>4, <1>5, <1>6

LEMMA ProfilesLearnt ==
  ASSUME x12 \in Profile!Picture, Profile!Viewer \in Knows, x9 \in Seq(Profile!Picture)
  PROVE  Profile!LearntFromAll \in Knows
<1> DEFINE n == Len(x9)
           learnt == CHOOSE f : f = [i \in 0..n |-> IF i
                = 0 THEN Profile!Viewer ELSE Profile!Learn(f[i - 1], x9[i])]
           step == [i \in 1..n |-> [v \in Knows |-> Profile!Learn(v, x9[i])]]
<1>1. Profile!LearntFromAll = learnt[n]
  BY DEF Profile!LearntFromAll
<1>2. \A i \in 1..n : \A v \in Knows : Profile!Learn(v, x9[i]) \in Knows
  <2> TAKE i \in 1..n
  <2>1. x9[i] \in Profile!Picture
    OBVIOUS
  <2> QED
    BY <2>1, ProfilesLearn
<1>3. n \in Nat
  OBVIOUS
<1>4. step \in [1..n -> [Knows -> Knows]]
  <2> HIDE DEF n
  <2> QED
    BY <1>2
<1>5. PICK f : Iterates(f, n, Knows, Profile!Viewer, step)
  <2> HIDE DEF n, step
  <2> QED
    BY <1>3, <1>4, Recursion
<1> HIDE DEF n
<1>6. f = [i \in 0..n |-> IF i = 0 THEN Profile!Viewer ELSE Profile!Learn(f[i - 1], x9[i])]
  <2>1. f \in [0..n -> Knows] /\ f[0] = Profile!Viewer /\ \A i \in 1..n : f[i] = step[i][f[i - 1]]
    BY <1>5 DEF Iterates
  <2>2. ASSUME NEW i \in 1..n PROVE f[i] = Profile!Learn(f[i - 1], x9[i])
    <3>1. i - 1 \in 0..n
      BY <1>3
    <3>2. f[i - 1] \in Knows
      BY <2>1, <3>1
    <3>3. step[i][f[i - 1]] = Profile!Learn(f[i - 1], x9[i])
      BY <3>2
    <3> QED
      BY <2>1, <3>3
  <2>3. \A i \in 0..n : f[i] = IF i = 0 THEN Profile!Viewer ELSE Profile!Learn(f[i - 1], x9[i])
    <3> TAKE i \in 0..n
    <3>1. CASE i = 0
      BY <2>1, <3>1
    <3>2. CASE i # 0
      <4>1. i \in 1..n
        BY <1>3, <3>2
      <4> QED
        BY <2>2, <3>2, <4>1
    <3> QED
      BY <3>1, <3>2
  <2> HIDE DEF step
  <2> QED
    BY <2>1, <2>3
<1>7. learnt = [i \in 0..n |-> IF i
           = 0 THEN Profile!Viewer ELSE Profile!Learn(learnt[i - 1], x9[i])]
  BY <1>6
<1> HIDE DEF learnt
<1>8. ASSUME NEW i \in 1..n, learnt[i - 1] \in Knows PROVE learnt[i] \in Knows
  <2>1. i \in 0..n /\ i # 0
    BY <1>3
  <2>2. learnt[i] = Profile!Learn(learnt[i - 1], x9[i])
    BY <1>7, <2>1
  <2> QED
    BY <1>2, <1>8, <2>2
<1>9. learnt[0] = Profile!Viewer
  BY <1>3, <1>7
<1> DEFINE T == {i \in 0..n : learnt[i] \in Knows}
<1>10. 0..n \subseteq T
  <2>1. 0 \in T /\ \A i \in 1..n : i - 1 \in T => i \in T
    BY <1>3, <1>8, <1>9
  <2> HIDE DEF T
  <2> QED
    BY <1>3, <2>1, UpTo
<1> QED
  BY <1>1, <1>3, <1>10

LEMMA ProfilesWithout ==
  ASSUME NEW S, NEW q \in Seq(S), NEW i \in 1..Len(q)
  PROVE  Profile!Without(q, i) \in Seq(S) /\ Len(Profile!Without(q, i)) <= Len(q)
<1>1. Profile!Without(q, i) = SubSeq(q, 1, i - 1) \o SubSeq(q, i + 1, Len(q))
  BY DEF Profile!Without
<1> DEFINE a == SubSeq(q, 1, i - 1)
           b == SubSeq(q, i + 1, Len(q))
<1>2. Len(q) \in Nat /\ \A j \in 1..Len(q) : q[j] \in S
  OBVIOUS
<1>3. a \in Seq(S) /\ Len(a) = i - 1
  BY <1>2
<1>4. b \in Seq(S) /\ Len(b) = Len(q) - i
  BY <1>2
<1> HIDE DEF a, b
<1>5. a \o b \in Seq(S) /\ Len(a \o b) = Len(a) + Len(b)
  BY <1>3, <1>4
<1>6. Profile!Without(q, i) = a \o b
  BY <1>1 DEF a, b
<1> QED
  BY <1>2, <1>3, <1>4, <1>5, <1>6

LEMMA ProfilesInit == Profile!Init => Profile!TypeOK
<1> SUFFICES ASSUME Profile!Init PROVE Profile!TypeOK
  OBVIOUS
<1>1. x4 \in Profile!Profile /\ x7 \in Profile!Profile
  BY ProfilesPictures DEF Profile!Init, Profile!Profile
<1>2. /\ {x1, x6, x10, x11, x12} \subseteq Profile!Picture /\ x3 \in Profile!Picture
      /\ x8 \in Profile!Picture \cup {Profile!Nothing}
  BY ProfilesPictures DEF Profile!Init, Profile!None
<1>3. /\ x9 \in Seq(Profile!Picture) /\ Len(x9) <= MaxSnapshots
      /\ x15 \in Seq(Profile!Profile \cup {Profile!Unserved}) /\ Len(x15) <= MaxFetches
      /\ x16 \in 0..MaxFailures
  BY ProfilesConstants DEF Profile!Init
<1>4. x2 \in {"no", "picture", "removal"} /\ x13 \in BOOLEAN
  BY DEF Profile!Init
<1>5. x5 = 0 /\ x14 = 0
  BY DEF Profile!Init
<1>6. x5 \in 0..2 /\ x14 \in 0..2
  BY <1>5
<1> QED
  BY <1>1, <1>2, <1>3, <1>4, <1>6 DEF Profile!TypeOK

LEMMA ProfilesStep == Profile!TypeOK /\ [Profile!Next]_(Profile!profileVars) => Profile!TypeOK'
<1> SUFFICES ASSUME Profile!TypeOK, [Profile!Next]_(Profile!profileVars) PROVE Profile!TypeOK'
  OBVIOUS
<1>0. /\ x1 \in Profile!Picture /\ x6 \in Profile!Picture /\ x10 \in Profile!Picture
      /\ x11 \in Profile!Picture
      /\ x12 \in Profile!Picture /\ x3 \in Profile!Picture /\ x4 \in Profile!Profile
      /\ x7 \in Profile!Profile
      /\ x9 \in Seq(Profile!Picture) /\ Len(x9) <= MaxSnapshots
      /\ x15 \in Seq(Profile!Profile \cup {Profile!Unserved}) /\ Len(x15) <= MaxFetches
      /\ x13 \in BOOLEAN /\ x14 \in 0..2 /\ x5 \in 0..2
      /\ x8 \in Profile!Picture \cup {Profile!Nothing} /\ x16 \in 0..MaxFailures
  BY DEF Profile!TypeOK
<1>v. Profile!Viewer \in Knows
  BY <1>0 DEF Profile!Viewer, Knows
<1>b. ASSUME NEW v \in Knows, Profile!Becomes(v)
      PROVE  x10' \in Profile!Picture /\ x11' \in Profile!Picture /\ x13' \in BOOLEAN
                                      /\ x14' \in 0..2
  BY <1>b DEF Profile!Becomes, Knows
<1> USE DEF Profile!ownerVars, Profile!viewerVars
<1>1. CASE Profile!WriteBytes
  <2>1. x3 < MaxPictures /\ x3' = x3 + 1 /\ x4' = [x4 EXCEPT !.png = x3']
    BY <1>1 DEF Profile!WriteBytes
  <2>2. x3' \in Profile!Picture
    BY <1>0, <2>1, ProfilesConstants DEF Profile!Picture
  <2>3. x4' \in Profile!Profile
    BY <1>0, <2>1, <2>2 DEF Profile!Profile
  <2> QED
    BY <1>1, <2>2, <2>3 DEF Profile!WriteBytes, Profile!TypeOK
<1>2. CASE Profile!RemoveBytes
  <2>1. x4' \in Profile!Profile
    BY <1>0, <1>2, ProfilesPictures DEF Profile!RemoveBytes, Profile!Profile
  <2> QED
    BY <1>2, <2>1 DEF Profile!RemoveBytes, Profile!TypeOK
<1>3. CASE Profile!SaveOwnProfile
  <2>1. x1' \in Profile!Picture
    BY <1>0, <1>3, ProfilesPictures DEF Profile!SaveOwnProfile, Profile!Profile
  <2>2. x4' \in Profile!Profile
    BY <1>0, <1>3, <2>1 DEF Profile!SaveOwnProfile, Profile!Profile
  <2>3. x5' \in 0..2
    BY <1>0, <1>3 DEF Profile!SaveOwnProfile, Profile!SyncOwnProfile
  <2> QED
    BY <1>3, <2>1, <2>2, <2>3 DEF Profile!SaveOwnProfile, Profile!TypeOK
<1>4. CASE Profile!SetOwnProfile
  <2>1. Profile!Loaded \in Profile!Profile
    BY <1>0, ProfilesPictures DEF Profile!Loaded, Profile!Profile
  <2>2. x6' \in Profile!Picture /\ x7' \in Profile!Profile
    BY <1>4, <2>1 DEF Profile!SetOwnProfile, Profile!Refreshed, Profile!Profile
  <2>3. x5' \in 0..2
    BY <1>0, <1>4 DEF Profile!SetOwnProfile
  <2> QED
    BY <1>4, <2>2, <2>3 DEF Profile!SetOwnProfile, Profile!TypeOK
<1>5. CASE Profile!Heartbeat
  BY <1>0, <1>5 DEF Profile!Heartbeat, Profile!TypeOK
<1>6. CASE Profile!SendMessage
  <2>1. x9' \in Seq(Profile!Picture) /\ Len(x9') <= MaxSnapshots
    <3>1. Len(x9) < MaxSnapshots /\ x9' = Append(x9, x6)
      BY <1>6 DEF Profile!SendMessage
    <3>2. x9 \in Seq(Profile!Picture) /\ x6 \in Profile!Picture /\ MaxSnapshots \in Nat
      BY <1>0, ProfilesConstants
    <3> QED
      BY <3>1, <3>2
  <2> QED
    BY <1>6, <2>1 DEF Profile!SendMessage, Profile!TypeOK
<1>7. CASE Profile!ClientStatus
  <2>1. /\ x8 \in Profile!Picture /\ x8' = Profile!Nothing
        /\ Profile!Becomes(Profile!Learn(Profile!Viewer, x8))
        /\ UNCHANGED <<Profile!ownerVars, x9, x12, x15, x16>>
    BY <1>0, <1>7 DEF Profile!ClientStatus
  <2>2. Profile!Learn(Profile!Viewer, x8) \in Knows
    BY <1>0, <1>v, <2>1, ProfilesLearn
  <2>3. x10' \in Profile!Picture /\ x11' \in Profile!Picture /\ x13' \in BOOLEAN /\ x14' \in 0..2
    BY <1>b, <2>1, <2>2
  <2> QED
    BY <2>1, <2>3 DEF Profile!TypeOK
<1>8. CASE Profile!ApplyConversation
  <2>1. Profile!LearntFromAll \in Knows
    BY <1>0, <1>v, ProfilesLearnt
  <2>2. x10' \in Profile!Picture /\ x11' \in Profile!Picture /\ x13' \in BOOLEAN /\ x14' \in 0..2
    BY <1>b, <1>8, <2>1 DEF Profile!ApplyConversation
  <2> QED
    BY <1>8, <2>2 DEF Profile!ApplyConversation, Profile!TypeOK
<1>9. CASE Profile!EnsurePeerProfiles
  <2>1. Profile!LoadPeerAvatar(Profile!Viewer) \in Knows
    BY <1>0, <1>v DEF Profile!LoadPeerAvatar, Knows
  <2>2. Profile!Requested(Profile!Viewer) \in Knows
    BY <1>v, ProfilesRequested
  <2>3. PICK v \in Knows : Profile!Becomes(v)
    BY <1>9, <2>1, <2>2 DEF Profile!EnsurePeerProfiles
  <2>4. x10' \in Profile!Picture /\ x11' \in Profile!Picture /\ x13' \in BOOLEAN /\ x14' \in 0..2
    BY <1>b, <2>3
  <2> QED
    BY <1>9, <2>4 DEF Profile!EnsurePeerProfiles, Profile!TypeOK
<1>10. CASE Profile!CooldownEnds
  BY <1>10 DEF Profile!CooldownEnds, Profile!TypeOK
<1>11. CASE Profile!FetchPeerProfiles
  <2>1. x14' \in 0..2
    BY <1>0, <1>11 DEF Profile!FetchPeerProfiles
  <2>2. x15' \in Seq(Profile!Profile \cup {Profile!Unserved}) /\ Len(x15') <= MaxFetches
    <3>1. x15' = IF Len(x15) < MaxFetches THEN Append(x15, Profile!Unserved) ELSE x15
      BY <1>11 DEF Profile!FetchPeerProfiles
    <3> DEFINE E == Profile!Profile \cup {Profile!Unserved}
    <3>2. Profile!Unserved \in E /\ x15 \in Seq(E) /\ Len(x15) <= MaxFetches /\ MaxFetches \in Nat
      BY <1>0, ProfilesConstants
    <3> HIDE DEF E
    <3>3. x15' \in Seq(E) /\ Len(x15') <= MaxFetches
      BY <3>1, <3>2
    <3> QED
      BY <3>3 DEF E
  <2> QED
    BY <1>11, <2>1, <2>2 DEF Profile!FetchPeerProfiles, Profile!TypeOK
<1>12. CASE Profile!Served
  <2>1. PICK i \in 1..Len(x15) : Profile!Serve(i)
    BY <1>12 DEF Profile!Served
  <2>2. x15' \in Seq(Profile!Profile \cup {Profile!Unserved}) /\ Len(x15') <= MaxFetches
    <3>1. x15' = [x15 EXCEPT ![i] = x7]
      BY <2>1 DEF Profile!Serve
    <3> DEFINE E == Profile!Profile \cup {Profile!Unserved}
    <3>2. x7 \in E /\ x15 \in Seq(E) /\ Len(x15) <= MaxFetches
      BY <1>0
    <3> HIDE DEF E
    <3>3. x15' \in Seq(E) /\ Len(x15') = Len(x15)
      BY <3>1, <3>2
    <3> QED
      BY <3>2, <3>3 DEF E
  <2> QED
    BY <2>1, <2>2 DEF Profile!Serve, Profile!TypeOK
<1>f. ASSUME NEW i \in 1..Len(x15), x15' = Profile!Without(x15, i)
      PROVE  x15' \in Seq(Profile!Profile \cup {Profile!Unserved}) /\ Len(x15') <= MaxFetches
  <2>1. /\ Profile!Without(x15, i) \in Seq(Profile!Profile \cup {Profile!Unserved})
        /\ Len(Profile!Without(x15, i)) <= Len(x15)
    BY <1>0, ProfilesWithout
  <2>2. Len(x15) \in Nat /\ Len(x15') \in Nat /\ MaxFetches \in Nat
    BY <1>0, <1>f, <2>1, ProfilesConstants
  <2> QED
    BY <1>0, <1>f, <2>1, <2>2
<1>13. ASSUME NEW i \in 1..Len(x15), Profile!FetchDone(i) PROVE Profile!TypeOK'
  <2> DEFINE p == x15[i]
  <2>1. p \in Profile!Profile
    BY <1>0, <1>13 DEF Profile!FetchDone
  <2>2. /\ x10' = (IF p.hash # Profile!None THEN p.hash ELSE x10)
        /\ x11' = (IF p.png # Profile!None THEN p.png ELSE x11)
        /\ x12' = (IF p.png # Profile!None THEN p.png ELSE x12)
        /\ x13' = FALSE /\ x15' = Profile!Without(x15, i)
        /\ UNCHANGED <<Profile!ownerVars, x8, x9, x14, x16>>
    BY <1>13 DEF Profile!FetchDone
  <2> HIDE DEF p
  <2>3. x10' \in Profile!Picture /\ x11' \in Profile!Picture /\ x12' \in Profile!Picture
    BY <1>0, <2>1, <2>2 DEF Profile!Profile
  <2>4. x15' \in Seq(Profile!Profile \cup {Profile!Unserved}) /\ Len(x15') <= MaxFetches
    BY <1>f, <2>2
  <2> QED
    BY <2>2, <2>3, <2>4 DEF Profile!TypeOK
<1>14. ASSUME NEW i \in 1..Len(x15), Profile!FetchFails(i) PROVE Profile!TypeOK'
  <2>1. x16' \in 0..MaxFailures
    BY <1>0, <1>14, ProfilesConstants DEF Profile!FetchFails
  <2>2. x15' \in Seq(Profile!Profile \cup {Profile!Unserved}) /\ Len(x15') <= MaxFetches
    BY <1>f, <1>14 DEF Profile!FetchFails
  <2> QED
    BY <1>14, <2>1, <2>2 DEF Profile!FetchFails, Profile!TypeOK
<1>15. CASE Profile!Restart
  <2>1. x16' \in 0..MaxFailures /\ x14' \in 0..2
    BY <1>0, <1>15, ProfilesConstants DEF Profile!Restart
  <2>2. x15' \in Seq(Profile!Profile \cup {Profile!Unserved}) /\ Len(x15') <= MaxFetches
    BY <1>15, ProfilesConstants DEF Profile!Restart
  <2>3. x11' \in Profile!Picture
    BY <1>15, ProfilesPictures DEF Profile!Restart
  <2> QED
    BY <1>15, <2>1, <2>2, <2>3 DEF Profile!Restart, Profile!TypeOK
<1>16. CASE UNCHANGED Profile!profileVars
  BY <1>16 DEF Profile!profileVars, Profile!TypeOK
<1> QED
  BY <1>1, <1>2, <1>3, <1>4, <1>5, <1>6, <1>7, <1>8, <1>9, <1>10, <1>11, <1>12, <1>13, <1>14,
     <1>15, <1>16
     DEF Profile!Next, Profile!Edit, Profile!FetchEnds

-----------------------------------------------------------------------------
\* Of the component that runs, what its steps keep.
ProgressInv ==
  /\ part = "deletions" => Deletions!TypeOK
  /\ part = "attachments" => Attachments!TypeOK
  /\ part = "timeline" => Timeline!TypeOK
  /\ part = "presence" => PresenceInv
  /\ part = "updates" => UpdatesInv
  /\ part = "voice" => Voice!TypeOK
  /\ part = "encoder" => EncoderInv
  /\ part = "presentation" => PresentationInv
  /\ part = "host" => PresenterInv
  /\ part = "profiles" => Profile!TypeOK

LEMMA ProgressInitInv == ProgressInit => ProgressInv
BY DeletionsInit, AttachmentsInit, TimelineInit, PresenceInit, UpdatesInit, VoiceInit,
   EncoderInit, PresentationInit, PresenterInit, ProfilesInit DEF ProgressInit, ProgressInv

\* What a step of the whole is to the component that runs.
LEMMA ProgressSteps ==
  ASSUME [ProgressNext]_allVars
  PROVE  /\ part' = part
         /\ part = "deletions" => [Deletions!Next]_(Deletions!deletionVars)
         /\ part = "attachments" => [Attachments!Next]_(Attachments!attachmentVars)
         /\ part = "timeline" => [Timeline!Next]_(Timeline!timelineVars)
         /\ part = "presence" => [Presence!Next]_(Presence!presenceVars)
         /\ part = "updates" => [Updating!Next]_(Updating!updateVars)
         /\ part = "voice" => [Voice!Next]_(Voice!voiceVars)
         /\ part = "encoder" => [Encoder!Next]_(Encoder!captureVars)
         /\ part = "presentation" => [Presentation!Next]_(Presentation!presentationVars)
         /\ part = "host" => [Host!Next]_(Host!presenterVars)
         /\ part = "profiles" => [Profile!Next]_(Profile!profileVars)
<1>1. CASE ProgressNext
  BY <1>1 DEF ProgressNext
<1>2. CASE UNCHANGED allVars
  BY <1>2 DEF allVars, Deletions!deletionVars, Attachments!attachmentVars,
     Attachments!senderVars, Attachments!screenVars, Timeline!timelineVars,
     Presence!presenceVars, Updating!updateVars, Voice!voiceVars, Voice!capturing, Voice!network,
     Voice!arriving, Voice!decoder, Encoder!captureVars,
     Presentation!presentationVars, Host!presenterVars, Host!windowVars, Host!eventVars,
     Host!hostVars, Profile!profileVars, Profile!ownerVars, Profile!viewerVars
<1>3. QED
  BY <1>1, <1>2

LEMMA ProgressInvStep == ProgressInv /\ [ProgressNext]_allVars => ProgressInv'
BY ProgressSteps, DeletionsStep, AttachmentsStep, TimelineStep, PresenceStep, UpdatesStep,
   VoiceStep, EncoderStep, PresentationStep, PresenterStep, ProfilesStep DEF ProgressInv

LEMMA ProgressInvariance == ProgressSafe => []ProgressInv
BY ProgressInitInv, ProgressInvStep, PTL DEF ProgressSafe

\* Every variable of every component keeps its type and its bounds: no queue
\* outgrows its capacity, no counter its limit (events channel of mod.rs, ring of
\* ipc.rs, pools of video_decode.rs, downloads of worker.rs).
THEOREM ProgressTypeCorrect == ProgressSpec => []ProgressTypeOK
<1>1. ProgressInv => ProgressTypeOK
  BY UpdatesTyped, EncoderTyped, PresenterTyped DEF ProgressInv, ProgressTypeOK,
     PresenceInv, PresentationInv
<1>2. ProgressSpec => ProgressSafe
  BY DEF ProgressSpec
<1> QED
  BY <1>1, <1>2, ProgressInvariance, PTL

\* No texture of the hardware decoder's pool is lost or used twice: each is free,
\* given back, waiting in the queue or on the screen, through failed handoffs,
\* replaced pools and pictures the window never takes (video_decode.rs).
THEOREM TexturesAreConserved ==
  ProgressSpec =>
    [](part = "presentation" => Balanced(x3, Out(x1.pool, x5) + One(x1.pool, x6)))
<1>1. ProgressInv => (part = "presentation" => Balanced(x3, Out(x1.pool, x5) + One(x1.pool, x6)))
  BY DEF ProgressInv, PresentationInv
<1>2. ProgressSpec => ProgressSafe
  BY DEF ProgressSpec
<1> QED
  BY <1>1, <1>2, ProgressInvariance, PTL

\* A transform is never asked for more than it has granted, and what it has
\* granted and holds stays within what it asks for ahead, so submit_input finds
\* every request it takes (win_mf_codec.rs).
THEOREM TransformIsCredited == ProgressSpec => [](part = "encoder" => Credited(x9))
<1>1. ProgressInv => (part = "encoder" => Credited(x9))
  BY DEF ProgressInv, EncoderInv
<1>2. ProgressSpec => ProgressSafe
  BY DEF ProgressSpec
<1> QED
  BY <1>1, <1>2, ProgressInvariance, PTL

\* Every request for an update that waits or is being answered is one the user
\* began: nothing asks a friend twice for one beginning (worker.rs, app.rs).
THEOREM AskedWasBegun ==
  ProgressSpec =>
    [](part = "updates" => \A p \in Friend : x6[p] + Count(x4, Fetch(p)) <= x14)
<1>1. ProgressInv =>
        (part = "updates" => \A p \in Friend : x6[p] + Count(x4, Fetch(p)) <= x14)
  BY DEF ProgressInv, UpdatesInv
<1>2. ProgressSpec => ProgressSafe
  BY DEF ProgressSpec
<1> QED
  BY <1>1, <1>2, ProgressInvariance, PTL
=============================================================================
