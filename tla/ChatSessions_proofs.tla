------------------------- MODULE ChatSessions_proofs -------------------------
(***************************************************************************)
(* Proofs about ChatSessions, for any peers, tasks and capacities.  The     *)
(* gates keep two sends to one peer apart because the gate of a task that   *)
(* uses one stays in the table; a session stays because every operation of  *)
(* the pool touches at most the sessions of one peer, of whom there is one. *)
(***************************************************************************)
EXTENDS ChatSessions, FiniteSetTheorems, TLAPS

Pool == [warm : Seq(Session), idle : SUBSET Session]

\* sessions is keyed by peer.
OnePerPeer(s) ==
  /\ \A i, j \in DOMAIN s.warm : s.warm[i].peer = s.warm[j].peer => i = j
  /\ \A i \in DOMAIN s.warm : \A e \in s.idle : e.peer # s.warm[i].peer
  /\ \A d, e \in s.idle : d.peer = e.peer => d = e

Size(s) == Len(s.warm) + Cardinality(s.idle)

Sound(s) == s \in Pool /\ IsFiniteSet(s.idle) /\ OnePerPeer(s)
Fits(s) == Sound(s) /\ Size(s) <= PoolCap

\* The gate a task uses is the one in the table.
Gated ==
  \A t \in Sender :
    IF senders[t].stage = "idle" THEN senders[t].gate = 0
    ELSE senders[t].gate # 0 /\ gates[senders[t].peer] = senders[t].gate

\* One task has the lock of a gate.
Locked ==
  \A t, u \in Sender :
    /\ senders[t].stage \in Inside
    /\ senders[u].stage \in Inside
    /\ senders[t].gate = senders[u].gate
    => t = u

TasksOK ==
  /\ gates \in [Peers -> Nat]
  /\ senders \in [Sender -> SendTask]
  /\ accepting \subseteq Loop
  /\ inbox \in 0..InviteQueue
  /\ closed \subseteq Conn
  /\ faults \in 0..MaxFaults

Inv ==
  /\ ChatSessionsAssumption
  /\ Fits(pool)
  /\ TasksOK
  /\ Gated
  /\ Locked
-----------------------------------------------------------------------------
(***************************************************************************)
(* Sequences.                                                              *)
(***************************************************************************)
LEMMA JoinedFacts ==
  ASSUME NEW S, NEW a \in Seq(S), NEW b \in Seq(S)
  PROVE  /\ a \o b \in Seq(S) /\ Len(a \o b) = Len(a) + Len(b)
         /\ \A j \in 1..Len(a) : (a \o b)[j] = a[j]
         /\ \A j \in (Len(a) + 1)..(Len(a) + Len(b)) : (a \o b)[j] = b[j - Len(a)]
OBVIOUS

LEMMA RemovedFacts ==
  ASSUME NEW S, NEW s \in Seq(S), NEW i \in 1..Len(s)
  PROVE  /\ RemoveAt(s, i) \in Seq(S)
         /\ Len(RemoveAt(s, i)) = Len(s) - 1
         /\ \A j \in 1..(Len(s) - 1) : RemoveAt(s, i)[j] = IF j < i THEN s[j] ELSE s[j + 1]
<1> DEFINE a == SubSeq(s, 1, i - 1)
           b == SubSeq(s, i + 1, Len(s))
<1>1. a \in Seq(S) /\ Len(a) = i - 1 /\ \A j \in 1..(i - 1) : a[j] = s[j]
  OBVIOUS
<1>2. b \in Seq(S) /\ Len(b) = Len(s) - i /\ \A j \in 1..(Len(s) - i) : b[j] = s[i + j]
  OBVIOUS
<1>3. RemoveAt(s, i) = a \o b
  BY DEF RemoveAt
<1> HIDE DEF a, b
<1>4. /\ a \o b \in Seq(S) /\ Len(a \o b) = Len(a) + Len(b)
      /\ \A j \in 1..Len(a) : (a \o b)[j] = a[j]
      /\ \A j \in (Len(a) + 1)..(Len(a) + Len(b)) : (a \o b)[j] = b[j - Len(a)]
  BY <1>1, <1>2, JoinedFacts
<1>5. ASSUME NEW j \in 1..(Len(s) - 1), ~(j < i)
      PROVE  (a \o b)[j] = s[j + 1]
  <2>1. j \in (Len(a) + 1)..(Len(a) + Len(b))
    BY <1>1, <1>2, <1>5
  <2>2. (a \o b)[j] = b[j - Len(a)]
    BY <2>1, <1>4
  <2>3. ASSUME NEW k, k = j - Len(a) PROVE b[k] = s[j + 1]
    <3>1. k \in 1..(Len(s) - i) /\ i + k = j + 1
      BY <1>1, <1>5, <2>3
    <3>2. QED
      BY <3>1, <1>2
  <2>4. QED
    BY <2>2, <2>3
<1>6. ASSUME NEW j \in 1..(Len(s) - 1), j < i
      PROVE  (a \o b)[j] = s[j]
  BY <1>6, <1>4, <1>1
<1>7. QED
  BY <1>1, <1>2, <1>3, <1>4, <1>5, <1>6

LEMMA AppendedFacts ==
  ASSUME NEW S, NEW s \in Seq(S), NEW x \in S
  PROVE  /\ Append(s, x) \in Seq(S) /\ Len(Append(s, x)) = Len(s) + 1
         /\ \A j \in 1..Len(s) : Append(s, x)[j] = s[j]
         /\ Append(s, x)[Len(s) + 1] = x
         /\ DOMAIN Append(s, x) = 1..(Len(s) + 1)
         /\ Range(Append(s, x)) = Range(s) \cup {x}
<1> DEFINE new == Append(s, x)
<1>1. /\ new \in Seq(S) /\ Len(new) = Len(s) + 1 /\ \A j \in 1..Len(s) : new[j] = s[j]
      /\ new[Len(s) + 1] = x /\ DOMAIN new = 1..(Len(s) + 1)
      /\ DOMAIN s = 1..Len(s) /\ Len(s) \in Nat
  OBVIOUS
<1> HIDE DEF new
<1>2. /\ \A j \in DOMAIN new : j \in DOMAIN s \/ j = Len(s) + 1
      /\ DOMAIN s \subseteq DOMAIN new /\ Len(s) + 1 \in DOMAIN new
      /\ \A j \in DOMAIN s : new[j] = s[j]
  BY <1>1
<1>3. Range(new) = Range(s) \cup {x}
  BY <1>1, <1>2 DEF Range
<1>4. QED
  BY <1>1, <1>3 DEF new

LEMMA TailFacts ==
  ASSUME NEW S, NEW s \in Seq(S), s # <<>>
  PROVE  /\ Tail(s) \in Seq(S) /\ Len(Tail(s)) = Len(s) - 1 /\ Head(s) = s[1] /\ Head(s) \in S
         /\ 1 \in 1..Len(s)
         /\ \A j \in 1..(Len(s) - 1) : Tail(s)[j] = s[j + 1]
OBVIOUS
-----------------------------------------------------------------------------
(***************************************************************************)
(* The operations of the pool.                                             *)
(***************************************************************************)
LEMMA Unique ==
  ASSUME NEW s, Sound(s)
  PROVE  /\ \A d, e \in All(s) : d.peer = e.peer => d = e
         /\ All(s) \subseteq Session
         /\ DOMAIN s.warm = 1..Len(s.warm)
         /\ s.warm \in Seq(Session) /\ s.idle \subseteq Session
         /\ Len(s.warm) \in Nat /\ Cardinality(s.idle) \in Nat
<1>1. s.warm \in Seq(Session) /\ s.idle \subseteq Session
  BY DEF Sound, Pool
<1>2. DOMAIN s.warm = 1..Len(s.warm) /\ Len(s.warm) \in Nat
      /\ \A i \in DOMAIN s.warm : s.warm[i] \in Session
  BY <1>1
<1>3. Cardinality(s.idle) \in Nat
  BY FS_CardinalityType DEF Sound
<1>4. All(s) \subseteq Session
  BY <1>1, <1>2 DEF All, Range
<1>5. ASSUME NEW d \in All(s), NEW e \in All(s), d.peer = e.peer PROVE d = e
  <2>1. (d \in s.idle \/ \E i \in DOMAIN s.warm : d = s.warm[i])
        /\ (e \in s.idle \/ \E i \in DOMAIN s.warm : e = s.warm[i])
    BY DEF All, Range
  <2>2. QED
    BY <2>1, <1>5 DEF Sound, OnePerPeer
<1>6. QED
  BY <1>1, <1>2, <1>3, <1>4, <1>5

LEMMA SweptFacts ==
  ASSUME NEW s, Sound(s)
  PROVE  /\ Sound(Swept(s)) /\ Swept(s) = [warm |-> s.warm, idle |-> {}]
         /\ Swept(s).warm = s.warm /\ Swept(s).idle = {}
         /\ All(Swept(s)) = Range(s.warm)
         /\ Size(Swept(s)) = Len(s.warm) /\ Size(Swept(s)) <= Size(s)
<1>1. /\ Swept(s) = [warm |-> s.warm, idle |-> {}]
      /\ Swept(s).warm = s.warm /\ Swept(s).idle = {} /\ Swept(s) \in Pool
  <2>1. s.warm \in Seq(Session) /\ {} \in SUBSET Session
    BY DEF Sound, Pool
  <2>2. Swept(s) = [warm |-> s.warm, idle |-> {}]
    BY DEF Swept
  <2>3. QED
    BY <2>1, <2>2 DEF Pool
<1>2. IsFiniteSet({}) /\ Cardinality({}) = 0
  BY FS_EmptySet
<1>3. Sound(Swept(s))
  BY <1>1, <1>2 DEF Sound, OnePerPeer
<1>4. QED
  BY <1>1, <1>2, <1>3, Unique DEF All, Size

LEMMA WithoutFacts ==
  ASSUME NEW s, Sound(s), NEW p \in Peers
  PROVE  /\ Sound(Without(s, p))
         /\ All(Without(s, p)) = All(s) \ Of(s, p)
         /\ Size(Without(s, p)) <= Size(s)
         /\ Of(s, p) # {} => Size(Without(s, p)) + 1 <= Size(s)
<1> DEFINE w == s.warm
           new == Without(s, p)
           gone == {e \in s.idle : e.peer = p}
<1>1. /\ w \in Seq(Session) /\ DOMAIN w = 1..Len(w) /\ Len(w) \in Nat
      /\ s.idle \subseteq Session /\ Cardinality(s.idle) \in Nat
  BY Unique
<1>2. new.idle = s.idle \ gone /\ new.idle \subseteq s.idle
  BY DEF Without
<1>3. /\ IsFiniteSet(new.idle) /\ Cardinality(new.idle) \in Nat
      /\ Cardinality(new.idle) <= Cardinality(s.idle)
      /\ gone # {} => Cardinality(new.idle) < Cardinality(s.idle)
  <2>1. IsFiniteSet(s.idle) /\ new.idle \in SUBSET s.idle
    BY <1>2 DEF Sound
  <2>2. /\ IsFiniteSet(new.idle) /\ Cardinality(new.idle) <= Cardinality(s.idle)
        /\ Cardinality(s.idle) = Cardinality(new.idle) => s.idle = new.idle
    BY <2>1, FS_Subset
  <2>3. Cardinality(new.idle) \in Nat
    BY <2>2, FS_CardinalityType
  <2>4. gone # {} => s.idle # new.idle
    BY <1>2
  <2>5. QED
    BY <2>2, <2>3, <2>4, <1>1
<1>4. CASE At(w, p) = {}
  <2>1. new.warm = w
    BY <1>4 DEF Without
  <2>2. Sound(new)
    <3>1. new \in Pool
      BY <1>1, <1>2, <2>1 DEF Without, Pool
    <3>2. OnePerPeer(new)
      BY <1>2, <2>1 DEF Sound, OnePerPeer
    <3>3. QED
      BY <3>1, <3>2, <1>3 DEF Sound
  <2>3. \A e \in Range(w) : e.peer # p
    BY <1>4 DEF At, Range
  <2>4. All(new) = All(s) \ Of(s, p) /\ (Of(s, p) # {} => gone # {})
    BY <1>2, <2>1, <2>3 DEF All, Of
  <2>5. QED
    BY <1>1, <1>3, <2>1, <2>2, <2>4 DEF Size
<1>5. CASE At(w, p) # {}
  <2> DEFINE i == CHOOSE k \in At(w, p) : TRUE
  <2>1. i \in 1..Len(w) /\ w[i].peer = p /\ new.warm = RemoveAt(w, i)
    <3>1. i \in At(w, p)
      BY <1>5
    <3>2. QED
      BY <3>1, <1>1, <1>5 DEF At, Without
  <2> HIDE DEF i
  <2>2. /\ new.warm \in Seq(Session) /\ Len(new.warm) = Len(w) - 1
        /\ \A j \in 1..(Len(w) - 1) : new.warm[j] = IF j < i THEN w[j] ELSE w[j + 1]
    BY <1>1, <2>1, RemovedFacts
  <2>3. DOMAIN new.warm = 1..(Len(w) - 1)
    BY <1>1, <2>1, <2>2
  <2>4. \A j \in DOMAIN new.warm : \E k \in DOMAIN w :
          /\ new.warm[j] = w[k] /\ k # i /\ (k = j \/ k = j + 1) /\ (k = j <=> j < i)
    <3> SUFFICES ASSUME NEW j \in 1..(Len(w) - 1)
                 PROVE  \E k \in 1..Len(w) :
                          /\ new.warm[j] = w[k] /\ k # i /\ (k = j \/ k = j + 1)
                          /\ (k = j <=> j < i)
      BY <1>1, <2>3
    <3>1. CASE j < i
      <4>1. j \in 1..Len(w) /\ new.warm[j] = w[j] /\ j # i
        BY <1>1, <2>1, <2>2, <3>1
      <4>2. QED
        BY <4>1, <3>1
    <3>2. CASE ~(j < i)
      <4>1. j + 1 \in 1..Len(w) /\ new.warm[j] = w[j + 1] /\ j + 1 # i /\ j + 1 # j
        BY <1>1, <2>1, <2>2, <3>2
      <4>2. QED
        BY <4>1, <3>2
    <3>3. QED
      BY <3>1, <3>2
  <2>5. ASSUME NEW k \in DOMAIN w, k # i
        PROVE  \E j \in DOMAIN new.warm : new.warm[j] = w[k]
    <3>1. CASE k < i
      <4>1. k \in 1..(Len(w) - 1) /\ new.warm[k] = w[k]
        BY <1>1, <2>1, <2>2, <3>1
      <4>2. QED
        BY <4>1, <2>3
    <3>2. CASE k > i
      <4>1. k - 1 \in 1..(Len(w) - 1) /\ ~(k - 1 < i) /\ (k - 1) + 1 = k
        BY <1>1, <2>1, <3>2
      <4>2. QED
        BY <4>1, <2>2, <2>3
    <3>3. QED
      BY <1>1, <2>1, <2>5, <3>1, <3>2
  <2>6. OnePerPeer(new)
    <3>1. ASSUME NEW j \in DOMAIN new.warm, NEW k \in DOMAIN new.warm,
                 new.warm[j].peer = new.warm[k].peer
          PROVE  j = k
      <4>1. PICK a \in DOMAIN w : /\ new.warm[j] = w[a] /\ (a = j \/ a = j + 1)
                                  /\ (a = j <=> j < i)
        BY <2>4
      <4>2. PICK b \in DOMAIN w : /\ new.warm[k] = w[b] /\ (b = k \/ b = k + 1)
                                  /\ (b = k <=> k < i)
        BY <2>4
      <4>3. a = b
        BY <3>1, <4>1, <4>2 DEF Sound, OnePerPeer
      <4>4. QED
        BY <4>1, <4>2, <4>3, <2>1, <2>3, <1>1
    <3>2. ASSUME NEW j \in DOMAIN new.warm, NEW e \in new.idle
          PROVE  e.peer # new.warm[j].peer
      BY <2>4, <1>2 DEF Sound, OnePerPeer
    <3>3. QED
      BY <3>1, <3>2, <1>2 DEF Sound, OnePerPeer
  <2>7. Sound(new)
    <3>1. new \in Pool
      BY <1>1, <1>2, <2>2 DEF Without, Pool
    <3>2. QED
      BY <3>1, <2>6, <1>3 DEF Sound
  <2>8. Range(new.warm) = Range(w) \ {w[i]}
    <3>1. \A k \in DOMAIN w : k # i => w[k] # w[i]
      BY <1>1, <2>1 DEF Sound, OnePerPeer
    <3>2. QED
      BY <2>4, <2>5, <3>1, <2>1 DEF Range
  <2>9. All(new) = All(s) \ Of(s, p)
    <3>1. w[i] \in All(s)
      BY <1>1, <2>1 DEF All, Range
    <3>2. Of(s, p) = {w[i]}
      BY <3>1, <2>1, Unique DEF Of
    <3>3. gone \subseteq Of(s, p)
      BY DEF Of, All
    <3>4. \A e \in s.idle : e.peer # p
      BY <2>1, <1>1 DEF Sound, OnePerPeer
    <3>5. w[i] \notin s.idle
      BY <3>4, <2>1
    <3>6. new.idle = s.idle
      BY <1>2, <3>4
    <3>7. QED
      BY <2>8, <3>2, <3>5, <3>6 DEF All
  <2>10. QED
    BY <1>1, <1>3, <2>2, <2>7, <2>9 DEF Size
<1>6. QED
  BY <1>4, <1>5

LEMMA TouchedFacts ==
  ASSUME NEW s, Sound(s), NEW p \in Peers
  PROVE  /\ Sound(Touched(s, p)) /\ All(Touched(s, p)) = All(s)
         /\ Size(Touched(s, p)) <= Size(s)
<1>1. CASE Of(s, p) = {}
  <2>1. Size(s) \in Nat
    BY Unique DEF Size
  <2>2. QED
    BY <1>1, <2>1 DEF Touched
<1>2. CASE Of(s, p) # {}
  <2> DEFINE e == CHOOSE d \in Of(s, p) : TRUE
             rest == Without(s, p)
             new == Touched(s, p)
  <2>1. e \in Of(s, p)
    BY <1>2
  <2> HIDE DEF e
  <2>2. /\ Sound(rest) /\ All(rest) = All(s) \ Of(s, p) /\ Size(rest) + 1 <= Size(s)
    BY <1>2, WithoutFacts
  <2>3. new.warm = Append(rest.warm, e) /\ new.idle = rest.idle /\ new = [warm |-> new.warm, idle |-> new.idle]
    BY <1>2 DEF Touched, Without, e
  <2> HIDE DEF rest, new
  <2>4. e \in All(s) /\ e.peer = p /\ e \in Session /\ Of(s, p) = {e}
    BY <2>1, Unique DEF Of
  <2>5. /\ rest.warm \in Seq(Session) /\ DOMAIN rest.warm = 1..Len(rest.warm)
        /\ Len(rest.warm) \in Nat /\ Cardinality(rest.idle) \in Nat
        /\ rest.idle \subseteq Session
    BY <2>2, Unique
  <2>6. /\ new.warm \in Seq(Session) /\ Len(new.warm) = Len(rest.warm) + 1
        /\ \A j \in 1..Len(rest.warm) : new.warm[j] = rest.warm[j]
        /\ new.warm[Len(rest.warm) + 1] = e
        /\ DOMAIN new.warm = 1..(Len(rest.warm) + 1)
    BY <2>3, <2>4, <2>5, AppendedFacts
  <2>7. Range(new.warm) = Range(rest.warm) \cup {e}
    BY <2>3, <2>4, <2>5, AppendedFacts
  <2>8. All(new) = All(s)
    BY <2>2, <2>3, <2>4, <2>7 DEF All
  <2>9. \A d \in All(rest) : d.peer # p
    BY <2>2 DEF Of
  <2>10. (\A j \in DOMAIN rest.warm : rest.warm[j].peer # p) /\ (\A d \in rest.idle : d.peer # p)
    BY <2>9 DEF All, Range
  <2>11. OnePerPeer(new)
    <3>1. OnePerPeer(rest)
      BY <2>2 DEF Sound
    <3>2. \A j \in DOMAIN new.warm :
            \/ j \in DOMAIN rest.warm /\ new.warm[j] = rest.warm[j]
            \/ j = Len(rest.warm) + 1 /\ new.warm[j] = e
      BY <2>5, <2>6
    <3>3. QED
      BY <2>3, <2>4, <2>10, <3>1, <3>2 DEF OnePerPeer
  <2>12. Sound(new)
    BY <2>2, <2>3, <2>5, <2>6, <2>11 DEF Sound, Pool
  <2>13. Size(new) = Size(rest) + 1
    BY <2>3, <2>5, <2>6 DEF Size
  <2>14. QED
    BY <2>2, <2>8, <2>12, <2>13 DEF new
<1>3. QED
  BY <1>1, <1>2

LEMMA ForgottenFacts ==
  ASSUME NEW s, Sound(s), NEW p \in Peers, NEW c
  PROVE  /\ Sound(ForgetIf(s, p, c)) /\ Size(ForgetIf(s, p, c)) <= Size(s)
         /\ \A e \in All(s) : e \in All(ForgetIf(s, p, c)) \/ e.conn = c
<1>1. CASE c \in Pooled(s, p)
  <2>1. PICK d \in Of(s, p) : d.conn = c
    BY <1>1 DEF Pooled
  <2>2. Of(s, p) = {d}
    BY Unique DEF Of
  <2>3. QED
    BY <1>1, <2>1, <2>2, WithoutFacts DEF ForgetIf
<1>2. CASE c \notin Pooled(s, p)
  <2>1. Size(s) \in Nat
    BY Unique DEF Size
  <2>2. QED
    BY <1>2, <2>1 DEF ForgetIf
<1>3. QED
  BY <1>1, <1>2

LEMMA InsertedFacts ==
  ASSUME PoolCap \in Nat, NEW s, Fits(s), NEW p \in Peers, NEW c \in Conn
  PROVE  /\ Fits(Insert(s, p, c))
         /\ \A e \in Range(s.warm) :
              \/ e \in All(Insert(s, p, c))
              \/ /\ Len(s.warm) = PoolCap /\ e = Head(s.warm)
                 /\ Len(Insert(s, p, c).warm) = PoolCap
<1> DEFINE kept == Swept(s)
           w == s.warm
           e == [peer |-> p, conn |-> c]
           all == Append(w, e)
           new == Insert(s, p, c)
<1>1. /\ Sound(kept) /\ kept = [warm |-> w, idle |-> {}] /\ All(kept) = Range(w)
      /\ Size(kept) = Len(w) /\ Size(kept) <= Size(s) /\ Size(s) <= PoolCap
      /\ w \in Seq(Session) /\ DOMAIN w = 1..Len(w) /\ Len(w) \in Nat
      /\ Size(s) \in Nat
  BY SweptFacts, Unique DEF Fits, Size
<1>2. CASE Of(kept, p) # {}
  <2>1. new = Touched(kept, p)
    BY <1>2 DEF Insert
  <2>2. Sound(new) /\ All(new) = All(kept) /\ Size(new) <= Size(kept)
    BY <1>1, <2>1, TouchedFacts
  <2>3. Size(new) \in Nat
    BY <2>2, Unique DEF Size
  <2>4. QED
    BY <1>1, <2>2, <2>3 DEF Fits
<1>3. CASE Of(kept, p) = {}
  <2>1. new = [warm |-> EvictLocked(all), idle |-> {}]
    <3>1. new = [kept EXCEPT !.warm = EvictLocked(Append(kept.warm, e))]
      BY <1>3 DEF Insert
    <3> HIDE DEF kept, new
    <3>2. QED
      BY <1>1, <3>1
  <2>2. e \in Session /\ e.peer = p
    BY DEF Session
  <2>3. /\ all \in Seq(Session) /\ Len(all) = Len(w) + 1
        /\ \A j \in 1..Len(w) : all[j] = w[j]
        /\ all[Len(w) + 1] = e /\ DOMAIN all = 1..(Len(w) + 1)
    BY <1>1, <2>2, AppendedFacts
  <2> HIDE DEF e, all, new
  <2>4. \A j \in DOMAIN w : w[j].peer # p
    BY <1>1, <1>3 DEF Of, Range
  <2>5. \A j, k \in 1..(Len(w) + 1) : all[j].peer = all[k].peer => j = k
    <3>1. \A j \in 1..(Len(w) + 1) :
            \/ j \in DOMAIN w /\ all[j] = w[j] /\ all[j].peer # p
            \/ j = Len(w) + 1 /\ all[j].peer = p
      <4> SUFFICES ASSUME NEW j \in 1..(Len(w) + 1)
                   PROVE  \/ j \in DOMAIN w /\ all[j] = w[j] /\ all[j].peer # p
                          \/ j = Len(w) + 1 /\ all[j].peer = p
        OBVIOUS
      <4>1. j \in DOMAIN w \/ j = Len(w) + 1
        BY <1>1
      <4>2. j \in DOMAIN w => all[j] = w[j]
        BY <1>1, <2>3
      <4>3. QED
        BY <2>2, <2>3, <2>4, <4>1, <4>2
    <3>2. \A j, k \in DOMAIN w : w[j].peer = w[k].peer => j = k
      BY <1>1 DEF Sound, OnePerPeer
    <3>3. QED
      BY <3>1, <3>2
  <2>6. IsFiniteSet({}) /\ Cardinality({}) = 0
    BY FS_EmptySet
  <2>7. CASE Len(all) > PoolCap
    <3>1. new = [warm |-> Tail(all), idle |-> {}] /\ all # <<>>
      <4>1. Len(all) # 0
        BY <1>1, <2>3
      <4>2. all # <<>>
        BY <4>1
      <4>3. QED
        BY <2>1, <2>7, <4>2 DEF EvictLocked
    <3>2. /\ new.warm \in Seq(Session) /\ Len(new.warm) = Len(w)
          /\ \A j \in 1..Len(w) : new.warm[j] = all[j + 1]
          /\ DOMAIN new.warm = 1..Len(w)
      BY <1>1, <2>3, <3>1, TailFacts
    <3>3. Len(w) = PoolCap
      BY <1>1, <2>3, <2>7
    <3>4. OnePerPeer(new)
      <4>1. ASSUME NEW j \in DOMAIN new.warm, NEW k \in DOMAIN new.warm,
                   new.warm[j].peer = new.warm[k].peer
            PROVE  j = k
        <5>1. j \in 1..Len(w) /\ k \in 1..Len(w)
          BY <3>2
        <5> Len(w) \in Nat
          BY <1>1
        <5>2. new.warm[j] = all[j + 1] /\ new.warm[k] = all[k + 1]
          BY <3>2, <5>1
        <5>3. j + 1 \in 1..(Len(w) + 1) /\ k + 1 \in 1..(Len(w) + 1)
          BY <5>1
        <5>4. j + 1 = k + 1
          BY <2>5, <4>1, <5>2, <5>3
        <5>5. QED
          BY <5>1, <5>4
      <4>2. QED
        BY <3>1, <4>1 DEF OnePerPeer
    <3>5. Fits(new)
      BY <1>1, <2>6, <3>1, <3>2, <3>3, <3>4 DEF Fits, Sound, Pool, Size
    <3>6. ASSUME NEW d \in Range(w), d # Head(w) PROVE d \in Range(new.warm)
      <4>1. PICK j \in 1..Len(w) : d = w[j]
        BY <1>1 DEF Range
      <4>2. Head(w) = w[1]
        BY <1>1, <4>1
      <4>3. j # 1
        BY <3>6, <4>1, <4>2
      <4>4. j - 1 \in 1..Len(w) /\ (j - 1) + 1 = j
        BY <1>1, <4>3
      <4>5. new.warm[j - 1] = w[j]
        BY <2>3, <3>2, <4>4
      <4>6. QED
        BY <3>2, <4>1, <4>4, <4>5 DEF Range
    <3>7. QED
      BY <3>2, <3>3, <3>5, <3>6 DEF All, new
  <2>8. CASE ~(Len(all) > PoolCap)
    <3>1. new = [warm |-> all, idle |-> {}]
      BY <2>1, <2>8 DEF EvictLocked
    <3>2. OnePerPeer(new)
      BY <2>3, <2>5, <3>1 DEF OnePerPeer
    <3>3. Fits(new)
      BY <1>1, <2>3, <2>6, <2>8, <3>1, <3>2 DEF Fits, Sound, Pool, Size
    <3>4. Range(w) \subseteq Range(all)
      BY <1>1, <2>3 DEF Range
    <3>5. QED
      BY <3>1, <3>3, <3>4 DEF All, new
  <2>9. QED
    BY <2>7, <2>8
<1>4. QED
  BY <1>2, <1>3

LEMMA GrownStaleFacts ==
  ASSUME NEW s, Fits(s), s.warm # <<>>,
         NEW new, new = [warm |-> Tail(s.warm), idle |-> s.idle \cup {Head(s.warm)}]
  PROVE  Fits(new) /\ Range(s.warm) \subseteq All(new)
<1> DEFINE w == s.warm
<1>1. /\ w \in Seq(Session) /\ DOMAIN w = 1..Len(w) /\ Len(w) \in Nat /\ s.idle \subseteq Session
      /\ Cardinality(s.idle) \in Nat /\ IsFiniteSet(s.idle)
  BY Unique DEF Fits, Sound
<1>2. /\ new.warm \in Seq(Session) /\ Len(new.warm) = Len(w) - 1 /\ Head(w) = w[1]
      /\ Head(w) \in Session /\ 1 \in 1..Len(w)
      /\ \A j \in 1..(Len(w) - 1) : new.warm[j] = w[j + 1]
      /\ DOMAIN new.warm = 1..(Len(w) - 1)
  BY <1>1, TailFacts
<1>3. w[1] \notin s.idle
  BY <1>1, <1>2 DEF Fits, Sound, OnePerPeer
<1>4. IsFiniteSet(new.idle) /\ Cardinality(new.idle) = Cardinality(s.idle) + 1
  <2>1. new.idle = s.idle \cup {w[1]}
    BY <1>2
  <2>2. QED
    BY <1>1, <1>3, <2>1, FS_AddElement
<1>5. \A j \in DOMAIN new.warm : j + 1 \in DOMAIN w /\ j + 1 # 1 /\ new.warm[j] = w[j + 1]
  BY <1>1, <1>2
<1>6. OnePerPeer(new)
  <2>1. OnePerPeer(s)
    BY DEF Fits, Sound
  <2>2. ASSUME NEW j \in DOMAIN new.warm, NEW k \in DOMAIN new.warm,
               new.warm[j].peer = new.warm[k].peer
        PROVE  j = k
    <3>1. j + 1 = k + 1
      BY <1>5, <2>1, <2>2 DEF OnePerPeer
    <3>2. QED
      BY <3>1, <1>2
  <2>3. ASSUME NEW j \in DOMAIN new.warm, NEW e \in new.idle PROVE e.peer # new.warm[j].peer
    <3>1. j + 1 \in DOMAIN w /\ j + 1 # 1 /\ new.warm[j] = w[j + 1]
      BY <1>5
    <3>2. w[1].peer # w[j + 1].peer
      BY <1>1, <1>2, <2>1, <3>1 DEF OnePerPeer
    <3>3. e \in s.idle \/ e = w[1]
      BY <1>2
    <3>4. QED
      BY <2>1, <3>1, <3>2, <3>3 DEF OnePerPeer
  <2>4. \A d, e \in new.idle : d.peer = e.peer => d = e
    BY <1>1, <1>2, <2>1 DEF OnePerPeer
  <2>5. QED
    BY <2>2, <2>3, <2>4 DEF OnePerPeer
<1>7. Fits(new)
  BY <1>1, <1>2, <1>4, <1>6 DEF Fits, Sound, Pool, Size
<1>8. ASSUME NEW e \in Range(w) PROVE e \in All(new)
  <2>1. PICK j \in 1..Len(w) : e = w[j]
    BY <1>1 DEF Range
  <2>2. CASE j = 1
    BY <1>2, <2>1, <2>2 DEF All
  <2>3. CASE j # 1
    <3>1. j - 1 \in 1..(Len(w) - 1) /\ (j - 1) + 1 = j
      BY <1>1, <2>3
    <3>2. QED
      BY <1>2, <2>1, <3>1 DEF All, Range
  <2>4. QED
    BY <2>2, <2>3
<1>9. QED
  BY <1>7, <1>8
-----------------------------------------------------------------------------
(***************************************************************************)
(* What a step does to the pool.                                           *)
(***************************************************************************)
\* What FreshSessionStays says of one session.
LetGo(e) ==
  \/ \E t \in Sender : senders[t].conn = e.conn /\ senders'[t].conn # e.conn
  \/ \E l \in accepting \ accepting' : l.conn = e.conn

Evicted(e) == Len(pool.warm) = PoolCap /\ e = Head(pool.warm) /\ Len(pool'.warm) = PoolCap

\* The pool stays in order, and every warm session stays, is let go or evicted.
PoolKept ==
  /\ Fits(pool')
  /\ \A e \in Range(pool.warm) : e \in All(pool') \/ LetGo(e) \/ Evicted(e)

LEMMA SweepKeeps ==
  ASSUME Fits(pool), pool' = Swept(pool), PoolCap \in Nat
  PROVE  PoolKept
<1>1. /\ Sound(pool') /\ All(pool') = Range(pool.warm)
      /\ Size(pool') <= Size(pool) /\ Size(pool) <= PoolCap
      /\ Size(pool') \in Nat /\ Size(pool) \in Nat
  BY SweptFacts, Unique DEF Fits, Size
<1>2. QED
  BY <1>1 DEF PoolKept, Fits

LEMMA TouchKeeps ==
  ASSUME Fits(pool), PoolCap \in Nat, NEW p \in Peers, pool' = Touched(pool, p)
  PROVE  PoolKept
<1>1. /\ Sound(pool') /\ All(pool') = All(pool)
      /\ Size(pool') <= Size(pool) /\ Size(pool) <= PoolCap
      /\ Size(pool') \in Nat /\ Size(pool) \in Nat
  BY TouchedFacts, Unique DEF Fits, Size
<1>2. QED
  BY <1>1 DEF PoolKept, Fits, All

\* Whoever forgets a session lets go of its connection.
LEMMA ForgetKeeps ==
  ASSUME Fits(pool), PoolCap \in Nat, NEW s, Sound(s), Size(s) <= Size(pool),
         All(s) = All(pool), NEW p \in Peers, NEW c, pool' = ForgetIf(s, p, c),
         \A e \in All(pool) : e.conn = c => LetGo(e)
  PROVE  PoolKept
<1>1. /\ Sound(pool') /\ Size(pool') <= Size(s)
      /\ \A e \in All(s) : e \in All(pool') \/ e.conn = c
      /\ Size(pool') \in Nat /\ Size(pool) \in Nat /\ Size(s) \in Nat /\ Size(pool) <= PoolCap
  BY ForgottenFacts, Unique DEF Fits, Size
<1>2. Range(pool.warm) \subseteq All(s)
  BY DEF All
<1>3. QED
  BY <1>1, <1>2 DEF PoolKept, Fits

LEMMA InsertKeeps ==
  ASSUME Fits(pool), PoolCap \in Nat, NEW p \in Peers, NEW c \in Conn,
         pool' = Insert(pool, p, c)
  PROVE  PoolKept
BY InsertedFacts DEF PoolKept, Evicted

LEMMA SamePool ==
  ASSUME Fits(pool), pool' = pool
  PROVE  PoolKept
BY DEF PoolKept, All

LEMMA PoolStep ==
  ASSUME Inv, [Next]_sessionVars
  PROVE  PoolKept
<1>1. /\ Fits(pool) /\ PoolCap \in Nat /\ Conn \subseteq Nat \ {0} /\ Sound(pool)
      /\ senders \in [Sender -> SendTask] /\ accepting \subseteq Loop
      /\ \A e \in All(pool) : e.conn \in Conn
      /\ \A t \in Sender : senders[t].peer \in Peers
  <2>1. Fits(pool) /\ Sound(pool)
    BY DEF Inv, Fits
  <2>2. \A e \in All(pool) : e.conn \in Conn
    BY <2>1, Unique DEF Session
  <2>3. QED
    BY <2>1, <2>2 DEF Inv, TasksOK, ChatSessionsAssumption, SendTask
<1>2. CASE GrowStale
  BY <1>1, <1>2, GrownStaleFacts DEF GrowStale, PoolKept
<1>3. ASSUME NEW t \in Sender, NEW p \in Peers, PeerGate(t, p) PROVE PoolKept
  BY <1>1, <1>3, SamePool DEF PeerGate
<1>4. ASSUME NEW t \in Sender, EnterGate(t) \/ Dial(t) \/ PreferPooled(t) PROVE PoolKept
  BY <1>1, <1>4, SweepKeeps DEF EnterGate, Dial, PreferPooled
<1>5. ASSUME NEW t \in Sender, SendAcknowledged(t) PROVE PoolKept
  BY <1>1, <1>5, TouchKeeps DEF SendAcknowledged
<1>6. ASSUME NEW t \in Sender, SendFails(t) PROVE PoolKept
  <2>1. senders'[t].conn = NoConn
    BY <1>1, <1>6 DEF SendFails, Goto, Return, AtRest, SendTask
  <2>2. \A e \in All(pool) : e.conn = senders[t].conn => LetGo(e)
    BY <1>1, <2>1 DEF LetGo, NoConn
  <2>3. Size(pool) <= Size(pool)
    BY <1>1, Unique DEF Size
  <2>4. pool' = ForgetIf(pool, senders[t].peer, senders[t].conn)
    BY <1>6 DEF SendFails
  <2>5. QED
    BY <1>1, <2>2, <2>3, <2>4, ForgetKeeps
<1>7. ASSUME NEW t \in Sender, ConnectEnds(t) PROVE PoolKept
  <2>1. (\E c \in Conn : pool' = Insert(pool, senders[t].peer, c)) \/ pool' = pool
    BY <1>7 DEF ConnectEnds
  <2>2. QED
    BY <1>1, <2>1, InsertKeeps, SamePool
<1>8. ASSUME NEW p \in Peers, Accept(p) PROVE PoolKept
  BY <1>1, <1>8, InsertKeeps DEF Accept
<1>9. ASSUME NEW l \in accepting, AcceptStream(l) PROVE PoolKept
  BY <1>1, <1>9, TouchKeeps DEF AcceptStream, Loop
<1>10. ASSUME NEW l \in accepting, AcceptEnds(l) PROVE PoolKept
  <2>1. l.peer \in Peers /\ l \in accepting \ accepting'
    BY <1>1, <1>10 DEF AcceptEnds, Loop
  <2>2. PICK opened \in BOOLEAN :
          LET used == IF opened THEN Touched(pool, l.peer) ELSE pool IN
          pool' = IF l.pooled THEN ForgetIf(used, l.peer, l.conn) ELSE used
    BY <1>10 DEF AcceptEnds
  <2> DEFINE used == IF opened THEN Touched(pool, l.peer) ELSE pool
  <2>3. Sound(used) /\ All(used) = All(pool) /\ Size(used) <= Size(pool)
    BY <1>1, <2>1, TouchedFacts, Unique DEF Size
  <2>4. CASE l.pooled
    <3>1. pool' = ForgetIf(used, l.peer, l.conn)
      BY <2>2, <2>4
    <3>2. \A e \in All(pool) : e.conn = l.conn => LetGo(e)
      BY <2>1 DEF LetGo
    <3> HIDE DEF used
    <3>3. QED
      BY <1>1, <2>1, <2>3, <3>1, <3>2, ForgetKeeps
  <2>5. CASE ~l.pooled
    BY <1>1, <2>1, <2>2, <2>5, TouchKeeps, SamePool
  <2>6. QED
    BY <2>4, <2>5
<1>11. CASE TakePacket \/ \E c \in Conn : c # NoConn /\ CloseConnection(c)
  BY <1>1, <1>11, SamePool DEF TakePacket, CloseConnection
<1>12. CASE UNCHANGED sessionVars
  BY <1>1, <1>12, SamePool DEF sessionVars
<1>13. QED
  BY <1>2, <1>3, <1>4, <1>5, <1>6, <1>7, <1>8, <1>9, <1>10, <1>11, <1>12 DEF Next
-----------------------------------------------------------------------------
(***************************************************************************)
(* What a step does to the tasks.                                          *)
(***************************************************************************)
\* There is a number that no gate has.
LEMMA FreshGateIsFresh ==
  ASSUME ChatSessionsAssumption
  PROVE  /\ FreshGate \in Nat /\ FreshGate # 0
         /\ FreshGate \notin GatesInUse /\ \A p \in Peers : gates[p] # FreshGate
<1> DEFINE N == Cardinality(Sender) + Cardinality(Peers) + 1
           table == {gates[p] : p \in Peers}
           f == [t \in Sender |-> senders[t].gate]
           g == [p \in Peers |-> gates[p]]
<1>1. /\ IsFiniteSet(Sender) /\ IsFiniteSet(Peers)
      /\ Cardinality(Sender) \in Nat /\ Cardinality(Peers) \in Nat
  BY FS_CardinalityType DEF ChatSessionsAssumption
<1>2. IsFiniteSet(GatesInUse) /\ Cardinality(GatesInUse) <= Cardinality(Sender)
  <2>1. f \in Surjection(Sender, GatesInUse)
    BY DEF Surjection, GatesInUse
  <2>2. QED
    BY <1>1, <2>1, FS_Surjection
<1>3. IsFiniteSet(table) /\ Cardinality(table) <= Cardinality(Peers)
  <2>1. g \in Surjection(Peers, table)
    BY DEF Surjection
  <2>2. QED
    BY <1>1, <2>1, FS_Surjection
<1>4. /\ IsFiniteSet(GatesInUse \cup table)
      /\ Cardinality(GatesInUse \cup table) < N
  <2>1. /\ Cardinality(GatesInUse \cup table)
             = Cardinality(GatesInUse) + Cardinality(table) - Cardinality(GatesInUse \cap table)
        /\ IsFiniteSet(GatesInUse \cup table)
    BY <1>2, <1>3, FS_Union
  <2>2. /\ Cardinality(GatesInUse) \in Nat /\ Cardinality(table) \in Nat
        /\ Cardinality(GatesInUse \cap table) \in Nat
    BY <1>2, <1>3, FS_CardinalityType, FS_Intersection
  <2> HIDE DEF table
  <2>3. QED
    BY <1>1, <1>2, <1>3, <2>1, <2>2
<1>5. \E n \in 1..N : n \notin GatesInUse \cup table
  <2>1. SUFFICES ASSUME 1..N \subseteq GatesInUse \cup table PROVE FALSE
    OBVIOUS
  <2>2. Cardinality(1..N) = N
    BY <1>1, FS_Interval
  <2>3. Cardinality(1..N) <= Cardinality(GatesInUse \cup table)
    BY <1>4, <2>1, FS_Subset
  <2>4. Cardinality(GatesInUse \cup table) \in Nat
    BY <1>4, FS_CardinalityType
  <2> HIDE DEF table
  <2>5. QED
    BY <1>1, <1>4, <2>2, <2>3, <2>4
<1>6. FreshGate \in 1..N /\ FreshGate \notin GatesInUse \cup table
  BY <1>5 DEF FreshGate
<1>7. QED
  BY <1>1, <1>6

\* A task moves on behind its gate: nothing but its stage and connection change.
Moves(t) ==
  \E stage \in Inside, c \in Conn \cup {NoConn} :
    senders' = [senders EXCEPT ![t].stage = stage, ![t].conn = c]

LEMMA AtRestIsSendTask == ChatSessionsAssumption => AtRest \in SendTask /\ AtRest.gate = 0
                            /\ AtRest.stage = "idle"
BY DEF ChatSessionsAssumption, AtRest, SendTask, Stage, NoConn

LEMMA MovesKeep ==
  ASSUME Inv, NEW t \in Sender, Moves(t), gates' = gates,
         senders[t].stage \in Inside
           \/ /\ senders[t].stage = "wait"
              /\ \A u \in Sender : senders[u].gate = senders[t].gate => senders[u].stage \notin Inside
  PROVE  senders' \in [Sender -> SendTask] /\ Gated' /\ Locked'
<1>1. senders \in [Sender -> SendTask] /\ Inside \subseteq Stage /\ "idle" \notin Inside
  BY DEF Inv, TasksOK, Inside, Stage
<1>2. PICK stage \in Inside, c \in Conn \cup {NoConn} :
        senders' = [senders EXCEPT ![t].stage = stage, ![t].conn = c]
  BY DEF Moves
<1> DEFINE new == [[senders[t] EXCEPT !.stage = stage] EXCEPT !.conn = c]
<1>3. /\ new \in SendTask /\ new.stage = stage /\ new.gate = senders[t].gate
      /\ new.peer = senders[t].peer
  BY <1>1 DEF SendTask
<1>4. senders' = [senders EXCEPT ![t] = new]
  BY <1>1, <1>2
<1> HIDE DEF new
<1>5. /\ senders' \in [Sender -> SendTask] /\ senders'[t] = new
      /\ \A u \in Sender : u # t => senders'[u] = senders[u]
  BY <1>1, <1>3, <1>4
<1>6. Gated'
  <2>1. senders[t].stage # "idle"
    BY <1>1
  <2>2. ASSUME NEW u \in Sender
        PROVE  IF senders'[u].stage = "idle" THEN senders'[u].gate = 0
               ELSE senders'[u].gate # 0 /\ gates[senders'[u].peer] = senders'[u].gate
    BY <1>1, <1>3, <1>5, <2>1 DEF Inv, Gated
  <2>3. QED
    BY <2>2 DEF Gated
<1>7. Locked'
  <2>1. ASSUME NEW u \in Sender, u # t, senders[u].gate = senders[t].gate
        PROVE  senders[u].stage \notin Inside
    BY <2>1 DEF Inv, Locked
  <2>2. ASSUME NEW u \in Sender, NEW v \in Sender, senders'[u].stage \in Inside,
               senders'[v].stage \in Inside, senders'[u].gate = senders'[v].gate
        PROVE  u = v
    <3>1. CASE u = t \/ v = t
      BY <1>3, <1>5, <2>1, <2>2, <3>1
    <3>2. CASE u # t /\ v # t
      BY <1>5, <2>2, <3>2 DEF Inv, Locked
    <3>3. QED
      BY <3>1, <3>2
  <2>3. QED
    BY <2>2 DEF Locked
<1>8. QED
  BY <1>5, <1>6, <1>7

LEMMA ReturnKeeps ==
  ASSUME Inv, NEW t \in Sender, Return(t), gates' = gates
  PROVE  senders' \in [Sender -> SendTask] /\ Gated' /\ Locked'
<1>1. /\ senders \in [Sender -> SendTask] /\ "idle" \notin Inside
      /\ AtRest \in SendTask /\ AtRest.gate = 0 /\ AtRest.stage = "idle"
  BY AtRestIsSendTask DEF Inv, TasksOK, Inside
<1>2. /\ senders' \in [Sender -> SendTask] /\ senders'[t] = AtRest
      /\ \A u \in Sender : u # t => senders'[u] = senders[u]
  BY <1>1 DEF Return
<1>3. Gated'
  BY <1>1, <1>2 DEF Inv, Gated
<1>4. Locked'
  BY <1>1, <1>2 DEF Inv, Locked
<1>5. QED
  BY <1>2, <1>3, <1>4

LEMMA PeerGateKeeps ==
  ASSUME Inv, NEW t \in Sender, NEW p \in Peers, PeerGate(t, p)
  PROVE  senders' \in [Sender -> SendTask] /\ gates' \in [Peers -> Nat] /\ Gated' /\ Locked'
<1> DEFINE full == Cardinality({q \in Peers : gates[q] # 0}) >= GateCap
           kept == IF full THEN SweptGates ELSE gates
           gate == IF kept[p] # 0 THEN kept[p] ELSE FreshGate
           task == [stage |-> "wait", peer |-> p, gate |-> gate, conn |-> NoConn]
<1>1. /\ senders \in [Sender -> SendTask] /\ gates \in [Peers -> Nat] /\ Inside \subseteq Stage
      /\ "idle" \notin Inside /\ "wait" \notin Inside /\ "wait" \in Stage
  BY DEF Inv, TasksOK, Inside, Stage
<1>2. FreshGate \in Nat /\ FreshGate # 0
  BY FreshGateIsFresh DEF Inv
<1>3. kept \in [Peers -> Nat]
  BY <1>1 DEF SweptGates
<1>4. \A u \in Sender : senders[u].stage # "idle" =>
        kept[senders[u].peer] = senders[u].gate /\ senders[u].gate # 0 /\ senders[u].peer \in Peers
  BY <1>1 DEF Inv, Gated, SweptGates, GatesInUse, SendTask
<1>5. /\ senders[t].stage = "idle" /\ gates' = [kept EXCEPT ![p] = gate]
      /\ senders' = [senders EXCEPT ![t] = task]
  BY DEF PeerGate
<1> HIDE DEF kept
<1>6. gate \in Nat /\ gate # 0
  BY <1>2, <1>3
<1>7. gate = kept[p] \/ kept[p] = 0
  OBVIOUS
<1> HIDE DEF gate
<1>8. task \in SendTask /\ task.stage = "wait" /\ task.gate = gate /\ task.peer = p
  BY <1>1, <1>6 DEF SendTask
<1> HIDE DEF task
<1>9. /\ senders' \in [Sender -> SendTask] /\ gates' \in [Peers -> Nat]
      /\ senders'[t] = task /\ gates'[p] = gate
      /\ \A u \in Sender : u # t => senders'[u] = senders[u]
      /\ \A q \in Peers : q # p => gates'[q] = kept[q]
  BY <1>1, <1>3, <1>5, <1>6, <1>8
<1>10. ASSUME NEW u \in Sender
       PROVE  IF senders'[u].stage = "idle" THEN senders'[u].gate = 0
              ELSE senders'[u].gate # 0 /\ gates'[senders'[u].peer] = senders'[u].gate
  <2>1. CASE u = t
    BY <1>6, <1>8, <1>9, <2>1
  <2>2. CASE u # t /\ senders[u].stage = "idle"
    BY <1>9, <2>2 DEF Inv, Gated
  <2>3. CASE u # t /\ senders[u].stage # "idle"
    <3>1. /\ senders'[u] = senders[u] /\ senders[u].gate # 0
          /\ kept[senders[u].peer] = senders[u].gate /\ senders[u].peer \in Peers
      BY <1>4, <1>9, <2>3
    <3>2. gates'[senders[u].peer] = kept[senders[u].peer]
      BY <1>7, <1>9, <3>1
    <3>3. QED
      BY <2>3, <3>1, <3>2
  <2>4. QED
    BY <2>1, <2>2, <2>3
<1>11. Gated'
  BY <1>10 DEF Gated
<1>12. Locked'
  BY <1>1, <1>8, <1>9 DEF Inv, Locked
<1>13. QED
  BY <1>9, <1>11, <1>12

LEMMA PooledConns ==
  ASSUME Inv, NEW p, NEW c \in Pooled(Swept(pool), p)
  PROVE  c \in Conn
BY SweptFacts, Unique DEF Inv, Fits, Pooled, Of, Session

LEMMA TasksStep ==
  ASSUME Inv, [Next]_sessionVars
  PROVE  TasksOK' /\ Gated' /\ Locked'
<1>1. /\ TasksOK /\ Gated /\ Locked /\ MaxFaults \in Nat /\ InviteQueue \in Nat
      /\ {"reuse", "dial", "connecting", "inserted", "send"} \subseteq Inside
      /\ "idle" \notin Inside /\ "wait" \notin Inside
  BY DEF Inv, ChatSessionsAssumption, Inside, Stage
<1>2. Fault => faults' \in 0..MaxFaults
  BY <1>1 DEF Fault, TasksOK
<1>3. UNCHANGED <<gates, senders>> =>
        senders' \in [Sender -> SendTask] /\ gates' \in [Peers -> Nat] /\ Gated' /\ Locked'
  BY <1>1 DEF TasksOK, Gated, Locked
<1>4. CASE GrowStale \/ TakePacket \/ UNCHANGED sessionVars
           \/ \E c \in Conn : c # NoConn /\ CloseConnection(c)
  <2>1. /\ accepting' \subseteq Loop /\ inbox' \in 0..InviteQueue
        /\ closed' \subseteq Conn /\ faults' \in 0..MaxFaults
    BY <1>1, <1>2, <1>4 DEF GrowStale, TakePacket, CloseConnection, sessionVars, TasksOK
  <2>2. UNCHANGED <<gates, senders>>
    BY <1>4 DEF GrowStale, TakePacket, CloseConnection, sessionVars
  <2>3. QED
    BY <1>3, <2>1, <2>2 DEF TasksOK
<1>5. ASSUME NEW t \in Sender, NEW p \in Peers, PeerGate(t, p)
      PROVE  TasksOK' /\ Gated' /\ Locked'
  BY <1>1, <1>5, PeerGateKeeps DEF PeerGate, TasksOK
<1>6. ASSUME NEW t \in Sender, EnterGate(t) \/ Dial(t) \/ PreferPooled(t)
      PROVE  TasksOK' /\ Gated' /\ Locked'
  <2>1. UNCHANGED <<gates, accepting, inbox, closed, faults>>
    BY <1>6 DEF EnterGate, Dial, PreferPooled
  <2>2. senders[t].conn \in Conn \cup {NoConn}
    BY <1>1 DEF TasksOK, SendTask
  <2>3. Moves(t)
    BY <1>1, <1>6, <2>2, PooledConns DEF EnterGate, Dial, PreferPooled, Goto, Moves
  <2>4. senders' \in [Sender -> SendTask] /\ Gated' /\ Locked'
    BY <1>1, <1>6, <2>1, <2>3, MovesKeep DEF EnterGate, Dial, PreferPooled
  <2>5. QED
    BY <1>1, <2>1, <2>4 DEF TasksOK
<1>7. ASSUME NEW t \in Sender, SendAcknowledged(t) PROVE TasksOK' /\ Gated' /\ Locked'
  BY <1>1, <1>7, ReturnKeeps DEF SendAcknowledged, TasksOK
<1>8. ASSUME NEW t \in Sender, SendFails(t) PROVE TasksOK' /\ Gated' /\ Locked'
  <2>1. UNCHANGED <<gates, accepting, inbox, closed>> /\ faults' \in 0..MaxFaults
    BY <1>1, <1>2, <1>8 DEF SendFails, TasksOK
  <2>2. CASE senders[t].stage = "reuse"
    <3>1. Moves(t)
      BY <1>1, <1>8, <2>2 DEF SendFails, Goto, Moves
    <3>2. QED
      BY <1>1, <2>1, <2>2, <3>1, MovesKeep DEF TasksOK
  <2>3. CASE senders[t].stage # "reuse"
    BY <1>1, <1>8, <2>1, <2>3, ReturnKeeps DEF SendFails, TasksOK
  <2>4. QED
    BY <2>2, <2>3
<1>9. ASSUME NEW t \in Sender, ConnectEnds(t) PROVE TasksOK' /\ Gated' /\ Locked'
  <2>1. /\ UNCHANGED <<gates, accepting, inbox>> /\ faults' \in 0..MaxFaults
        /\ closed' \subseteq Conn /\ senders[t].stage = "connecting"
    BY <1>1, <1>2, <1>9 DEF ConnectEnds, TasksOK
  <2>2. Moves(t) \/ Return(t)
    BY <1>1, <1>9 DEF ConnectEnds, Goto, Moves
  <2>3. QED
    BY <1>1, <2>1, <2>2, MovesKeep, ReturnKeeps DEF TasksOK
<1>10. ASSUME NEW p \in Peers, Accept(p) PROVE TasksOK' /\ Gated' /\ Locked'
  <2>1. PICK c \in Conn :
          /\ closed' = closed \ {c}
          /\ accepting' = accepting \cup
               {[peer |-> p, conn |-> c, pooled |-> Pooled(Swept(pool), p) = {}]}
    BY <1>10 DEF Accept
  <2>2. \A b \in BOOLEAN : [peer |-> p, conn |-> c, pooled |-> b] \in Loop
    BY DEF Loop
  <2>3. (Pooled(Swept(pool), p) = {}) \in BOOLEAN
    OBVIOUS
  <2>4. [peer |-> p, conn |-> c, pooled |-> Pooled(Swept(pool), p) = {}] \in Loop
    BY <2>2, <2>3, Zenon
  <2>5. closed' \subseteq Conn /\ accepting' \subseteq Loop
    BY <1>1, <2>1, <2>4, Zenon DEF TasksOK
  <2>6. QED
    BY <1>1, <1>3, <1>10, <2>5 DEF Accept, TasksOK
<1>11. ASSUME NEW l \in accepting, AcceptStream(l) \/ AcceptEnds(l)
       PROVE  TasksOK' /\ Gated' /\ Locked'
  <2>1. UNCHANGED <<gates, senders, closed>> /\ accepting' \subseteq accepting
    BY <1>11 DEF AcceptStream, AcceptEnds
  <2>2. inbox' \in 0..InviteQueue /\ faults' \in 0..MaxFaults
    BY <1>1, <1>2, <1>11 DEF AcceptStream, AcceptEnds, TasksOK
  <2>3. QED
    BY <1>1, <1>3, <2>1, <2>2 DEF TasksOK
<1>12. QED
  BY <1>4, <1>5, <1>6, <1>7, <1>8, <1>9, <1>10, <1>11 DEF Next
-----------------------------------------------------------------------------
LEMMA InitInv == ChatSessionsAssumption /\ Init => Inv
<1> SUFFICES ASSUME ChatSessionsAssumption, Init PROVE Inv
  OBVIOUS
<1>1. Fits(pool)
  <2>1. <<>> \in Seq(Session) /\ Len(<<>>) = 0 /\ DOMAIN <<>> = {}
    OBVIOUS
  <2>2. pool.warm = <<>> /\ pool.idle = {} /\ pool \in Pool
    BY <2>1 DEF Init, Pool
  <2>3. OnePerPeer(pool)
    BY <2>1, <2>2 DEF OnePerPeer
  <2>4. IsFiniteSet({}) /\ Cardinality({}) = 0 /\ PoolCap \in Nat
    BY FS_EmptySet DEF ChatSessionsAssumption
  <2>5. QED
    BY <2>1, <2>2, <2>3, <2>4 DEF Fits, Sound, Size
<1>2. TasksOK /\ Gated /\ Locked
  BY AtRestIsSendTask DEF Init, TasksOK, Gated, Locked, Inside, ChatSessionsAssumption
<1>3. QED
  BY <1>1, <1>2 DEF Inv

LEMMA InvStep == Inv /\ [Next]_sessionVars => Inv'
<1> SUFFICES ASSUME Inv, [Next]_sessionVars PROVE Inv'
  OBVIOUS
<1>1. ChatSessionsAssumption'
  BY DEF Inv, ChatSessionsAssumption
<1>2. QED
  BY <1>1, PoolStep, TasksStep DEF Inv, PoolKept

LEMMA InvPromises == Inv => TypeOK /\ OneSendPerPeer
<1>1. Inv => TypeOK
  BY DEF Inv, Fits, Sound, Pool, Size, TasksOK, TypeOK
<1>2. Inv => OneSendPerPeer
  BY DEF Inv, Gated, Locked, OneSendPerPeer, Inside
<1>3. QED
  BY <1>1, <1>2

LEMMA FreshStays == Inv /\ [Next]_sessionVars => FreshSessionStays
<1> SUFFICES ASSUME Inv, [Next]_sessionVars PROVE FreshSessionStays
  OBVIOUS
<1>1. PoolKept
  BY PoolStep
<1>2. QED
  BY <1>1 DEF PoolKept, LetGo, Evicted, FreshSessionStays

LEMMA Invariance == ChatSessionsAssumption /\ Spec => []Inv
BY InitInv, InvStep, PTL DEF Spec

(***************************************************************************)
(* The pool keeps within its capacity and every variable its type, for any  *)
(* peers, tasks and connections (chat.rs evict_locked).                    *)
(***************************************************************************)
THEOREM TypeCorrect == ChatSessionsAssumption /\ Spec => []TypeOK
BY InvPromises, Invariance, PTL

(***************************************************************************)
(* peer_gate keeps two tasks from sending or dialling to one peer at once,   *)
(* although a full table of gates is swept while tasks wait in them.       *)
(***************************************************************************)
THEOREM SendsAreSerial == ChatSessionsAssumption /\ Spec => []OneSendPerPeer
BY InvPromises, Invariance, PTL

(***************************************************************************)
(* forget_pooled_if and the insert of a race never take a fresh session     *)
(* out of the pool in place of the one they mean.                          *)
(***************************************************************************)
THEOREM FreshSessionsStay == ChatSessionsAssumption /\ Spec => FreshSessionIsKept
<1>1. Inv /\ [Next]_sessionVars => [FreshSessionStays]_sessionVars
  BY FreshStays
<1>2. QED
  BY <1>1, Invariance, PTL DEF Spec, FreshSessionIsKept
=============================================================================
