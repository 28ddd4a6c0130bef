------------------------ MODULE ChatDelivery_proofs ------------------------
(***************************************************************************)
(* Theorems about ChatDelivery, for any members, writers and bounds.  The  *)
(* handlers are compositions of a few functions on the service's state:    *)
(* one lemma for each says that it keeps the state sound (Sound) and       *)
(* forgets no delivery it has not settled (Keeps), and the step lemmas     *)
(* put them together.                                                      *)
(***************************************************************************)
EXTENDS ChatDelivery, TLAPS

DeliveredIn(s) == {m \in Message : s.shown[m] = "delivered"}

(***************************************************************************)
(* What every state of n's service satisfies, when snt has been sent and   *)
(* the document is of epoch e.                                             *)
(***************************************************************************)
Sound(n, s, snt, e) ==
  /\ s \in Service
  /\ s.pending = s.retry
  /\ \A m \in s.pending : m.author = n /\ m.epoch = e /\ m \in snt
  /\ \A m \in Message : s.shown[m] # "nothing" => m \in snt
  /\ \A m \in Message : s.shown[m] = "delivered" => m \notin s.pending

Keeps(s, t) ==
  /\ s.pending \subseteq t.pending \cup DeliveredIn(t)
  /\ DeliveredIn(s) \subseteq DeliveredIn(t)

LEMMA KeepsTransitive ==
  ASSUME NEW s, NEW t, NEW u, Keeps(s, t), Keeps(t, u)
  PROVE  Keeps(s, u)
BY DEF Keeps

-----------------------------------------------------------------------------
(***************************************************************************)
(* The parts of the handlers.                                              *)
(***************************************************************************)
LEMMA WokenSound ==
  ASSUME NEW n, NEW s, NEW snt, NEW e, Sound(n, s, snt, e),
         NEW receipts \in SUBSET Receipt
  PROVE  /\ Sound(n, Woken(s, receipts), snt, e)
         /\ Keeps(s, Woken(s, receipts))
         /\ Woken(s, receipts).timeline = s.timeline
<1> DEFINE p == [messages |-> s.pending, receipts |-> receipts]
           t == Woken(s, receipts)
<1>1. s \in Service
  BY DEF Sound
<1>2. p \in Payload
  BY <1>1 DEF Service, Payload
<1>3. Append(s.wakes, p) \in Seq(Payload)
  BY <1>1, <1>2 DEF Service
<1>4. t = [s EXCEPT !.wakes = Append(s.wakes, p)]
  BY DEF Woken
<1>5. t \in Service
  BY <1>1, <1>3, <1>4 DEF Service
<1>6. t.pending = s.pending /\ t.retry = s.retry /\ t.shown = s.shown
        /\ t.timeline = s.timeline
  BY <1>1, <1>4 DEF Service
<1> QED
  BY <1>5, <1>6 DEF Sound, Keeps, DeliveredIn

LEMMA ShowType ==
  ASSUME NEW s \in Service, NEW ms, NEW state \in Shown
  PROVE  /\ Show(s, ms, state) \in Service
         /\ Show(s, ms, state).pending = s.pending
         /\ Show(s, ms, state).retry = s.retry
         /\ Show(s, ms, state).timeline = s.timeline
         /\ \A m \in Message : Show(s, ms, state).shown[m] =
              IF m \in ms THEN state ELSE s.shown[m]
<1> DEFINE f == [m \in Message |-> IF m \in ms THEN state ELSE s.shown[m]]
<1>1. f \in [Message -> Shown]
  BY DEF Service
<1>2. Show(s, ms, state) = [s EXCEPT !.shown = f]
  BY DEF Show
<1> HIDE DEF f
<1>3. [s EXCEPT !.shown = f] \in Service
  BY <1>1 DEF Service
<1>4. [s EXCEPT !.shown = f].shown = f
  BY DEF Service
<1>5. /\ [s EXCEPT !.shown = f].pending = s.pending
      /\ [s EXCEPT !.shown = f].retry = s.retry
      /\ [s EXCEPT !.shown = f].timeline = s.timeline
  BY DEF Service
<1> QED
  BY <1>2, <1>3, <1>4, <1>5 DEF f

\* Showing a state other than "delivered" for deliveries still owed.
LEMMA ShowSound ==
  ASSUME NEW n, NEW s, NEW snt, NEW e, Sound(n, s, snt, e),
         NEW ms \in SUBSET s.pending,
         NEW state \in {"pending", "retrying", "queued"}
  PROVE  /\ Sound(n, Show(s, ms, state), snt, e)
         /\ Keeps(s, Show(s, ms, state))
         /\ Show(s, ms, state).timeline = s.timeline
<1>1. s \in Service /\ state \in Shown
  BY DEF Sound, Shown
<1>2. \A m \in ms : m \in snt /\ s.shown[m] # "delivered"
  BY <1>1 DEF Sound, Service
<1> DEFINE t == Show(s, ms, state)
<1>3. /\ t \in Service /\ t.pending = s.pending /\ t.retry = s.retry
      /\ t.timeline = s.timeline
      /\ \A m \in Message : t.shown[m] = IF m \in ms THEN state ELSE s.shown[m]
  BY <1>1, ShowType
<1> HIDE DEF t
<1>4. Sound(n, t, snt, e)
  BY <1>2, <1>3 DEF Sound
<1>5. Keeps(s, t)
  BY <1>2, <1>3 DEF Keeps, DeliveredIn
<1> QED
  BY <1>3, <1>4, <1>5 DEF t

LEMMA ScheduledSame ==
  ASSUME NEW n, NEW s, NEW snt, NEW e, Sound(n, s, snt, e)
  PROVE  Scheduled(s) = s
<1>1. s \in Service /\ s.retry = s.pending
  BY DEF Sound
<1>2. s.retry \cup s.pending = s.retry
  BY <1>1
<1>3. [s EXCEPT !.retry = s.retry] = s
  BY <1>1 DEF Service
<1> QED
  BY <1>2, <1>3 DEF Scheduled

LEMMA RetiredSound ==
  ASSUME NEW n, NEW s, NEW snt, NEW e, Sound(n, s, snt, e),
         NEW ms \in SUBSET s.pending
  PROVE  /\ Sound(n, Retired(s, ms), snt, e)
         /\ Keeps(s, Retired(s, ms))
         /\ Retired(s, ms).timeline = s.timeline
<1> DEFINE u == Show(s, ms, "delivered")
           t == Retired(s, ms)
<1>1. s \in Service /\ s.pending \subseteq Message /\ "delivered" \in Shown
  BY DEF Sound, Service, Shown
<1>2. /\ u \in Service /\ u.pending = s.pending /\ u.retry = s.retry
      /\ u.timeline = s.timeline
      /\ \A m \in Message : u.shown[m] = IF m \in ms THEN "delivered" ELSE s.shown[m]
  BY <1>1, ShowType
<1>3. t = [u EXCEPT !.pending = u.pending \ ms, !.retry = u.retry \ ms]
  BY DEF Retired
<1> HIDE DEF u
<1>4. /\ t \in Service /\ t.pending = s.pending \ ms /\ t.retry = s.retry \ ms
      /\ t.shown = u.shown /\ t.timeline = s.timeline
  BY <1>2, <1>3 DEF Service
<1>5. \A m \in Message : t.shown[m] = IF m \in ms THEN "delivered" ELSE s.shown[m]
  BY <1>2, <1>4
<1> HIDE DEF t
<1>6. Sound(n, t, snt, e)
  BY <1>1, <1>4, <1>5 DEF Sound
<1>7. Keeps(s, t)
  BY <1>1, <1>4, <1>5 DEF Keeps, DeliveredIn
<1> QED
  BY <1>4, <1>6, <1>7 DEF t

LEMMA MergedSound ==
  ASSUME NEW n, NEW s, NEW snt, NEW e, Sound(n, s, snt, e), NEW r \in Replica
  PROVE  /\ Sound(n, Merged(s, r), snt, e)
         /\ Keeps(s, Merged(s, r))
<1> DEFINE t == Merged(s, r)
<1>1. s \in Service /\ r.messages \subseteq Message
  BY DEF Sound, Replica
<1>2. t = [s EXCEPT !.staged = s.staged \ r.messages, !.timeline = r.messages \cup s.staged]
  BY DEF Merged
<1>3. t \in Service /\ t.pending = s.pending /\ t.retry = s.retry /\ t.shown = s.shown
  BY <1>1, <1>2 DEF Service
<1> QED
  BY <1>3 DEF Sound, Keeps, DeliveredIn

LEMMA NewReceiptsType ==
  ASSUME NEW n \in Node, NEW s \in Service, NEW r
  PROVE  NewReceipts(n, s, r) \in SUBSET Receipt
<1>1. s.timeline \subseteq Message
  BY DEF Service
<1>2. \A m \in Message : [by |-> n, message |-> m] \in Receipt
  BY DEF Receipt
<1> QED
  BY <1>1, <1>2 DEF NewReceipts

LEMMA ReceiptsWokenSound ==
  ASSUME NEW n, NEW s, NEW snt, NEW e, Sound(n, s, snt, e),
         NEW receipts \in SUBSET Receipt
  PROVE  /\ Sound(n, ReceiptsWoken(s, receipts), snt, e)
         /\ Keeps(s, ReceiptsWoken(s, receipts))
<1>1. CASE receipts = {} \/ s.cooldown
  BY <1>1 DEF ReceiptsWoken, Keeps
<1>2. CASE ~ (receipts = {} \/ s.cooldown)
  <2> DEFINE t == [s EXCEPT !.cooldown = TRUE]
  <2>1. s \in Service
    BY DEF Sound
  <2>2. t \in Service /\ t.pending = s.pending /\ t.retry = s.retry /\ t.shown = s.shown
    BY <2>1 DEF Service
  <2>3. Sound(n, t, snt, e) /\ Keeps(s, t)
    BY <2>2 DEF Sound, Keeps, DeliveredIn
  <2> HIDE DEF t
  <2>4. Sound(n, Woken(t, receipts), snt, e) /\ Keeps(t, Woken(t, receipts))
    BY <2>3, WokenSound
  <2>5. ReceiptsWoken(s, receipts) = Woken(t, receipts)
    BY <1>2 DEF ReceiptsWoken, t
  <2> QED
    BY <2>3, <2>4, <2>5, KeepsTransitive
<1> QED
  BY <1>1, <1>2

\* Whatever is pending is scheduled, so there is never anything to resume.
LEMMA ResumedSame ==
  ASSUME NEW n, NEW s, NEW snt, NEW e, Sound(n, s, snt, e)
  PROVE  Resumed(s) = s
BY DEF Resumed, Sound

LEMMA ForgottenSound ==
  ASSUME NEW n, NEW s, NEW snt, NEW e, NEW f, Sound(n, s, snt, e)
  PROVE  /\ Sound(n, Forgotten(s), snt, f)
         /\ DeliveredIn(s) \subseteq DeliveredIn(Forgotten(s))
<1> DEFINE t == Forgotten(s)
<1>1. s \in Service
  BY DEF Sound
<1>2. t = [s EXCEPT !.pending = {}, !.retry = {}, !.staged = {}]
  BY DEF Forgotten
<1>3. t \in Service /\ t.pending = {} /\ t.retry = {} /\ t.shown = s.shown
  BY <1>1, <1>2 DEF Service
<1> QED
  BY <1>3 DEF Sound, DeliveredIn

LEMMA WakeFailedSound ==
  ASSUME NEW n, NEW s, NEW snt, NEW e, Sound(n, s, snt, e)
  PROVE  Sound(n, WakeFailed(s), snt, e) /\ Keeps(s, WakeFailed(s))
<1> DEFINE c == FailureCounted(s)
           f == IF s.failures = QueueAfter THEN s.failures ELSE s.failures + 1
           t == IF IsQueued(c) THEN Show(c, c.pending, "queued") ELSE c
<1>1. s \in Service
  BY DEF Sound
<1>2. f \in 0..QueueAfter
  BY <1>1, BoundAssumption DEF Service
<1>3. c = [s EXCEPT !.failures = f]
  BY DEF FailureCounted
<1> HIDE DEF f
<1>4. c \in Service /\ c.pending = s.pending /\ c.retry = s.retry /\ c.shown = s.shown
  BY <1>1, <1>2, <1>3 DEF Service
<1> HIDE DEF c
<1>5. Sound(n, c, snt, e) /\ Keeps(s, c)
  BY <1>4 DEF Sound, Keeps, DeliveredIn
<1>6. Sound(n, Show(c, c.pending, "queued"), snt, e)
        /\ Keeps(c, Show(c, c.pending, "queued"))
  BY <1>5, ShowSound
<1>7. Sound(n, t, snt, e) /\ Keeps(s, t)
  <2>1. CASE IsQueued(c)
    BY <2>1, <1>5, <1>6, KeepsTransitive
  <2>2. CASE ~ IsQueued(c)
    BY <2>2, <1>5
  <2> QED
    BY <2>1, <2>2
<1>8. WakeFailed(s) = IF InFlight(s) > 0 THEN t ELSE Scheduled(t)
  BY <1>4 DEF WakeFailed, c
<1> HIDE DEF t
<1>9. Scheduled(t) = t
  BY <1>7, ScheduledSame
<1> QED
  BY <1>7, <1>8, <1>9

LEMMA DeliveredGrows ==
  ASSUME NEW n, NEW r \in Replica, NEW q \in Replica, r.receipts \subseteq q.receipts
  PROVE  Delivered(n, r) \subseteq Delivered(n, q)
BY DEF Delivered

LEMMA PublishSound ==
  ASSUME NEW n \in Node, NEW s, NEW snt, NEW r \in Replica,
         Sound(n, s, snt, r.epoch), PublishTimeline(n, s, r)
  PROVE  \E t \in Service, q \in Replica :
           /\ service' = [service EXCEPT ![n] = t]
           /\ replica' = [replica EXCEPT ![n] = q]
           /\ q.epoch = r.epoch
           /\ q.messages = r.messages
           /\ r.receipts \subseteq q.receipts
           /\ Sound(n, t, snt, r.epoch)
           /\ Keeps(s, t)
<1> DEFINE merged   == Merged(s, r)
           receipts == NewReceipts(n, merged, r)
           written  == [r EXCEPT !.receipts = r.receipts \cup receipts]
           woken    == ReceiptsWoken(merged, receipts)
           due      == {m \in woken.pending \cap woken.timeline : m \in Delivered(n, written)}
           t        == Retired(woken, due)
<1>1. Sound(n, merged, snt, r.epoch) /\ Keeps(s, merged)
  BY MergedSound
<1>2. receipts \in SUBSET Receipt
  BY <1>1, NewReceiptsType DEF Sound
<1>3. written \in Replica /\ written.epoch = r.epoch /\ written.messages = r.messages
        /\ r.receipts \subseteq written.receipts
  BY <1>2 DEF Replica
<1>4. service' = [service EXCEPT ![n] = t] /\ replica' = [replica EXCEPT ![n] = written]
  BY DEF PublishTimeline
<1> HIDE DEF merged, receipts, written
<1>5. Sound(n, woken, snt, r.epoch) /\ Keeps(merged, woken)
  BY <1>1, <1>2, ReceiptsWokenSound
<1> HIDE DEF woken
<1>6. Sound(n, t, snt, r.epoch) /\ Keeps(woken, t)
  <2>1. due \in SUBSET woken.pending
    OBVIOUS
  <2> HIDE DEF due
  <2> QED
    BY <1>5, <2>1, RetiredSound
<1> HIDE DEF t
<1>7. Keeps(s, t)
  BY <1>1, <1>5, <1>6, KeepsTransitive
<1>8. t \in Service
  BY <1>6 DEF Sound
<1> QED
  BY <1>3, <1>4, <1>6, <1>7, <1>8

-----------------------------------------------------------------------------
(***************************************************************************)
(* The inductive invariant.  An author's copy of the document of an epoch  *)
(* has all the author wrote in it, so that synchronisation brings nobody   *)
(* messages of their own that they do not know of.                         *)
(***************************************************************************)
CommittedAt(n, s, r) ==
  \A m \in r.messages :
    m.author = n => m \in s.pending \/ s.shown[m] = "delivered" \/ m \in Delivered(n, r)

AuthorHasAll ==
  \A n \in Node : \A m \in replica[n].messages :
    /\ m \in sent
    /\ m.epoch = replica[n].epoch
    /\ replica[m.author].epoch = m.epoch => m \in replica[m.author].messages

SentInThePast == \A m \in sent : m.epoch =< replica[m.author].epoch

Inv ==
  /\ TypeOK
  /\ \A n \in Node : Sound(n, service[n], sent, replica[n].epoch)
  /\ \A n \in Node : CommittedAt(n, service[n], replica[n])
  /\ AuthorHasAll
  /\ SentInThePast

LEMMA SoundGrows ==
  ASSUME NEW n, NEW s, NEW a, NEW b, NEW e, Sound(n, s, a, e), a \subseteq b
  PROVE  Sound(n, s, b, e)
BY DEF Sound

LEMMA CommittedKept ==
  ASSUME NEW n, NEW s \in Service, NEW t \in Service, NEW r \in Replica, NEW q \in Replica,
         CommittedAt(n, s, r), Keeps(s, t),
         q.messages = r.messages, r.receipts \subseteq q.receipts
  PROVE  CommittedAt(n, t, q)
<1>1. Delivered(n, r) \subseteq Delivered(n, q)
  BY DeliveredGrows
<1>2. q.messages \subseteq Message
  BY DEF Replica
<1> QED
  BY <1>1, <1>2 DEF CommittedAt, Keeps, DeliveredIn

(***************************************************************************)
(* A step that changes the service and the document of one member only.    *)
(***************************************************************************)
LEMMA MemberStep ==
  ASSUME Inv, NEW n \in Node, NEW t \in Service, NEW q \in Replica,
         service' = [service EXCEPT ![n] = t],
         replica' = [replica EXCEPT ![n] = q],
         inbox' \subseteq Request, lost' \in Nat, crashes' \in Nat,
         sent \subseteq sent', sent' \subseteq Message,
         Sound(n, t, sent', q.epoch), CommittedAt(n, t, q),
         AuthorHasAll', SentInThePast'
  PROVE  Inv'
<1>1. service \in [Node -> Service] /\ replica \in [Node -> Replica]
  BY DEF Inv, TypeOK
<1>2. service' \in [Node -> Service] /\ replica' \in [Node -> Replica]
  BY <1>1
<1>3. TypeOK'
  BY <1>2 DEF TypeOK
<1>4. ASSUME NEW p \in Node
      PROVE  Sound(p, service'[p], sent', replica'[p].epoch)
               /\ CommittedAt(p, service'[p], replica'[p])
  <2>1. CASE p = n
    BY <1>1, <2>1
  <2>2. CASE p # n
    <3>1. service'[p] = service[p] /\ replica'[p] = replica[p]
      BY <1>1, <2>2
    <3>2. Sound(p, service[p], sent, replica[p].epoch) /\ CommittedAt(p, service[p], replica[p])
      BY DEF Inv
    <3>3. Sound(p, service[p], sent', replica[p].epoch)
      BY <3>2, SoundGrows
    <3> QED
      BY <3>1, <3>2, <3>3
  <2> QED
    BY <2>1, <2>2
<1> QED
  BY <1>3, <1>4 DEF Inv, CommittedAt, Delivered

(***************************************************************************)
(* What is shown as delivered stays so.                                    *)
(***************************************************************************)
ScreenKeeps ==
  \A p \in Node : DeliveredIn(service[p]) \subseteq DeliveredIn(service'[p])

LEMMA ScreenStep ==
  ASSUME service \in [Node -> Service], NEW n \in Node, NEW t,
         service' = [service EXCEPT ![n] = t],
         DeliveredIn(service[n]) \subseteq DeliveredIn(t)
  PROVE  ScreenKeeps
<1>1. service'[n] = t /\ \A p \in Node : p # n => service'[p] = service[p]
  OBVIOUS
<1> QED
  BY <1>1 DEF ScreenKeeps

(***************************************************************************)
(* A step of one member that leaves its messages and its epoch alone.      *)
(***************************************************************************)
LEMMA LocalStep ==
  ASSUME Inv, NEW n \in Node, NEW t \in Service, NEW q \in Replica,
         service' = [service EXCEPT ![n] = t],
         replica' = [replica EXCEPT ![n] = q],
         inbox' \subseteq Request, lost' \in Nat, crashes' \in Nat, sent' = sent,
         q.epoch = replica[n].epoch, q.messages = replica[n].messages,
         Sound(n, t, sent, q.epoch), CommittedAt(n, t, q)
  PROVE  Inv'
<1>1. replica \in [Node -> Replica] /\ sent \subseteq Message
  BY DEF Inv, TypeOK
<1>2. \A p \in Node : replica'[p].epoch = replica[p].epoch
                        /\ replica'[p].messages = replica[p].messages
  BY <1>1
<1>3. \A m \in Message : m.author \in Node
  BY DEF Message
<1>4. \A p \in Node : replica[p].messages \subseteq Message
  BY <1>1 DEF Replica
<1>5. AuthorHasAll'
  BY <1>2, <1>3, <1>4 DEF Inv, AuthorHasAll
<1>6. SentInThePast'
  BY <1>1, <1>2, <1>3 DEF Inv, SentInThePast
<1> QED
  BY <1>1, <1>5, <1>6, MemberStep

\* ... and forgets no delivery.
LEMMA KeepingStep ==
  ASSUME Inv, NEW n \in Node, NEW t \in Service, NEW q \in Replica,
         service' = [service EXCEPT ![n] = t],
         replica' = [replica EXCEPT ![n] = q],
         inbox' \subseteq Request, lost' \in Nat, crashes' \in Nat, sent' = sent,
         q.epoch = replica[n].epoch, q.messages = replica[n].messages,
         replica[n].receipts \subseteq q.receipts,
         Sound(n, t, sent, q.epoch), Keeps(service[n], t)
  PROVE  Inv' /\ ScreenKeeps
<1>1. /\ service[n] \in Service /\ replica[n] \in Replica
      /\ CommittedAt(n, service[n], replica[n])
  BY DEF Inv, TypeOK
<1>2. CommittedAt(n, t, q)
  BY <1>1, CommittedKept
<1>3. ScreenKeeps
  BY ScreenStep DEF Inv, TypeOK, Keeps
<1> QED
  BY <1>2, <1>3, LocalStep

\* The special case in which the document does not change at all.
LEMMA ServiceStep ==
  ASSUME Inv, NEW n \in Node, NEW t \in Service,
         service' = [service EXCEPT ![n] = t], UNCHANGED <<replica, sent>>,
         inbox' \subseteq Request, lost' \in Nat, crashes' \in Nat,
         Sound(n, t, sent, replica[n].epoch), Keeps(service[n], t)
  PROVE  Inv' /\ ScreenKeeps
<1>1. replica \in [Node -> Replica]
  BY DEF Inv, TypeOK
<1>2. replica' = [replica EXCEPT ![n] = replica[n]] /\ replica[n] \in Replica
  BY <1>1
<1> QED
  BY <1>2, KeepingStep

-----------------------------------------------------------------------------
(***************************************************************************)
(* The actions.                                                            *)
(***************************************************************************)
LEMMA NewServiceSound ==
  ASSUME NEW n, NEW snt, NEW e
  PROVE  Sound(n, NewService, snt, e)
<1>1. NewService \in Service
  <2>1. <<>> \in Seq(Payload) /\ <<>> \in Seq(BOOLEAN)
    OBVIOUS
  <2>2. [m \in Message |-> "nothing"] \in [Message -> Shown]
    BY DEF Shown
  <2>3. 0 \in 0..QueueAfter
    BY BoundAssumption
  <2> QED
    BY <2>1, <2>2, <2>3 DEF NewService, Service
<1> QED
  BY <1>1 DEF Sound, NewService

LEMMA InitInv == Init => Inv
<1> SUFFICES ASSUME Init PROVE Inv
  OBVIOUS
<1>1. NewService \in Service
  BY NewServiceSound DEF Sound
<1>2. EmptyReplica(0) \in Replica
  BY BoundAssumption DEF EmptyReplica, Replica
<1>3. TypeOK
  BY <1>1, <1>2 DEF Init, TypeOK
<1>4. \A n \in Node : replica[n] = EmptyReplica(0) /\ service[n] = NewService
  BY DEF Init
<1>5. \A n \in Node : Sound(n, NewService, sent, 0)
  BY NewServiceSound
<1>6. \A n \in Node : CommittedAt(n, service[n], replica[n])
  BY <1>4 DEF CommittedAt, EmptyReplica
<1>7. AuthorHasAll
  BY <1>4 DEF AuthorHasAll, EmptyReplica
<1>8. SentInThePast
  BY DEF SentInThePast, Init
<1>9. \A n \in Node : replica[n].epoch = 0
  BY <1>4 DEF EmptyReplica
<1> QED
  BY <1>3, <1>4, <1>5, <1>6, <1>7, <1>8, <1>9 DEF Inv

LEMMA SendStep ==
  ASSUME Inv, NEW n \in Node, SendMessage(n)
  PROVE  Inv' /\ ScreenKeeps
<1>1. PICK m \in Message :
        LET s == Scheduled([service[n] EXCEPT !.pending = @ \cup {m}])
            r == [replica[n] EXCEPT !.messages = @ \cup {m}]
        IN /\ NextMessage(n, m)
           /\ sent' = sent \cup {m}
           /\ PublishTimeline(n, Woken(Show(s, {m}, "pending"), {}), r)
  BY DEF SendMessage
<1> DEFINE u == [service[n] EXCEPT !.pending = @ \cup {m}]
           s == Scheduled(u)
           w == Show(s, {m}, "pending")
           v == Woken(w, {})
           r == [replica[n] EXCEPT !.messages = @ \cup {m}]
           e == replica[n].epoch
<1>2. /\ service[n] \in Service /\ replica[n] \in Replica /\ inbox \subseteq Request
      /\ lost \in Nat /\ crashes \in Nat /\ sent \subseteq Message
      /\ Sound(n, service[n], sent, e)
      /\ replica \in [Node -> Replica]
  BY DEF Inv, TypeOK
<1>3. m \notin sent /\ m.author = n /\ m.epoch = e
  BY <1>1 DEF NextMessage
<1>4. r \in Replica /\ r.epoch = e /\ r.messages = replica[n].messages \cup {m}
        /\ r.receipts = replica[n].receipts
  BY <1>2 DEF Replica
<1>5. s = [service[n] EXCEPT !.pending = service[n].pending \cup {m},
                             !.retry = service[n].pending \cup {m}]
  <2>1. service[n].retry = service[n].pending
    BY <1>2 DEF Sound
  <2>2. u.retry = service[n].pending /\ u.pending = service[n].pending \cup {m}
    BY <1>2, <2>1 DEF Service
  <2>3. u.retry \cup u.pending = service[n].pending \cup {m}
    BY <2>2
  <2>4. s = [u EXCEPT !.retry = service[n].pending \cup {m}]
    BY <2>3 DEF Scheduled
  <2> QED
    BY <2>4
<1>6. /\ s \in Service /\ s.pending = service[n].pending \cup {m}
      /\ s.retry = service[n].pending \cup {m} /\ s.shown = service[n].shown
  <2> DEFINE x == service[n].pending \cup {m}
  <2>1. x \in SUBSET Message
    BY <1>2 DEF Service
  <2>2. s = [service[n] EXCEPT !.pending = x, !.retry = x]
    BY <1>5
  <2> HIDE DEF x, s
  <2>3. s \in Service /\ s.pending = x /\ s.retry = x /\ s.shown = service[n].shown
    BY <1>2, <2>1, <2>2 DEF Service
  <2> QED
    BY <2>3 DEF x
<1>7. \A k \in Message : s.shown[k] = "delivered" => k \notin s.pending
  BY <1>2, <1>3, <1>6 DEF Sound
<1> HIDE DEF s
<1>8. Sound(n, s, sent', e)
  BY <1>1, <1>2, <1>3, <1>6, <1>7 DEF Sound
<1>9. Sound(n, w, sent', e) /\ Keeps(s, w)
  BY <1>6, <1>8, ShowSound
<1> HIDE DEF w
<1>10. Sound(n, v, sent', e) /\ Keeps(w, v)
  BY <1>9, WokenSound
<1> HIDE DEF v, r
<1>11. PublishTimeline(n, v, r)
  BY <1>1 DEF v, w, s, r
<1>12. PICK t \in Service, q \in Replica :
         /\ service' = [service EXCEPT ![n] = t]
         /\ replica' = [replica EXCEPT ![n] = q]
         /\ q.epoch = r.epoch
         /\ q.messages = r.messages
         /\ r.receipts \subseteq q.receipts
         /\ Sound(n, t, sent', r.epoch)
         /\ Keeps(v, t)
  BY <1>4, <1>10, <1>11, PublishSound
<1>13. Keeps(s, t)
  BY <1>9, <1>10, <1>12, KeepsTransitive
<1>14. CommittedAt(n, s, r)
  <2>1. CommittedAt(n, service[n], replica[n])
    BY DEF Inv
  <2>2. Delivered(n, replica[n]) = Delivered(n, r)
    BY <1>4 DEF Delivered
  <2> QED
    BY <2>1, <2>2, <1>4, <1>6 DEF CommittedAt
<1>15. CommittedAt(n, t, q)
  BY <1>4, <1>6, <1>12, <1>13, <1>14, CommittedKept
<1>16. AuthorHasAll'
  <2>1. replica'[n] = q
    BY <1>2, <1>12
  <2>2. \A p \in Node : p # n => replica'[p] = replica[p]
    BY <1>2, <1>12
  <2>3. \A p \in Node : replica'[p].epoch = replica[p].epoch
                          /\ replica[p].messages \subseteq replica'[p].messages
    BY <2>1, <2>2, <1>4, <1>12
  <2>4. \A p \in Node : \A k \in replica'[p].messages :
           k \in replica[p].messages \/ (p = n /\ k = m)
    BY <2>1, <2>2, <1>4, <1>12
  <2>5. m \in replica'[n].messages
    BY <2>1, <1>4, <1>12
  <2>6. \A p \in Node : \A k \in replica[p].messages : k.author \in Node
    BY <1>2 DEF Replica, Message
  <2> QED
    BY <2>3, <2>4, <2>5, <2>6, <1>1, <1>3 DEF Inv, AuthorHasAll
<1>17. SentInThePast'
  <2>1. \A p \in Node : replica'[p].epoch = replica[p].epoch
    BY <1>2, <1>4, <1>12
  <2>2. \A k \in sent : k.author \in Node
    BY <1>2 DEF Message
  <2>3. e \in Int
    BY <1>2, BoundAssumption DEF Replica
  <2>4. m.epoch =< replica'[n].epoch
    BY <1>3, <2>1, <2>3
  <2> QED
    BY <2>1, <2>2, <2>4, <1>1, <1>3 DEF Inv, SentInThePast
<1>18. inbox' = inbox /\ lost' = lost /\ crashes' = crashes
  BY DEF SendMessage
<1>19. sent \subseteq sent' /\ sent' \subseteq Message
  BY <1>1, <1>2
<1>20. Sound(n, t, sent', q.epoch)
  BY <1>12
<1>21. ScreenKeeps
  <2>1. DeliveredIn(service[n]) \subseteq DeliveredIn(t)
    BY <1>6, <1>13 DEF Keeps, DeliveredIn
  <2> QED
    BY <2>1, <1>12, ScreenStep DEF Inv, TypeOK
<1> QED
  BY <1>2, <1>12, <1>15, <1>16, <1>17, <1>18, <1>19, <1>20, <1>21, MemberStep

LEMMA WakePeersStep ==
  ASSUME Inv, NEW n \in Node, WakePeers(n)
  PROVE  Inv' /\ ScreenKeeps
<1>1. PICK i \in 1..Len(service[n].wakes), got \in SUBSET Others(n),
           answered \in SUBSET Others(n) :
        /\ lost' = lost \/ lost' = lost + 1
        /\ inbox' = inbox \cup
             {[from |-> n, to |-> p, messages |-> service[n].wakes[i].messages,
               receipts |-> service[n].wakes[i].receipts] : p \in got}
        /\ service' = [service EXCEPT ![n].wakes = RemoveAt(@, i),
                                      ![n].finished = Append(@, answered # {})]
        /\ UNCHANGED <<replica, crashes, sent>>
  BY DEF WakePeers
<1> DEFINE s == service[n]
           ws == RemoveAt(s.wakes, i)
           fs == Append(s.finished, answered # {})
           t == [s EXCEPT !.wakes = ws, !.finished = fs]
<1>2. /\ service \in [Node -> Service] /\ s \in Service /\ inbox \subseteq Request
      /\ lost \in Nat /\ crashes \in Nat
      /\ Sound(n, s, sent, replica[n].epoch)
  BY DEF Inv, TypeOK
<1>3. s.wakes \in Seq(Payload) /\ s.finished \in Seq(BOOLEAN)
  BY <1>2 DEF Service
<1>4. ws \in Seq(Payload)
  BY <1>3 DEF RemoveAt
<1>5. fs \in Seq(BOOLEAN)
  BY <1>3
<1>6. service' = [service EXCEPT ![n] = t]
  BY <1>1
<1>7. s.wakes[i] \in Payload
  BY <1>3
<1>8. inbox' \subseteq Request
  <2>1. \A p \in got : [from |-> n, to |-> p, messages |-> s.wakes[i].messages,
                        receipts |-> s.wakes[i].receipts] \in Request
    BY <1>7 DEF Payload, Request, Others
  <2> QED
    BY <2>1, <1>1, <1>2
<1> HIDE DEF ws, fs
<1>9. t \in Service /\ t.pending = s.pending /\ t.retry = s.retry /\ t.shown = s.shown
  BY <1>2, <1>4, <1>5 DEF Service
<1> HIDE DEF t
<1>10. Sound(n, t, sent, replica[n].epoch) /\ Keeps(s, t)
  BY <1>2, <1>9 DEF Sound, Keeps, DeliveredIn
<1>11. lost' \in Nat /\ crashes' \in Nat
  BY <1>1, <1>2
<1> QED
  BY <1>1, <1>6, <1>8, <1>9, <1>10, <1>11, ServiceStep

LEMMA TailType ==
  ASSUME NEW q \in Seq(BOOLEAN), q # <<>>
  PROVE  Tail(q) \in Seq(BOOLEAN)
OBVIOUS

LEMMA WakeFinishedStep ==
  ASSUME Inv, NEW n \in Node, ApplyWakeFinished(n)
  PROVE  Inv' /\ ScreenKeeps
<1> DEFINE s == [service[n] EXCEPT !.finished = Tail(service[n].finished)]
           g == [s EXCEPT !.failures = 0]
           t == IF s.pending = {} THEN s
                ELSE IF Head(service[n].finished) THEN Scheduled(g)
                ELSE WakeFailed(s)
           e == replica[n].epoch
<1>1. /\ service[n] \in Service /\ inbox \subseteq Request /\ lost \in Nat /\ crashes \in Nat
      /\ Sound(n, service[n], sent, e)
  BY DEF Inv, TypeOK
<1>2. service[n].finished # <<>>
  BY DEF ApplyWakeFinished
<1>3. service' = [service EXCEPT ![n] = t]
  BY DEF ApplyWakeFinished
<1>4. UNCHANGED <<replica, inbox, lost, crashes, sent>>
  BY DEF ApplyWakeFinished
<1>5. Tail(service[n].finished) \in Seq(BOOLEAN)
  <2>1. service[n].finished \in Seq(BOOLEAN)
    BY <1>1 DEF Service
  <2> QED
    BY <2>1, <1>2, TailType
<1>6. /\ s \in Service /\ s.pending = service[n].pending
      /\ s.retry = service[n].retry /\ s.shown = service[n].shown
  BY <1>1, <1>5 DEF Service
<1> HIDE DEF s
<1>7. Sound(n, s, sent, e) /\ Keeps(service[n], s)
  BY <1>1, <1>6 DEF Sound, Keeps, DeliveredIn
<1>8. Sound(n, g, sent, e) /\ Keeps(s, g)
  <2>1. 0 \in 0..QueueAfter
    BY BoundAssumption
  <2>2. g \in Service /\ g.pending = s.pending /\ g.retry = s.retry /\ g.shown = s.shown
    BY <1>6, <2>1 DEF Service
  <2> HIDE DEF g
  <2> QED
    BY <1>7, <2>2 DEF Sound, Keeps, DeliveredIn
<1> HIDE DEF g
<1>9. Scheduled(g) = g
  BY <1>8, ScheduledSame
<1>10. Sound(n, WakeFailed(s), sent, e) /\ Keeps(s, WakeFailed(s))
  BY <1>7, WakeFailedSound
<1>11. Keeps(s, s)
  BY DEF Keeps
<1>12. Sound(n, t, sent, e) /\ Keeps(s, t)
  BY <1>7, <1>8, <1>9, <1>10, <1>11
<1> HIDE DEF t
<1>13. Keeps(service[n], t) /\ t \in Service
  BY <1>7, <1>12, KeepsTransitive DEF Sound
<1> QED
  BY <1>1, <1>3, <1>4, <1>12, <1>13, ServiceStep

LEMMA RetryStep ==
  ASSUME Inv, NEW n \in Node, RetryDueDeliveries(n)
  PROVE  Inv' /\ ScreenKeeps
<1> DEFINE s == service[n]
           w == Woken(s, {})
           ms == s.retry \cap s.pending
           t == IF IsQueued(s) THEN w ELSE Show(w, ms, "retrying")
           e == replica[n].epoch
<1>1. /\ s \in Service /\ inbox \subseteq Request /\ lost \in Nat /\ crashes \in Nat
      /\ Sound(n, s, sent, e)
  BY DEF Inv, TypeOK
<1>2. service' = [service EXCEPT ![n] = t] /\ UNCHANGED <<replica, inbox, lost, crashes, sent>>
  BY DEF RetryDueDeliveries
<1>3. Sound(n, w, sent, e) /\ Keeps(s, w)
  BY <1>1, WokenSound
<1>4. w.pending = s.pending
  BY <1>1 DEF Woken, Service
<1>5. ms \in SUBSET w.pending
  BY <1>4
<1> HIDE DEF w, ms
<1>6. Sound(n, Show(w, ms, "retrying"), sent, e) /\ Keeps(w, Show(w, ms, "retrying"))
  BY <1>3, <1>5, ShowSound
<1>7. Sound(n, t, sent, e) /\ Keeps(s, t)
  BY <1>3, <1>6, KeepsTransitive
<1> HIDE DEF t
<1>8. t \in Service
  BY <1>7 DEF Sound
<1> QED
  BY <1>1, <1>2, <1>7, <1>8, ServiceStep

(***************************************************************************)
(* A handler that ends by publishing the timeline of an unchanged document *)
(* from a state that has forgotten nothing.                                *)
(***************************************************************************)
LEMMA PublishingStep ==
  ASSUME Inv, NEW n \in Node, NEW s,
         Sound(n, s, sent, replica[n].epoch), Keeps(service[n], s),
         PublishTimeline(n, s, replica[n]),
         inbox' \subseteq Request, UNCHANGED <<lost, crashes, sent>>
  PROVE  Inv' /\ ScreenKeeps
<1>1. replica[n] \in Replica /\ lost \in Nat /\ crashes \in Nat
  BY DEF Inv, TypeOK
<1>2. PICK t \in Service, q \in Replica :
        /\ service' = [service EXCEPT ![n] = t]
        /\ replica' = [replica EXCEPT ![n] = q]
        /\ q.epoch = replica[n].epoch
        /\ q.messages = replica[n].messages
        /\ replica[n].receipts \subseteq q.receipts
        /\ Sound(n, t, sent, replica[n].epoch)
        /\ Keeps(s, t)
  BY <1>1, PublishSound
<1>3. Keeps(service[n], t)
  BY <1>2, KeepsTransitive
<1> QED
  BY <1>1, <1>2, <1>3, KeepingStep

LEMMA SyncRequestStep ==
  ASSUME Inv, NEW n \in Node, NEW p \in Node, ApplySyncRequest(n, p)
  PROVE  Inv' /\ ScreenKeeps
<1>1. PICK request \in inbox :
        LET mine == {m \in request.messages : m.author = p}
            s == ReceiptsApplied([service[n] EXCEPT !.staged = @ \cup mine], request)
        IN /\ inbox' = inbox \ {request}
           /\ PublishTimeline(n, Resumed(s), replica[n])
           /\ UNCHANGED <<lost, crashes, sent>>
  BY DEF ApplySyncRequest
<1> DEFINE mine == {m \in request.messages : m.author = p}
           u == [service[n] EXCEPT !.staged = service[n].staged \cup mine]
           ms == {c.message : c \in request.receipts} \cap u.pending
           s == Retired(u, ms)
           e == replica[n].epoch
<1>2. service[n] \in Service /\ inbox \subseteq Request /\ Sound(n, service[n], sent, e)
  BY DEF Inv, TypeOK
<1>3. mine \in SUBSET Message
  BY <1>2 DEF Request
<1>4. ReceiptsApplied(u, request) = s
  BY DEF ReceiptsApplied
<1> HIDE DEF mine
<1>5. /\ u \in Service /\ u.pending = service[n].pending /\ u.retry = service[n].retry
      /\ u.shown = service[n].shown
  BY <1>2, <1>3 DEF Service
<1>6. PublishTimeline(n, Resumed(s), replica[n])
  BY <1>1, <1>4 DEF mine
<1> HIDE DEF u
<1>7. Sound(n, u, sent, e) /\ Keeps(service[n], u)
  BY <1>2, <1>5 DEF Sound, Keeps, DeliveredIn
<1>8. ms \in SUBSET u.pending
  OBVIOUS
<1> HIDE DEF ms
<1>9. Sound(n, s, sent, e) /\ Keeps(u, s)
  BY <1>7, <1>8, RetiredSound
<1> HIDE DEF s
<1>10. Resumed(s) = s
  BY <1>9, ResumedSame
<1>11. Keeps(service[n], s)
  BY <1>7, <1>9, KeepsTransitive
<1>12. inbox' \subseteq Request
  BY <1>1, <1>2
<1> QED
  BY <1>1, <1>6, <1>9, <1>10, <1>11, <1>12, PublishingStep

LEMMA DocumentChangedStep ==
  ASSUME Inv, NEW n \in Node, DocumentChanged(n)
  PROVE  Inv' /\ ScreenKeeps
<1> DEFINE s == [service[n] EXCEPT !.changed = FALSE]
           e == replica[n].epoch
<1>1. service[n] \in Service /\ inbox \subseteq Request /\ Sound(n, service[n], sent, e)
  BY DEF Inv, TypeOK
<1>2. /\ s \in Service /\ s.pending = service[n].pending /\ s.retry = service[n].retry
      /\ s.shown = service[n].shown
  BY <1>1 DEF Service
<1>3. PublishTimeline(n, Resumed(s), replica[n]) /\ UNCHANGED <<inbox, lost, crashes, sent>>
  BY DEF DocumentChanged
<1> HIDE DEF s
<1>4. Sound(n, s, sent, e) /\ Keeps(service[n], s)
  BY <1>1, <1>2 DEF Sound, Keeps, DeliveredIn
<1>5. Resumed(s) = s
  BY <1>4, ResumedSame
<1> QED
  BY <1>1, <1>3, <1>4, <1>5, PublishingStep

LEMMA CooldownStep ==
  ASSUME Inv, NEW n \in Node, CooldownEnds(n)
  PROVE  Inv' /\ ScreenKeeps
<1> DEFINE t == [service[n] EXCEPT !.cooldown = FALSE]
           e == replica[n].epoch
<1>1. /\ service \in [Node -> Service] /\ service[n] \in Service
      /\ inbox \subseteq Request /\ lost \in Nat /\ crashes \in Nat
      /\ Sound(n, service[n], sent, e)
  BY DEF Inv, TypeOK
<1>2. service' = [service EXCEPT ![n] = t] /\ UNCHANGED <<replica, inbox, lost, crashes, sent>>
  BY <1>1 DEF CooldownEnds
<1>3. /\ t \in Service /\ t.pending = service[n].pending /\ t.retry = service[n].retry
      /\ t.shown = service[n].shown
  BY <1>1 DEF Service
<1> HIDE DEF t
<1>4. Sound(n, t, sent, e) /\ Keeps(service[n], t)
  BY <1>1, <1>3 DEF Sound, Keeps, DeliveredIn
<1> QED
  BY <1>1, <1>2, <1>3, <1>4, ServiceStep

(***************************************************************************)
(* Moving to the empty document of a later epoch, by a clear or by an      *)
(* invitation.                                                             *)
(***************************************************************************)
LEMMA ResetStep ==
  ASSUME Inv, NEW n \in Node, NEW s, NEW f \in 0..MaxEpoch, f > replica[n].epoch,
         Sound(n, s, sent, f), PublishTimeline(n, s, EmptyReplica(f)),
         DeliveredIn(service[n]) \subseteq DeliveredIn(s),
         UNCHANGED <<inbox, lost, crashes, sent>>
  PROVE  Inv' /\ ScreenKeeps
<1> DEFINE r == EmptyReplica(f)
<1>1. r \in Replica /\ r.epoch = f /\ r.messages = {}
  BY DEF EmptyReplica, Replica
<1>2. /\ inbox \subseteq Request /\ lost \in Nat /\ crashes \in Nat /\ sent \subseteq Message
      /\ replica \in [Node -> Replica]
  BY DEF Inv, TypeOK
<1> HIDE DEF r
<1>3. PICK t \in Service, q \in Replica :
        /\ service' = [service EXCEPT ![n] = t]
        /\ replica' = [replica EXCEPT ![n] = q]
        /\ q.epoch = r.epoch
        /\ q.messages = r.messages
        /\ r.receipts \subseteq q.receipts
        /\ Sound(n, t, sent, r.epoch)
        /\ Keeps(s, t)
  <2>1. PublishTimeline(n, s, r) /\ Sound(n, s, sent, r.epoch)
    BY <1>1 DEF r
  <2> QED
    BY <1>1, <2>1, PublishSound
<1>4. replica'[n] = q /\ \A p \in Node : p # n => replica'[p] = replica[p]
  BY <1>2, <1>3
<1>5. \A p \in Node : replica[p].epoch \in Int
  BY <1>2, BoundAssumption DEF Replica
<1>6. f \in Int
  BY BoundAssumption
<1>7. \A k \in sent : k.epoch \in Int /\ k.author \in Node
  BY <1>2, BoundAssumption DEF Message
<1>8. \A k \in sent : k.author = n => k.epoch < f
  BY <1>5, <1>6, <1>7 DEF Inv, SentInThePast
<1>9. AuthorHasAll'
  <2> SUFFICES ASSUME NEW p \in Node, NEW k \in replica'[p].messages
               PROVE  /\ k \in sent
                      /\ k.epoch = replica'[p].epoch
                      /\ replica'[k.author].epoch = k.epoch
                           => k \in replica'[k.author].messages
    BY <1>2 DEF AuthorHasAll
  <2>1. p # n
    BY <1>1, <1>3, <1>4
  <2>2. /\ k \in sent /\ k.epoch = replica[p].epoch
        /\ replica[k.author].epoch = k.epoch => k \in replica[k.author].messages
    BY <2>1, <1>4 DEF Inv, AuthorHasAll
  <2>3. CASE k.author = n
    BY <2>1, <2>2, <2>3, <1>1, <1>3, <1>4, <1>6, <1>7, <1>8
  <2>4. CASE k.author # n
    BY <2>1, <2>2, <2>4, <1>4, <1>7
  <2> QED
    BY <2>3, <2>4
<1>10. SentInThePast'
  <2> SUFFICES ASSUME NEW k \in sent
               PROVE  k.epoch =< replica'[k.author].epoch
    BY DEF SentInThePast
  <2>1. CASE k.author = n
    BY <2>1, <1>1, <1>3, <1>4, <1>6, <1>7, <1>8
  <2>2. CASE k.author # n
    BY <2>2, <1>4, <1>7 DEF Inv, SentInThePast
  <2> QED
    BY <2>1, <2>2
<1>11. CommittedAt(n, t, q)
  BY <1>1, <1>3 DEF CommittedAt
<1>12. ScreenKeeps
  BY <1>3, ScreenStep DEF Inv, TypeOK, Keeps
<1> QED
  BY <1>2, <1>3, <1>9, <1>10, <1>11, <1>12, MemberStep

LEMMA ClearStep ==
  ASSUME Inv, NEW n \in Node, ClearHistory(n)
  PROVE  Inv' /\ ScreenKeeps
<1> DEFINE e == replica[n].epoch
           s == Woken(Forgotten(service[n]), {})
<1>1. /\ e < MaxEpoch /\ PublishTimeline(n, s, EmptyReplica(e + 1))
      /\ UNCHANGED <<inbox, lost, crashes, sent>>
  BY DEF ClearHistory
<1>2. e \in 0..MaxEpoch
  BY DEF Inv, TypeOK, Replica
<1>3. e + 1 \in 0..MaxEpoch /\ e + 1 > e
  BY <1>1, <1>2, BoundAssumption
<1>4. /\ Sound(n, Forgotten(service[n]), sent, e + 1)
      /\ DeliveredIn(service[n]) \subseteq DeliveredIn(Forgotten(service[n]))
  BY ForgottenSound DEF Inv
<1>5. Sound(n, s, sent, e + 1) /\ Keeps(Forgotten(service[n]), s)
  BY <1>4, WokenSound
<1> HIDE DEF s
<1>6. DeliveredIn(service[n]) \subseteq DeliveredIn(s)
  BY <1>4, <1>5 DEF Keeps
<1> QED
  BY <1>1, <1>3, <1>5, <1>6, ResetStep

LEMMA AdoptStep ==
  ASSUME Inv, NEW n \in Node, NEW p \in Node, AdoptReset(n, p)
  PROVE  Inv' /\ ScreenKeeps
<1> DEFINE f == replica[p].epoch
           s == Forgotten(service[n])
<1>1. /\ f > replica[n].epoch /\ PublishTimeline(n, s, EmptyReplica(f))
      /\ UNCHANGED <<inbox, lost, crashes, sent>>
  BY DEF AdoptReset
<1>2. f \in 0..MaxEpoch
  BY DEF Inv, TypeOK, Replica
<1>3. Sound(n, s, sent, f) /\ DeliveredIn(service[n]) \subseteq DeliveredIn(s)
  BY ForgottenSound DEF Inv
<1> HIDE DEF s
<1> QED
  BY <1>1, <1>2, <1>3, ResetStep

LEMMA SyncStep ==
  ASSUME Inv, NEW n \in Node, NEW p \in Node, SyncDocument(n, p)
  PROVE  Inv' /\ ScreenKeeps
<1> DEFINE r == replica[n]
           q == replica[p]
           all == [r EXCEPT !.messages = r.messages \cup q.messages,
                            !.receipts = r.receipts \cup q.receipts]
           t == [service[n] EXCEPT !.changed = TRUE]
<1>1. /\ r.epoch = q.epoch
      /\ replica' = [replica EXCEPT ![n] = all]
      /\ UNCHANGED <<inbox, lost, crashes, sent>>
  BY DEF SyncDocument
<1>2. /\ service \in [Node -> Service] /\ service[n] \in Service
      /\ inbox \subseteq Request /\ lost \in Nat /\ crashes \in Nat
      /\ sent \subseteq Message /\ replica \in [Node -> Replica]
      /\ r \in Replica /\ q \in Replica
      /\ Sound(n, service[n], sent, r.epoch)
  BY DEF Inv, TypeOK
<1>3. service' = [service EXCEPT ![n] = t]
  BY <1>2 DEF SyncDocument
<1>4. /\ t \in Service /\ t.pending = service[n].pending /\ t.retry = service[n].retry
      /\ t.shown = service[n].shown
  BY <1>2 DEF Service
<1> HIDE DEF t
<1>5. Sound(n, t, sent, r.epoch)
  BY <1>2, <1>4 DEF Sound
<1>6. /\ all \in Replica /\ all.epoch = r.epoch
      /\ all.messages = r.messages \cup q.messages
      /\ all.receipts = r.receipts \cup q.receipts
  BY <1>2 DEF Replica
<1> HIDE DEF all
<1>7. CommittedAt(n, t, all)
  <2> SUFFICES ASSUME NEW m \in all.messages, m.author = n
               PROVE  m \in t.pending \/ t.shown[m] = "delivered" \/ m \in Delivered(n, all)
    BY DEF CommittedAt
  <2>1. m \in r.messages
    BY <1>1, <1>6 DEF Inv, AuthorHasAll
  <2>2. \/ m \in service[n].pending \/ service[n].shown[m] = "delivered"
        \/ m \in Delivered(n, r)
    BY <2>1 DEF Inv, CommittedAt
  <2>3. Delivered(n, r) \subseteq Delivered(n, all)
    BY <1>2, <1>6, DeliveredGrows
  <2> QED
    BY <2>2, <2>3, <1>4
<1>8. replica'[n] = all /\ \A k \in Node : k # n => replica'[k] = replica[k]
  BY <1>1, <1>2
<1>9. \A k \in Node : replica'[k].epoch = replica[k].epoch
                        /\ replica[k].messages \subseteq replica'[k].messages
  BY <1>6, <1>8
<1>10. \A k \in Node, m \in Message : m \in replica[k].messages => m.author \in Node
  BY DEF Message
<1>11. AuthorHasAll'
  <2> SUFFICES ASSUME NEW k \in Node, NEW m \in replica'[k].messages
               PROVE  /\ m \in sent
                      /\ m.epoch = replica'[k].epoch
                      /\ replica'[m.author].epoch = m.epoch
                           => m \in replica'[m.author].messages
    BY <1>1 DEF AuthorHasAll
  <2>1. PICK j \in Node : m \in replica[j].messages /\ replica[j].epoch = replica[k].epoch
    <3>1. CASE k = n
      BY <3>1, <1>1, <1>6, <1>8
    <3>2. CASE k # n
      BY <3>2, <1>8
    <3> QED
      BY <3>1, <3>2
  <2>2. /\ m \in sent /\ m.epoch = replica[j].epoch
        /\ replica[m.author].epoch = m.epoch => m \in replica[m.author].messages
    BY <2>1 DEF Inv, AuthorHasAll
  <2>3. m.author \in Node
    BY <2>2, <1>2 DEF Message
  <2> QED
    BY <2>1, <2>2, <2>3, <1>9
<1>12. SentInThePast'
  <2>1. \A m \in sent : m.author \in Node
    BY <1>2 DEF Message
  <2> QED
    BY <2>1, <1>1, <1>9 DEF Inv, SentInThePast
<1>13. ScreenKeeps
  <2>1. DeliveredIn(service[n]) \subseteq DeliveredIn(t)
    BY <1>4 DEF DeliveredIn
  <2> QED
    BY <2>1, <1>2, <1>3, ScreenStep
<1> QED
  BY <1>1, <1>2, <1>3, <1>4, <1>5, <1>6, <1>7, <1>11, <1>12, <1>13, MemberStep

LEMMA RestartStep ==
  ASSUME Inv, NEW n \in Node, Restart(n)
  PROVE  Inv'
<1> DEFINE r == replica[n]
           m0 == Merged(NewService, r)
           receipts == NewReceipts(n, m0, r)
           written == [r EXCEPT !.receipts = r.receipts \cup receipts]
           s == ReceiptsWoken(m0, receipts)
           owed == {m \in written.messages : m.author = n} \ Delivered(n, written)
           g == [s EXCEPT !.pending = owed, !.retry = owed]
           t == Restored(n, s, written)
<1>1. /\ crashes' = crashes + 1
      /\ inbox' = {i \in inbox : i.to # n}
      /\ replica' = [replica EXCEPT ![n] = written]
      /\ service' = [service EXCEPT ![n] = t]
      /\ UNCHANGED <<lost, sent>>
  BY DEF Restart
<1>2. /\ inbox \subseteq Request /\ lost \in Nat /\ crashes \in Nat /\ r \in Replica
      /\ \A m \in r.messages : m \in sent /\ m.epoch = r.epoch
  BY DEF Inv, TypeOK, AuthorHasAll
<1>3. Sound(n, m0, sent, r.epoch)
  BY <1>2, NewServiceSound, MergedSound
<1>4. receipts \in SUBSET Receipt
  BY <1>3, NewReceiptsType DEF Sound
<1>5. written \in Replica /\ written.epoch = r.epoch /\ written.messages = r.messages
        /\ r.receipts \subseteq written.receipts
  BY <1>2, <1>4 DEF Replica
<1>6. \A m \in Message : m0.shown[m] = "nothing"
  BY DEF Merged, NewService
<1> HIDE DEF m0, receipts, written
<1>7. Sound(n, s, sent, r.epoch)
  BY <1>3, <1>4, ReceiptsWokenSound
<1>8. s.shown = m0.shown
  BY <1>3 DEF ReceiptsWoken, Woken, Sound, Service
<1> HIDE DEF s
<1>facts. /\ inbox' \subseteq Request /\ lost' \in Nat /\ crashes' \in Nat /\ sent' = sent
          /\ service' = [service EXCEPT ![n] = t]
          /\ replica' = [replica EXCEPT ![n] = written]
          /\ written \in Replica /\ written.epoch = replica[n].epoch
          /\ written.messages = replica[n].messages
  BY <1>1, <1>2, <1>5
<1>9. CASE owed = {}
  <2>1. t = s
    BY <1>9 DEF Restored
  <2>2. CommittedAt(n, t, written)
    BY <1>9 DEF CommittedAt
  <2> HIDE DEF t
  <2>3. t \in Service
    BY <2>1, <1>7 DEF Sound
  <2>4. Sound(n, t, sent, written.epoch)
    BY <2>1, <1>5, <1>7
  <2> QED
    BY <2>2, <2>3, <2>4, <1>facts, LocalStep
<1>10. CASE owed # {}
  <2> DEFINE h == Show(g, owed, "pending")
  <2>1. t = Woken(h, {})
    BY <1>10 DEF Restored
  <2>2. owed \in SUBSET Message
    BY <1>5 DEF Replica
  <2>3. \A m \in owed : m.author = n /\ m.epoch = r.epoch /\ m \in sent
    BY <1>2, <1>5
  <2>4. \A m \in r.messages : m.author = n => m \in owed \/ m \in Delivered(n, written)
    BY <1>5
  <2> HIDE DEF owed, t
  <2>5. g \in Service /\ g.pending = owed /\ g.retry = owed /\ g.shown = s.shown
    BY <2>2, <1>7 DEF Sound, Service
  <2> HIDE DEF g
  <2>6. Sound(n, g, sent, r.epoch)
    BY <2>3, <2>5, <1>6, <1>8 DEF Sound
  <2>7. Sound(n, h, sent, r.epoch) /\ Keeps(g, h)
    BY <2>5, <2>6, ShowSound
  <2> HIDE DEF h
  <2>8. Sound(n, t, sent, r.epoch) /\ Keeps(h, t)
    BY <2>1, <2>7, WokenSound
  <2>9. Keeps(g, t)
    BY <2>7, <2>8, KeepsTransitive
  <2>10. CommittedAt(n, t, written)
    BY <2>4, <2>5, <2>9, <1>5 DEF CommittedAt, Keeps, DeliveredIn, Replica
  <2>11. t \in Service
    BY <2>8 DEF Sound
  <2>12. Sound(n, t, sent, written.epoch)
    BY <2>8, <1>5
  <2> QED
    BY <2>10, <2>11, <2>12, <1>facts, LocalStep
<1> QED
  BY <1>9, <1>10

-----------------------------------------------------------------------------
LEMMA NextKeeps ==
  ASSUME Inv, [Next]_vars
  PROVE  Inv' /\ (crashes' = crashes => ScreenKeeps)
<1>1. CASE Next
  <2>1. PICK n \in Node :
          \/ SendMessage(n)
          \/ WakePeers(n)
          \/ ApplyWakeFinished(n)
          \/ RetryDueDeliveries(n)
          \/ DocumentChanged(n)
          \/ CooldownEnds(n)
          \/ ClearHistory(n)
          \/ Restart(n)
          \/ \E p \in Others(n) :
               \/ ApplySyncRequest(n, p)
               \/ SyncDocument(n, p)
               \/ AdoptReset(n, p)
    BY <1>1 DEF Next
  <2>2. Others(n) \subseteq Node
    BY DEF Others
  <2>3. CASE Restart(n)
    <3>1. crashes' # crashes
      BY <2>3 DEF Restart, Inv, TypeOK
    <3> QED
      BY <2>3, <3>1, RestartStep
  <2> QED
    BY <2>1, <2>2, <2>3, SendStep, WakePeersStep, WakeFinishedStep, RetryStep,
       DocumentChangedStep, CooldownStep, ClearStep,
       SyncRequestStep, SyncStep, AdoptStep
<1>2. CASE UNCHANGED vars
  <2>1. Inv'
    BY <1>2 DEF vars, Inv, TypeOK, Sound, CommittedAt, Delivered, AuthorHasAll, SentInThePast
  <2>2. ScreenKeeps
    BY <1>2 DEF vars, ScreenKeeps
  <2> QED
    BY <2>1, <2>2
<1> QED
  BY <1>1, <1>2

LEMMA InvHolds == Spec => []Inv
<1>1. Inv /\ [Next]_vars => Inv'
  BY NextKeeps
<1> QED
  BY <1>1, InitInv, PTL DEF Spec

(***************************************************************************)
(* Every reachable state is well typed.                                    *)
(***************************************************************************)
THEOREM TypeCorrect == Spec => []TypeOK
BY InvHolds, PTL DEF Inv

(***************************************************************************)
(* No delivery is owed without a timer, and no timer runs for a delivery   *)
(* that is not owed: schedule_delivery_retry, publish_timeline and         *)
(* apply_direct_receipts keep retry_state and pending_deliveries together. *)
(***************************************************************************)
THEOREM OwedIsAlwaysScheduled == Spec => []OwedIsScheduled
<1>1. Inv => OwedIsScheduled
  BY DEF Inv, Sound, OwedIsScheduled
<1> QED
  BY <1>1, InvHolds, PTL

(***************************************************************************)
(* A committed message is owed until a peer is known to have it, through   *)
(* every crash: restore_pending_delivery_retries finds what was owed.      *)
(***************************************************************************)
THEOREM CommittedIsNeverForgotten == Spec => []CommittedIsOwedOrDelivered
<1>1. Inv => CommittedIsOwedOrDelivered
  BY DEF Inv, CommittedAt, CommittedIsOwedOrDelivered
<1> QED
  BY <1>1, InvHolds, PTL

(***************************************************************************)
(* forget_conversation_local_state leaves nothing owed of the history that *)
(* was cleared.                                                            *)
(***************************************************************************)
THEOREM ClearForgetsDeliveries == Spec => []ClearDropsWhatIsOwed
<1>1. Inv => ClearDropsWhatIsOwed
  BY DEF Inv, Sound, ClearDropsWhatIsOwed
<1> QED
  BY <1>1, InvHolds, PTL

(***************************************************************************)
(* Nothing takes back that a message was delivered, short of a restart:    *)
(* apply_wake_finished and retry_due_deliveries show other states only of  *)
(* messages that are owed, and a delivered message is not.                 *)
(***************************************************************************)
THEOREM DeliveredStaysDelivered == Spec => DeliveredIsFinal
<1>1. Inv /\ [Next]_vars =>
        [\A n \in Node, m \in Message :
           service[n].shown[m] = "delivered" /\ crashes' = crashes
             => service'[n].shown[m] = "delivered"]_vars
  BY NextKeeps DEF ScreenKeeps, DeliveredIn
<1> QED
  BY <1>1, InvHolds, PTL DEF Spec, DeliveredIsFinal

-----------------------------------------------------------------------------
(***************************************************************************)
(* What the screen calls delivered is held by a peer.  A receipt is true   *)
(* while the member that gave it has the message; until the first crash    *)
(* and the first clear every receipt there is, in a document, in a wake or *)
(* in a request, is true, and there is one behind every "delivered".       *)
(***************************************************************************)
Truths ==
  {c \in Receipt : /\ c.message.author # c.by
                   /\ c.message \in replica[c.by].messages \cup service[c.by].staged}

Honest(n, s, H) ==
  /\ \A i \in 1..Len(s.wakes) : s.wakes[i].receipts \subseteq H
  /\ \A m \in Message : s.shown[m] = "delivered" => \E c \in H : c.message = m /\ c.by # n

HonestState ==
  /\ \A n \in Node : replica[n].receipts \subseteq Truths
  /\ \A n \in Node : Honest(n, service[n], Truths)
  /\ \A request \in inbox : request.receipts \subseteq Truths

HonestInv == Undisturbed => HonestState

LEMMA HonestGrows ==
  ASSUME NEW n, NEW s, NEW G, NEW H, Honest(n, s, G), G \subseteq H
  PROVE  Honest(n, s, H)
BY DEF Honest

\* A function of the service leaves alone what is staged and the timeline.
Rests(s, t) == t.staged = s.staged /\ t.timeline = s.timeline

LEMMA WokenHonest ==
  ASSUME NEW n, NEW s \in Service, NEW receipts \in SUBSET Receipt
  PROVE  /\ Rests(s, Woken(s, receipts))
         /\ \A H \in SUBSET Receipt :
              Honest(n, s, H) /\ receipts \subseteq H => Honest(n, Woken(s, receipts), H)
<1> DEFINE p == [messages |-> s.pending, receipts |-> receipts]
           t == Woken(s, receipts)
           ws == Append(s.wakes, p)
<1>1. p \in Payload /\ s.wakes \in Seq(Payload) /\ p.receipts = receipts
  BY DEF Service, Payload
<1>2. t = [s EXCEPT !.wakes = ws]
  BY DEF Woken
<1>3. /\ ws \in Seq(Payload) /\ Len(ws) = Len(s.wakes) + 1 /\ ws[Len(s.wakes) + 1] = p
      /\ \A i \in 1..Len(s.wakes) : ws[i] = s.wakes[i]
      /\ Len(s.wakes) \in Nat
  <2> HIDE DEF p
  <2> QED
    BY <1>1
<1> HIDE DEF p, ws
<1>4. t.wakes = ws /\ t.shown = s.shown /\ t.staged = s.staged /\ t.timeline = s.timeline
  BY <1>2 DEF Service
<1>5. ASSUME NEW H \in SUBSET Receipt, Honest(n, s, H), receipts \subseteq H
      PROVE  \A i \in 1..Len(ws) : ws[i].receipts \subseteq H
  <2>1. \A i \in 1..Len(ws) : i \in 1..Len(s.wakes) \/ i = Len(s.wakes) + 1
    BY <1>3
  <2> QED
    BY <1>1, <1>3, <1>5, <2>1 DEF Honest
<1> QED
  BY <1>4, <1>5 DEF Honest, Rests

LEMMA ShowHonest ==
  ASSUME NEW n, NEW s \in Service, NEW ms, NEW state \in Shown
  PROVE  /\ Rests(s, Show(s, ms, state))
         /\ \A H \in SUBSET Receipt :
              /\ Honest(n, s, H)
              /\ state = "delivered" => \A m \in ms : \E c \in H : c.message = m /\ c.by # n
              => Honest(n, Show(s, ms, state), H)
<1> DEFINE f == [m \in Message |-> IF m \in ms THEN state ELSE s.shown[m]]
           t == Show(s, ms, state)
<1>1. t = [s EXCEPT !.shown = f]
  BY DEF Show
<1>2. \A m \in Message : f[m] = IF m \in ms THEN state ELSE s.shown[m]
  OBVIOUS
<1> HIDE DEF f
<1>3. t.shown = f /\ t.wakes = s.wakes /\ t.staged = s.staged /\ t.timeline = s.timeline
  BY <1>1 DEF Service
<1> HIDE DEF t
<1> QED
  BY <1>2, <1>3 DEF Honest, Rests, t

LEMMA RetiredHonest ==
  ASSUME NEW n, NEW s \in Service, NEW ms
  PROVE  /\ Rests(s, Retired(s, ms))
         /\ \A H \in SUBSET Receipt :
              Honest(n, s, H) /\ (\A m \in ms : \E c \in H : c.message = m /\ c.by # n)
              => Honest(n, Retired(s, ms), H)
<1> DEFINE u == Show(s, ms, "delivered")
           t == Retired(s, ms)
<1>1. "delivered" \in Shown
  BY DEF Shown
<1>2. u \in Service /\ Rests(s, u)
  BY <1>1, ShowHonest, ShowType
<1>3. t = [u EXCEPT !.pending = u.pending \ ms, !.retry = u.retry \ ms]
  BY DEF Retired
<1>4. ASSUME NEW H \in SUBSET Receipt, Honest(n, s, H),
             \A m \in ms : \E c \in H : c.message = m /\ c.by # n
      PROVE  Honest(n, u, H)
  BY <1>1, <1>4, ShowHonest
<1> HIDE DEF u
<1>5. t.shown = u.shown /\ t.wakes = u.wakes /\ t.staged = u.staged /\ t.timeline = u.timeline
  BY <1>2, <1>3 DEF Service
<1> HIDE DEF t
<1>6. \A H : Honest(n, u, H) => Honest(n, t, H)
  BY <1>5 DEF Honest
<1> QED
  BY <1>2, <1>4, <1>5, <1>6 DEF Rests, t

LEMMA MergedHonest ==
  ASSUME NEW n, NEW s \in Service, NEW r \in Replica
  PROVE  LET t == Merged(s, r) IN
         /\ t \in Service
         /\ t.staged = s.staged \ r.messages /\ t.timeline = r.messages \cup s.staged
         /\ \A H : Honest(n, s, H) => Honest(n, t, H)
<1> DEFINE t == Merged(s, r)
<1>1. t = [s EXCEPT !.staged = s.staged \ r.messages, !.timeline = r.messages \cup s.staged]
  BY DEF Merged
<1>2. /\ t \in Service /\ t.shown = s.shown /\ t.wakes = s.wakes
      /\ t.staged = s.staged \ r.messages /\ t.timeline = r.messages \cup s.staged
  BY <1>1 DEF Service, Replica
<1> QED
  BY <1>2 DEF Honest

LEMMA ReceiptsWokenHonest ==
  ASSUME NEW n, NEW s \in Service, NEW receipts \in SUBSET Receipt
  PROVE  /\ Rests(s, ReceiptsWoken(s, receipts))
         /\ \A H \in SUBSET Receipt :
              Honest(n, s, H) /\ receipts \subseteq H => Honest(n, ReceiptsWoken(s, receipts), H)
<1> DEFINE t == [s EXCEPT !.cooldown = TRUE]
<1>1. t \in Service /\ t.shown = s.shown /\ t.wakes = s.wakes /\ Rests(s, t)
  BY DEF Service, Rests
<1>2. \A H : Honest(n, s, H) => Honest(n, t, H)
  BY <1>1 DEF Honest
<1>3. ReceiptsWoken(s, receipts) = IF receipts = {} \/ s.cooldown THEN s ELSE Woken(t, receipts)
  BY DEF ReceiptsWoken
<1> HIDE DEF t
<1>4. /\ Rests(t, Woken(t, receipts))
      /\ \A H \in SUBSET Receipt :
           Honest(n, t, H) /\ receipts \subseteq H => Honest(n, Woken(t, receipts), H)
  BY <1>1, WokenHonest
<1> QED
  BY <1>1, <1>2, <1>3, <1>4 DEF Rests

\* The receipts member n can give for messages it has.
Given(n, messages) ==
  {c \in Receipt : c.by = n /\ c.message \in messages /\ c.message.author # n}

LEMMA SoundType ==
  ASSUME NEW n, NEW s, NEW snt, NEW e, Sound(n, s, snt, e)
  PROVE  s \in Service
BY DEF Sound

LEMMA PublishHonest ==
  ASSUME replica \in [Node -> Replica], service \in [Node -> Service],
         NEW n \in Node, NEW s, NEW snt, NEW r \in Replica,
         Sound(n, s, snt, r.epoch), PublishTimeline(n, s, r)
  PROVE  /\ service' = [service EXCEPT ![n] = service'[n]]
         /\ replica' = [replica EXCEPT ![n] = replica'[n]]
         /\ service'[n] \in Service /\ replica'[n] \in Replica
         /\ replica'[n].epoch = r.epoch /\ replica'[n].messages = r.messages
         /\ service'[n].staged = s.staged \ r.messages
         /\ \A H \in SUBSET Receipt :
              Honest(n, s, H) /\ r.receipts \subseteq H
                /\ Given(n, r.messages \cup s.staged) \subseteq H
              => Honest(n, service'[n], H) /\ replica'[n].receipts \subseteq H
<1> DEFINE merged   == Merged(s, r)
           receipts == NewReceipts(n, merged, r)
           written  == [r EXCEPT !.receipts = r.receipts \cup receipts]
           woken    == ReceiptsWoken(merged, receipts)
           due      == {m \in woken.pending \cap woken.timeline : m \in Delivered(n, written)}
           t        == Retired(woken, due)
<1>1. service' = [service EXCEPT ![n] = t] /\ replica' = [replica EXCEPT ![n] = written]
  BY DEF PublishTimeline
<1>2. s \in Service /\ Sound(n, merged, snt, r.epoch)
  BY MergedSound, SoundType
<1>3. /\ merged \in Service /\ merged.timeline = r.messages \cup s.staged
      /\ merged.staged = s.staged \ r.messages
      /\ \A H : Honest(n, s, H) => Honest(n, merged, H)
  BY <1>2, MergedHonest
<1>4. receipts \in SUBSET Receipt
  BY <1>3, NewReceiptsType
<1>5. receipts \subseteq Given(n, r.messages \cup s.staged)
  BY <1>3, <1>4 DEF NewReceipts, Given
<1> HIDE DEF merged, receipts
<1>6. /\ written \in Replica /\ written.epoch = r.epoch /\ written.messages = r.messages
      /\ written.receipts = r.receipts \cup receipts
  BY <1>4 DEF Replica
<1>7. \A m \in due : \E c \in written.receipts : c.message = m /\ c.by # n
  BY DEF Delivered
<1> HIDE DEF written
<1>8. Sound(n, woken, snt, r.epoch) /\ woken \in Service
  BY <1>2, <1>4, ReceiptsWokenSound, SoundType
<1>9. /\ woken.staged = merged.staged
      /\ \A H \in SUBSET Receipt :
           Honest(n, merged, H) /\ receipts \subseteq H => Honest(n, woken, H)
  BY <1>3, <1>4, ReceiptsWokenHonest DEF Rests
<1> HIDE DEF woken
<1>10. due \in SUBSET woken.pending
  OBVIOUS
<1> HIDE DEF due
<1>11. Sound(n, t, snt, r.epoch) /\ t \in Service
  BY <1>8, <1>10, RetiredSound, SoundType
<1>12. /\ t.staged = woken.staged
       /\ \A H \in SUBSET Receipt :
            Honest(n, woken, H) /\ (\A m \in due : \E c \in H : c.message = m /\ c.by # n)
            => Honest(n, t, H)
  BY <1>8, RetiredHonest DEF Rests
<1> HIDE DEF t
<1>13. service'[n] = t /\ replica'[n] = written
  BY <1>1
<1>14. ASSUME NEW H \in SUBSET Receipt, Honest(n, s, H), r.receipts \subseteq H,
              Given(n, r.messages \cup s.staged) \subseteq H
       PROVE  Honest(n, t, H) /\ written.receipts \subseteq H
  <2>1. receipts \subseteq H /\ written.receipts \subseteq H
    BY <1>5, <1>6, <1>14
  <2>2. Honest(n, woken, H)
    BY <1>3, <1>9, <1>14, <2>1
  <2>3. \A m \in due : \E c \in H : c.message = m /\ c.by # n
    BY <1>7, <2>1
  <2> QED
    BY <1>12, <2>1, <2>2, <2>3
<1> QED
  BY <1>1, <1>3, <1>6, <1>9, <1>11, <1>12, <1>13, <1>14


LEMMA PublishedEpoch ==
  ASSUME replica \in [Node -> Replica],
         NEW n \in Node, NEW s, NEW r \in Replica, PublishTimeline(n, s, r)
  PROVE  /\ replica'[n].epoch = r.epoch
         /\ \A p \in Node : p # n => replica'[p] = replica[p]
<1> DEFINE receipts == NewReceipts(n, Merged(s, r), r)
           written  == [r EXCEPT !.receipts = r.receipts \cup receipts]
<1>1. replica' = [replica EXCEPT ![n] = written]
  BY DEF PublishTimeline
<1> HIDE DEF receipts
<1>2. written.epoch = r.epoch
  BY DEF Replica
<1> QED
  BY <1>1, <1>2

\* A member's service and document change; its receipts are true by what all
\* have afterwards, and it loses nothing it had.
LEMMA HonestChange ==
  ASSUME replica \in [Node -> Replica], service \in [Node -> Service], HonestState,
         NEW n \in Node, NEW t \in Service, NEW q \in Replica,
         service' = [service EXCEPT ![n] = t],
         replica' = [replica EXCEPT ![n] = q],
         replica[n].messages \cup service[n].staged \subseteq q.messages \cup t.staged,
         \A H \in SUBSET Receipt :
           Truths \subseteq H /\ Given(n, q.messages \cup t.staged) \subseteq H
             => Honest(n, t, H) /\ q.receipts \subseteq H,
         \A request \in inbox' : request \in inbox \/ request.receipts \subseteq Truths
  PROVE  HonestState'
<1>1. /\ service'[n] = t /\ replica'[n] = q
      /\ \A p \in Node : p # n => service'[p] = service[p] /\ replica'[p] = replica[p]
  OBVIOUS
<1>2. \A p \in Node : replica[p].messages \cup service[p].staged
                        \subseteq replica'[p].messages \cup service'[p].staged
  BY <1>1
<1>3. \A c \in Receipt : c.by \in Node
  BY DEF Receipt
<1>4. Truths \subseteq Truths'
  BY <1>2, <1>3 DEF Truths
<1>5. Given(n, q.messages \cup t.staged) \subseteq Truths'
  BY <1>1 DEF Given, Truths
<1>6. Truths' \in SUBSET Receipt
  BY DEF Truths
<1>7. Honest(n, t, Truths') /\ q.receipts \subseteq Truths'
  BY <1>4, <1>5, <1>6
<1>8. \A p \in Node : replica'[p].receipts \subseteq Truths'
  BY <1>1, <1>4, <1>7 DEF HonestState
<1>9. \A p \in Node : Honest(p, service'[p], Truths')
  BY <1>1, <1>4, <1>7, HonestGrows DEF HonestState
<1>10. \A request \in inbox' : request.receipts \subseteq Truths'
  BY <1>4 DEF HonestState
<1> HIDE DEF Truths
<1>11. \A p \in Node : Honest(p, service[p], Truths)'
  BY <1>9 DEF Honest
<1> QED
  BY <1>8, <1>10, <1>11 DEF HonestState

\* A handler that ends by publishing the timeline.
LEMMA HonestPublish ==
  ASSUME Inv, HonestState, NEW n \in Node, NEW s, NEW snt, NEW r \in Replica,
         Sound(n, s, snt, r.epoch), PublishTimeline(n, s, r),
         Honest(n, s, Truths), r.receipts \subseteq Truths,
         replica[n].messages \subseteq r.messages, service[n].staged \subseteq s.staged,
         inbox' \subseteq inbox
  PROVE  HonestState'
<1>1. replica \in [Node -> Replica] /\ service \in [Node -> Service]
  BY DEF Inv, TypeOK
<1>2. /\ service' = [service EXCEPT ![n] = service'[n]]
      /\ replica' = [replica EXCEPT ![n] = replica'[n]]
      /\ service'[n] \in Service /\ replica'[n] \in Replica
      /\ replica'[n].messages = r.messages
      /\ service'[n].staged = s.staged \ r.messages
  BY <1>1, PublishHonest
<1>3. \A H \in SUBSET Receipt :
        Honest(n, s, H) /\ r.receipts \subseteq H
          /\ Given(n, r.messages \cup s.staged) \subseteq H
        => Honest(n, service'[n], H) /\ replica'[n].receipts \subseteq H
  BY <1>1, PublishHonest
<1>4. replica'[n].messages \cup service'[n].staged = r.messages \cup s.staged
  BY <1>2
<1>5. ASSUME NEW H \in SUBSET Receipt, Truths \subseteq H,
             Given(n, replica'[n].messages \cup service'[n].staged) \subseteq H
      PROVE  Honest(n, service'[n], H) /\ replica'[n].receipts \subseteq H
  <2>1. Honest(n, s, H) /\ r.receipts \subseteq H
    BY <1>5, HonestGrows
  <2> QED
    BY <1>3, <1>4, <1>5, <2>1
<1>6. replica[n].messages \cup service[n].staged
        \subseteq replica'[n].messages \cup service'[n].staged
  BY <1>4
<1> QED
  BY <1>1, <1>2, <1>5, <1>6, HonestChange

\* A step of the service alone.
LEMMA HonestService ==
  ASSUME Inv, HonestState, NEW n \in Node, NEW t \in Service,
         service' = [service EXCEPT ![n] = t], replica' = replica,
         service[n].staged \subseteq t.staged,
         Honest(n, t, Truths),
         \A request \in inbox' : request \in inbox \/ request.receipts \subseteq Truths
  PROVE  HonestState'
<1>1. replica \in [Node -> Replica] /\ service \in [Node -> Service]
  BY DEF Inv, TypeOK
<1>2. replica' = [replica EXCEPT ![n] = replica[n]] /\ replica[n] \in Replica
  BY <1>1
<1>3. replica[n].receipts \subseteq Truths
  BY DEF HonestState
<1>4. \A H \in SUBSET Receipt : Truths \subseteq H =>
        Honest(n, t, H) /\ replica[n].receipts \subseteq H
  BY <1>3, HonestGrows
<1> QED
  BY <1>1, <1>2, <1>4, HonestChange

LEMMA SendHonest ==
  ASSUME Inv, HonestState, NEW n \in Node, SendMessage(n)
  PROVE  HonestState'
<1>1. PICK m \in Message :
        LET s == Scheduled([service[n] EXCEPT !.pending = @ \cup {m}])
            r == [replica[n] EXCEPT !.messages = @ \cup {m}]
        IN /\ NextMessage(n, m)
           /\ sent' = sent \cup {m}
           /\ PublishTimeline(n, Woken(Show(s, {m}, "pending"), {}), r)
  BY DEF SendMessage
<1> DEFINE u == [service[n] EXCEPT !.pending = service[n].pending \cup {m}]
           s == Scheduled(u)
           w == Show(s, {m}, "pending")
           v == Woken(w, {})
           r == [replica[n] EXCEPT !.messages = @ \cup {m}]
           e == replica[n].epoch
<1>2. /\ service[n] \in Service /\ replica[n] \in Replica /\ sent \subseteq Message
      /\ Sound(n, service[n], sent, e) /\ Honest(n, service[n], Truths)
      /\ replica \in [Node -> Replica] /\ service \in [Node -> Service]
      /\ replica[n].receipts \subseteq Truths
  BY DEF Inv, TypeOK, HonestState
<1>3. m \notin sent /\ m.author = n /\ m.epoch = e
  BY <1>1 DEF NextMessage
<1>4. r \in Replica /\ r.epoch = e /\ r.messages = replica[n].messages \cup {m}
        /\ r.receipts = replica[n].receipts
  BY <1>2 DEF Replica
<1>5. /\ u \in Service /\ u.pending = service[n].pending \cup {m}
      /\ u.retry = service[n].pending /\ u.shown = service[n].shown
      /\ u.staged = service[n].staged /\ u.wakes = service[n].wakes
  BY <1>2 DEF Service, Sound
<1>6. s = [u EXCEPT !.retry = u.retry \cup u.pending]
  BY DEF Scheduled
<1> HIDE DEF u
<1>7. /\ s \in Service /\ s.pending = service[n].pending \cup {m}
      /\ s.retry = service[n].pending \cup {m} /\ s.shown = service[n].shown
      /\ s.staged = service[n].staged /\ s.wakes = service[n].wakes
  <2>1. u.retry \cup u.pending = service[n].pending \cup {m}
    BY <1>5
  <2> HIDE DEF s
  <2> QED
    BY <1>5, <1>6, <2>1 DEF Service
<1> HIDE DEF s
<1>8. \A k \in Message : s.shown[k] = "delivered" => k \notin s.pending
  BY <1>2, <1>3, <1>7 DEF Sound
<1>9. Sound(n, s, sent', e)
  BY <1>1, <1>2, <1>3, <1>7, <1>8 DEF Sound
<1>10. Honest(n, s, Truths)
  BY <1>2, <1>7 DEF Honest
<1>11. Sound(n, w, sent', e)
  BY <1>7, <1>9, ShowSound
<1>12. Truths \in SUBSET Receipt /\ {} \in SUBSET Receipt /\ {} \subseteq Truths
  BY DEF Truths
<1>13. Honest(n, w, Truths) /\ Rests(s, w) /\ w \in Service
  BY <1>7, <1>10, <1>11, <1>12, ShowHonest, SoundType DEF Shown
<1> HIDE DEF w
<1>14. Sound(n, v, sent', e)
  BY <1>11, <1>12, WokenSound
<1>15. Honest(n, v, Truths) /\ Rests(w, v)
  BY <1>12, <1>13, WokenHonest
<1> HIDE DEF v, r
<1>16. PublishTimeline(n, v, r)
  BY <1>1 DEF v, w, s, u, r
<1>17. service[n].staged \subseteq v.staged
  BY <1>7, <1>13, <1>15 DEF Rests
<1>18. inbox' \subseteq inbox
  BY DEF SendMessage
<1> QED
  BY <1>2, <1>4, <1>14, <1>15, <1>16, <1>17, <1>18, HonestPublish

LEMMA JoinedElements ==
  ASSUME NEW S, NEW a \in Seq(S), NEW b \in Seq(S)
  PROVE  /\ a \o b \in Seq(S) /\ Len(a \o b) = Len(a) + Len(b)
         /\ \A k \in 1..Len(a) : (a \o b)[k] = a[k]
         /\ \A k \in (Len(a) + 1)..(Len(a) + Len(b)) : (a \o b)[k] = b[k - Len(a)]
OBVIOUS

LEMMA RemovedElements ==
  ASSUME NEW S, NEW q \in Seq(S), NEW i \in 1..Len(q)
  PROVE  /\ RemoveAt(q, i) \in Seq(S)
         /\ \A k \in 1..Len(RemoveAt(q, i)) : \E j \in 1..Len(q) : RemoveAt(q, i)[k] = q[j]
<1> DEFINE a == SubSeq(q, 1, i - 1)
           b == SubSeq(q, i + 1, Len(q))
<1>1. Len(q) \in Nat /\ i \in Nat /\ i >= 1 /\ i =< Len(q)
  OBVIOUS
<1>2. a \in Seq(S) /\ Len(a) = i - 1 /\ \A k \in 1..(i - 1) : a[k] = q[k]
  BY <1>1
<1>3. b \in Seq(S) /\ Len(b) = Len(q) - i /\ \A k \in 1..(Len(q) - i) : b[k] = q[k + i]
  BY <1>1
<1>4. RemoveAt(q, i) = a \o b
  BY DEF RemoveAt
<1> HIDE DEF a, b
<1>5. /\ a \o b \in Seq(S) /\ Len(a \o b) = Len(a) + Len(b)
      /\ \A k \in 1..Len(a) : (a \o b)[k] = a[k]
      /\ \A k \in (Len(a) + 1)..(Len(a) + Len(b)) : (a \o b)[k] = b[k - Len(a)]
  BY <1>2, <1>3, JoinedElements
<1>6. ASSUME NEW k \in 1..(Len(a) + Len(b))
      PROVE  \E j \in 1..Len(q) : (a \o b)[k] = q[j]
  <2>1. CASE k =< Len(a)
    <3>1. k \in 1..Len(a) /\ k \in 1..(i - 1) /\ k \in 1..Len(q)
      BY <1>1, <1>2, <2>1
    <3> QED
      BY <1>2, <1>5, <3>1
  <2>2. CASE ~ (k =< Len(a))
    <3>1. /\ k \in (Len(a) + 1)..(Len(a) + Len(b))
          /\ k - Len(a) \in 1..(Len(q) - i) /\ (k - Len(a)) + i \in 1..Len(q)
      BY <1>1, <1>2, <1>3, <2>2
    <3>2. (a \o b)[k] = b[k - Len(a)] /\ b[k - Len(a)] = q[(k - Len(a)) + i]
      BY <1>3, <1>5, <3>1
    <3> QED
      BY <3>1, <3>2
  <2> QED
    BY <2>1, <2>2
<1> QED
  BY <1>4, <1>5, <1>6

LEMMA WakePeersHonest ==
  ASSUME Inv, HonestState, NEW n \in Node, WakePeers(n)
  PROVE  HonestState'
<1>1. PICK i \in 1..Len(service[n].wakes), got \in SUBSET Others(n),
           answered \in SUBSET Others(n) :
        /\ inbox' = inbox \cup
             {[from |-> n, to |-> p, messages |-> service[n].wakes[i].messages,
               receipts |-> service[n].wakes[i].receipts] : p \in got}
        /\ service' = [service EXCEPT ![n].wakes = RemoveAt(@, i),
                                      ![n].finished = Append(@, answered # {})]
        /\ UNCHANGED <<replica, crashes, sent>>
  BY DEF WakePeers
<1> DEFINE s == service[n]
           ws == RemoveAt(s.wakes, i)
           fs == Append(s.finished, answered # {})
           t == [s EXCEPT !.wakes = ws, !.finished = fs]
<1>2. /\ service \in [Node -> Service] /\ s \in Service
      /\ Honest(n, s, Truths)
  BY DEF Inv, TypeOK, HonestState
<1>3. s.wakes \in Seq(Payload) /\ s.finished \in Seq(BOOLEAN)
  BY <1>2 DEF Service
<1>4. /\ ws \in Seq(Payload)
      /\ \A k \in 1..Len(ws) : \E j \in 1..Len(s.wakes) : ws[k] = s.wakes[j]
  BY <1>3, RemovedElements
<1>5. fs \in Seq(BOOLEAN)
  BY <1>3
<1>6. service' = [service EXCEPT ![n] = t]
  BY <1>1
<1>7. \A request \in inbox' : request \in inbox \/ request.receipts \subseteq Truths
  BY <1>1, <1>2 DEF Honest
<1> HIDE DEF ws, fs
<1>8. t \in Service /\ t.wakes = ws /\ t.shown = s.shown /\ t.staged = s.staged
  BY <1>2, <1>4, <1>5 DEF Service
<1> HIDE DEF t
<1>9. Honest(n, t, Truths)
  BY <1>2, <1>4, <1>8 DEF Honest
<1> QED
  BY <1>1, <1>6, <1>7, <1>8, <1>9, HonestService


\* A report or the end of the cooldown shows "delivered" of nothing more.
LEMMA WakeFinishedHonest ==
  ASSUME Inv, HonestState, NEW n \in Node, ApplyWakeFinished(n)
  PROVE  HonestState'
<1> DEFINE s == [service[n] EXCEPT !.finished = Tail(service[n].finished)]
           g == [s EXCEPT !.failures = 0]
           f == IF s.failures = QueueAfter THEN s.failures ELSE s.failures + 1
           c == FailureCounted(s)
           d == IF IsQueued(c) THEN Show(c, c.pending, "queued") ELSE c
           t == IF s.pending = {} THEN s
                ELSE IF Head(service[n].finished) THEN Scheduled(g)
                ELSE WakeFailed(s)
           e == replica[n].epoch
<1>1. /\ service[n] \in Service /\ Sound(n, service[n], sent, e)
      /\ Honest(n, service[n], Truths)
  BY DEF Inv, TypeOK, HonestState
<1>2. service[n].finished # <<>> /\ service' = [service EXCEPT ![n] = t]
  BY DEF ApplyWakeFinished
<1>3. UNCHANGED <<replica, inbox, lost, crashes, sent>>
  BY DEF ApplyWakeFinished
<1>4. Tail(service[n].finished) \in Seq(BOOLEAN)
  <2>1. service[n].finished \in Seq(BOOLEAN)
    BY <1>1 DEF Service
  <2> QED
    BY <2>1, <1>2, TailType
<1>5. /\ s \in Service /\ s.pending = service[n].pending /\ s.retry = service[n].retry
      /\ s.shown = service[n].shown /\ s.wakes = service[n].wakes
      /\ s.staged = service[n].staged
  BY <1>1, <1>4 DEF Service
<1> HIDE DEF s
<1>6. Sound(n, s, sent, e) /\ Honest(n, s, Truths)
  BY <1>1, <1>5 DEF Sound, Honest
<1>7. 0 \in 0..QueueAfter /\ f \in 0..QueueAfter
  BY <1>5, BoundAssumption DEF Service
<1> HIDE DEF f
<1>8. /\ g \in Service /\ g.pending = s.pending /\ g.retry = s.retry /\ g.shown = s.shown
      /\ g.wakes = s.wakes /\ g.staged = s.staged
  BY <1>5, <1>7 DEF Service
<1> HIDE DEF g
<1>9. Sound(n, g, sent, e) /\ Honest(n, g, Truths)
  BY <1>6, <1>8 DEF Sound, Honest
<1>10. Scheduled(g) = g
  BY <1>9, ScheduledSame
<1>11. c = [s EXCEPT !.failures = f]
  BY DEF FailureCounted, f
<1>12. /\ c \in Service /\ c.pending = s.pending /\ c.retry = s.retry /\ c.shown = s.shown
       /\ c.wakes = s.wakes /\ c.staged = s.staged
  <2> HIDE DEF c
  <2> QED
    BY <1>5, <1>7, <1>11 DEF Service
<1>13. WakeFailed(s) = IF InFlight(s) > 0 THEN d ELSE Scheduled(d)
  BY <1>12 DEF WakeFailed
<1> HIDE DEF c
<1>14. Sound(n, c, sent, e) /\ Honest(n, c, Truths)
  BY <1>6, <1>12 DEF Sound, Honest
<1>15. Truths \in SUBSET Receipt /\ "queued" \in Shown
  BY DEF Truths, Shown
<1>16. /\ Sound(n, Show(c, c.pending, "queued"), sent, e)
       /\ Honest(n, Show(c, c.pending, "queued"), Truths)
       /\ Rests(c, Show(c, c.pending, "queued"))
  BY <1>12, <1>14, <1>15, ShowSound, ShowHonest
<1>17. Sound(n, d, sent, e) /\ Honest(n, d, Truths) /\ d.staged = s.staged
  BY <1>12, <1>14, <1>16 DEF Rests
<1> HIDE DEF d
<1>18. Scheduled(d) = d
  BY <1>17, ScheduledSame
<1>19. Honest(n, t, Truths) /\ t.staged = service[n].staged /\ Sound(n, t, sent, e)
  BY <1>5, <1>6, <1>8, <1>9, <1>10, <1>13, <1>17, <1>18
<1> HIDE DEF t
<1>20. t \in Service
  BY <1>19, SoundType
<1> QED
  BY <1>2, <1>3, <1>19, <1>20, HonestService

LEMMA RetryHonest ==
  ASSUME Inv, HonestState, NEW n \in Node, RetryDueDeliveries(n)
  PROVE  HonestState'
<1> DEFINE s == service[n]
           w == Woken(s, {})
           ms == s.retry \cap s.pending
           t == IF IsQueued(s) THEN w ELSE Show(w, ms, "retrying")
           e == replica[n].epoch
<1>1. s \in Service /\ Sound(n, s, sent, e) /\ Honest(n, s, Truths)
  BY DEF Inv, TypeOK, HonestState
<1>2. service' = [service EXCEPT ![n] = t] /\ UNCHANGED <<replica, inbox, lost, crashes, sent>>
  BY DEF RetryDueDeliveries
<1>3. /\ Truths \in SUBSET Receipt /\ {} \in SUBSET Receipt /\ {} \subseteq Truths
      /\ "retrying" \in Shown
  BY DEF Truths, Shown
<1>4. Sound(n, w, sent, e) /\ Honest(n, w, Truths) /\ Rests(s, w) /\ w.pending = s.pending
  <2>1. Sound(n, w, sent, e) /\ Honest(n, w, Truths) /\ Rests(s, w)
    BY <1>1, <1>3, WokenSound, WokenHonest
  <2>2. w.pending = s.pending
    BY <1>1 DEF Woken, Service
  <2> QED
    BY <2>1, <2>2
<1>5. w \in Service /\ ms \in SUBSET w.pending
  BY <1>4, SoundType
<1> HIDE DEF w, ms
<1>6. /\ Sound(n, Show(w, ms, "retrying"), sent, e)
      /\ Honest(n, Show(w, ms, "retrying"), Truths) /\ Rests(w, Show(w, ms, "retrying"))
  BY <1>3, <1>4, <1>5, ShowSound, ShowHonest
<1>7. Sound(n, t, sent, e) /\ Honest(n, t, Truths) /\ t.staged = s.staged
  BY <1>4, <1>6 DEF Rests
<1> HIDE DEF t
<1>8. t \in Service
  BY <1>7, SoundType
<1> QED
  BY <1>2, <1>7, <1>8, HonestService

LEMMA SyncRequestHonest ==
  ASSUME Inv, HonestState, NEW n \in Node, NEW p \in Node, ApplySyncRequest(n, p)
  PROVE  HonestState'
<1>1. PICK request \in inbox :
        LET mine == {m \in request.messages : m.author = p}
            s == ReceiptsApplied([service[n] EXCEPT !.staged = @ \cup mine], request)
        IN /\ inbox' = inbox \ {request}
           /\ PublishTimeline(n, Resumed(s), replica[n])
           /\ UNCHANGED <<lost, crashes, sent>>
  BY DEF ApplySyncRequest
<1> DEFINE mine == {m \in request.messages : m.author = p}
           u == [service[n] EXCEPT !.staged = service[n].staged \cup mine]
           ms == {c.message : c \in request.receipts} \cap u.pending
           s == Retired(u, ms)
           e == replica[n].epoch
<1>2. /\ service[n] \in Service /\ inbox \subseteq Request /\ Sound(n, service[n], sent, e)
      /\ Honest(n, service[n], Truths) /\ request.receipts \subseteq Truths
      /\ replica \in [Node -> Replica] /\ service \in [Node -> Service]
      /\ replica[n] \in Replica /\ replica[n].receipts \subseteq Truths
  BY DEF Inv, TypeOK, HonestState
<1>3. mine \in SUBSET Message
  BY <1>2 DEF Request
<1>4. ReceiptsApplied(u, request) = s
  BY DEF ReceiptsApplied
<1>5. PublishTimeline(n, Resumed(s), replica[n])
  BY <1>1, <1>4
<1> HIDE DEF mine
<1>6. /\ u \in Service /\ u.pending = service[n].pending /\ u.retry = service[n].retry
      /\ u.shown = service[n].shown /\ u.wakes = service[n].wakes
      /\ u.staged = service[n].staged \cup mine
  BY <1>2, <1>3 DEF Service
<1> HIDE DEF u
<1>7. Sound(n, u, sent, e) /\ Honest(n, u, Truths)
  BY <1>2, <1>6 DEF Sound, Honest
<1>8. ms \in SUBSET u.pending
  OBVIOUS
<1>9. \A m \in ms : \E c \in Truths : c.message = m /\ c.by # n
  <2>1. \A m \in u.pending : m.author = n
    BY <1>7 DEF Sound
  <2>2. \A c \in Truths : c.message.author # c.by
    BY DEF Truths
  <2> QED
    BY <1>2, <2>1, <2>2
<1> HIDE DEF ms
<1>10. Truths \in SUBSET Receipt
  BY DEF Truths
<1>11. Sound(n, s, sent, e) /\ Honest(n, s, Truths) /\ Rests(u, s)
  BY <1>6, <1>7, <1>8, <1>9, <1>10, RetiredSound, RetiredHonest
<1> HIDE DEF s
<1>12. Resumed(s) = s
  BY <1>11, ResumedSame
<1>13. service[n].staged \subseteq s.staged
  BY <1>6, <1>11 DEF Rests
<1>14. inbox' \subseteq inbox
  BY <1>1
<1>15. PublishTimeline(n, s, replica[n])
  BY <1>5, <1>12
<1> QED
  BY <1>2, <1>11, <1>13, <1>14, <1>15, HonestPublish

LEMMA DocumentChangedHonest ==
  ASSUME Inv, HonestState, NEW n \in Node, DocumentChanged(n)
  PROVE  HonestState'
<1> DEFINE s == [service[n] EXCEPT !.changed = FALSE]
           e == replica[n].epoch
<1>1. /\ service[n] \in Service /\ Sound(n, service[n], sent, e)
      /\ Honest(n, service[n], Truths)
      /\ replica \in [Node -> Replica] /\ service \in [Node -> Service]
      /\ replica[n] \in Replica /\ replica[n].receipts \subseteq Truths
  BY DEF Inv, TypeOK, HonestState
<1>2. /\ s \in Service /\ s.pending = service[n].pending /\ s.retry = service[n].retry
      /\ s.shown = service[n].shown /\ s.wakes = service[n].wakes
      /\ s.staged = service[n].staged
  BY <1>1 DEF Service
<1>3. PublishTimeline(n, Resumed(s), replica[n]) /\ inbox' \subseteq inbox
  BY DEF DocumentChanged
<1> HIDE DEF s
<1>4. Sound(n, s, sent, e) /\ Honest(n, s, Truths)
  BY <1>1, <1>2 DEF Sound, Honest
<1>5. Resumed(s) = s
  BY <1>4, ResumedSame
<1> QED
  BY <1>1, <1>2, <1>3, <1>4, <1>5, HonestPublish

LEMMA SyncHonest ==
  ASSUME Inv, HonestState, NEW n \in Node, NEW p \in Node, SyncDocument(n, p)
  PROVE  HonestState'
<1> DEFINE r == replica[n]
           q == replica[p]
           all == [r EXCEPT !.messages = r.messages \cup q.messages,
                            !.receipts = r.receipts \cup q.receipts]
           t == [service[n] EXCEPT !.changed = TRUE]
<1>1. /\ service[n] \in Service /\ Honest(n, service[n], Truths)
      /\ replica \in [Node -> Replica] /\ service \in [Node -> Service]
      /\ r \in Replica /\ q \in Replica
      /\ r.receipts \subseteq Truths /\ q.receipts \subseteq Truths
  BY DEF Inv, TypeOK, HonestState
<1>2. /\ replica' = [replica EXCEPT ![n] = all] /\ service' = [service EXCEPT ![n] = t]
      /\ inbox' = inbox
  BY DEF SyncDocument
<1>3. /\ all \in Replica /\ all.epoch = r.epoch /\ all.messages = r.messages \cup q.messages
      /\ all.receipts = r.receipts \cup q.receipts
  BY <1>1 DEF Replica
<1>4. /\ t \in Service /\ t.wakes = service[n].wakes /\ t.shown = service[n].shown
      /\ t.staged = service[n].staged
  BY <1>1 DEF Service
<1> HIDE DEF all, t
<1>5. Honest(n, t, Truths) /\ all.receipts \subseteq Truths
  BY <1>1, <1>3, <1>4 DEF Honest
<1>6. \A H \in SUBSET Receipt : Truths \subseteq H =>
        Honest(n, t, H) /\ all.receipts \subseteq H
  BY <1>5, HonestGrows
<1>7. replica[n].messages \cup service[n].staged \subseteq all.messages \cup t.staged
  BY <1>3, <1>4
<1> QED
  BY <1>1, <1>2, <1>3, <1>4, <1>6, <1>7, HonestChange

\* A clear, the adoption of one and a crash end the undisturbed time.
LEMMA Disturbs ==
  ASSUME Inv, NEW n \in Node, NEW p \in Node,
         ClearHistory(n) \/ Restart(n) \/ AdoptReset(n, p)
  PROVE  ~Undisturbed'
<1>1. /\ replica \in [Node -> Replica] /\ service \in [Node -> Service] /\ crashes \in Nat
      /\ \A x \in Node : replica[x].epoch \in Nat
  BY BoundAssumption DEF Inv, TypeOK, Replica
<1>2. CASE Restart(n)
  BY <1>1, <1>2 DEF Restart, Undisturbed
<1>3. \A e \in 0..MaxEpoch : EmptyReplica(e) \in Replica /\ EmptyReplica(e).epoch = e
  BY DEF EmptyReplica, Replica
<1>4. CASE ClearHistory(n)
  <2> DEFINE f == replica[n].epoch + 1
             s == Woken(Forgotten(service[n]), {})
  <2>1. f \in 0..MaxEpoch /\ f # 0 /\ PublishTimeline(n, s, EmptyReplica(f))
    BY <1>1, <1>4, BoundAssumption DEF ClearHistory
  <2> HIDE DEF f, s
  <2>2. replica'[n].epoch = f
    BY <1>1, <1>3, <2>1, PublishedEpoch
  <2> QED
    BY <2>1, <2>2 DEF Undisturbed
<1>5. CASE AdoptReset(n, p)
  <2> DEFINE f == replica[p].epoch
             s == Forgotten(service[n])
  <2>1. f \in 0..MaxEpoch /\ f # 0 /\ PublishTimeline(n, s, EmptyReplica(f))
    <3>1. f \in 0..MaxEpoch /\ f > replica[n].epoch /\ PublishTimeline(n, s, EmptyReplica(f))
      BY <1>5 DEF AdoptReset, Inv, TypeOK, Replica
    <3> QED
      BY <1>1, <3>1
  <2> HIDE DEF f, s
  <2>2. replica'[n].epoch = f
    BY <1>1, <1>3, <2>1, PublishedEpoch
  <2> QED
    BY <2>1, <2>2 DEF Undisturbed
<1> QED
  BY <1>2, <1>4, <1>5


LEMMA UndisturbedBefore ==
  ASSUME Inv, [Next]_vars, Undisturbed'
  PROVE  Undisturbed
<1>1. /\ replica \in [Node -> Replica] /\ service \in [Node -> Service] /\ crashes \in Nat
      /\ \A p \in Node : replica[p] \in Replica
  BY DEF Inv, TypeOK
<1>2. ASSUME NEW n \in Node, replica'[n].epoch = replica[n].epoch,
             \A p \in Node : p # n => replica'[p] = replica[p], crashes' = crashes
      PROVE  Undisturbed
  BY <1>2 DEF Undisturbed
<1>3. ASSUME replica' = replica, crashes' = crashes
      PROVE  Undisturbed
  BY <1>3 DEF Undisturbed
<1>4. CASE UNCHANGED vars
  BY <1>3, <1>4 DEF vars
<1>5. ASSUME NEW n \in Node, NEW s, NEW r \in Replica, r.epoch = replica[n].epoch,
             PublishTimeline(n, s, r), crashes' = crashes
      PROVE  Undisturbed
  BY <1>1, <1>2, <1>5, PublishedEpoch
<1>6. ASSUME NEW n \in Node, SendMessage(n) PROVE Undisturbed
  <2> DEFINE r(m) == [replica[n] EXCEPT !.messages = @ \cup {m}]
             s(m) == Woken(Show(Scheduled([service[n] EXCEPT !.pending = @ \cup {m}]),
                                {m}, "pending"), {})
  <2>1. PICK m \in Message : PublishTimeline(n, s(m), r(m))
    BY <1>6 DEF SendMessage
  <2>2. r(m) \in Replica /\ r(m).epoch = replica[n].epoch
    BY <1>1 DEF Replica
  <2>3. crashes' = crashes
    BY <1>6 DEF SendMessage
  <2> HIDE DEF r, s
  <2> QED
    BY <1>5, <2>1, <2>2, <2>3
<1>7. ASSUME NEW n \in Node, DocumentChanged(n) PROVE Undisturbed
  BY <1>1, <1>5, <1>7 DEF DocumentChanged
<1>8. ASSUME NEW n \in Node, NEW p \in Node, ApplySyncRequest(n, p) PROVE Undisturbed
  <2>1. (\E s : PublishTimeline(n, s, replica[n])) /\ crashes' = crashes
    BY <1>8 DEF ApplySyncRequest
  <2> QED
    BY <1>1, <1>5, <2>1
<1>9. ASSUME NEW n \in Node, NEW p \in Node, SyncDocument(n, p) PROVE Undisturbed
  <2> DEFINE q == [replica[n] EXCEPT !.messages = replica[n].messages \cup replica[p].messages,
                                     !.receipts = replica[n].receipts \cup replica[p].receipts]
  <2>1. replica' = [replica EXCEPT ![n] = q] /\ crashes' = crashes
    BY <1>9 DEF SyncDocument
  <2>2. q.epoch = replica[n].epoch
    BY <1>1 DEF Replica
  <2> HIDE DEF q
  <2>3. replica'[n] = q /\ \A x \in Node : x # n => replica'[x] = replica[x]
    BY <1>1, <2>1
  <2> QED
    BY <1>2, <2>1, <2>2, <2>3
<1>10. ASSUME NEW n \in Node, WakePeers(n) \/ ApplyWakeFinished(n) \/ RetryDueDeliveries(n)
                                \/ CooldownEnds(n)
       PROVE  Undisturbed
  <2>1. replica' = replica /\ crashes' = crashes
    BY <1>10 DEF WakePeers, ApplyWakeFinished, RetryDueDeliveries, CooldownEnds
  <2> QED
    BY <1>3, <2>1
<1>11. \A n \in Node : Others(n) \subseteq Node
  BY DEF Others
<1> QED
  BY <1>4, <1>6, <1>7, <1>8, <1>9, <1>10, <1>11, Disturbs DEF Next

LEMMA HonestInit == Init => HonestInv
<1> SUFFICES ASSUME Init PROVE HonestState
  BY DEF HonestInv
<1>1. \A n \in Node : replica[n] = EmptyReplica(0) /\ service[n] = NewService
  BY DEF Init
<1>2. Len(<<>>) = 0
  OBVIOUS
<1>3. \A n \in Node : Honest(n, NewService, Truths)
  BY <1>2 DEF Honest, NewService
<1>4. inbox = {}
  BY DEF Init
<1> QED
  BY <1>1, <1>3, <1>4 DEF HonestState, EmptyReplica

LEMMA CooldownHonest ==
  ASSUME Inv, HonestState, NEW n \in Node, CooldownEnds(n)
  PROVE  HonestState'
<1> DEFINE t == [service[n] EXCEPT !.cooldown = FALSE]
<1>1. service[n] \in Service /\ Honest(n, service[n], Truths)
  BY DEF Inv, TypeOK, HonestState
<1>2. service' = [service EXCEPT ![n] = t] /\ UNCHANGED <<replica, inbox>>
  BY DEF CooldownEnds
<1>3. /\ t \in Service /\ t.wakes = service[n].wakes /\ t.shown = service[n].shown
      /\ t.staged = service[n].staged
  BY <1>1 DEF Service
<1> HIDE DEF t
<1>4. Honest(n, t, Truths)
  BY <1>1, <1>3 DEF Honest
<1> QED
  BY <1>2, <1>3, <1>4, HonestService

LEMMA HonestNext ==
  ASSUME Inv, HonestInv, [Next]_vars
  PROVE  HonestInv'
<1> SUFFICES ASSUME Undisturbed' PROVE HonestState'
  BY DEF HonestInv
<1>1. HonestState
  BY UndisturbedBefore DEF HonestInv
<1>2. CASE UNCHANGED vars
  BY <1>1, <1>2 DEF vars, HonestState, Honest, Truths
<1>3. \A n \in Node : Others(n) \subseteq Node
  BY DEF Others
<1>4. ASSUME NEW n \in Node, ClearHistory(n) \/ Restart(n) PROVE FALSE
  BY <1>4, Disturbs
<1>5. ASSUME NEW n \in Node, NEW p \in Node, AdoptReset(n, p) PROVE FALSE
  BY <1>5, Disturbs
<1> QED
  BY <1>1, <1>2, <1>3, <1>4, <1>5, SendHonest, WakePeersHonest, WakeFinishedHonest, RetryHonest,
     DocumentChangedHonest, CooldownHonest, SyncRequestHonest, SyncHonest DEF Next

LEMMA HonestPromises == Inv /\ HonestInv => DeliveredIsHeld
<1> SUFFICES ASSUME Inv, HonestState,
                    NEW n \in Node, NEW m \in sent, service[n].shown[m] = "delivered"
             PROVE  \E p \in Others(n) : m \in replica[p].messages \cup service[p].staged
  BY DEF DeliveredIsHeld, DeliveredHasHolder, HonestInv
<1>1. m \in Message
  BY DEF Inv, TypeOK
<1>2. PICK c \in Truths : c.message = m /\ c.by # n
  BY <1>1 DEF HonestState, Honest
<1>3. c.by \in Others(n) /\ m \in replica[c.by].messages \cup service[c.by].staged
  BY <1>2 DEF Truths, Receipt, Others
<1> QED
  BY <1>3

(***************************************************************************)
(* Until the first crash and the first clear, the author's screen calls    *)
(* delivered only what another member has: apply_direct_receipts and       *)
(* publish_timeline retire a delivery on the word of a receipt, and no     *)
(* receipt, in a document, a wake or a request, speaks of a message its    *)
(* giver does not have, because a staged message leaves only when the      *)
(* document has it.                                                        *)
(***************************************************************************)
THEOREM DeliveredIsReallyHeld == Spec => []DeliveredIsHeld
<1>1. Inv /\ Inv' /\ HonestInv /\ [Next]_vars => HonestInv'
  BY HonestNext
<1> QED
  BY <1>1, HonestInit, HonestPromises, InvHolds, PTL DEF Spec
=============================================================================
