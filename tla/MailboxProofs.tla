---------------------------- MODULE MailboxProofs ----------------------------
(***************************************************************************)
(* Proofs about a mailbox of every capacity, every batch limit and any      *)
(* number of messages: no accepted message is lost or shown twice, and      *)
(* newer mail never passes a batch that was offered.                        *)
(*                                                                         *)
(* The handlers are compositions of helpers from tables to tables, so the   *)
(* inductive invariant is stated of tables m and of the history beside      *)
(* them, and shown to be kept helper by helper.                             *)
(***************************************************************************)
EXTENDS Mailbox, FiniteSetTheorems, SequenceTheorems, TLAPS

-----------------------------------------------------------------------------
(* The inductive invariant                                                  *)

\* Numbered in the order of the sequence.
Ordered(s) == \A i, j \in DOMAIN s : i < j => s[i].id < s[j].id

\* The generations of the batches that a reader holds or that are on their way back.
Held(m) ==
  {b.generation : b \in m.receipts} \union
  {m.settlements[i].generation : i \in DOMAIN m.settlements}

\* Each batch that is out has one receipt or one settlement.  Beside the current batch at
\* most one is out, and only when its session was torn down.
OneBatch(m, tn) ==
  /\ \A b \in m.receipts :
       /\ b.generation = m.reservation.generation => b = m.reservation
       /\ \A c \in m.receipts : b.generation = c.generation => b = c
       /\ \A i \in DOMAIN m.settlements : m.settlements[i].generation # b.generation
  /\ \A i, j \in DOMAIN m.settlements :
       m.settlements[i].generation = m.settlements[j].generation => i = j
  /\ \A g, h \in Held(m) \ {m.reservation.generation} : g = h
  /\ ~tn => Held(m) \subseteq {m.reservation.generation}

\* The mailbox is in the order of acceptance and the batch that is out is its front.
Queued(m, acc) ==
  /\ Ordered(m.box)
  /\ \A i \in DOMAIN m.box : m.box[i].id <= acc
  /\ \A k \in DOMAIN m.reservation.messages :
       k \in DOMAIN m.box /\ m.reservation.messages[k] = m.box[k]

\* The barrier stands as long as offered mail is left.
Guarded(m, acc, off) ==
  /\ m.reservation # NoReservation => m.barrier
  /\ ToSet(m.reservation.messages) \subseteq off
  /\ ~m.barrier => \A x \in Mail(m) : x \notin off
  /\ \A x \in off : x.id <= acc

\* What a reader holds was not shown, and a batch of a torn down session is older than
\* everything in the mailbox.
Unshown(m, hd, acc) ==
  \A b \in m.receipts :
    /\ Ordered(b.messages)
    /\ \A x \in ToSet(b.messages) :
         /\ x.id <= acc
         /\ \A y \in ToSet(hd) : x.id # y.id
         /\ b.generation # m.reservation.generation => \A y \in Mail(m) : x.id < y.id

\* What was shown was shown once, is still in the mailbox only when its receipt is on its
\* way back, and a committed batch was shown.
Shown(m, hd, acc) ==
  /\ \A i \in DOMAIN hd : hd[i].id <= acc
  /\ \A i, j \in DOMAIN hd : hd[i].id = hd[j].id => i = j
  /\ \A x \in Mail(m), y \in ToSet(hd) : x.id = y.id => Acknowledged(m, x)
  /\ \A x \in ToSet(m.reservation.messages) : Acknowledged(m, x) => x \in ToSet(hd)

\* Every accepted message is somewhere.
Accounted(m, hd, acc, clr) ==
  \A i \in 1..acc :
    \/ \E x \in Mail(m) : x.id = i
    \/ \E x \in ToSet(hd) : x.id = i
    \/ \E x \in clr : x.id = i

Sound(m, hd, acc, off, clr, tn) ==
  /\ m \in Tables
  /\ OneBatch(m, tn)
  /\ Queued(m, acc)
  /\ Guarded(m, acc, off)
  /\ Unshown(m, hd, acc)
  /\ Shown(m, hd, acc)
  /\ Accounted(m, hd, acc, clr)

MailInv == TypeOK /\ Sound(mb, handed, accepted, offered, cleared, torn)

-----------------------------------------------------------------------------
(* Sequences                                                                *)

\* f maps the positions of t in order onto the positions of s that hold elements of S.
Picks(f, t, s, S) ==
  /\ f \in [DOMAIN t -> DOMAIN s]
  /\ \A j \in DOMAIN t : t[j] = s[f[j]] /\ s[f[j]] \in S
  /\ \A j, k \in DOMAIN t : j < k => f[j] < f[k]
  /\ \A i \in DOMAIN s : s[i] \in S => \E j \in DOMAIN t : f[j] = i

\* Keep returns the kept elements in their order.
LEMMA KeepFacts ==
  ASSUME NEW M, NEW s \in Seq(M), NEW S
  PROVE  /\ Keep(s, S) \in Seq(M)
         /\ \E f : Picks(f, Keep(s, S), s, S)
<1> DEFINE kept == {i \in DOMAIN s : s[i] \in S}
           upto(i) == {k \in kept : k <= i}
           n == Cardinality(kept)
           rank == [i \in kept |-> Cardinality(upto(i))]
           at(j) == CHOOSE i \in kept : Cardinality(upto(i)) = j
<1>1. IsFiniteSet(kept) /\ n \in Nat /\ kept \subseteq Nat /\ DOMAIN s = 1..Len(s) /\ Len(s) \in Nat
  <2>1. DOMAIN s = 1..Len(s) /\ Len(s) \in Nat
    OBVIOUS
  <2>2. IsFiniteSet(1..Len(s))
    BY <2>1, FS_Interval
  <2>3. IsFiniteSet(kept)
    BY <2>1, <2>2, FS_Subset
  <2> QED
    BY <2>1, <2>3, FS_CardinalityType
<1>2. \A i \in kept : rank[i] \in 1..n
  <2> SUFFICES ASSUME NEW i \in kept PROVE Cardinality(upto(i)) \in 1..n
    OBVIOUS
  <2>1. upto(i) \in SUBSET kept /\ i \in upto(i)
    BY <1>1
  <2>2. IsFiniteSet(upto(i)) /\ Cardinality(upto(i)) <= n
    BY <1>1, <2>1, FS_Subset
  <2>3. Cardinality(upto(i)) \in Nat /\ Cardinality(upto(i)) # 0
    BY <2>1, <2>2, FS_CardinalityType, FS_EmptySet
  <2> QED
    BY <1>1, <2>2, <2>3
<1>3. \A i, k \in kept : i < k => rank[i] < rank[k]
  <2> SUFFICES ASSUME NEW i \in kept, NEW k \in kept, i < k
               PROVE  Cardinality(upto(i)) < Cardinality(upto(k))
    OBVIOUS
  <2>1. upto(i) \in SUBSET upto(k) /\ upto(i) # upto(k)
    <3>1. i \in Nat /\ k \in Nat /\ \A l \in kept : l \in Nat
      BY <1>1
    <3>2. k \in upto(k) /\ k \notin upto(i)
      BY <3>1
    <3> QED
      BY <3>1, <3>2
  <2>2. upto(k) \in SUBSET kept
    OBVIOUS
  <2>3. IsFiniteSet(upto(k))
    BY <1>1, <2>2, FS_Subset
  <2>4. Cardinality(upto(i)) <= Cardinality(upto(k)) /\ IsFiniteSet(upto(i))
    BY <2>1, <2>3, FS_Subset
  <2>5. Cardinality(upto(i)) # Cardinality(upto(k))
    BY <2>1, <2>3, FS_Subset
  <2>6. Cardinality(upto(i)) \in Nat /\ Cardinality(upto(k)) \in Nat
    BY <2>3, <2>4, FS_CardinalityType
  <2> QED
    BY <2>4, <2>5, <2>6
<1>4. rank \in [kept -> 1..n] /\ \A i \in kept : rank[i] = Cardinality(upto(i))
  BY <1>2
<1> HIDE DEF rank
<1>5. \A j \in 1..n : \E i \in kept : rank[i] = j
  <2>1. rank \in Injection(kept, 1..n)
    <3>1. \A i, k \in kept : rank[i] = rank[k] => i = k
      <4> SUFFICES ASSUME NEW i \in kept, NEW k \in kept, rank[i] = rank[k] PROVE i = k
        OBVIOUS
      <4>1. i \in Nat /\ k \in Nat /\ rank[i] \in Nat /\ rank[k] \in Nat
        BY <1>1, <1>2
      <4>2. ~(i < k) /\ ~(k < i)
        BY <4>1, <1>3
      <4> QED
        BY <4>1, <4>2
    <3> QED
      BY <3>1, <1>4 DEF Injection, IsInjective
  <2>2. IsFiniteSet(1..n) /\ Cardinality(1..n) = n
    BY <1>1, FS_Interval
  <2>3. rank \in Surjection(kept, 1..n)
    BY <2>1, <2>2, FS_Injection
  <2> QED
    BY <2>3 DEF Surjection
<1>6. \A j \in 1..n : at(j) \in kept /\ rank[at(j)] = j
  <2> SUFFICES ASSUME NEW j \in 1..n PROVE at(j) \in kept /\ Cardinality(upto(at(j))) = j
    BY <1>4
  <2> HIDE DEF upto, kept
  <2>1. \E i \in kept : Cardinality(upto(i)) = j
    BY <1>4, <1>5
  <2> QED
    BY <2>1
<1>7. Keep(s, S) = [j \in 1..n |-> s[at(j)]]
  BY DEF Keep
<1> HIDE DEF at, kept, n
<1>8. \A j \in 1..n : s[at(j)] \in M /\ s[at(j)] \in S /\ at(j) \in DOMAIN s
  BY <1>1, <1>6 DEF kept
<1>9. Keep(s, S) \in Seq(M) /\ DOMAIN Keep(s, S) = 1..n
  BY <1>1, <1>7, <1>8
<1> DEFINE f == [j \in 1..n |-> at(j)]
<1>10. f \in [DOMAIN Keep(s, S) -> DOMAIN s]
  BY <1>8, <1>9
<1>11. \A j \in DOMAIN Keep(s, S) : Keep(s, S)[j] = s[f[j]] /\ s[f[j]] \in S
  BY <1>7, <1>8, <1>9
<1>12. \A j, k \in DOMAIN Keep(s, S) : j < k => f[j] < f[k]
  <2> SUFFICES ASSUME NEW j \in 1..n, NEW k \in 1..n, j < k PROVE at(j) < at(k)
    BY <1>9
  <2>1. at(j) \in Nat /\ at(k) \in Nat /\ at(j) \in kept /\ at(k) \in kept
    BY <1>1, <1>6
  <2>2. rank[at(j)] = j /\ rank[at(k)] = k /\ j \in Nat /\ k \in Nat
    BY <1>1, <1>6
  <2>3. ~(at(k) < at(j)) /\ at(k) # at(j)
    BY <2>1, <2>2, <1>3
  <2> QED
    BY <2>1, <2>3
<1>13. \A i \in DOMAIN s : s[i] \in S => \E j \in DOMAIN Keep(s, S) : f[j] = i
  <2> SUFFICES ASSUME NEW i \in kept PROVE \E j \in 1..n : at(j) = i
    BY <1>9 DEF kept
  <2>1. rank[i] \in 1..n
    BY <1>4
  <2>2. at(rank[i]) \in kept /\ rank[at(rank[i])] = rank[i]
    BY <2>1, <1>6
  <2>3. at(rank[i]) \in Nat /\ i \in Nat
    BY <1>1, <2>2
  <2>4. ~(at(rank[i]) < i) /\ ~(i < at(rank[i]))
    <3>1. rank[i] \in Nat /\ ~(rank[i] < rank[i])
      BY <1>1, <2>1
    <3> QED
      BY <2>2, <3>1, <1>3
  <2>5. at(rank[i]) = i
    BY <2>3, <2>4
  <2> QED
    BY <2>1, <2>5
<1>14. Picks(f, Keep(s, S), s, S)
  BY <1>10, <1>11, <1>12, <1>13 DEF Picks
<1> QED
  BY <1>9, <1>14

\* What Keep keeps, and that it keeps the order.
LEMMA KeepMail ==
  ASSUME NEW s \in Seq(Message), NEW S
  PROVE  /\ Keep(s, S) \in Seq(Message)
         /\ \A x : x \in ToSet(Keep(s, S)) <=> x \in ToSet(s) /\ x \in S
         /\ Ordered(s) => Ordered(Keep(s, S))
<1> DEFINE t == Keep(s, S)
<1>1. t \in Seq(Message)
  BY KeepFacts
<1>2. PICK f : Picks(f, t, s, S)
  BY KeepFacts
<1> HIDE DEF t
<1>3. ASSUME NEW x PROVE x \in ToSet(t) <=> x \in ToSet(s) /\ x \in S
  BY <1>2 DEF ToSet, Picks
<1>4. ASSUME Ordered(s) PROVE Ordered(t)
  BY <1>2, <1>4 DEF Ordered, Picks
<1> QED
  BY <1>1, <1>3, <1>4 DEF t

\* A sequence of messages and its elements.
LEMMA MessageFacts ==
  /\ \A x \in Message : x.id \in 1..MaxMessages /\ x.id \in Nat /\ x.kind \in Kinds
  /\ \A s \in Seq(Message) : ToSet(s) \subseteq Message
  /\ \A s \in Seq(Message) : \A i \in DOMAIN s : s[i] \in Message /\ s[i] \in ToSet(s)
  /\ ToSet(<<>>) = {}
<1>1. \A x \in Message : x.id \in 1..MaxMessages /\ x.id \in Nat /\ x.kind \in Kinds
  BY SizesAssumption DEF Message
<1>2. \A s \in Seq(Message) : \A i \in DOMAIN s : s[i] \in Message
  OBVIOUS
<1>3. ToSet(<<>>) = {}
  BY DEF ToSet
<1> QED
  BY <1>1, <1>2, <1>3 DEF ToSet

\* The elements of a longer sequence.
LEMMA ToSetFacts ==
  ASSUME NEW M, NEW s \in Seq(M), NEW t \in Seq(M), NEW x \in M
  PROVE  /\ ToSet(Append(s, x)) = ToSet(s) \union {x}
         /\ ToSet(s \o t) = ToSet(s) \union ToSet(t)
<1>1. ToSet(Append(s, x)) = ToSet(s) \union {x}
  <2>1. DOMAIN Append(s, x) = 1..(Len(s) + 1) /\ DOMAIN s = 1..Len(s) /\ Len(s) \in Nat
    OBVIOUS
  <2>2. \A i \in 1..Len(s) : Append(s, x)[i] = s[i]
    OBVIOUS
  <2>3. Append(s, x)[Len(s) + 1] = x
    OBVIOUS
  <2>4. \A i \in 1..(Len(s) + 1) : i \in 1..Len(s) \/ i = Len(s) + 1
    BY <2>1
  <2>5. 1..Len(s) \subseteq 1..(Len(s) + 1) /\ Len(s) + 1 \in 1..(Len(s) + 1)
    BY <2>1
  <2> QED
    BY <2>1, <2>2, <2>3, <2>4, <2>5 DEF ToSet
<1>2. ToSet(s \o t) = ToSet(s) \union ToSet(t)
  <2>1. /\ DOMAIN (s \o t) = 1..(Len(s) + Len(t)) /\ DOMAIN s = 1..Len(s) /\ DOMAIN t = 1..Len(t)
        /\ Len(s) \in Nat /\ Len(t) \in Nat
    OBVIOUS
  <2>2. \A i \in 1..Len(s) : i \in 1..(Len(s) + Len(t)) /\ (s \o t)[i] = s[i]
    OBVIOUS
  <2>3. \A i \in 1..Len(t) : Len(s) + i \in 1..(Len(s) + Len(t)) /\ (s \o t)[Len(s) + i] = t[i]
    OBVIOUS
  <2>4. \A i \in 1..(Len(s) + Len(t)) : i \in 1..Len(s) \/ \E k \in 1..Len(t) : i = Len(s) + k
    <3> SUFFICES ASSUME NEW i \in 1..(Len(s) + Len(t)), i \notin 1..Len(s)
                 PROVE  i - Len(s) \in 1..Len(t) /\ i = Len(s) + (i - Len(s))
      OBVIOUS
    <3> QED
      BY <2>1
  <2>5. ASSUME NEW y \in ToSet(s \o t) PROVE y \in ToSet(s) \/ y \in ToSet(t)
    <3>1. PICK i \in 1..(Len(s) + Len(t)) : y = (s \o t)[i]
      BY <2>1 DEF ToSet
    <3> QED
      BY <2>1, <2>2, <2>3, <2>4, <3>1 DEF ToSet
  <2>6. ASSUME NEW y, y \in ToSet(s) \/ y \in ToSet(t) PROVE y \in ToSet(s \o t)
    BY <2>1, <2>2, <2>3, <2>6 DEF ToSet
  <2> QED
    BY <2>5, <2>6
<1> QED
  BY <1>1, <1>2

\* The front of a sequence.
LEMMA FrontFacts ==
  ASSUME NEW s \in Seq(Message), NEW n \in 0..Len(s)
  PROVE  /\ SubSeq(s, 1, n) \in Seq(Message)
         /\ DOMAIN SubSeq(s, 1, n) = 1..n
         /\ \A k \in 1..n : k \in DOMAIN s /\ SubSeq(s, 1, n)[k] = s[k]
OBVIOUS

-----------------------------------------------------------------------------
(* The helpers keep the invariant                                           *)

\* The history that the lemmas are about.
History(hd, acc, off, clr) ==
  /\ hd \in Seq(Message)
  /\ acc \in Nat
  /\ off \subseteq Message
  /\ clr \subseteq Message

\* There is a generation that no batch that is out has.
LEMMA FreshFacts ==
  ASSUME NEW m \in Tables, NEW tn, OneBatch(m, tn), m.reservation = NoReservation
  PROVE  Fresh(m) \in Generations /\ Fresh(m) \notin Held(m)
<1>1. \A g, h \in Held(m) \ {0} : g = h
  BY DEF OneBatch, NoReservation
<1>2. 1 \notin Held(m) \/ 2 \notin Held(m)
  BY <1>1
<1>3. \E g \in Generations : g \notin Held(m) /\ g # 0
  BY <1>2 DEF Generations
<1>4. \E g \in Generations :
        /\ \A b \in m.receipts : b.generation # g
        /\ \A i \in DOMAIN m.settlements : m.settlements[i].generation # g
        /\ m.reservation.generation # g
  BY <1>3 DEF Held, NoReservation
<1>5. /\ Fresh(m) \in Generations
      /\ \A b \in m.receipts : b.generation # Fresh(m)
      /\ \A i \in DOMAIN m.settlements : m.settlements[i].generation # Fresh(m)
  BY <1>4 DEF Fresh
<1> QED
  BY <1>5 DEF Held

\* What the tables hold.
LEMMA TableFacts ==
  ASSUME NEW m \in Tables
  PROVE  /\ m.box \in Seq(Message) /\ m.settlements \in Seq(Settlement)
         /\ m.receipts \subseteq Batch
         /\ m.reservation = NoReservation \/ m.reservation \in Batch
         /\ m.reservation.messages \in Seq(Message)
         /\ \A b \in m.receipts : b.messages \in Seq(Message) /\ b.generation \in Generations
         /\ \A i \in DOMAIN m.settlements : m.settlements[i].generation \in Generations
<1>1. /\ m.box \in Seq(Message) /\ m.settlements \in Seq(Settlement)
      /\ m.receipts \subseteq Batch
      /\ m.reservation = NoReservation \/ m.reservation \in Batch
  BY DEF Tables
<1>2. \A b \in Batch : b.messages \in Seq(Message) /\ b.generation \in Generations
  BY DEF Batch
<1>3. NoReservation.messages = <<>> /\ <<>> \in Seq(Message)
  BY DEF NoReservation
<1>4. m.reservation.messages \in Seq(Message)
  BY <1>1, <1>2, <1>3
<1>5. \A i \in DOMAIN m.settlements : m.settlements[i].generation \in Generations
  <2>1. \A i \in DOMAIN m.settlements : m.settlements[i] \in Settlement
    BY <1>1
  <2>2. \A s \in Settlement : s.generation \in Generations
    BY DEF Settlement
  <2> QED
    BY <2>1, <2>2
<1> QED
  BY <1>1, <1>2, <1>4, <1>5

\* Two tables that differ in the recipient and in its waiter only.
SameMail(m, d) ==
  /\ d.box = m.box /\ d.reservation = m.reservation /\ d.barrier = m.barrier
  /\ d.receipts = m.receipts /\ d.settlements = m.settlements

\* The invariant is not about the recipient or its waiter.
LEMMA SameSound ==
  ASSUME NEW m, NEW hd, NEW acc, NEW off, NEW clr, NEW tn,
         NEW d \in Tables, SameMail(m, d), Sound(m, hd, acc, off, clr, tn)
  PROVE  Sound(d, hd, acc, off, clr, tn)
<1>1. OneBatch(d, tn)
  BY DEF Sound, SameMail, OneBatch, Held
<1>2. Queued(d, acc) /\ Guarded(d, acc, off)
  BY DEF Sound, SameMail, Queued, Guarded, Mail
<1>3. Unshown(d, hd, acc)
  BY DEF Sound, SameMail, Unshown, Mail
<1>4. Shown(d, hd, acc)
  BY DEF Sound, SameMail, Shown, Acknowledged, Mail
<1>5. Accounted(d, hd, acc, clr)
  BY DEF Sound, SameMail, Accounted, Mail
<1> QED
  BY <1>1, <1>2, <1>3, <1>4, <1>5 DEF Sound

\* A new message at the end of the mailbox.
LEMMA EnqueueSound ==
  ASSUME NEW m, NEW hd, NEW acc, NEW off, NEW clr, NEW tn, NEW x \in Message,
         History(hd, acc, off, clr), Sound(m, hd, acc, off, clr, tn), x.id = acc + 1
  PROVE  Sound(Enqueue(m, x), hd, acc + 1, off, clr, tn)
<1> DEFINE d == Enqueue(m, x)
<1>0. m \in Tables /\ acc \in Nat /\ hd \in Seq(Message) /\ m.box \in Seq(Message)
  BY DEF Sound, History, Tables
<1>1. Append(m.box, x) \in Seq(Message)
  BY <1>0
<1>2. /\ d \in Tables /\ d.box = Append(m.box, x)
      /\ d.reservation = m.reservation /\ d.barrier = m.barrier
      /\ d.receipts = m.receipts /\ d.settlements = m.settlements
  BY <1>0, <1>1 DEF Enqueue, Tables
<1>3. Mail(d) = Mail(m) \union {x}
  BY <1>0, <1>2, ToSetFacts DEF Mail
<1>4. \A y \in Mail(m) : y \in Message /\ y.id \in Nat /\ y.id <= acc
  BY <1>0, MessageFacts DEF Sound, Queued, Mail, ToSet
<1>5. \A b \in m.receipts : b.messages \in Seq(Message)
  BY <1>0 DEF Tables, Batch
<1> HIDE DEF d
<1>7. OneBatch(d, tn)
  BY <1>2 DEF Sound, OneBatch, Held
<1>8. Queued(d, acc + 1)
  <2>1. DOMAIN d.box = 1..(Len(m.box) + 1) /\ DOMAIN m.box = 1..Len(m.box) /\ Len(m.box) \in Nat
    BY <1>0, <1>2
  <2>2. d.box[Len(m.box) + 1] = x /\ \A i \in DOMAIN m.box : d.box[i] = m.box[i]
    BY <1>0, <1>2
  <2>3. \A i \in DOMAIN d.box : i \in DOMAIN m.box \/ i = Len(m.box) + 1
    BY <2>1
  <2>4. \A i \in DOMAIN m.box : i \in DOMAIN d.box /\ m.box[i].id \in Nat /\ m.box[i].id <= acc
    BY <1>0, <2>1, MessageFacts DEF Sound, Queued
  <2>5. \A i \in DOMAIN d.box : d.box[i].id <= acc + 1
    BY <1>0, <2>2, <2>3, <2>4
  <2>6. Ordered(d.box)
    <3> SUFFICES ASSUME NEW i \in DOMAIN d.box, NEW j \in DOMAIN d.box, i < j
                 PROVE  d.box[i].id < d.box[j].id
      BY DEF Ordered
    <3>1. i \in DOMAIN m.box
      BY <2>1
    <3>2. CASE j \in DOMAIN m.box
      BY <2>2, <3>1, <3>2 DEF Sound, Queued, Ordered
    <3>3. CASE j = Len(m.box) + 1
      BY <1>0, <2>2, <2>4, <3>1, <3>3
    <3> QED
      BY <2>3, <3>2, <3>3
  <2>7. \A k \in DOMAIN d.reservation.messages :
          k \in DOMAIN d.box /\ d.reservation.messages[k] = d.box[k]
    BY <1>2, <2>2, <2>4 DEF Sound, Queued
  <2> QED
    BY <2>5, <2>6, <2>7 DEF Queued
<1>9. Guarded(d, acc + 1, off)
  <2>1. \A y \in off : y.id \in Nat /\ y.id <= acc
    BY MessageFacts DEF Sound, Guarded, History
  <2>2. x \notin off /\ \A y \in off : y.id <= acc + 1
    BY <1>0, <2>1
  <2> QED
    BY <1>2, <1>3, <2>2 DEF Sound, Guarded
<1>10. Unshown(d, hd, acc + 1)
  <2> SUFFICES ASSUME NEW b \in m.receipts, NEW y \in ToSet(b.messages)
               PROVE  /\ Ordered(b.messages)
                      /\ y.id <= acc + 1
                      /\ \A z \in ToSet(hd) : y.id # z.id
                      /\ b.generation # d.reservation.generation => \A z \in Mail(d) : y.id < z.id
    <3>1. \A b \in m.receipts : Ordered(b.messages)
      BY DEF Sound, Unshown
    <3> QED
      BY <1>2, <3>1 DEF Unshown
  <2>1. y \in Message /\ y.id \in Nat
    BY <1>5, MessageFacts
  <2>2. y.id <= acc
    BY DEF Sound, Unshown
  <2>3. y.id <= acc + 1 /\ y.id < x.id
    BY <1>0, <2>1, <2>2
  <2>4. Ordered(b.messages) /\ \A z \in ToSet(hd) : y.id # z.id
    BY DEF Sound, Unshown
  <2>5. b.generation # m.reservation.generation => \A z \in Mail(m) : y.id < z.id
    BY DEF Sound, Unshown
  <2> QED
    BY <1>2, <1>3, <2>3, <2>4, <2>5
<1>11. Shown(d, hd, acc + 1)
  <2>1. \A i \in DOMAIN hd : hd[i].id \in Nat /\ hd[i].id <= acc
    BY <1>0, MessageFacts DEF Sound, Shown
  <2>2. \A y \in ToSet(hd) : y.id # x.id
    BY <1>0, <2>1 DEF ToSet
  <2>3. \A y : Acknowledged(d, y) <=> Acknowledged(m, y)
    BY <1>2 DEF Acknowledged
  <2>4. \A i \in DOMAIN hd : hd[i].id <= acc + 1
    BY <1>0, <2>1
  <2> QED
    BY <1>2, <1>3, <2>2, <2>3, <2>4 DEF Sound, Shown
<1>12. Accounted(d, hd, acc + 1, clr)
  <2> SUFFICES ASSUME NEW i \in 1..(acc + 1)
               PROVE  \/ \E y \in Mail(d) : y.id = i
                      \/ \E y \in ToSet(hd) : y.id = i
                      \/ \E y \in clr : y.id = i
    BY DEF Accounted
  <2>1. CASE i = acc + 1
    BY <1>3, <2>1
  <2>2. CASE i \in 1..acc
    BY <1>3, <2>2 DEF Sound, Accounted
  <2> QED
    BY <1>0, <2>1, <2>2
<1> QED
  BY <1>2, <1>7, <1>8, <1>9, <1>10, <1>11, <1>12 DEF Sound, d

\* A new message that goes straight to the recipient.
LEMMA ShowSound ==
  ASSUME NEW m, NEW hd, NEW acc, NEW off, NEW clr, NEW tn, NEW x \in Message,
         History(hd, acc, off, clr), Sound(m, hd, acc, off, clr, tn), x.id = acc + 1
  PROVE  Sound(m, Append(hd, x), acc + 1, off, clr, tn)
<1> DEFINE hx == Append(hd, x)
<1>0. m \in Tables /\ acc \in Nat /\ hd \in Seq(Message)
  BY DEF Sound, History
<1>1. /\ ToSet(hx) = ToSet(hd) \union {x}
      /\ DOMAIN hx = 1..(Len(hd) + 1) /\ DOMAIN hd = 1..Len(hd) /\ Len(hd) \in Nat
      /\ hx[Len(hd) + 1] = x /\ \A i \in DOMAIN hd : hx[i] = hd[i]
  BY <1>0, ToSetFacts
<1> HIDE DEF hx
<1>2. \A y \in Mail(m) : y \in Message /\ y.id \in Nat /\ y.id <= acc
  BY <1>0, TableFacts, MessageFacts DEF Sound, Queued, Mail, ToSet
<1>3. Queued(m, acc + 1)
  <2>1. \A i \in DOMAIN m.box : m.box[i].id \in Nat /\ m.box[i].id <= acc
    BY <1>0, TableFacts, MessageFacts DEF Sound, Queued
  <2>2. \A i \in DOMAIN m.box : m.box[i].id <= acc + 1
    BY <1>0, <2>1
  <2> QED
    BY <2>2 DEF Sound, Queued
<1>4. Guarded(m, acc + 1, off)
  <2>1. \A y \in off : y.id \in Nat /\ y.id <= acc
    BY MessageFacts DEF Sound, Guarded, History
  <2>2. \A y \in off : y.id <= acc + 1
    BY <1>0, <2>1
  <2> QED
    BY <2>2 DEF Sound, Guarded
<1>5. Unshown(m, hx, acc + 1)
  <2> SUFFICES ASSUME NEW b \in m.receipts, NEW y \in ToSet(b.messages)
               PROVE  y.id <= acc + 1 /\ y.id # x.id
    BY <1>1 DEF Sound, Unshown
  <2>1. y.id \in Nat
    BY <1>0, TableFacts, MessageFacts
  <2>2. y.id <= acc
    BY DEF Sound, Unshown
  <2> QED
    BY <1>0, <2>1, <2>2
<1>6. Shown(m, hx, acc + 1)
  <2>1. \A i \in DOMAIN hd : hd[i].id \in Nat /\ hd[i].id <= acc
    BY <1>0, MessageFacts DEF Sound, Shown
  <2>2. \A i \in DOMAIN hx : i \in DOMAIN hd \/ i = Len(hd) + 1
    BY <1>1
  <2>3. \A i \in DOMAIN hx : hx[i].id <= acc + 1
    BY <1>0, <1>1, <2>1, <2>2
  <2>4. \A i \in DOMAIN hd : hx[i].id # x.id
    BY <1>0, <1>1, <2>1
  <2>5. \A i, j \in DOMAIN hx : hx[i].id = hx[j].id => i = j
    BY <1>1, <2>2, <2>4 DEF Sound, Shown
  <2>6. \A y \in Mail(m) : y.id # x.id
    BY <1>0, <1>2
  <2> QED
    BY <1>1, <2>3, <2>5, <2>6 DEF Sound, Shown
<1>7. Accounted(m, hx, acc + 1, clr)
  <2> SUFFICES ASSUME NEW i \in 1..(acc + 1)
               PROVE  \/ \E y \in Mail(m) : y.id = i
                      \/ \E y \in ToSet(hx) : y.id = i
                      \/ \E y \in clr : y.id = i
    BY DEF Accounted
  <2>1. CASE i = acc + 1
    BY <1>1, <2>1
  <2>2. CASE i \in 1..acc
    BY <1>1, <2>2 DEF Sound, Accounted
  <2> QED
    BY <1>0, <2>1, <2>2
<1> QED
  BY <1>3, <1>4, <1>5, <1>6, <1>7 DEF Sound, hx

\* What DeliverBatch does to the tables.
LEMMA DeliverEffect ==
  ASSUME NEW m \in Tables, NEW tn, OneBatch(m, tn), m.reservation = NoReservation,
         NEW closed \in BOOLEAN
  PROVE  LET d == DeliverBatch(m, closed)
         IN  /\ d \in Tables
             /\ d.reservation \in Batch /\ d.reservation.generation = Fresh(m)
             /\ \A k \in DOMAIN d.reservation.messages :
                  k \in DOMAIN m.box /\ d.reservation.messages[k] = m.box[k]
             /\ d.box = m.box /\ d.barrier
             /\ IF closed
                THEN /\ d.receipts = m.receipts
                     /\ d.settlements = Append(m.settlements,
                                          [generation |-> Fresh(m), committed |-> FALSE])
                ELSE /\ d.receipts = m.receipts \union {d.reservation}
                     /\ d.settlements = m.settlements
<1> DEFINE n == IF Len(m.box) < BatchLimit THEN Len(m.box) ELSE BatchLimit
           front == SubSeq(m.box, 1, n)
           b == [generation |-> Fresh(m), messages |-> front]
           s == [generation |-> Fresh(m), committed |-> FALSE]
           out == [m EXCEPT !.reservation = b, !.barrier = TRUE]
<1>1. m.box \in Seq(Message) /\ m.settlements \in Seq(Settlement) /\ m.receipts \subseteq Batch
  BY DEF Tables
<1>2. n \in 0..Len(m.box)
  BY <1>1, SizesAssumption
<1> HIDE DEF n
<1>3. /\ front \in Seq(Message)
      /\ \A k \in DOMAIN front : k \in DOMAIN m.box /\ front[k] = m.box[k]
  BY <1>1, <1>2, FrontFacts
<1>4. Fresh(m) \in Generations
  BY FreshFacts
<1> HIDE DEF front
<1>5. b \in Batch /\ s \in Settlement
  BY <1>3, <1>4 DEF Batch, Settlement
<1>6. Append(m.settlements, s) \in Seq(Settlement) /\ m.receipts \union {b} \subseteq Batch
  BY <1>1, <1>5
<1>7. b.generation = Fresh(m) /\ b.messages = front
  OBVIOUS
<1>8. DeliverBatch(m, closed) =
        IF closed THEN [out EXCEPT !.settlements = Append(@, s)]
                  ELSE [out EXCEPT !.receipts = @ \union {b}]
  BY DEF DeliverBatch, front, n
<1> HIDE DEF b, s
<1>9. out \in Tables /\ out.settlements = m.settlements /\ out.receipts = m.receipts
      /\ out.reservation = b /\ out.barrier = TRUE /\ out.box = m.box
  BY <1>5 DEF Tables
<1> HIDE DEF out
<1>10. CASE closed
  <2>1. DeliverBatch(m, closed) = [out EXCEPT !.settlements = Append(m.settlements, s)]
    BY <1>8, <1>9, <1>10
  <2>2. s = [generation |-> Fresh(m), committed |-> FALSE]
    BY DEF s
  <2>3. [out EXCEPT !.settlements = Append(m.settlements, s)] \in Tables
    BY <1>6, <1>9 DEF Tables
  <2>4. LET d == [out EXCEPT !.settlements = Append(m.settlements, s)]
        IN  /\ d.reservation = b /\ d.box = m.box /\ d.barrier /\ d.receipts = m.receipts
            /\ d.settlements = Append(m.settlements, s)
    BY <1>9 DEF Tables
  <2> QED
    BY <1>3, <1>5, <1>7, <1>10, <2>1, <2>2, <2>3, <2>4
<1>11. CASE ~closed
  <2>1. DeliverBatch(m, closed) = [out EXCEPT !.receipts = m.receipts \union {b}]
    BY <1>8, <1>9, <1>11
  <2>2. [out EXCEPT !.receipts = m.receipts \union {b}] \in Tables
    BY <1>6, <1>9 DEF Tables
  <2>3. LET d == [out EXCEPT !.receipts = m.receipts \union {b}]
        IN  /\ d.reservation = b /\ d.box = m.box /\ d.barrier
            /\ d.receipts = m.receipts \union {b} /\ d.settlements = m.settlements
    BY <1>9 DEF Tables
  <2> QED
    BY <1>3, <1>5, <1>7, <1>11, <2>1, <2>2, <2>3
<1> QED
  BY <1>10, <1>11

\* A batch goes out.
LEMMA DeliverSound ==
  ASSUME NEW m, NEW hd, NEW acc, NEW off, NEW clr, NEW tn, NEW closed \in BOOLEAN,
         History(hd, acc, off, clr), Sound(m, hd, acc, off, clr, tn),
         m.reservation = NoReservation
  PROVE  LET d == DeliverBatch(m, closed)
         IN  Sound(d, hd, acc, off \union ToSet(d.reservation.messages), clr, tn)
<1> DEFINE d == DeliverBatch(m, closed)
           s == [generation |-> Fresh(m), committed |-> FALSE]
           offd == off \union ToSet(d.reservation.messages)
<1>0. m \in Tables /\ acc \in Nat /\ hd \in Seq(Message) /\ OneBatch(m, tn)
  BY DEF Sound, History
<1>1. /\ d \in Tables
      /\ d.reservation \in Batch /\ d.reservation.generation = Fresh(m)
      /\ \A k \in DOMAIN d.reservation.messages :
           k \in DOMAIN m.box /\ d.reservation.messages[k] = m.box[k]
      /\ d.box = m.box /\ d.barrier
      /\ closed => d.receipts = m.receipts /\ d.settlements = Append(m.settlements, s)
      /\ ~closed => /\ d.receipts = m.receipts \union {d.reservation}
                    /\ d.settlements = m.settlements
  BY <1>0, DeliverEffect
<1>2. Fresh(m) \in Generations /\ Fresh(m) \notin Held(m)
  BY <1>0, FreshFacts
<1>3. s.generation = Fresh(m) /\ s.committed = FALSE /\ s \in Settlement
  BY <1>2 DEF Settlement
<1> HIDE DEF d, s
<1>4. /\ m.box \in Seq(Message) /\ m.settlements \in Seq(Settlement)
      /\ NoReservation.generation = 0 /\ NoReservation.messages = <<>>
  BY <1>0, TableFacts DEF NoReservation
<1>5. \A x \in ToSet(d.reservation.messages) : x \in Mail(m)
  BY <1>1 DEF ToSet, Mail
<1>6. Mail(d) = Mail(m)
  BY <1>1 DEF Mail
<1>7. \A x \in Mail(m) : x \in Message /\ x.id \in Nat /\ x.id <= acc
  BY <1>4, MessageFacts DEF Sound, Queued, Mail, ToSet
<1>8. \A x \in Mail(m), y \in ToSet(hd) : x.id # y.id
  <2>1. \A x : ~Acknowledged(m, x)
    BY <1>4 DEF Acknowledged, ToSet
  <2> QED
    BY <2>1 DEF Sound, Shown
<1>9. closed => /\ DOMAIN d.settlements = 1..(Len(m.settlements) + 1)
                /\ DOMAIN m.settlements = 1..Len(m.settlements) /\ Len(m.settlements) \in Nat
                /\ d.settlements[Len(m.settlements) + 1] = s
                /\ \A i \in DOMAIN m.settlements : d.settlements[i] = m.settlements[i]
                /\ \A i \in DOMAIN d.settlements :
                     i \in DOMAIN m.settlements \/ i = Len(m.settlements) + 1
  <2> SUFFICES ASSUME closed
               PROVE  LET t == Append(m.settlements, s)
                      IN  /\ DOMAIN t = 1..(Len(m.settlements) + 1)
                          /\ DOMAIN m.settlements = 1..Len(m.settlements) /\ Len(m.settlements) \in Nat
                          /\ t[Len(m.settlements) + 1] = s
                          /\ \A i \in DOMAIN m.settlements : t[i] = m.settlements[i]
                          /\ \A i \in DOMAIN t : i \in DOMAIN m.settlements \/ i = Len(m.settlements) + 1
    BY <1>1
  <2> QED
    BY <1>3, <1>4
<1>10. OneBatch(d, tn)
  <2>1. /\ \A b \in m.receipts : b.generation # Fresh(m)
        /\ \A i \in DOMAIN m.settlements : m.settlements[i].generation # Fresh(m)
    BY <1>2 DEF Held
  <2>2. Held(d) = Held(m) \union {Fresh(m)}
    <3>1. CASE closed
      BY <1>1, <1>3, <1>9, <3>1 DEF Held
    <3>2. CASE ~closed
      BY <1>1, <3>2 DEF Held
    <3> QED
      BY <3>1, <3>2
  <2>3. 0 \notin Held(m)
    BY <1>0, TableFacts DEF Held, Generations
  <2>4. /\ \A g, h \in Held(d) \ {d.reservation.generation} : g = h
        /\ ~tn => Held(d) \subseteq {d.reservation.generation}
    BY <1>0, <1>1, <1>4, <2>2, <2>3 DEF OneBatch
  <2>5. \A i, j \in DOMAIN d.settlements :
          d.settlements[i].generation = d.settlements[j].generation => i = j
    BY <1>0, <1>1, <1>3, <1>9, <2>1 DEF OneBatch
  <2>6. \A b \in d.receipts :
          /\ b.generation = d.reservation.generation => b = d.reservation
          /\ \A c \in d.receipts : b.generation = c.generation => b = c
    BY <1>0, <1>1, <2>1 DEF OneBatch
  <2>7. \A b \in d.receipts, i \in DOMAIN d.settlements : d.settlements[i].generation # b.generation
    BY <1>0, <1>1, <1>3, <1>9, <2>1 DEF OneBatch
  <2> QED
    BY <2>4, <2>5, <2>6, <2>7 DEF OneBatch
<1>11. Queued(d, acc)
  BY <1>1 DEF Sound, Queued
<1>12. Guarded(d, acc, offd)
  BY <1>1, <1>5, <1>6, <1>7 DEF Sound, Guarded
<1>13. Unshown(d, hd, acc)
  <2>1. \A b \in m.receipts : b.generation # m.reservation.generation
    BY <1>0, <1>4, TableFacts DEF Generations
  <2>2. Unshown(m, hd, acc)
    BY DEF Sound
  <2>3. Ordered(d.reservation.messages)
    BY <1>1 DEF Sound, Queued, Ordered
  <2>4. \A b \in d.receipts : b \in m.receipts \/ b = d.reservation
    BY <1>1
  <2>5. ASSUME NEW b \in m.receipts
        PROVE  /\ Ordered(b.messages)
               /\ \A x \in ToSet(b.messages) :
                    /\ x.id <= acc
                    /\ \A y \in ToSet(hd) : x.id # y.id
                    /\ \A y \in Mail(d) : x.id < y.id
    BY <1>6, <2>1, <2>2 DEF Unshown
  <2>6. \A x \in ToSet(d.reservation.messages) : x.id <= acc /\ \A y \in ToSet(hd) : x.id # y.id
    BY <1>5, <1>7, <1>8
  <2> QED
    BY <2>3, <2>4, <2>5, <2>6 DEF Unshown
<1>14. Shown(d, hd, acc)
  <2>1. \A x : ~Acknowledged(d, x)
    <3>1. \A i \in DOMAIN d.settlements :
            d.settlements[i].generation = Fresh(m) => ~d.settlements[i].committed
      BY <1>1, <1>2, <1>3, <1>9 DEF Held
    <3> QED
      BY <1>1, <3>1 DEF Acknowledged
  <2> QED
    BY <1>6, <1>8, <2>1 DEF Sound, Shown
<1>15. Accounted(d, hd, acc, clr)
  BY <1>6 DEF Sound, Accounted
<1> QED
  BY <1>1, <1>10, <1>11, <1>12, <1>13, <1>14, <1>15 DEF Sound, d

\* Serving the waiter.
LEMMA ServiceSound ==
  ASSUME NEW m, NEW hd, NEW acc, NEW off, NEW clr, NEW tn,
         History(hd, acc, off, clr), Sound(m, hd, acc, off, clr, tn)
  PROVE  LET w == ServiceWaiter(m)
         IN  /\ Sound(w, hd, acc, off \union ToSet(w.reservation.messages), clr, tn)
             /\ w.box = m.box
<1> DEFINE w == ServiceWaiter(m)
           released == [m EXCEPT !.waiter = NoWaiter]
<1>0. m \in Tables /\ m.waiter \in Waiter
  BY DEF Sound, Tables
<1>1. released \in Tables /\ SameMail(m, released)
  BY <1>0 DEF Tables, SameMail, NoWaiter, Waiter
<1>2. Sound(released, hd, acc, off, clr, tn)
  BY <1>1, SameSound
<1>3. off \union ToSet(m.reservation.messages) = off
  BY DEF Sound, Guarded
<1> HIDE DEF released
<1>4. CASE m.reservation # NoReservation \/ m.box = <<>> \/ m.waiter = NoWaiter
  BY <1>3, <1>4 DEF ServiceWaiter
<1>5. CASE ~(m.reservation # NoReservation \/ m.box = <<>> \/ m.waiter = NoWaiter)
  <2>1. w = IF m.waiter.late THEN released ELSE DeliverBatch(released, m.waiter.closed)
    BY <1>5 DEF ServiceWaiter, released
  <2>2. released.reservation = m.reservation /\ released.box = m.box
    BY <1>1 DEF SameMail
  <2> HIDE DEF w
  <2>3. CASE m.waiter.late
    BY <1>2, <1>3, <2>1, <2>2, <2>3 DEF w
  <2>4. CASE ~m.waiter.late
    <3>1. m.waiter.closed \in BOOLEAN
      BY <1>0 DEF Waiter
    <3>2. w = DeliverBatch(released, m.waiter.closed) /\ released.reservation = NoReservation
      BY <1>5, <2>1, <2>2, <2>4
    <3>3. Sound(w, hd, acc, off \union ToSet(w.reservation.messages), clr, tn)
      BY <1>2, <3>1, <3>2, DeliverSound
    <3>4. w.box = m.box
      BY <1>1, <1>2, <2>2, <3>1, <3>2, DeliverEffect DEF Sound
    <3> QED
      BY <3>3, <3>4 DEF w
  <2> QED
    BY <2>3, <2>4
<1> QED
  BY <1>4, <1>5

\* Waking the recipient.
LEMMA WakeSound ==
  ASSUME NEW m, NEW hd, NEW acc, NEW off, NEW clr, NEW tn, NEW admission \in Admissions,
         Sound(m, hd, acc, off, clr, tn)
  PROVE  /\ WakeChild(m, admission) \in Tables /\ SameMail(m, WakeChild(m, admission))
         /\ Sound(WakeForMail(m, admission), hd, acc, off, clr, tn)
         /\ WakeForMail(m, admission).reservation = m.reservation
         /\ WakeForMail(m, admission).box = m.box
<1>0. m \in Tables
  BY DEF Sound
<1>1. WakeChild(m, admission) \in Tables /\ SameMail(m, WakeChild(m, admission))
  <2>1. CASE admission = "start"
    <3>1. WakeChild(m, admission) = [m EXCEPT !.phase = "pending"]
      BY <2>1 DEF WakeChild
    <3> QED
      BY <1>0, <3>1 DEF Tables, Phases, SameMail
  <2>2. CASE admission = "queue"
    <3>1. WakeChild(m, admission) = [m EXCEPT !.phase = "queued"]
      BY <2>2 DEF WakeChild
    <3> QED
      BY <1>0, <3>1 DEF Tables, Phases, SameMail
  <2>3. CASE admission = "refuse"
    <3>1. WakeChild(m, admission) = [m EXCEPT !.refused = TRUE]
      BY <2>3 DEF WakeChild
    <3> QED
      BY <1>0, <3>1 DEF Tables, SameMail
  <2> QED
    BY <2>1, <2>2, <2>3 DEF Admissions
<1>2. WakeForMail(m, admission) = WakeChild(m, admission) \/ WakeForMail(m, admission) = m
  BY DEF WakeForMail
<1>3. Sound(WakeChild(m, admission), hd, acc, off, clr, tn)
  BY <1>1, SameSound
<1> QED
  BY <1>1, <1>2, <1>3 DEF SameMail

\* In an ordered sequence a number stands for one place.
LEMMA OrderedFacts ==
  ASSUME NEW s \in Seq(Message), Ordered(s)
  PROVE  /\ \A i, j \in DOMAIN s : s[i].id = s[j].id => i = j
         /\ \A x, y \in ToSet(s) : x.id = y.id => x = y
<1>1. \A i \in DOMAIN s : i \in Nat /\ s[i].id \in Nat
  BY MessageFacts
<1>2. ASSUME NEW i \in DOMAIN s, NEW j \in DOMAIN s, s[i].id = s[j].id PROVE i = j
  <2>1. ~(i < j) /\ ~(j < i)
    BY <1>1, <1>2 DEF Ordered
  <2> QED
    BY <1>1, <2>1
<1> QED
  BY <1>2 DEF ToSet

\* What is shown in order after other messages is shown once.
LEMMA JoinFacts ==
  ASSUME NEW hd \in Seq(Message), NEW t \in Seq(Message), NEW acc, Ordered(t),
         \A i \in DOMAIN hd : hd[i].id <= acc,
         \A i, j \in DOMAIN hd : hd[i].id = hd[j].id => i = j,
         \A x \in ToSet(t) : x.id <= acc /\ \A y \in ToSet(hd) : x.id # y.id
  PROVE  /\ \A i \in DOMAIN (hd \o t) : (hd \o t)[i].id <= acc
         /\ \A i, j \in DOMAIN (hd \o t) : (hd \o t)[i].id = (hd \o t)[j].id => i = j
<1> DEFINE u == hd \o t
<1>1. /\ DOMAIN u = 1..(Len(hd) + Len(t)) /\ DOMAIN hd = 1..Len(hd) /\ DOMAIN t = 1..Len(t)
      /\ Len(hd) \in Nat /\ Len(t) \in Nat
  OBVIOUS
<1>2. /\ \A i \in DOMAIN hd : u[i] = hd[i]
      /\ \A k \in DOMAIN u : k \notin DOMAIN hd =>
           k - Len(hd) \in DOMAIN t /\ u[k] = t[k - Len(hd)]
  OBVIOUS
<1> HIDE DEF u
<1>3. \A k \in DOMAIN t : t[k].id <= acc /\ \A i \in DOMAIN hd : t[k].id # hd[i].id
  BY DEF ToSet
<1>4. \A i \in DOMAIN u : u[i].id <= acc
  BY <1>2, <1>3
<1>5. ASSUME NEW i \in DOMAIN u, NEW j \in DOMAIN u, u[i].id = u[j].id PROVE i = j
  <2>1. CASE i \in DOMAIN hd /\ j \in DOMAIN hd
    BY <1>2, <1>5, <2>1
  <2>2. CASE i \notin DOMAIN hd /\ j \notin DOMAIN hd
    <3>1. i - Len(hd) = j - Len(hd)
      BY <1>2, <1>5, <2>2, OrderedFacts
    <3> QED
      BY <1>1, <3>1
  <2>3. CASE ~(i \in DOMAIN hd <=> j \in DOMAIN hd)
    BY <1>2, <1>3, <1>5, <2>3
  <2> QED
    BY <2>1, <2>2, <2>3
<1> QED
  BY <1>4, <1>5 DEF u

\* What the end of a receipt does to the tables.
Returned(m, b, committed) ==
  [m EXCEPT !.receipts = @ \ {b},
            !.settlements = Append(@, [generation |-> b.generation, committed |-> committed])]

\* A receipt on its way back, seen from the tables before it.
ReturnsTo(m, b, committed, d) ==
  LET n == Len(m.settlements) + 1
  IN  /\ d \in Tables
      /\ d.box = m.box /\ d.reservation = m.reservation /\ d.barrier = m.barrier
      /\ d.receipts = m.receipts \ {b}
      /\ DOMAIN d.settlements = DOMAIN m.settlements \union {n}
      /\ n \notin DOMAIN m.settlements
      /\ d.settlements[n].generation = b.generation
      /\ d.settlements[n].committed = committed
      /\ \A i \in DOMAIN m.settlements : d.settlements[i] = m.settlements[i]

\* That is what Return does.
LEMMA ReturnEffect ==
  ASSUME NEW m \in Tables, NEW b \in m.receipts, NEW committed \in BOOLEAN
  PROVE  ReturnsTo(m, b, committed, Returned(m, b, committed))
<1> DEFINE s == [generation |-> b.generation, committed |-> committed]
           t == Append(m.settlements, s)
           d == Returned(m, b, committed)
<1>1. s \in Settlement /\ s.generation = b.generation /\ s.committed = committed
  BY TableFacts DEF Settlement
<1> HIDE DEF s
<1>2. m.settlements \in Seq(Settlement)
  BY TableFacts
<1>3. /\ t \in Seq(Settlement) /\ DOMAIN t = DOMAIN m.settlements \union {Len(m.settlements) + 1}
      /\ Len(m.settlements) + 1 \notin DOMAIN m.settlements
      /\ t[Len(m.settlements) + 1] = s
      /\ \A i \in DOMAIN m.settlements : t[i] = m.settlements[i]
  BY <1>1, <1>2
<1> HIDE DEF t
<1>4. /\ d.box = m.box /\ d.reservation = m.reservation /\ d.barrier = m.barrier
      /\ d.receipts = m.receipts \ {b} /\ d.settlements = t
  BY DEF Returned, s, t, Tables
<1>5. d \in Tables
  BY <1>3 DEF Returned, s, t, Tables
<1> QED
  BY <1>1, <1>3, <1>4, <1>5 DEF ReturnsTo

\* Each batch still has one receipt or one settlement.
LEMMA ReturnOneBatch ==
  ASSUME NEW m \in Tables, NEW tn, NEW b \in m.receipts, NEW committed \in BOOLEAN,
         OneBatch(m, tn)
  PROVE  OneBatch(Returned(m, b, committed), tn)
<1> DEFINE d == Returned(m, b, committed)
           n == Len(m.settlements) + 1
<1>1. /\ d.reservation = m.reservation /\ d.receipts = m.receipts \ {b}
      /\ DOMAIN d.settlements = DOMAIN m.settlements \union {n}
      /\ d.settlements[n].generation = b.generation
      /\ \A i \in DOMAIN m.settlements : d.settlements[i] = m.settlements[i]
  BY ReturnEffect DEF ReturnsTo
<1> HIDE DEF d, n
<1>2. Held(d) \subseteq Held(m)
  BY <1>1 DEF Held
<1>3. \A i \in DOMAIN d.settlements : i \in DOMAIN m.settlements \/ i = n
  BY <1>1
<1>4. \A i, j \in DOMAIN d.settlements :
        d.settlements[i].generation = d.settlements[j].generation => i = j
  BY <1>1, <1>3 DEF OneBatch
<1>5. \A c \in d.receipts, i \in DOMAIN d.settlements : d.settlements[i].generation # c.generation
  BY <1>1, <1>3 DEF OneBatch
<1>6. \A c \in d.receipts :
        /\ c.generation = d.reservation.generation => c = d.reservation
        /\ \A e \in d.receipts : c.generation = e.generation => c = e
  BY <1>1 DEF OneBatch
<1>7. /\ \A g, h \in Held(d) \ {d.reservation.generation} : g = h
      /\ ~tn => Held(d) \subseteq {d.reservation.generation}
  BY <1>1, <1>2 DEF OneBatch
<1>8. OneBatch(d, tn)
  BY <1>4, <1>5, <1>6, <1>7 DEF OneBatch
<1> QED
  BY <1>8 DEF d

\* A receipt that is dropped.
LEMMA DropSound ==
  ASSUME NEW m, NEW hd, NEW acc, NEW off, NEW clr, NEW tn, NEW b \in m.receipts,
         Sound(m, hd, acc, off, clr, tn)
  PROVE  Sound(Returned(m, b, FALSE), hd, acc, off, clr, tn)
<1> DEFINE d == Returned(m, b, FALSE)
           n == Len(m.settlements) + 1
<1>0. m \in Tables
  BY DEF Sound
<1>r. ReturnsTo(m, b, FALSE, d)
  BY <1>0, ReturnEffect, Zenon
<1>1. /\ d \in Tables
      /\ d.box = m.box /\ d.reservation = m.reservation /\ d.barrier = m.barrier
      /\ d.receipts = m.receipts \ {b}
      /\ DOMAIN d.settlements = DOMAIN m.settlements \union {n}
      /\ d.settlements[n].committed = FALSE
      /\ \A i \in DOMAIN m.settlements : d.settlements[i] = m.settlements[i]
  BY <1>0, <1>r DEF ReturnsTo
<1>2. OneBatch(d, tn)
  BY <1>0, ReturnOneBatch DEF Sound
<1> HIDE DEF d, n
<1>3. Mail(d) = Mail(m) /\ \A x : Acknowledged(d, x) <=> Acknowledged(m, x)
  BY <1>1 DEF Mail, Acknowledged
<1>4. Queued(d, acc) /\ Guarded(d, acc, off)
  BY <1>1, <1>3 DEF Sound, Queued, Guarded
<1>5. Unshown(d, hd, acc)
  BY <1>1, <1>3 DEF Sound, Unshown
<1>6. Shown(d, hd, acc)
  BY <1>1, <1>3 DEF Sound, Shown
<1>7. Accounted(d, hd, acc, clr)
  BY <1>3 DEF Sound, Accounted
<1>8. Sound(d, hd, acc, off, clr, tn)
  BY <1>1, <1>2, <1>4, <1>5, <1>6, <1>7 DEF Sound
<1> QED
  BY <1>8 DEF d

\* A batch that is shown and whose receipt is committed.
LEMMA CommitSound ==
  ASSUME NEW m, NEW hd, NEW acc, NEW off, NEW clr, NEW tn, NEW b \in m.receipts,
         History(hd, acc, off, clr), Sound(m, hd, acc, off, clr, tn)
  PROVE  Sound(Returned(m, b, TRUE), hd \o b.messages, acc, off, clr, tn)
<1> DEFINE d == Returned(m, b, TRUE)
           n == Len(m.settlements) + 1
           hb == hd \o b.messages
<1>0. m \in Tables /\ hd \in Seq(Message) /\ b.messages \in Seq(Message) /\ m.box \in Seq(Message)
  BY TableFacts DEF Sound, History
<1>r. ReturnsTo(m, b, TRUE, d)
  BY <1>0, ReturnEffect, Zenon
<1>1. /\ d \in Tables
      /\ d.box = m.box /\ d.reservation = m.reservation /\ d.barrier = m.barrier
      /\ d.receipts = m.receipts \ {b}
      /\ DOMAIN d.settlements = DOMAIN m.settlements \union {n}
      /\ d.settlements[n].generation = b.generation /\ d.settlements[n].committed = TRUE
      /\ \A i \in DOMAIN m.settlements : d.settlements[i] = m.settlements[i]
  BY <1>0, <1>r DEF ReturnsTo
<1>2. OneBatch(d, tn)
  BY <1>0, ReturnOneBatch DEF Sound
<1>3. \A x : x \in ToSet(hb) <=> x \in ToSet(hd) \/ x \in ToSet(b.messages)
  <2>1. CASE b.messages = <<>>
    BY <1>0, <2>1, MessageFacts
  <2>2. CASE b.messages # <<>>
    <3>1. b.messages[1] \in Message
      BY <1>0, <2>2
    <3> QED
      BY <1>0, <3>1, ToSetFacts
  <2> QED
    BY <2>1, <2>2
<1>4. Mail(d) = Mail(m)
  BY <1>1 DEF Mail
<1>5. b.generation = m.reservation.generation => b = m.reservation
  BY DEF Sound, OneBatch
<1>6. ToSet(m.reservation.messages) \subseteq Mail(m)
  BY DEF Sound, Queued, ToSet, Mail
<1>7. /\ Ordered(b.messages)
      /\ \A x \in ToSet(b.messages) :
           /\ x.id <= acc
           /\ \A y \in ToSet(hd) : x.id # y.id
           /\ b.generation # m.reservation.generation => \A y \in Mail(m) : x.id < y.id
  BY DEF Sound, Unshown
<1>8. \A x \in Mail(m) : x.id \in Nat
  BY <1>0, MessageFacts DEF Mail
<1>9. /\ \A i \in DOMAIN hb : hb[i].id <= acc
      /\ \A i, j \in DOMAIN hb : hb[i].id = hb[j].id => i = j
  BY <1>0, <1>7, JoinFacts DEF Sound, Shown
<1> HIDE DEF d, n, hb
<1>10. Queued(d, acc) /\ Guarded(d, acc, off)
  BY <1>1, <1>4 DEF Sound, Queued, Guarded
<1>11. Unshown(d, hb, acc)
  <2>1. ASSUME NEW c \in d.receipts, NEW x \in ToSet(c.messages), NEW y \in ToSet(b.messages)
        PROVE  x.id # y.id
    <3>1. c \in m.receipts /\ c.generation # b.generation
      BY <1>1 DEF Sound, OneBatch
    <3>2. x.id \in Nat /\ y.id \in Nat
      BY <1>0, <3>1, TableFacts, MessageFacts
    <3>3. CASE b.generation = m.reservation.generation
      <4>1. y \in Mail(m)
        BY <1>5, <1>6, <3>3
      <4>2. x.id < y.id
        BY <3>1, <3>3, <4>1 DEF Sound, Unshown
      <4> QED
        BY <3>2, <4>2
    <3>4. CASE c.generation = m.reservation.generation
      <4>1. c = m.reservation
        BY <3>1, <3>4 DEF Sound, OneBatch
      <4>2. y.id < x.id
        BY <1>6, <1>7, <3>1, <3>4, <4>1
      <4> QED
        BY <3>2, <4>2
    <3>5. CASE b.generation # m.reservation.generation /\ c.generation # m.reservation.generation
      <4>1. b.generation \in Held(m) /\ c.generation \in Held(m)
        BY <3>1 DEF Held
      <4> QED
        BY <3>1, <3>5, <4>1 DEF Sound, OneBatch
    <3> QED
      BY <3>3, <3>4, <3>5
  <2> QED
    BY <1>1, <1>3, <1>4, <2>1 DEF Sound, Unshown
<1>12. Shown(d, hb, acc)
  <2>1. ASSUME NEW x, Acknowledged(m, x) PROVE Acknowledged(d, x)
    BY <1>1, <2>1 DEF Acknowledged
  <2>2. ASSUME NEW x \in Mail(m), NEW y \in ToSet(b.messages), x.id = y.id
        PROVE  Acknowledged(d, x)
    <3>1. b.generation = m.reservation.generation
      <4> SUFFICES ASSUME b.generation # m.reservation.generation PROVE FALSE
        OBVIOUS
      <4>1. y.id < x.id
        BY <1>7
      <4> QED
        BY <1>8, <2>2, <4>1
    <3>2. b = m.reservation /\ y \in Mail(m)
      BY <1>5, <1>6, <3>1
    <3>3. x = y
      BY <1>0, <2>2, <3>2, OrderedFacts DEF Sound, Queued, Mail
    <3> QED
      BY <1>1, <3>2, <3>3 DEF Acknowledged
  <2>3. ASSUME NEW x \in ToSet(m.reservation.messages), Acknowledged(d, x) PROVE x \in ToSet(hb)
    <3>1. CASE Acknowledged(m, x)
      BY <1>3, <3>1 DEF Sound, Shown
    <3>2. CASE ~Acknowledged(m, x)
      <4>1. d.settlements[n].generation = m.reservation.generation
        BY <1>1, <2>3, <3>2 DEF Acknowledged
      <4> QED
        BY <1>1, <1>3, <1>5, <4>1
    <3> QED
      BY <3>1, <3>2
  <2>4. \A x \in Mail(d), y \in ToSet(hb) : x.id = y.id => Acknowledged(d, x)
    BY <1>3, <1>4, <2>1, <2>2 DEF Sound, Shown
  <2> QED
    BY <1>1, <1>9, <2>3, <2>4 DEF Shown
<1>13. Accounted(d, hb, acc, clr)
  BY <1>3, <1>4 DEF Sound, Accounted
<1>14. Sound(d, hb, acc, off, clr, tn)
  BY <1>1, <1>2, <1>10, <1>11, <1>12, <1>13 DEF Sound
<1> QED
  BY <1>14 DEF d, hb

\* The settlement of a batch of a torn down session.
LEMMA SettleStale ==
  ASSUME NEW m, NEW hd, NEW acc, NEW off, NEW clr, NEW tn,
         Sound(m, hd, acc, off, clr, tn), m.settlements # <<>>,
         Head(m.settlements).generation # m.reservation.generation
  PROVE  LET rest == [m EXCEPT !.settlements = Tail(@)]
         IN  Sound(rest, hd, acc, off, clr, tn)
<1> DEFINE t == Tail(m.settlements)
           d == [m EXCEPT !.settlements = t]
<1>0. m \in Tables /\ m.settlements \in Seq(Settlement)
  BY TableFacts DEF Sound
<1>1. /\ t \in Seq(Settlement)
      /\ \A i \in DOMAIN t : i + 1 \in DOMAIN m.settlements /\ t[i] = m.settlements[i + 1] /\ i \in Nat
      /\ \A i \in DOMAIN m.settlements : i # 1 => i - 1 \in DOMAIN t /\ t[i - 1] = m.settlements[i]
      /\ Head(m.settlements) = m.settlements[1]
  BY <1>0
<1> HIDE DEF t
<1>2. /\ d \in Tables
      /\ d.box = m.box /\ d.reservation = m.reservation /\ d.barrier = m.barrier
      /\ d.receipts = m.receipts /\ d.settlements = t
  BY <1>0, <1>1 DEF Tables
<1>3. d = [m EXCEPT !.settlements = Tail(@)]
  BY DEF t
<1> HIDE DEF d
<1>4. Held(d) \subseteq Held(m)
  BY <1>1, <1>2 DEF Held
<1>5. \A i, j \in DOMAIN t : t[i].generation = t[j].generation => i = j
  <2> SUFFICES ASSUME NEW i \in DOMAIN t, NEW j \in DOMAIN t, t[i].generation = t[j].generation
               PROVE  i = j
    OBVIOUS
  <2>1. i + 1 = j + 1
    BY <1>1 DEF Sound, OneBatch
  <2> QED
    BY <1>1, <2>1
<1>6. OneBatch(d, tn)
  BY <1>1, <1>2, <1>4, <1>5 DEF Sound, OneBatch
<1>7. Mail(d) = Mail(m)
  BY <1>2 DEF Mail
<1>8. \A x : Acknowledged(d, x) <=> Acknowledged(m, x)
  <2>1. ASSUME NEW x, Acknowledged(m, x) PROVE Acknowledged(d, x)
    <3>1. PICK i \in DOMAIN m.settlements :
            /\ m.settlements[i].committed
            /\ m.settlements[i].generation = m.reservation.generation
      BY <2>1 DEF Acknowledged
    <3>2. i - 1 \in DOMAIN t /\ t[i - 1] = m.settlements[i]
      BY <1>1, <3>1
    <3> QED
      BY <1>2, <2>1, <3>1, <3>2 DEF Acknowledged
  <2>2. ASSUME NEW x, Acknowledged(d, x) PROVE Acknowledged(m, x)
    BY <1>1, <1>2, <2>2 DEF Acknowledged
  <2> QED
    BY <2>1, <2>2
<1>9. Queued(d, acc) /\ Guarded(d, acc, off)
  BY <1>2, <1>7 DEF Sound, Queued, Guarded
<1>10. Unshown(d, hd, acc)
  BY <1>2, <1>7 DEF Sound, Unshown
<1>11. Shown(d, hd, acc)
  BY <1>2, <1>7, <1>8 DEF Sound, Shown
<1>12. Accounted(d, hd, acc, clr)
  BY <1>7 DEF Sound, Accounted
<1>13. Sound(d, hd, acc, off, clr, tn)
  BY <1>2, <1>6, <1>9, <1>10, <1>11, <1>12 DEF Sound
<1> QED
  BY <1>3, <1>13

\* The settlement of the current batch.
LEMMA SettleCurrent ==
  ASSUME NEW m, NEW hd, NEW acc, NEW off, NEW clr, NEW tn,
         History(hd, acc, off, clr), Sound(m, hd, acc, off, clr, tn), m.settlements # <<>>,
         Head(m.settlements).generation = m.reservation.generation
  PROVE  LET rest == [m EXCEPT !.settlements = Tail(@)]
         IN  Sound(Settled(rest, Head(m.settlements)), hd, acc, off, clr, tn)
<1> DEFINE t == Tail(m.settlements)
           s == Head(m.settlements)
           rest == [m EXCEPT !.settlements = t]
           kept == IF s.committed THEN Without(m.box, m.reservation.messages) ELSE m.box
           d == [rest EXCEPT !.reservation = NoReservation, !.box = kept, !.barrier = kept # <<>>]
<1>0. /\ m \in Tables /\ m.settlements \in Seq(Settlement) /\ m.box \in Seq(Message)
      /\ hd \in Seq(Message) /\ Ordered(m.box)
  BY TableFacts DEF Sound, History, Queued
<1>1. /\ t \in Seq(Settlement)
      /\ \A i \in DOMAIN t : i + 1 \in DOMAIN m.settlements /\ t[i] = m.settlements[i + 1] /\ i \in Nat
      /\ \A i \in DOMAIN t : i + 1 # 1
      /\ 1 \in DOMAIN m.settlements /\ s = m.settlements[1]
  BY <1>0
<1>2. /\ kept \in Seq(Message) /\ Ordered(kept)
      /\ \A x : x \in ToSet(kept) <=>
           x \in Mail(m) /\ (s.committed => x \notin ToSet(m.reservation.messages))
  <2>1. CASE s.committed
    <3>1. kept = Keep(m.box, ToSet(m.box) \ ToSet(m.reservation.messages))
      BY <2>1 DEF Without
    <3> HIDE DEF kept, s
    <3> QED
      BY <1>0, <2>1, <3>1, KeepMail DEF Mail
  <2>2. CASE ~s.committed
    BY <1>0, <2>2 DEF Mail
  <2> QED
    BY <2>1, <2>2
<1>3. Settled([m EXCEPT !.settlements = Tail(@)], s) = d
  BY <1>0 DEF Settled, Tables
<1> HIDE DEF t, s, kept
<1>4. rest \in Tables /\ rest.receipts = m.receipts /\ rest.settlements = t
  BY <1>0, <1>1 DEF Tables
<1> HIDE DEF rest
<1>5. (kept # <<>>) \in BOOLEAN
  OBVIOUS
<1>6. d \in Tables
  BY <1>2, <1>4, <1>5 DEF Tables
<1>7. /\ d.box = kept /\ d.reservation = NoReservation /\ d.receipts = m.receipts
      /\ d.settlements = t
  BY <1>4 DEF Tables
<1>8. d.barrier <=> kept # <<>>
  BY <1>4, <1>5 DEF Tables
<1> HIDE DEF d
<1>9. NoReservation.generation = 0 /\ NoReservation.messages = <<>> /\ ToSet(<<>>) = {}
  BY MessageFacts DEF NoReservation
<1>10. \A i \in DOMAIN t : t[i].generation # m.reservation.generation
  <2>1. \A i \in DOMAIN m.settlements :
          m.settlements[i].generation = m.settlements[1].generation => i = 1
    BY <1>1 DEF Sound, OneBatch
  <2> QED
    BY <1>1, <2>1 DEF s
<1>11. \A b \in m.receipts : b.generation # m.reservation.generation /\ b.generation # 0
  <2>1. \A b \in m.receipts : m.settlements[1].generation # b.generation
    BY <1>1 DEF Sound, OneBatch
  <2> QED
    BY <1>0, <1>1, <2>1, TableFacts DEF s, Generations
<1>12. Held(d) \subseteq Held(m) \ {m.reservation.generation}
  BY <1>1, <1>7, <1>10, <1>11 DEF Held
<1>13. OneBatch(d, tn)
  <2>1. \A i, j \in DOMAIN t : t[i].generation = t[j].generation => i = j
    <3> SUFFICES ASSUME NEW i \in DOMAIN t, NEW j \in DOMAIN t, t[i].generation = t[j].generation
                 PROVE  i = j
      OBVIOUS
    <3>1. i + 1 = j + 1
      BY <1>1 DEF Sound, OneBatch
    <3> QED
      BY <1>1, <3>1
  <2>2. \A b \in m.receipts :
          /\ \A c \in m.receipts : b.generation = c.generation => b = c
          /\ \A i \in DOMAIN t : t[i].generation # b.generation
    BY <1>1 DEF Sound, OneBatch
  <2>3. /\ \A g, h \in Held(d) \ {d.reservation.generation} : g = h
        /\ ~tn => Held(d) \subseteq {d.reservation.generation}
    BY <1>12 DEF Sound, OneBatch
  <2> QED
    BY <1>7, <1>9, <1>11, <2>1, <2>2, <2>3 DEF OneBatch
<1>14. \A x \in Mail(d) : x \in Mail(m) /\ (s.committed => x \notin ToSet(m.reservation.messages))
  BY <1>2, <1>7 DEF Mail
<1>15. Queued(d, acc)
  <2>1. \A x \in Mail(m) : x.id <= acc
    BY DEF Sound, Queued, Mail, ToSet
  <2>2. \A i \in DOMAIN d.box : d.box[i].id <= acc
    BY <1>14, <2>1 DEF Mail, ToSet
  <2> QED
    BY <1>2, <1>7, <1>9, <2>2 DEF Queued
<1>16. Guarded(d, acc, off)
  <2>1. ~d.barrier => Mail(d) = {}
    BY <1>7, <1>8, <1>9 DEF Mail
  <2> QED
    BY <1>7, <1>9, <2>1 DEF Sound, Guarded
<1>17. Unshown(d, hd, acc)
  BY <1>7, <1>11, <1>14 DEF Sound, Unshown
<1>18. Shown(d, hd, acc)
  <2>1. ASSUME NEW x \in Mail(d), NEW y \in ToSet(hd), x.id = y.id PROVE FALSE
    <3>1. Acknowledged(m, x)
      BY <1>14, <2>1 DEF Sound, Shown
    <3>2. PICK i \in DOMAIN m.settlements :
            /\ m.settlements[i].committed
            /\ m.settlements[i].generation = m.reservation.generation
      BY <3>1 DEF Acknowledged
    <3>3. i = 1
      BY <1>1, <3>2 DEF Sound, OneBatch, s
    <3>4. s.committed /\ x \in ToSet(m.reservation.messages)
      BY <1>1, <3>1, <3>2, <3>3 DEF Acknowledged
    <3> QED
      BY <1>14, <3>4
  <2> QED
    BY <1>7, <1>9, <2>1 DEF Sound, Shown
<1>19. Accounted(d, hd, acc, clr)
  <2>1. ASSUME NEW x \in Mail(m), x \notin Mail(d) PROVE x \in ToSet(hd)
    <3>1. s.committed /\ x \in ToSet(m.reservation.messages)
      BY <1>2, <1>7, <2>1 DEF Mail
    <3>2. Acknowledged(m, x)
      BY <1>1, <3>1 DEF Acknowledged, s
    <3> QED
      BY <3>1, <3>2 DEF Sound, Shown
  <2> QED
    BY <2>1 DEF Sound, Accounted
<1>20. Sound(d, hd, acc, off, clr, tn)
  BY <1>6, <1>13, <1>15, <1>16, <1>17, <1>18, <1>19 DEF Sound
<1> QED
  BY <1>3, <1>20 DEF s

\* Keeping everything changes nothing.
LEMMA KeepAll ==
  ASSUME NEW M, NEW s \in Seq(M)
  PROVE  Keep(s, ToSet(s)) = s
<1> DEFINE kept == {i \in DOMAIN s : s[i] \in ToSet(s)}
           upto(i) == {k \in kept : k <= i}
           at(j) == CHOOSE i \in kept : Cardinality(upto(i)) = j
<1>1. DOMAIN s = 1..Len(s) /\ Len(s) \in Nat
  OBVIOUS
<1>2. kept = 1..Len(s)
  BY <1>1 DEF ToSet
<1>3. Cardinality(kept) = Len(s)
  <2>1. Cardinality(1..Len(s)) = Len(s)
    BY <1>1, FS_Interval
  <2> QED
    BY <1>2, <2>1
<1>4. \A i \in kept : Cardinality(upto(i)) = i
  <2> SUFFICES ASSUME NEW i \in 1..Len(s) PROVE Cardinality(upto(i)) = i
    BY <1>2
  <2>1. upto(i) = 1..i
    BY <1>1, <1>2
  <2>2. i \in Nat /\ i # 0
    BY <1>1
  <2>3. Cardinality(1..i) = i
    BY <2>2, FS_Interval
  <2> QED
    BY <2>1, <2>3
<1>5. Keep(s, ToSet(s)) = [j \in 1..Cardinality(kept) |-> s[at(j)]]
  BY DEF Keep
<1>6. \A j \in 1..Len(s) : at(j) = j
  <2> SUFFICES ASSUME NEW j \in 1..Len(s) PROVE at(j) = j
    OBVIOUS
  <2>1. j \in kept /\ Cardinality(upto(j)) = j
    BY <1>2, <1>4
  <2> HIDE DEF upto, kept
  <2>2. at(j) \in kept /\ Cardinality(upto(at(j))) = j
    BY <2>1
  <2> QED
    BY <1>4, <2>2
<1> HIDE DEF at, kept
<1>7. Keep(s, ToSet(s)) = [j \in 1..Len(s) |-> s[j]]
  BY <1>3, <1>5, <1>6
<1> QED
  BY <1>1, <1>7

\* What a start pushes into the session, and what is left.
LEMMA FlushEffect ==
  ASSUME NEW m \in Tables, Ordered(m.box), NEW n \in 0..Len(m.box), n <= Len(Steering(m.box))
  PROVE  LET pushed == SubSeq(Steering(m.box), 1, n)
             left == Without(m.box, pushed)
         IN  /\ pushed \in Seq(Message) /\ Ordered(pushed)
             /\ \A x \in ToSet(pushed) : x \in Mail(m) /\ x.kind = "message"
             /\ left \in Seq(Message) /\ Ordered(left)
             /\ \A x : x \in ToSet(left) <=> x \in Mail(m) /\ x \notin ToSet(pushed)
             /\ n = 0 => pushed = <<>> /\ left = m.box
<1> DEFINE steering == Steering(m.box)
           pushed == SubSeq(steering, 1, n)
           left == Without(m.box, pushed)
           wanted == {x \in ToSet(m.box) : x.kind = "message"}
<1>0. m.box \in Seq(Message)
  BY TableFacts
<1>1. steering = Keep(m.box, wanted)
  BY DEF Steering
<1> HIDE DEF steering, wanted
<1>2. /\ steering \in Seq(Message) /\ Ordered(steering)
      /\ \A x \in ToSet(steering) : x \in Mail(m) /\ x.kind = "message"
  BY <1>0, <1>1, KeepMail DEF wanted, Mail
<1>3. n \in 0..Len(steering)
  BY <1>0, <1>2 DEF steering
<1>4. /\ pushed \in Seq(Message) /\ DOMAIN pushed = 1..n
      /\ \A k \in 1..n : k \in DOMAIN steering /\ pushed[k] = steering[k]
  BY <1>2, <1>3, FrontFacts
<1>5. n = 0 => pushed = <<>>
  BY <1>2
<1> HIDE DEF pushed
<1>6. Ordered(pushed) /\ \A x \in ToSet(pushed) : x \in Mail(m) /\ x.kind = "message"
  BY <1>2, <1>4 DEF Ordered, ToSet
<1>7. left = Keep(m.box, ToSet(m.box) \ ToSet(pushed))
  BY DEF Without
<1>8. /\ left \in Seq(Message) /\ Ordered(left)
      /\ \A x : x \in ToSet(left) <=> x \in Mail(m) /\ x \notin ToSet(pushed)
  BY <1>0, <1>7, KeepMail DEF Mail
<1>9. n = 0 => left = m.box
  <2> SUFFICES ASSUME n = 0 PROVE left = m.box
    OBVIOUS
  <2>1. ToSet(m.box) \ ToSet(pushed) = ToSet(m.box)
    BY <1>5, MessageFacts
  <2> HIDE DEF left
  <2> QED
    BY <1>0, <1>7, <2>1, KeepAll
<1> QED
  BY <1>4, <1>5, <1>6, <1>8, <1>9 DEF pushed, steering

\* The child's session starts and takes steering mail.
LEMMA FlushSound ==
  ASSUME NEW m, NEW hd, NEW acc, NEW off, NEW clr, NEW tn,
         NEW d \in Tables, NEW pushed \in Seq(Message), NEW left \in Seq(Message),
         History(hd, acc, off, clr), Sound(m, hd, acc, off, clr, tn), ~m.barrier,
         Ordered(pushed), ToSet(pushed) \subseteq Mail(m), Ordered(left),
         \A x : x \in ToSet(left) <=> x \in Mail(m) /\ x \notin ToSet(pushed),
         d.box = left, d.reservation = m.reservation, d.barrier = m.barrier,
         d.receipts = m.receipts, d.settlements = m.settlements
  PROVE  Sound(d, hd \o pushed, acc, off, clr, tn)
<1> DEFINE hp == hd \o pushed
<1>0. /\ m \in Tables /\ hd \in Seq(Message) /\ m.box \in Seq(Message) /\ Ordered(m.box)
      /\ m.reservation = NoReservation
  BY TableFacts DEF Sound, History, Queued, Guarded
<1>1. NoReservation.generation = 0 /\ NoReservation.messages = <<>> /\ ToSet(<<>>) = {}
  BY MessageFacts DEF NoReservation
<1>2. \A x : ~Acknowledged(m, x) /\ ~Acknowledged(d, x)
  BY <1>0, <1>1 DEF Acknowledged
<1>3. \A x \in Mail(m), y \in ToSet(hd) : x.id # y.id
  BY <1>2 DEF Sound, Shown
<1>4. \A x \in Mail(m) : x.id \in Nat /\ x.id <= acc
  BY <1>0, MessageFacts DEF Sound, Queued, Mail, ToSet
<1>5. \A x \in Mail(d) : x \in Mail(m) /\ x \notin ToSet(pushed)
  BY DEF Mail
<1>6. \A x : x \in ToSet(hp) <=> x \in ToSet(hd) \/ x \in ToSet(pushed)
  <2>1. CASE pushed = <<>>
    BY <1>0, <2>1, MessageFacts
  <2>2. CASE pushed # <<>>
    <3>1. pushed[1] \in Message
      BY <2>2
    <3> QED
      BY <1>0, <3>1, ToSetFacts
  <2> QED
    BY <2>1, <2>2
<1>7. /\ \A i \in DOMAIN hp : hp[i].id <= acc
      /\ \A i, j \in DOMAIN hp : hp[i].id = hp[j].id => i = j
  <2>1. \A x \in ToSet(pushed) : x.id <= acc /\ \A y \in ToSet(hd) : x.id # y.id
    BY <1>3, <1>4
  <2> QED
    BY <1>0, <2>1, JoinFacts DEF Sound, Shown
<1> HIDE DEF hp
<1>8. OneBatch(d, tn)
  BY DEF Sound, OneBatch, Held
<1>9. Queued(d, acc)
  <2>1. \A i \in DOMAIN d.box : d.box[i] \in Mail(d)
    BY DEF Mail, ToSet
  <2>2. \A i \in DOMAIN d.box : d.box[i].id <= acc
    BY <1>4, <1>5, <2>1
  <2>3. DOMAIN d.reservation.messages = {}
    BY <1>0, <1>1
  <2> QED
    BY <2>2, <2>3 DEF Queued
<1>10. Guarded(d, acc, off)
  BY <1>0, <1>1, <1>5 DEF Sound, Guarded
<1>11. Unshown(d, hp, acc)
  <2>1. \A b \in m.receipts : b.generation # m.reservation.generation
    <3>1. \A b \in m.receipts : b.generation \in Generations
      BY <1>0, TableFacts
    <3> QED
      BY <1>0, <1>1, <3>1 DEF Generations
  <2> SUFFICES ASSUME NEW b \in m.receipts, NEW x \in ToSet(b.messages)
               PROVE  /\ x.id <= acc
                      /\ \A y \in ToSet(hd) : x.id # y.id
                      /\ \A y \in ToSet(pushed) : x.id # y.id
                      /\ \A y \in Mail(m) : x.id < y.id
    <3>1. \A b \in m.receipts : Ordered(b.messages)
      BY DEF Sound, Unshown
    <3> QED
      BY <1>5, <1>6, <3>1 DEF Unshown
  <2>2. x.id <= acc /\ (\A y \in ToSet(hd) : x.id # y.id) /\ \A y \in Mail(m) : x.id < y.id
    BY <2>1 DEF Sound, Unshown
  <2>3. \A y \in Mail(m) : x.id # y.id
    BY <1>4, <2>2
  <2> QED
    BY <2>2, <2>3
<1>12. Shown(d, hp, acc)
  <2>1. ASSUME NEW x \in Mail(d), NEW y \in ToSet(pushed), x.id = y.id PROVE FALSE
    <3>1. x = y
      BY <1>0, <1>5, <2>1, OrderedFacts DEF Mail
    <3> QED
      BY <1>5, <3>1
  <2> QED
    BY <1>0, <1>1, <1>3, <1>5, <1>6, <1>7, <2>1 DEF Shown
<1>13. Accounted(d, hp, acc, clr)
  <2>1. \A x \in Mail(m) : x \in Mail(d) \/ x \in ToSet(hp)
    BY <1>6 DEF Mail
  <2> QED
    BY <1>6, <2>1 DEF Sound, Accounted
<1> QED
  BY <1>8, <1>9, <1>10, <1>11, <1>12, <1>13 DEF Sound, hp

\* The teardown of the session.
LEMMA TeardownSound ==
  ASSUME NEW m, NEW hd, NEW acc, NEW off, NEW clr,
         History(hd, acc, off, clr), Sound(m, hd, acc, off, clr, FALSE),
         NEW d \in Tables, d.box = <<>>, d.reservation = NoReservation, d.barrier = FALSE,
         d.receipts = m.receipts, d.settlements = m.settlements
  PROVE  Sound(d, hd, acc, off, clr \union (Mail(m) \ ToSet(hd)), TRUE)
<1>1. NoReservation.generation = 0 /\ NoReservation.messages = <<>> /\ ToSet(<<>>) = {}
  BY MessageFacts DEF NoReservation
<1>2. Mail(d) = {} /\ \A x : ~Acknowledged(d, x)
  BY <1>1 DEF Mail, Acknowledged
<1>3. OneBatch(d, TRUE)
  <2>1. Held(d) = Held(m) /\ Held(m) \subseteq {m.reservation.generation}
    BY DEF Sound, OneBatch, Held
  <2>2. \A b \in m.receipts : b.generation # 0
    BY TableFacts DEF Sound, Generations
  <2> QED
    BY <1>1, <2>1, <2>2 DEF Sound, OneBatch
<1>4. Queued(d, acc)
  BY <1>1 DEF Queued, Ordered
<1>5. Guarded(d, acc, off)
  BY <1>1, <1>2 DEF Sound, Guarded
<1>6. Unshown(d, hd, acc)
  BY <1>2 DEF Sound, Unshown
<1>7. Shown(d, hd, acc)
  BY <1>1, <1>2 DEF Sound, Shown
<1>8. Accounted(d, hd, acc, clr \union (Mail(m) \ ToSet(hd)))
  BY DEF Sound, Accounted
<1> QED
  BY <1>3, <1>4, <1>5, <1>6, <1>7, <1>8 DEF Sound

-----------------------------------------------------------------------------
(* The invariant of the specification                                       *)

\* What the steps need to know of a state.
LEMMA StateFacts ==
  ASSUME MailInv
  PROVE  /\ History(handed, accepted, offered, cleared)
         /\ Sound(mb, handed, accepted, offered, cleared, torn)
         /\ mb \in Tables /\ mb.box \in Seq(Message)
         /\ accepted \in 0..MaxMessages
         /\ live \in BOOLEAN /\ torn \in BOOLEAN
BY TableFacts, SizesAssumption DEF MailInv, TypeOK, History

\* A message that is accepted is the next one.
LEMMA NewMessage ==
  ASSUME MailInv, NEW kind \in Kinds, accepted < MaxMessages
  PROVE  /\ NextMessage(kind) \in Message /\ NextMessage(kind).id = accepted + 1
         /\ NextMessage(kind).kind = kind /\ accepted + 1 \in 0..MaxMessages
BY StateFacts, SizesAssumption DEF NextMessage, Message

\* Forgetting the waiter whose caller has gone.
LEMMA AttendedFacts ==
  ASSUME MailInv
  PROVE  /\ Attended \in Tables /\ SameMail(mb, Attended)
         /\ Sound(Attended, handed, accepted, offered, cleared, torn)
<1>1. mb \in Tables
  BY StateFacts
<1>2. Attended \in Tables /\ SameMail(mb, Attended)
  BY <1>1 DEF Attended, Tables, SameMail, NoWaiter, Waiter
<1> QED
  BY <1>2, SameSound, StateFacts

\* What was offered are messages.
LEMMA OffersFacts ==
  ASSUME MailInv, mb' \in Tables, Offers
  PROVE  offered' \subseteq Message
<1>1. mb'.reservation.messages \in Seq(Message)
  BY TableFacts
<1> QED
  BY <1>1, StateFacts, MessageFacts DEF Offers, History

\* The initial states.
LEMMA InitInv ==
  ASSUME Init
  PROVE  MailInv
<1>1. /\ mb.box = <<>> /\ mb.reservation = NoReservation /\ mb.barrier = FALSE
      /\ mb.receipts = {} /\ mb.settlements = <<>>
  BY DEF Init
<1>2. mb \in Tables
  <2>1. NoWaiter \in Waiter /\ <<>> \in Seq(Message) /\ <<>> \in Seq(Settlement)
    BY DEF Waiter, NoWaiter
  <2>2. {"root", "pending"} \subseteq Phases
    BY DEF Phases
  <2> QED
    BY <2>1, <2>2 DEF Init, Tables
<1>3. TypeOK
  <2>1. live \in BOOLEAN /\ torn \in BOOLEAN
    BY DEF Init
  <2>2. handed \in Seq(Message) /\ accepted \in 0..MaxMessages
    BY SizesAssumption DEF Init
  <2> QED
    BY <1>2, <2>1, <2>2 DEF Init, TypeOK
<1>4. NoReservation.messages = <<>> /\ ToSet(<<>>) = {} /\ Mail(mb) = {}
  BY <1>1, MessageFacts DEF NoReservation, Mail
<1>5. OneBatch(mb, torn)
  BY <1>1 DEF OneBatch, Held
<1>6. Queued(mb, accepted)
  BY <1>1, <1>4 DEF Queued, Ordered
<1>7. Guarded(mb, accepted, offered) /\ Unshown(mb, handed, accepted)
  BY <1>1, <1>4 DEF Init, Guarded, Unshown
<1>8. Shown(mb, handed, accepted)
  BY <1>1, <1>4 DEF Init, Shown
<1>9. Accounted(mb, handed, accepted, cleared)
  BY DEF Init, Accounted
<1> QED
  BY <1>2, <1>3, <1>5, <1>6, <1>7, <1>8, <1>9 DEF MailInv, Sound

\* Sending.
LEMMA SendInv ==
  ASSUME MailInv, Send
  PROVE  MailInv'
<1> USE StateFacts
<1>1. PICK kind \in Kinds :
        \/ \E admission \in Admissions :
             SendBehindBarrier(kind, admission) \/ SendAsWake(kind, admission)
        \/ SendToWaiter(kind) \/ SendLive(kind) \/ SendQueued(kind) \/ SendRefused(kind)
  BY DEF Send
<1> DEFINE x == NextMessage(kind)
<1>2. accepted < MaxMessages
  BY <1>1 DEF SendBehindBarrier, SendAsWake, SendToWaiter, SendLive, SendQueued, SendRefused,
              Unattended, CanAddress
<1>3. x \in Message /\ x.id = accepted + 1 /\ accepted + 1 \in 0..MaxMessages
  BY <1>2, NewMessage
<1>4. History(handed, accepted + 1, offered, cleared)
  BY <1>3 DEF History
<1>5. Append(handed, x) \in Seq(Message)
  BY <1>3 DEF History
<1> HIDE DEF x
<1>6. ASSUME NEW admission \in Admissions, SendBehindBarrier(kind, admission) PROVE MailInv'
  <2> DEFINE e == Enqueue(mb, x)
             w == ServiceWaiter(e)
  <2>1. Sound(e, handed, accepted + 1, offered, cleared, torn)
    BY <1>3, EnqueueSound
  <2>2. Sound(w, handed, accepted + 1, offered \union ToSet(w.reservation.messages), cleared, torn)
    BY <1>4, <2>1, ServiceSound
  <2>3. mb' = WakeForMail(w, admission)
    BY <1>6 DEF SendBehindBarrier, x
  <2> HIDE DEF w
  <2>4. /\ Sound(mb', handed, accepted + 1, offered \union ToSet(w.reservation.messages), cleared, torn)
        /\ mb'.reservation = w.reservation
    BY <2>2, <2>3, WakeSound
  <2>5. mb' \in Tables
    BY <2>4 DEF Sound
  <2>6. /\ Offers /\ handed' = handed /\ accepted' = accepted + 1
        /\ live' = live /\ cleared' = cleared /\ torn' = torn
    BY <1>6 DEF SendBehindBarrier, Accept
  <2>7. offered' = offered \union ToSet(w.reservation.messages)
    BY <2>4, <2>6 DEF Offers
  <2>8. offered' \subseteq Message
    BY <2>5, <2>6, OffersFacts
  <2> QED
    BY <1>3, <2>4, <2>5, <2>6, <2>7, <2>8 DEF MailInv, TypeOK, History
<1>7. ASSUME NEW admission \in Admissions, SendAsWake(kind, admission) PROVE MailInv'
  <2>1. Sound(mb, Append(handed, x), accepted + 1, offered, cleared, torn)
    BY <1>3, ShowSound
  <2>2. /\ mb' = WakeChild(mb, admission) /\ handed' = Append(handed, x)
        /\ offered' = offered /\ accepted' = accepted + 1
        /\ live' = live /\ cleared' = cleared /\ torn' = torn
    BY <1>7 DEF SendAsWake, Accept, x
  <2>3. mb' \in Tables /\ SameMail(mb, mb')
    BY <2>2, WakeSound
  <2>4. Sound(mb', Append(handed, x), accepted + 1, offered, cleared, torn)
    BY <2>1, <2>3, SameSound
  <2> QED
    BY <1>3, <1>5, <2>2, <2>3, <2>4 DEF MailInv, TypeOK, History
<1>8. CASE SendToWaiter(kind)
  <2> DEFINE e == Enqueue(Attended, x)
             w == ServiceWaiter(e)
  <2>1. Sound(e, handed, accepted + 1, offered, cleared, torn)
    BY <1>3, AttendedFacts, EnqueueSound
  <2>2. Sound(w, handed, accepted + 1, offered \union ToSet(w.reservation.messages), cleared, torn)
    BY <1>4, <2>1, ServiceSound
  <2>3. mb' = w
    BY <1>8 DEF SendToWaiter, x
  <2>4. mb' \in Tables
    BY <2>2, <2>3 DEF Sound
  <2>5. /\ Offers /\ handed' = handed /\ accepted' = accepted + 1
        /\ live' = live /\ cleared' = cleared /\ torn' = torn
    BY <1>8 DEF SendToWaiter, Accept
  <2> HIDE DEF w
  <2>6. offered' = offered \union ToSet(w.reservation.messages)
    BY <2>3, <2>5 DEF Offers
  <2>7. offered' \subseteq Message
    BY <2>4, <2>5, OffersFacts
  <2> QED
    BY <1>3, <2>2, <2>3, <2>4, <2>5, <2>6, <2>7 DEF MailInv, TypeOK, History
<1>9. CASE SendLive(kind)
  <2>1. Sound(Attended, Append(handed, x), accepted + 1, offered, cleared, torn)
    BY <1>3, AttendedFacts, ShowSound
  <2>2. /\ mb' = Attended /\ handed' = Append(handed, x)
        /\ offered' = offered /\ accepted' = accepted + 1
        /\ live' = live /\ cleared' = cleared /\ torn' = torn
    BY <1>9 DEF SendLive, Accept, x
  <2>3. mb' \in Tables
    BY <2>2, AttendedFacts
  <2> QED
    BY <1>3, <1>5, <2>1, <2>2, <2>3 DEF MailInv, TypeOK, History
<1>10. CASE SendQueued(kind)
  <2>1. Sound(Enqueue(Attended, x), handed, accepted + 1, offered, cleared, torn)
    BY <1>3, AttendedFacts, EnqueueSound
  <2>2. /\ mb' = Enqueue(Attended, x) /\ handed' = handed
        /\ offered' = offered /\ accepted' = accepted + 1
        /\ live' = live /\ cleared' = cleared /\ torn' = torn
    BY <1>10 DEF SendQueued, Accept, x
  <2>3. mb' \in Tables
    BY <2>1, <2>2 DEF Sound
  <2> QED
    BY <1>3, <2>1, <2>2, <2>3 DEF MailInv, TypeOK, History
<1>11. CASE SendRefused(kind)
  <2>1. /\ mb' = Attended /\ handed' = handed /\ offered' = offered /\ accepted' = accepted
        /\ live' = live /\ cleared' = cleared /\ torn' = torn
    BY <1>11 DEF SendRefused
  <2> QED
    BY <2>1, AttendedFacts DEF MailInv, TypeOK, History
<1> QED
  BY <1>1, <1>6, <1>7, <1>8, <1>9, <1>10, <1>11

\* Waiting.
LEMMA WaitInv ==
  ASSUME MailInv, Wait
  PROVE  MailInv'
<1> USE StateFacts
<1>1. ASSUME NEW closed \in BOOLEAN, WaitBatch(closed) PROVE MailInv'
  <2> DEFINE d == DeliverBatch(mb, closed)
  <2>1. /\ mb' = d /\ mb.reservation = NoReservation /\ Offers
        /\ live' = live /\ handed' = handed /\ accepted' = accepted
        /\ cleared' = cleared /\ torn' = torn
    BY <1>1 DEF WaitBatch
  <2>2. Sound(d, handed, accepted, offered \union ToSet(d.reservation.messages), cleared, torn)
    BY <2>1, DeliverSound
  <2> HIDE DEF d
  <2>3. mb' \in Tables
    BY <2>1, <2>2 DEF Sound
  <2>4. offered' \subseteq Message
    BY <2>1, <2>3, OffersFacts
  <2>5. offered' = offered \union ToSet(d.reservation.messages)
    BY <2>1 DEF Offers
  <2> QED
    BY <2>1, <2>2, <2>3, <2>4, <2>5 DEF MailInv, TypeOK, History
<1>2. CASE \/ \E closed \in BOOLEAN : WaitBlocks(closed)
           \/ CallerLeaves \/ DeadlinePasses \/ ExpireWaiter
  <2>1. UNCHANGED <<live, handed, accepted, offered, cleared, torn>>
    BY <1>2 DEF WaitBlocks, CallerLeaves, DeadlinePasses, ExpireWaiter
  <2>2. \E v \in Waiter : mb' = [mb EXCEPT !.waiter = v]
    <3>1. mb.waiter \in Waiter
      BY DEF Tables
    <3>2. ASSUME NEW closed \in BOOLEAN, WaitBlocks(closed) PROVE <2>2
      <4>1. [there |-> TRUE, closed |-> closed, late |-> FALSE] \in Waiter
        BY DEF Waiter
      <4> QED
        BY <3>2, <4>1 DEF WaitBlocks
    <3>3. CASE CallerLeaves
      <4>1. [mb.waiter EXCEPT !.closed = TRUE] \in Waiter
        BY <3>1 DEF Waiter
      <4> QED
        BY <3>3, <4>1 DEF CallerLeaves
    <3>4. CASE DeadlinePasses
      <4>1. [mb.waiter EXCEPT !.late = TRUE] \in Waiter
        BY <3>1 DEF Waiter
      <4> QED
        BY <3>4, <4>1 DEF DeadlinePasses
    <3>5. CASE ExpireWaiter
      <4>1. NoWaiter \in Waiter
        BY DEF NoWaiter, Waiter
      <4> QED
        BY <3>5, <4>1 DEF ExpireWaiter
    <3> QED
      BY <1>2, <3>2, <3>3, <3>4, <3>5
  <2>3. mb' \in Tables /\ SameMail(mb, mb')
    BY <2>2 DEF Tables, SameMail
  <2>4. Sound(mb', handed, accepted, offered, cleared, torn)
    BY <2>3, SameSound
  <2> QED
    BY <2>1, <2>3, <2>4 DEF MailInv, TypeOK, History
<1> QED
  BY <1>1, <1>2 DEF Wait

\* Reading.
LEMMA ReadInv ==
  ASSUME MailInv, Read
  PROVE  MailInv'
<1> USE StateFacts
<1>1. PICK b \in mb.receipts : CommitBatch(b) \/ DropBatch(b)
  BY DEF Read
<1>2. CASE CommitBatch(b)
  <2>1. /\ mb' = Returned(mb, b, TRUE) /\ handed' = handed \o b.messages
        /\ UNCHANGED <<live, accepted, offered, cleared, torn>>
    BY <1>2 DEF CommitBatch, Return, Returned
  <2>2. Sound(mb', handed', accepted, offered, cleared, torn)
    BY <2>1, CommitSound, Zenon
  <2>3. b.messages \in Seq(Message)
    BY TableFacts
  <2>4. handed' \in Seq(Message)
    BY <2>1, <2>3 DEF History
  <2>5. mb' \in Tables
    BY <2>2 DEF Sound
  <2> QED
    BY <2>1, <2>2, <2>4, <2>5 DEF MailInv, TypeOK, History
<1>3. CASE DropBatch(b)
  <2>1. /\ mb' = Returned(mb, b, FALSE)
        /\ UNCHANGED <<live, handed, accepted, offered, cleared, torn>>
    BY <1>3 DEF DropBatch, Return, Returned
  <2>2. Sound(mb', handed, accepted, offered, cleared, torn)
    BY <2>1, DropSound
  <2>3. mb' \in Tables
    BY <2>2 DEF Sound
  <2> QED
    BY <2>1, <2>2, <2>3 DEF MailInv, TypeOK, History
<1> QED
  BY <1>1, <1>2, <1>3

\* Settling.
LEMMA SettleInv ==
  ASSUME MailInv, Settle
  PROVE  MailInv'
<1> USE StateFacts
<1>1. PICK admission \in Admissions : SettleMailbox(admission)
  BY DEF Settle
<1> DEFINE s == Head(mb.settlements)
           rest == [mb EXCEPT !.settlements = Tail(@)]
           d == Settled(rest, s)
           w == ServiceWaiter(d)
<1>2. /\ mb.settlements # <<>> /\ Offers
      /\ mb' = (IF IsCurrent(s) THEN AfterSettlement(d, admission) ELSE d)
      /\ UNCHANGED <<live, handed, accepted, cleared, torn>>
  BY <1>1 DEF SettleMailbox
<1>3. CASE s.generation = mb.reservation.generation
  <2>1. Sound(d, handed, accepted, offered, cleared, torn)
    BY <1>2, <1>3, SettleCurrent
  <2> HIDE DEF d
  <2>2. Sound(w, handed, accepted, offered \union ToSet(w.reservation.messages), cleared, torn)
    BY <2>1, ServiceSound
  <2>3. mb' = WakeForMail(w, admission)
    BY <1>2, <1>3 DEF IsCurrent, AfterSettlement
  <2> HIDE DEF w
  <2>4. /\ Sound(mb', handed, accepted, offered \union ToSet(w.reservation.messages), cleared, torn)
        /\ mb'.reservation = w.reservation
    BY <2>2, <2>3, WakeSound
  <2>5. mb' \in Tables
    BY <2>4 DEF Sound
  <2>6. offered' = offered \union ToSet(w.reservation.messages)
    BY <1>2, <2>4 DEF Offers
  <2>7. offered' \subseteq Message
    BY <1>2, <2>5, OffersFacts
  <2> QED
    BY <1>2, <2>4, <2>5, <2>6, <2>7 DEF MailInv, TypeOK, History
<1>4. CASE s.generation # mb.reservation.generation
  <2>1. mb' = rest
    <3>1. mb' = d
      BY <1>2, <1>4 DEF IsCurrent
    <3>2. rest.reservation = mb.reservation
      BY DEF Tables
    <3> QED
      BY <1>4, <3>1, <3>2 DEF Settled
  <2>2. Sound(rest, handed, accepted, offered, cleared, torn)
    BY <1>2, <1>4, SettleStale
  <2>3. mb' \in Tables
    BY <2>1, <2>2 DEF Sound
  <2>4. mb'.reservation = mb.reservation
    BY <2>1 DEF Tables
  <2>5. offered' = offered
    BY <1>2, <2>4 DEF Offers, Sound, Guarded
  <2> HIDE DEF rest
  <2> QED
    BY <1>2, <2>1, <2>2, <2>3, <2>5 DEF MailInv, TypeOK, History
<1> QED
  BY <1>3, <1>4

\* What a start does: the pushed mail and the tables after it.
LEMMA StartedEffect ==
  ASSUME MailInv, Started
  PROVE  \E pushed, left \in Seq(Message) :
           /\ Ordered(pushed) /\ Ordered(left)
           /\ \A y \in ToSet(pushed) : y \in Mail(mb) /\ y.kind = "message"
           /\ \A y : y \in ToSet(left) <=> y \in Mail(mb) /\ y \notin ToSet(pushed)
           /\ mb.barrier => pushed = <<>> /\ left = mb.box
           /\ mb' \in Tables /\ mb'.box = left
           /\ mb'.reservation = mb.reservation /\ mb'.barrier = mb.barrier
           /\ mb'.receipts = mb.receipts /\ mb'.settlements = mb.settlements
           /\ handed' = handed \o pushed
           /\ live' \in BOOLEAN /\ UNCHANGED <<accepted, offered, cleared, torn>>
<1> USE StateFacts
<1>1. PICK takes \in BOOLEAN, n \in 0..Len(mb.box) :
        LET steering == Steering(mb.box)
            pushed == SubSeq(steering, 1, n)
        IN  /\ n <= (IF mb.barrier THEN 0 ELSE Len(steering))
            /\ live' = takes
            /\ mb' = [mb EXCEPT !.phase = "active", !.box = Without(@, pushed)]
            /\ handed' = handed \o pushed
  BY DEF Started
<1> DEFINE pushed == SubSeq(Steering(mb.box), 1, n)
           left == Without(mb.box, pushed)
<1>2. Ordered(mb.box) /\ n \in Nat
  BY DEF Sound, Queued
<1>3. /\ n <= Len(Steering(mb.box))
      /\ mb.barrier => n = 0
  <2>1. Steering(mb.box) \in Seq(Message)
    BY KeepMail DEF Steering
  <2>2. Len(Steering(mb.box)) \in Nat
    BY <2>1
  <2> QED
    BY <1>1, <1>2, <2>2
<1>4. /\ pushed \in Seq(Message) /\ Ordered(pushed)
      /\ \A y \in ToSet(pushed) : y \in Mail(mb) /\ y.kind = "message"
      /\ left \in Seq(Message) /\ Ordered(left)
      /\ \A y : y \in ToSet(left) <=> y \in Mail(mb) /\ y \notin ToSet(pushed)
      /\ n = 0 => pushed = <<>> /\ left = mb.box
  BY <1>2, <1>3, FlushEffect
<1>5. /\ mb' = [mb EXCEPT !.phase = "active", !.box = left]
      /\ handed' = handed \o pushed /\ live' \in BOOLEAN
  BY <1>1
<1>6. UNCHANGED <<accepted, offered, cleared, torn>>
  BY DEF Started
<1> HIDE DEF pushed, left
<1>7. /\ mb' \in Tables /\ mb'.box = left
      /\ mb'.reservation = mb.reservation /\ mb'.barrier = mb.barrier
      /\ mb'.receipts = mb.receipts /\ mb'.settlements = mb.settlements
  BY <1>4, <1>5 DEF Tables, Phases
<1> QED
  BY <1>3, <1>4, <1>5, <1>6, <1>7

\* The recipient.
LEMMA RecipientInv ==
  ASSUME MailInv, Recipient
  PROVE  MailInv'
<1> USE StateFacts
<1>1. CASE Started
  <2>1. PICK pushed \in Seq(Message), left \in Seq(Message) :
           /\ Ordered(pushed) /\ Ordered(left)
           /\ \A y \in ToSet(pushed) : y \in Mail(mb) /\ y.kind = "message"
           /\ \A y : y \in ToSet(left) <=> y \in Mail(mb) /\ y \notin ToSet(pushed)
           /\ mb.barrier => pushed = <<>> /\ left = mb.box
           /\ mb' \in Tables /\ mb'.box = left
           /\ mb'.reservation = mb.reservation /\ mb'.barrier = mb.barrier
           /\ mb'.receipts = mb.receipts /\ mb'.settlements = mb.settlements
           /\ handed' = handed \o pushed
           /\ live' \in BOOLEAN /\ UNCHANGED <<accepted, offered, cleared, torn>>
    BY <1>1, StartedEffect
  <2>2. handed' \in Seq(Message)
    BY <2>1 DEF History
  <2>3. Sound(mb', handed', accepted, offered, cleared, torn)
    <3>1. CASE mb.barrier
      <4>1. handed' = handed /\ SameMail(mb, mb')
        BY <2>1, <3>1 DEF SameMail, History
      <4> QED
        BY <2>1, <4>1, SameSound
    <3>2. CASE ~mb.barrier
      <4>1. ToSet(pushed) \subseteq Mail(mb)
        BY <2>1
      <4> QED
        BY <2>1, <3>2, <4>1, FlushSound
    <3> QED
      BY <3>1, <3>2
  <2> QED
    BY <2>1, <2>2, <2>3 DEF MailInv, TypeOK, History
<1>2. CASE StartQueued \/ FinishChild
  <2>1. \E ph \in {"pending", "completed"} : mb' = [mb EXCEPT !.phase = ph]
    BY <1>2 DEF StartQueued, FinishChild
  <2>2. mb' \in Tables /\ SameMail(mb, mb')
    BY <2>1 DEF Tables, SameMail, Phases
  <2>3. live' \in BOOLEAN /\ UNCHANGED <<handed, accepted, offered, cleared, torn>>
    BY <1>2 DEF StartQueued, FinishChild
  <2>4. Sound(mb', handed, accepted, offered, cleared, torn)
    BY <2>2, SameSound
  <2> QED
    BY <2>2, <2>3, <2>4 DEF MailInv, TypeOK, History
<1>3. CASE SessionCloses \/ RootLoads
  <2>1. live' \in BOOLEAN /\ UNCHANGED <<mb, handed, accepted, offered, cleared, torn>>
    BY <1>3 DEF SessionCloses, RootLoads
  <2> QED
    BY <2>1 DEF MailInv, TypeOK, History
<1>4. CASE TeardownSession
  <2>1. /\ mb' = [mb EXCEPT !.box = <<>>, !.reservation = NoReservation, !.barrier = FALSE,
                            !.waiter = NoWaiter]
        /\ cleared' = cleared \union (Mail(mb) \ ToSet(handed)) /\ torn' = TRUE /\ torn = FALSE
        /\ UNCHANGED <<live, handed, accepted, offered>>
    BY <1>4 DEF TeardownSession, Handed
  <2>2. NoWaiter \in Waiter /\ <<>> \in Seq(Message)
    BY DEF NoWaiter, Waiter
  <2>3. /\ mb' \in Tables
        /\ mb'.box = <<>> /\ mb'.reservation = NoReservation /\ mb'.barrier = FALSE
        /\ mb'.receipts = mb.receipts /\ mb'.settlements = mb.settlements
    BY <2>1, <2>2 DEF Tables
  <2>4. Sound(mb, handed, accepted, offered, cleared, FALSE)
    BY <2>1
  <2>5. Sound(mb', handed, accepted, offered, cleared', TRUE)
    BY <2>1, <2>3, <2>4, TeardownSound
  <2>6. cleared' \subseteq Message
    BY <2>1, MessageFacts DEF History, Mail
  <2> QED
    BY <2>1, <2>3, <2>5, <2>6 DEF MailInv, TypeOK, History
<1> QED
  BY <1>1, <1>2, <1>3, <1>4 DEF Recipient

\* Every step keeps the invariant.
LEMMA NextInv ==
  ASSUME MailInv, [Next]_vars
  PROVE  MailInv'
<1>1. CASE Next
  BY <1>1, SendInv, WaitInv, ReadInv, SettleInv, RecipientInv DEF Next
<1>2. CASE UNCHANGED vars
  BY <1>2 DEF vars, MailInv, TypeOK
<1> QED
  BY <1>1, <1>2

\* The mailbox keeps its inductive invariant: one batch per receipt, the batch at the front
\* of an ordered mailbox behind a barrier, and every accepted message accounted for.
THEOREM MailInvHolds == Spec => []MailInv
<1>1. Init => MailInv
  BY InitInv
<1>2. MailInv /\ [Next]_vars => MailInv'
  BY NextInv
<1> QED
  BY <1>1, <1>2, PTL DEF Spec

\* A set of places with at most one element.
LEMMA AtMostOne ==
  ASSUME NEW S, \A i, j \in S : i = j
  PROVE  Cardinality(S) <= 1
<1>1. CASE S = {}
  BY <1>1, FS_EmptySet
<1>2. CASE S # {}
  <2>1. PICK i \in S : TRUE
    BY <1>2
  <2>2. S = {i}
    BY <2>1
  <2>3. Cardinality({i}) = 1
    BY FS_Singleton
  <2> QED
    BY <2>2, <2>3
<1> QED
  BY <1>1, <1>2

\* No mail is lost or shown twice (MailSafety): what send_agent_message accepted is in the
\* mailbox until it is in the recipient's conversation, exactly once, whatever receipts are
\* committed, dropped or overtaken by a teardown.
THEOREM MailSafetyHolds == Spec => []MailSafety
<1>1. MailInv => MailSafety
  <2> SUFFICES ASSUME MailInv, NEW i \in 1..accepted
               PROVE  LET inBox == {k \in DOMAIN mb.box : mb.box[k].id = i}
                          shown == {k \in DOMAIN handed : handed[k].id = i}
                      IN  /\ Cardinality(shown) <= 1 /\ Cardinality(inBox) <= 1
                          /\ shown = {} /\ inBox = {} => \E x \in cleared : x.id = i
                          /\ shown # {} => \A k \in inBox : Acknowledged(mb, mb.box[k])
    BY DEF MailSafety, MailConserved, MailInv
  <2> DEFINE inBox == {k \in DOMAIN mb.box : mb.box[k].id = i}
             shown == {k \in DOMAIN handed : handed[k].id = i}
  <2>1. Sound(mb, handed, accepted, offered, cleared, torn) /\ mb.box \in Seq(Message)
    BY StateFacts
  <2>2. Cardinality(shown) <= 1
    <3>1. \A k, l \in shown : k = l
      BY <2>1 DEF Sound, Shown
    <3> QED
      BY <3>1, AtMostOne
  <2>3. Cardinality(inBox) <= 1
    <3>1. \A k, l \in inBox : k = l
      BY <2>1, OrderedFacts DEF Sound, Queued
    <3> QED
      BY <3>1, AtMostOne
  <2>4. shown = {} /\ inBox = {} => \E x \in cleared : x.id = i
    BY <2>1 DEF Sound, Accounted, Mail, ToSet
  <2>5. shown # {} => \A k \in inBox : Acknowledged(mb, mb.box[k])
    BY <2>1 DEF Sound, Shown, Mail, ToSet
  <2> QED
    BY <2>2, <2>3, <2>4, <2>5
<1> QED
  BY <1>1, MailInvHolds, PTL

\* What MailInOrder asks of a step.
InOrderStep ==
  \A x \in ToSet(handed') \ Handed :
    \A o \in Mail(mb') \ ToSet(handed') :
      o.id < x.id => x.kind = "message" /\ o \notin offered

\* Newer mail never passes a batch that was offered and not yet read (MailInOrder), for every
\* capacity, batch limit and number of messages.
THEOREM MailInOrderHolds == Spec => MailInOrder
<1>1. MailInv /\ [Next]_vars => [InOrderStep]_vars
  <2> SUFFICES ASSUME MailInv, Next PROVE InOrderStep
    OBVIOUS
  <2> USE StateFacts
  <2>1. CASE handed' = handed
    BY <2>1 DEF InOrderStep, Handed
  <2>2. ASSUME NEW kind \in Kinds, NEW admission \in Admissions, SendAsWake(kind, admission)
        PROVE  InOrderStep
    <3>1. mb' = WakeChild(mb, admission) /\ mb.box = <<>>
      BY <2>2 DEF SendAsWake, BehindBarrier
    <3>2. mb'.box = <<>>
      <4>1. SameMail(mb, WakeChild(mb, admission))
        BY WakeSound
      <4> QED
        BY <3>1, <4>1 DEF SameMail
    <3> QED
      BY <3>2, MessageFacts DEF InOrderStep, Mail
  <2>3. ASSUME NEW kind \in Kinds, SendLive(kind) PROVE InOrderStep
    <3>1. /\ kind = "message" /\ ~mb.barrier /\ mb' = Attended
          /\ handed' = Append(handed, NextMessage(kind)) /\ accepted < MaxMessages
      BY <2>3 DEF SendLive, Unattended, BehindBarrier, CanAddress
    <3>2. mb'.box = mb.box
      BY <3>1, AttendedFacts DEF SameMail
    <3>3. \A o \in Mail(mb') : o \notin offered
      BY <3>1, <3>2 DEF Sound, Guarded, Mail
    <3>4. NextMessage(kind) \in Message /\ NextMessage(kind).kind = "message"
      BY <3>1, NewMessage
    <3>5. \A x \in ToSet(handed') \ Handed : x = NextMessage(kind)
      BY <3>1, <3>4, ToSetFacts DEF History, Handed
    <3> QED
      BY <3>3, <3>4, <3>5 DEF InOrderStep
  <2>4. ASSUME NEW b \in mb.receipts, CommitBatch(b) PROVE InOrderStep
    <3>1. mb' = Returned(mb, b, TRUE) /\ handed' = handed \o b.messages
      BY <2>4 DEF CommitBatch, Return, Returned
    <3>2. mb'.box = mb.box
      BY <3>1 DEF Returned, Tables
    <3>3. b.messages \in Seq(Message) /\ handed \in Seq(Message)
      BY TableFacts DEF History
    <3>4. \A x : x \in ToSet(handed') <=> x \in ToSet(handed) \/ x \in ToSet(b.messages)
      <4>1. CASE b.messages = <<>>
        BY <3>1, <3>3, <4>1, MessageFacts
      <4>2. CASE b.messages # <<>>
        <5>1. b.messages[1] \in Message
          BY <3>3, <4>2
        <5> QED
          BY <3>1, <3>3, <5>1, ToSetFacts
      <4> QED
        BY <4>1, <4>2
    <3> SUFFICES ASSUME NEW x \in ToSet(b.messages), NEW o \in Mail(mb), o.id < x.id,
                        o \notin ToSet(b.messages)
                 PROVE  FALSE
      BY <3>2, <3>4 DEF InOrderStep, Handed, Mail
    <3>5. x.id \in Nat /\ o.id \in Nat
      BY <3>3, MessageFacts DEF Mail
    <3>6. CASE b.generation # mb.reservation.generation
      <4>1. x.id < o.id
        BY <3>6 DEF Sound, Unshown
      <4> QED
        BY <3>5, <4>1
    <3>7. CASE b.generation = mb.reservation.generation
      <4>1. b = mb.reservation
        BY <3>7 DEF Sound, OneBatch
      <4>2. PICK k \in DOMAIN b.messages : x = b.messages[k]
        BY DEF ToSet
      <4>3. PICK l \in DOMAIN mb.box : o = mb.box[l]
        BY DEF Mail, ToSet
      <4>4. k \in DOMAIN mb.box /\ x = mb.box[k]
        BY <4>1, <4>2 DEF Sound, Queued
      <4>5. DOMAIN b.messages = 1..Len(b.messages) /\ Len(b.messages) \in Nat
        BY <3>3
      <4>6. k \in Nat /\ l \in Nat /\ l # 0 /\ k <= Len(b.messages)
        BY <4>2, <4>3, <4>5
      <4>7. l < k
        <5>1. ~(k < l)
          BY <3>5, <4>3, <4>4 DEF Sound, Queued, Ordered
        <5>2. k # l
          BY <3>5, <4>3, <4>4
        <5> QED
          BY <4>6, <5>1, <5>2
      <4>8. l \in DOMAIN b.messages
        BY <4>5, <4>6, <4>7
      <4>9. b.messages[l] = mb.box[l]
        BY <4>1, <4>8 DEF Sound, Queued
      <4> QED
        BY <4>3, <4>8, <4>9 DEF ToSet
    <3> QED
      BY <3>6, <3>7
  <2>5. CASE Started
    <3>1. PICK pushed \in Seq(Message), left \in Seq(Message) :
             /\ \A y \in ToSet(pushed) : y \in Mail(mb) /\ y.kind = "message"
             /\ \A y : y \in ToSet(left) <=> y \in Mail(mb) /\ y \notin ToSet(pushed)
             /\ mb.barrier => pushed = <<>>
             /\ mb'.box = left /\ handed' = handed \o pushed
      BY <2>5, StartedEffect
    <3>2. CASE mb.barrier
      BY <2>1, <3>1, <3>2 DEF History
    <3>3. CASE ~mb.barrier
      <4>1. \A x \in ToSet(handed') \ Handed : x.kind = "message"
        <5>1. CASE pushed = <<>>
          BY <3>1, <5>1 DEF Handed, History
        <5>2. CASE pushed # <<>>
          <6>1. pushed[1] \in Message
            BY <5>2
          <6>2. ToSet(handed') = ToSet(handed) \union ToSet(pushed)
            BY <3>1, <6>1, ToSetFacts DEF History
          <6> QED
            BY <3>1, <6>2 DEF Handed
        <5> QED
          BY <5>1, <5>2
      <4>2. \A o \in Mail(mb') : o \notin offered
        BY <3>1, <3>3 DEF Sound, Guarded, Mail
      <4> QED
        BY <4>1, <4>2 DEF InOrderStep
    <3> QED
      BY <3>2, <3>3
  <2>6. \/ handed' = handed
        \/ \E kind \in Kinds, admission \in Admissions : SendAsWake(kind, admission)
        \/ \E kind \in Kinds : SendLive(kind)
        \/ \E b \in mb.receipts : CommitBatch(b)
        \/ Started
    BY DEF Next, Send, Wait, Read, Settle, Recipient, SendBehindBarrier, SendToWaiter, SendQueued,
           SendRefused, WaitBatch, WaitBlocks, CallerLeaves, DeadlinePasses, ExpireWaiter,
           DropBatch, SettleMailbox, StartQueued, FinishChild, SessionCloses, RootLoads,
           TeardownSession
  <2> QED
    BY <2>1, <2>2, <2>3, <2>4, <2>5, <2>6
<1> QED
  BY <1>1, MailInvHolds, PTL DEF Spec, MailInOrder, InOrderStep
=============================================================================
