---------------------------- MODULE LinksProofs -----------------------------
(***************************************************************************)
(* Proofs about three of the connections to other programs.  The relay of  *)
(* the MQTT listener, for a ring of any size and any number of connection  *)
(* threads, messages and payload buffers: the ring hands the messages over *)
(* in the order in which it took them.  The gateway, for any clusters,     *)
(* endpoints, threads and descriptors: a socket has one owner, a frame     *)
(* goes to the cluster it is for, and a dial that was overtaken is not     *)
(* installed.  And the link of a leaf to its hub, for any subjects and     *)
(* descriptors and any range of ids: the hub has recorded the leaf's       *)
(* interest while the link is up, a socket has one owner, and a connect    *)
(* that was overtaken does not bring the link up.                          *)
(***************************************************************************)
EXTENDS Links, SequenceTheorems, FiniteSetTheorems, WellFoundedInduction, TLAPS

-----------------------------------------------------------------------------
(* Smallest and greatest elements, and owners that are counted.              *)

(* A set of numbers that is not empty has a smallest element.                *)
LEMMA Least ==
  ASSUME NEW S, S \subseteq Nat, S # {}
  PROVE  \E x \in S : \A y \in S : x <= y
<1>1. PICK k \in S : \A j \in S : ~(<<j, k>> \in OpToRel(<, Nat))
  BY NatLessThanWellFounded, WFMin
<1>2. \A j \in S : ~(j < k)
  BY <1>1, Zenon DEF OpToRel
<1> QED BY <1>2

(* A set of numbers up to n that is not empty has a greatest element.        *)
LEMMA Greatest ==
  ASSUME NEW n \in Nat, NEW S, S \subseteq 0..n, S # {}
  PROVE  \E x \in S : \A y \in S : x >= y
<1> DEFINE T == {n - x : x \in S}
<1>1. \A x \in S : n - x \in Nat
  OBVIOUS
<1>a. T \subseteq Nat /\ T # {}
  BY <1>1
<1>2. PICK k \in T : \A j \in T : k <= j
  BY <1>a, Least
<1>3. PICK x \in S : k = n - x
  OBVIOUS
<1>4. \A y \in S : n - x <= n - y
  BY <1>2, <1>3
<1> QED BY <1>4

(* An element of a sequence.                                                 *)
LEMMA Element ==
  ASSUME NEW S, NEW s \in Seq(S), NEW j \in DOMAIN s
  PROVE  s[j] \in S
  BY ElementOfSeq, LenProperties

(* The owners of a socket: none, or one of two kinds.                        *)
LEMMA Counted ==
  ASSUME NEW S, NEW T
  PROVE  /\ S = {} /\ T = {} => Cardinality(S) + Cardinality(T) = 0
         /\ \A x : S = {x} /\ T = {} => Cardinality(S) + Cardinality(T) = 1
         /\ \A x : S = {} /\ T = {x} => Cardinality(S) + Cardinality(T) = 1
<1>1. Cardinality({}) = 0
  BY FS_EmptySet
<1>2. \A x : Cardinality({x}) = 1
  BY FS_Singleton
<1>3. \A x : (0 + 0 = 0) /\ (1 + 0 = 1) /\ (0 + 1 = 1)
  OBVIOUS
<1> QED BY <1>1, <1>2, <1>3, Zenon

(* A function on the first n numbers is a sequence.                          *)
LEMMA CountedSeq ==
  ASSUME NEW S, NEW n \in Nat, NEW s \in [1..n -> S]
  PROVE  s \in Seq(S)
  BY SeqDef

-----------------------------------------------------------------------------
(* The relay of the MQTT listener.                                           *)

(* The buffers a slot, a thread or the free list may name.                   *)
AnyBuf == Bufs \cup {NoBuf}
Indices == 0..RingSize - 1

(* The types of the variables.                                               *)
TypeOK ==
  /\ slots \in [Indices -> [msg : Nat, buf : AnyBuf]]
  /\ head \in Indices /\ tail \in Indices /\ count \in 0..RingSize
  /\ freelist \in Seq(AnyBuf)
  /\ pub \in [Threads -> [op : {"idle", "copied"}, buf : AnyBuf, msg : Nat]]
  /\ relay \in [op : {"idle", "wait", "gone", "taken", "refused"}, buf : AnyBuf,
                msg : Nat, at : Indices]
  /\ dying \in {"no", "yes", "done"}
  /\ taken \in Seq(Nat)
  /\ sent \in Seq([msg : Nat, topic : Nat, full : BOOLEAN])
  /\ used \in [msgs : Nat, trouble : Nat]

(* The slot i places after slot t.                                           *)
Place(t, i) == (t + i) % RingSize

(* The messages of c entries from slot t on.                                 *)
RingOf(s, t, c) == [i \in 1..c |-> s[(t + i - 1) % RingSize].msg]

(* head is the first free slot; the message in hand came from the slot just  *)
(* before tail, which keeps its topic until the ring is full.                *)
RingInv ==
  /\ head = Place(tail, count)
  /\ dying = "done" => relay.op = "gone"
  /\ relay.op = "taken" =>
       /\ tail = After(relay.at)
       /\ slots[relay.at].msg = relay.msg \/ count = RingSize

IInv == TypeOK /\ RingInv /\ RelayFifo

(* What enqueueing an entry does not settle by itself.                       *)
OthersTyped ==
  /\ freelist \in Seq(AnyBuf)
  /\ pub \in [Threads -> [op : {"idle", "copied"}, buf : AnyBuf, msg : Nat]]
  /\ used \in [msgs : Nat, trouble : Nat]

-----------------------------------------------------------------------------
(* Places in the ring.                                                       *)

(* Quotient and remainder.                                                   *)
LEMMA DivMod ==
  ASSUME NEW N \in Nat \ {0}, NEW a \in Nat
  PROVE  a = N * (a \div N) + (a % N) /\ a \div N \in Nat /\ a % N \in 0..N - 1
  OBVIOUS

(* A number below twice the size of the ring wraps at most once.             *)
LEMMA Wrap ==
  ASSUME NEW N \in Nat \ {0}, NEW a \in Nat, a < 2 * N
  PROVE  a % N = IF a < N THEN a ELSE a - N
<1> DEFINE q == a \div N
<1>1. a = N * q + (a % N) /\ q \in Nat /\ a % N \in 0..N - 1
  BY DivMod
<1> HIDE DEF q
<1>2. q = 0 \/ q = 1 \/ q >= 2
  BY <1>1
<1>3. q >= 2 => N * q >= 2 * N
  BY <1>1
<1>4. q = 0 => N * q = 0
  OBVIOUS
<1>5. q = 1 => N * q = N
  OBVIOUS
<1> QED BY <1>1, <1>2, <1>3, <1>4, <1>5

(* Where a place is, and what the next place is.                             *)
LEMMA Places ==
  ASSUME NEW t \in Indices
  PROVE  /\ \A i \in 0..RingSize :
               /\ Place(t, i) = IF t + i < RingSize THEN t + i ELSE t + i - RingSize
               /\ Place(t, i) \in Indices
         /\ After(t) = IF t + 1 < RingSize THEN t + 1 ELSE 0
         /\ After(t) \in Indices
<1>1. RingSize \in Nat \ {0} /\ t \in Nat /\ t < RingSize
  BY RelayAssumption DEF Indices
<1>2. ASSUME NEW i \in 0..RingSize
      PROVE  Place(t, i) = IF t + i < RingSize THEN t + i ELSE t + i - RingSize
  <2> DEFINE a == t + i
  <2>1. a \in Nat /\ a < 2 * RingSize
    BY <1>1
  <2>2. Place(t, i) = a % RingSize
    BY DEF Place
  <2>3. a - RingSize = t + i - RingSize /\ a = t + i
    BY <1>1
  <2> HIDE DEF a
  <2>4. a % RingSize = IF a < RingSize THEN a ELSE a - RingSize
    BY <1>1, <2>1, Wrap
  <2> QED BY <2>2, <2>3, <2>4
<1>3. After(t) = IF t + 1 < RingSize THEN t + 1 ELSE 0
  <2> DEFINE a == t + 1
  <2>1. a \in Nat /\ a < 2 * RingSize /\ a <= RingSize
    BY <1>1
  <2>2. After(t) = a % RingSize
    BY DEF After
  <2> HIDE DEF a
  <2>3. a % RingSize = IF a < RingSize THEN a ELSE a - RingSize
    BY <1>1, <2>1, Wrap
  <2>4. After(t) = IF a < RingSize THEN a ELSE 0
    BY <1>1, <2>1, <2>2, <2>3
  <2> QED BY <2>4 DEF a
<1> QED BY <1>1, <1>2, <1>3 DEF Indices

(* A piece of the ring as a sequence.                                        *)
LEMMA Entries ==
  ASSUME NEW s \in [Indices -> [msg : Nat, buf : AnyBuf]], NEW t \in Indices,
         NEW c \in 0..RingSize
  PROVE  /\ RingOf(s, t, c) \in Seq(Nat) /\ Len(RingOf(s, t, c)) = c
         /\ \A i \in 1..c : RingOf(s, t, c)[i] = s[Place(t, i - 1)].msg
<1> DEFINE r == RingOf(s, t, c)
<1>1. RingSize \in Nat \ {0} /\ t \in Nat /\ c \in Nat
  BY RelayAssumption DEF Indices
<1>2. ASSUME NEW i \in 1..c
      PROVE  (t + i - 1) % RingSize = Place(t, i - 1) /\ Place(t, i - 1) \in Indices
  <2>1. i - 1 \in 0..RingSize /\ i \in Int
    BY <1>1
  <2>2. t + i - 1 = t + (i - 1)
    BY <1>1, <2>1
  <2>3. Place(t, i - 1) \in Indices
    BY <2>1, Places
  <2> QED BY <2>2, <2>3 DEF Place
<1>3. \A i \in 1..c : s[(t + i - 1) % RingSize].msg \in Nat
  BY <1>2
<1>4. r \in [1..c -> Nat]
  BY <1>3 DEF RingOf
<1>5. r \in Seq(Nat) /\ Len(r) = c
  <2> HIDE DEF r
  <2>1. r \in Seq(Nat)
    BY <1>1, <1>4, SeqDef, Zenon
  <2>2. DOMAIN r = 1..c
    BY <1>4
  <2> QED BY <1>1, <2>1, <2>2, LenProperties
<1>6. ASSUME NEW i \in 1..c
      PROVE  r[i] = s[Place(t, i - 1)].msg
  <2>1. (t + i - 1) % RingSize = Place(t, i - 1)
    BY <1>2
  <2>2. r[i] = s[(t + i - 1) % RingSize].msg
    BY DEF RingOf
  <2> QED BY <2>1, <2>2
<1> QED BY <1>5, <1>6

(* What was handed over, what is in hand and what is in the ring are          *)
(* sequences of messages.                                                    *)
LEMMA Handed ==
  ASSUME TypeOK
  PROVE  /\ Given \in Seq(Nat) /\ Len(Given) = Len(sent) /\ Held \in Seq(Nat)
         /\ \A i \in 1..Len(sent) : Given[i] = sent[i].msg
         /\ InRing = RingOf(slots, tail, count)
         /\ InRing \in Seq(Nat) /\ Len(InRing) = count
<1>1. DOMAIN sent = 1..Len(sent) /\ Len(sent) \in Nat
  BY DEF TypeOK
<1>2. \A i \in 1..Len(sent) : sent[i].msg \in Nat
  <2> DEFINE S == [msg : Nat, topic : Nat, full : BOOLEAN]
  <2>1. sent \in Seq(S)
    BY DEF TypeOK
  <2>2. \A s \in S : s.msg \in Nat
    OBVIOUS
  <2> HIDE DEF S
  <2> QED BY <2>1, <2>2, ElementOfSeq
<1>3. Given \in Seq(Nat) /\ DOMAIN Given = 1..Len(sent)
  <2>1. Given \in [1..Len(sent) -> Nat]
    BY <1>1, <1>2 DEF Given
  <2> QED BY <1>1, <2>1, SeqDef, Zenon
<1>4. Len(Given) = Len(sent)
  BY <1>1, <1>3, LenProperties
<1>5. Held \in Seq(Nat)
  BY DEF Held, TypeOK
<1>6. InRing = RingOf(slots, tail, count)
  BY DEF InRing, RingOf
<1>7. InRing \in Seq(Nat) /\ Len(InRing) = count
  <2>1. /\ slots \in [Indices -> [msg : Nat, buf : AnyBuf]]
        /\ tail \in Indices /\ count \in 0..RingSize
    BY DEF TypeOK
  <2> QED BY <1>6, <2>1, Entries
<1> QED BY <1>1, <1>3, <1>4, <1>5, <1>6, <1>7 DEF Given

-----------------------------------------------------------------------------
(* One lemma per thing that can happen to the ring.                          *)

(* Appending to the last of three joined sequences appends to the whole.     *)
LEMMA JoinedAppend ==
  ASSUME NEW a \in Seq(Nat), NEW b \in Seq(Nat), NEW c \in Seq(Nat), NEW m \in Nat
  PROVE  a \o b \o Append(c, m) = Append(a \o b \o c, m)
<1>1. Append(c, m) = c \o <<m>>
  BY AppendIsConcat
<1>2. <<m>> \in Seq(Nat)
  OBVIOUS
<1> DEFINE d == a \o b
<1>3. d \in Seq(Nat) /\ d \o c \in Seq(Nat)
  OBVIOUS
<1> SUFFICES d \o Append(c, m) = Append(d \o c, m)
  OBVIOUS
<1> HIDE DEF d
<1>4. d \o (c \o <<m>>) = (d \o c) \o <<m>>
  BY <1>2, <1>3, ConcatAssociative
<1>5. Append(d \o c, m) = (d \o c) \o <<m>>
  BY <1>3, AppendIsConcat
<1> QED BY <1>1, <1>4, <1>5

(* An entry goes to the slot behind the newest one: it is the last to leave, *)
(* and the slot the message in hand came from is overwritten only by the     *)
(* entry that fills the ring.                                                *)
LEMMA EnqueueStep ==
  ASSUME IInv, Room, NEW m \in Nat, NEW b \in AnyBuf, Enqueued(m, b),
         relay' = relay, dying' = dying, sent' = sent, OthersTyped'
  PROVE  IInv'
<1>1. TypeOK /\ RingInv /\ RelayFifo /\ RingSize \in Nat \ {0}
  BY RelayAssumption DEF IInv
<1>2. /\ count \in 0..RingSize - 1 /\ tail \in Indices /\ head \in Indices
      /\ tail \in Nat /\ tail < RingSize /\ count \in Nat /\ count < RingSize
  BY <1>1 DEF Room, TypeOK, Indices
<1>3. /\ slots' = [slots EXCEPT ![head] = [msg |-> m, buf |-> b]]
      /\ head' = After(head) /\ count' = count + 1
      /\ taken' = Append(taken, m) /\ tail' = tail
  BY DEF Enqueued
<1>4. TypeOK'
  <2>1. head' \in Indices
    BY <1>1, <1>2, <1>3, Places DEF Indices
  <2>2. slots' \in [Indices -> [msg : Nat, buf : AnyBuf]]
    BY <1>1, <1>3 DEF TypeOK
  <2>3. taken' \in Seq(Nat)
    BY <1>1, <1>3 DEF TypeOK
  <2>4. count' \in 0..RingSize
    BY <1>1, <1>2, <1>3
  <2> QED BY <1>1, <1>2, <1>3, <2>1, <2>2, <2>3, <2>4 DEF TypeOK, OthersTyped
<1>6. head' = Place(tail, count')
  <2>1. /\ head = Place(tail, count) /\ head \in Nat
        /\ count \in 0..RingSize /\ count + 1 \in 0..RingSize
    BY <1>1, <1>2 DEF RingInv, Indices
  <2>2. /\ Place(tail, count) = IF tail + count < RingSize THEN tail + count
                                ELSE tail + count - RingSize
        /\ Place(tail, count + 1) = IF tail + (count + 1) < RingSize
                                    THEN tail + (count + 1)
                                    ELSE tail + (count + 1) - RingSize
        /\ After(head) = IF head + 1 < RingSize THEN head + 1 ELSE 0
    BY <1>2, <2>1, Places
  <2>3. Place(tail, count + 1) = After(head)
    <3>1. CASE tail + count < RingSize
      BY <1>1, <1>2, <2>1, <2>2, <3>1
    <3>2. CASE ~(tail + count < RingSize)
      BY <1>1, <1>2, <2>1, <2>2, <3>2
    <3> QED BY <3>1, <3>2
  <2> QED BY <1>3, <2>3
<1>7. ASSUME NEW i \in 0..count - 1
      PROVE  Place(tail, i) # head /\ Place(tail, i) \in Indices
  <2>1. i \in 0..RingSize /\ count \in 0..RingSize /\ i < count
    BY <1>1, <1>2
  <2>2. /\ Place(tail, i) = IF tail + i < RingSize THEN tail + i ELSE tail + i - RingSize
        /\ Place(tail, count) = IF tail + count < RingSize THEN tail + count
                                ELSE tail + count - RingSize
        /\ Place(tail, i) \in Indices
    BY <1>2, <2>1, Places
  <2> QED BY <1>1, <1>2, <2>1, <2>2 DEF RingInv
<1>8. RingInv'
  <2>1. relay.op = "taken" => slots'[relay.at].msg = relay.msg \/ count' = RingSize
    <3>1. SUFFICES ASSUME relay.op = "taken", relay.at = head
                   PROVE  count' = RingSize
      BY <1>1, <1>2, <1>3 DEF RingInv, TypeOK
    <3>2. tail = After(head) /\ head = Place(tail, count)
      BY <1>1, <3>1 DEF RingInv
    <3>3. /\ Place(tail, count) = IF tail + count < RingSize THEN tail + count
                                  ELSE tail + count - RingSize
          /\ After(head) = IF head + 1 < RingSize THEN head + 1 ELSE 0
      <4>1. count \in 0..RingSize
        BY <1>1, <1>2
      <4> QED BY <1>2, <4>1, Places
    <3>4. head \in Nat
      BY <1>2 DEF Indices
    <3>5. tail + count < RingSize => count + 1 = RingSize
      BY <1>1, <1>2, <3>2, <3>3, <3>4
    <3>6. ~(tail + count < RingSize) => count + 1 = RingSize
      BY <1>1, <1>2, <3>2, <3>3, <3>4
    <3> QED BY <1>3, <3>5, <3>6
  <2>2. head' = Place(tail, count)'
    BY <1>3, <1>6 DEF Place
  <2>3. After(relay.at)' = After(relay.at)
    BY DEF After
  <2> QED BY <1>1, <1>3, <2>1, <2>2, <2>3 DEF RingInv, After
<1>9. InRing' = Append(InRing, m)
  <2>1. /\ InRing \in Seq(Nat) /\ Len(InRing) = count
        /\ \A i \in 1..count : InRing[i] = slots[Place(tail, i - 1)].msg
    <3>1. slots \in [Indices -> [msg : Nat, buf : AnyBuf]] /\ count \in 0..RingSize
      BY <1>1 DEF TypeOK
    <3>2. InRing = RingOf(slots, tail, count)
      BY DEF InRing, RingOf
    <3> QED BY <1>2, <3>1, <3>2, Entries
  <2>2. /\ InRing' \in Seq(Nat) /\ Len(InRing') = count + 1
        /\ \A i \in 1..count + 1 : InRing'[i] = slots'[Place(tail, i - 1)].msg
    <3> DEFINE s == slots'
    <3> DEFINE c == count + 1
    <3>1. s \in [Indices -> [msg : Nat, buf : AnyBuf]] /\ c \in 0..RingSize
      BY <1>3, <1>4 DEF TypeOK
    <3>2. InRing' = RingOf(s, tail, c)
      BY <1>3 DEF InRing, RingOf
    <3>3. tail \in Indices
      BY <1>2
    <3> SUFFICES /\ InRing' \in Seq(Nat) /\ Len(InRing') = c
                 /\ \A i \in 1..c : InRing'[i] = s[Place(tail, i - 1)].msg
      OBVIOUS
    <3> HIDE DEF s, c
    <3>4. /\ RingOf(s, tail, c) \in Seq(Nat) /\ Len(RingOf(s, tail, c)) = c
          /\ \A i \in 1..c : RingOf(s, tail, c)[i] = s[Place(tail, i - 1)].msg
      BY <3>1, <3>3, Entries, Zenon
    <3> QED BY <3>2, <3>4, Zenon
  <2>3. Append(InRing, m) \in Seq(Nat) /\ Len(Append(InRing, m)) = count + 1
    BY <2>1
  <2>4. ASSUME NEW i \in 1..count + 1
        PROVE  InRing'[i] = Append(InRing, m)[i]
    <3>1. CASE i = count + 1
      <4>1. i - 1 = count
        BY <1>2, <3>1
      <4>2. slots'[Place(tail, count)].msg = m
        BY <1>1, <1>2, <1>3 DEF RingInv, TypeOK
      <4>3. Append(InRing, m)[i] = m
        BY <2>1, <3>1
      <4> QED BY <2>2, <4>1, <4>2, <4>3
    <3>2. CASE i \in 1..count
      <4>1. i - 1 \in 0..count - 1
        BY <1>2, <3>2
      <4>2. slots'[Place(tail, i - 1)] = slots[Place(tail, i - 1)]
        BY <1>1, <1>3, <1>7, <4>1 DEF TypeOK
      <4>3. Append(InRing, m)[i] = InRing[i]
        BY <2>1, <3>2
      <4> QED BY <2>1, <2>2, <3>2, <4>2, <4>3
    <3>3. i = count + 1 \/ i \in 1..count
      BY <1>2
    <3> QED BY <3>1, <3>2, <3>3
  <2> QED BY <2>2, <2>3, <2>4, SeqEqual
<1>10. RelayFifo'
  <2>1. Given' = Given /\ Held' = Held
    BY DEF Given, Held
  <2>2. Given \in Seq(Nat) /\ Held \in Seq(Nat) /\ InRing \in Seq(Nat)
    BY <1>1, Handed
  <2> HIDE DEF Given, Held, InRing
  <2>3. Given \o Held \o Append(InRing, m) = Append(Given \o Held \o InRing, m)
    BY <2>2, JoinedAppend, Zenon
  <2> QED BY <1>1, <1>3, <1>9, <2>1, <2>3 DEF RelayFifo
<1> QED BY <1>4, <1>8, <1>10 DEF IInv

(* The relay thread takes the oldest entry: it leaves the ring and is in     *)
(* hand, and its slot is the one before the new tail.                        *)
LEMMA TakeStep ==
  ASSUME IInv, RelayTake
  PROVE  IInv'
<1>1. TypeOK /\ RingInv /\ RelayFifo /\ RingSize \in Nat \ {0}
  BY RelayAssumption DEF IInv
<1>2. /\ count \in 1..RingSize /\ tail \in Indices /\ head \in Indices
      /\ tail \in Nat /\ tail < RingSize /\ count \in Nat /\ count > 0
      /\ slots \in [Indices -> [msg : Nat, buf : AnyBuf]]
  BY <1>1 DEF RelayTake, TypeOK, Indices
<1>3. /\ relay.op = "wait"
      /\ relay' = [op |-> "taken", buf |-> slots[tail].buf, msg |-> slots[tail].msg,
                   at |-> tail]
      /\ tail' = After(tail) /\ count' = count - 1
      /\ slots' = slots /\ head' = head /\ taken' = taken /\ sent' = sent /\ dying' = dying
      /\ UNCHANGED <<freelist, pub, used>>
  BY DEF RelayTake
<1>4. After(tail) \in Indices /\ count - 1 \in 0..RingSize - 1
  BY <1>1, <1>2, Places
<1>5. TypeOK'
  <2>1. relay' \in [op : {"idle", "wait", "gone", "taken", "refused"}, buf : AnyBuf,
                    msg : Nat, at : Indices]
    BY <1>2, <1>3
  <2>2. count' \in 0..RingSize
    BY <1>1, <1>3, <1>4
  <2> QED BY <1>1, <1>3, <1>4, <2>1, <2>2 DEF TypeOK
<1>6. ASSUME NEW i \in 0..count - 1
      PROVE  Place(After(tail), i) = Place(tail, i + 1)
  <2>1. i \in 0..RingSize /\ i + 1 \in 0..RingSize /\ After(tail) \in Nat
    BY <1>1, <1>2, <1>4 DEF Indices
  <2>2. After(tail) = IF tail + 1 < RingSize THEN tail + 1 ELSE 0
    BY <1>2, Places
  <2>3. Place(tail, i + 1) = IF tail + (i + 1) < RingSize THEN tail + (i + 1)
                             ELSE tail + (i + 1) - RingSize
    BY <1>2, <2>1, Places
  <2>4. Place(After(tail), i) = IF After(tail) + i < RingSize THEN After(tail) + i
                                ELSE After(tail) + i - RingSize
    BY <1>4, <2>1, Places
  <2>5. CASE tail + 1 < RingSize
    BY <1>1, <1>2, <2>1, <2>2, <2>3, <2>4, <2>5
  <2>6. CASE tail + 1 = RingSize
    <3>1. After(tail) = 0
      BY <1>1, <2>2, <2>6
    <3>2. i < RingSize
      BY <1>1, <1>2
    <3> QED BY <1>1, <1>2, <2>1, <2>3, <2>4, <2>6, <3>1, <3>2
  <2> QED BY <1>1, <1>2, <2>5, <2>6
<1>7. RingInv'
  <2>1. head' = Place(tail, count)'
    <3>1. Place(After(tail), count - 1) = Place(tail, count - 1 + 1)
      BY <1>2, <1>6
    <3>2. count - 1 + 1 = count
      BY <1>2
    <3>3. head = Place(tail, count)
      BY <1>1 DEF RingInv
    <3>4. Place(tail, count)' = Place(After(tail), count - 1)
      BY <1>3 DEF Place
    <3> QED BY <1>3, <3>1, <3>2, <3>3, <3>4
  <2>2. dying # "done"
    BY <1>1, <1>3 DEF RingInv
  <2>3. After(relay.at)' = After(tail) /\ slots'[relay'.at].msg = relay'.msg
    BY <1>3 DEF After
  <2> QED BY <1>3, <2>1, <2>2, <2>3 DEF RingInv
<1>8. InRing = <<slots[tail].msg>> \o InRing'
  <2> DEFINE m == slots[tail].msg
             r == RingOf(slots, After(tail), count - 1)
             o == RingOf(slots, tail, count)
  <2>1. m \in Nat
    BY <1>2
  <2>2. /\ o \in Seq(Nat) /\ Len(o) = count
        /\ \A i \in 1..count : o[i] = slots[Place(tail, i - 1)].msg
    <3>1. count \in 0..RingSize
      BY <1>1, <1>2
    <3> QED BY <1>2, <3>1, Entries
  <2>3. /\ r \in Seq(Nat) /\ Len(r) = count - 1
        /\ \A i \in 1..count - 1 : r[i] = slots[Place(After(tail), i - 1)].msg
    <3>1. count - 1 \in 0..RingSize
      BY <1>1, <1>2
    <3> QED BY <1>2, <1>4, <3>1, Entries
  <2>4. InRing = o /\ InRing' = r
    BY <1>3 DEF InRing, RingOf
  <2> HIDE DEF m, r, o
  <2>5. /\ <<m>> \o r \in Seq(Nat) /\ Len(<<m>> \o r) = count
        /\ (<<m>> \o r)[1] = m
        /\ \A i \in 2..count : (<<m>> \o r)[i] = r[i - 1]
    BY <1>2, <2>1, <2>3
  <2>6. ASSUME NEW i \in 1..count
        PROVE  o[i] = (<<m>> \o r)[i]
    <3>1. CASE i = 1
      <4>1. Place(tail, 0) = tail
        <5>1. 0 \in 0..RingSize /\ tail + 0 = tail
          BY <1>1, <1>2
        <5> QED BY <1>2, <5>1, Places
      <4>2. o[1] = slots[Place(tail, 1 - 1)].msg /\ 1 - 1 = 0
        BY <1>2, <2>2
      <4> QED BY <2>5, <3>1, <4>1, <4>2 DEF m
    <3>2. CASE i \in 2..count
      <4> DEFINE k == i - 1
      <4>1. k \in 1..count - 1 /\ k - 1 \in 0..count - 1 /\ k - 1 + 1 = i - 1
        BY <1>2, <3>2
      <4>2. (<<m>> \o r)[i] = r[k] /\ o[i] = slots[Place(tail, i - 1)].msg
        BY <2>2, <2>5, <3>2
      <4> HIDE DEF k
      <4>3. r[k] = slots[Place(After(tail), k - 1)].msg
        BY <2>3, <4>1
      <4>4. Place(After(tail), k - 1) = Place(tail, k - 1 + 1)
        BY <1>6, <4>1
      <4> QED BY <4>1, <4>2, <4>3, <4>4
    <3>3. i = 1 \/ i \in 2..count
      BY <1>2
    <3> QED BY <3>1, <3>2, <3>3
  <2>7. o = <<m>> \o r
    BY <2>2, <2>5, <2>6, SeqEqual
  <2> QED BY <2>4, <2>7 DEF m
<1>9. RelayFifo'
  <2>1. Given' = Given /\ Held = <<>> /\ Held' = <<slots[tail].msg>>
    BY <1>3 DEF Given, Held
  <2>2. /\ Given \in Seq(Nat) /\ InRing' \in Seq(Nat)
        /\ <<slots[tail].msg>> \in Seq(Nat)
    <3>1. Given \in Seq(Nat)
      BY <1>1, Handed
    <3>2. InRing' \in Seq(Nat)
      <4>1. InRing' = RingOf(slots, After(tail), count - 1)
        BY <1>3 DEF InRing, RingOf
      <4>2. count - 1 \in 0..RingSize
        BY <1>1, <1>2
      <4> QED BY <1>2, <1>4, <4>1, <4>2, Entries
    <3> QED BY <1>2, <3>1, <3>2
  <2> HIDE DEF Given, Held, InRing
  <2>3. /\ Given \o <<>> = Given
        /\ Given \o (<<slots[tail].msg>> \o InRing')
             = (Given \o <<slots[tail].msg>>) \o InRing'
    BY <2>2, ConcatAssociative, ConcatEmptySeq
  <2>4. Given \o Held \o InRing = (Given \o Held \o InRing)'
    BY <1>8, <2>1, <2>3
  <2> QED BY <1>1, <1>3, <2>4 DEF RelayFifo
<1> QED BY <1>5, <1>7, <1>9 DEF IInv

(* The message in hand is handed over, with the topic its slot has now.      *)
LEMMA PublishStep ==
  ASSUME IInv, RelayPublish
  PROVE  IInv'
<1>1. TypeOK /\ RingInv /\ RelayFifo /\ RingSize \in Nat \ {0}
  BY RelayAssumption DEF IInv
<1> DEFINE e == [msg |-> relay.msg, topic |-> slots[relay.at].msg, full |-> count = RingSize]
<1>2. /\ relay.op = "taken" /\ sent' = Append(sent, e)
      /\ relay' = Resting \/ relay' = [relay EXCEPT !.op = "refused"]
      /\ UNCHANGED <<slots, head, tail, count, taken, freelist, pub, dying>>
      /\ used' = used \/ used' = [used EXCEPT !["trouble"] = @ + 1]
  BY DEF RelayPublish, ring, Spend
<1>3. e \in [msg : Nat, topic : Nat, full : BOOLEAN]
  BY <1>1 DEF TypeOK
<1>4. /\ relay'.op \in {"idle", "refused"}
      /\ relay' \in [op : {"idle", "wait", "gone", "taken", "refused"}, buf : AnyBuf,
                     msg : Nat, at : Indices]
  <2>1. Resting \in [op : {"idle", "wait", "gone", "taken", "refused"}, buf : AnyBuf,
                     msg : Nat, at : Indices]
    BY <1>1 DEF Resting, AnyBuf, Indices
  <2> QED BY <1>1, <1>2, <2>1 DEF TypeOK, Resting
<1>5. used' \in [msgs : Nat, trouble : Nat]
  BY <1>1, <1>2 DEF TypeOK
<1>6. TypeOK'
  <2> HIDE DEF e
  <2> QED BY <1>1, <1>2, <1>3, <1>4, <1>5 DEF TypeOK
<1>7. RingInv'
  <2>1. dying # "done"
    BY <1>1, <1>2 DEF RingInv
  <2>2. relay'.op # "taken"
    BY <1>4
  <2> QED BY <1>1, <1>2, <2>1, <2>2 DEF RingInv, Place
<1>8. \A i \in DOMAIN sent' : sent'[i].topic = sent'[i].msg \/ sent'[i].full
  <2>1. e.topic = e.msg \/ e.full
    BY <1>1, <1>2 DEF RingInv
  <2> HIDE DEF e
  <2>2. sent \in Seq([msg : Nat, topic : Nat, full : BOOLEAN]) /\ DOMAIN sent = 1..Len(sent)
    BY <1>1 DEF TypeOK
  <2>3. /\ DOMAIN sent' = 1..Len(sent) + 1 /\ sent'[Len(sent) + 1] = e
        /\ \A i \in 1..Len(sent) : sent'[i] = sent[i]
    BY <1>2, <1>3, <2>2
  <2>4. \A i \in 1..Len(sent) + 1 : i \in 1..Len(sent) \/ i = Len(sent) + 1
    BY <2>2
  <2> QED BY <1>1, <2>1, <2>2, <2>3, <2>4 DEF RelayFifo
<1>9. Given' = Given \o <<relay.msg>>
  <2> HIDE DEF e
  <2>1. /\ Given \in Seq(Nat) /\ Len(Given) = Len(sent)
        /\ \A i \in 1..Len(sent) : Given[i] = sent[i].msg
        /\ relay.msg \in Nat /\ e.msg = relay.msg
    BY <1>1, Handed DEF TypeOK, e
  <2>2. Len(sent) \in Nat /\ sent \in Seq([msg : Nat, topic : Nat, full : BOOLEAN])
    BY <1>1 DEF TypeOK
  <2>3. /\ DOMAIN sent' = 1..Len(sent) + 1 /\ sent'[Len(sent) + 1] = e
        /\ \A i \in 1..Len(sent) : sent'[i] = sent[i]
    BY <1>2, <1>3, <2>2
  <2> DEFINE g == Given \o <<relay.msg>>
  <2>4. /\ DOMAIN g = 1..Len(sent) + 1 /\ g[Len(sent) + 1] = relay.msg
        /\ \A i \in 1..Len(sent) : g[i] = Given[i]
        /\ g = [i \in 1..Len(sent) + 1 |-> g[i]]
    BY <2>1, <2>2
  <2>5. \A i \in 1..Len(sent) + 1 : g[i] = sent'[i].msg
    <3> HIDE DEF g
    <3>1. \A i \in 1..Len(sent) + 1 : i \in 1..Len(sent) \/ i = Len(sent) + 1
      BY <2>2
    <3> QED BY <2>1, <2>3, <2>4, <3>1
  <2>6. Given' = [i \in 1..Len(sent) + 1 |-> sent'[i].msg]
    BY <2>3 DEF Given
  <2> HIDE DEF g
  <2>7. Given' = g
    BY <2>4, <2>5, <2>6
  <2> QED BY <2>7 DEF g
<1>10. RelayFifo'
  <2>1. Held = <<relay.msg>> /\ Held' = <<>> /\ InRing' = InRing
    BY <1>2, <1>4 DEF Held, InRing
  <2>2. Given \in Seq(Nat) /\ <<relay.msg>> \in Seq(Nat)
    BY <1>1, Handed DEF TypeOK
  <2> HIDE DEF Given, Held, InRing
  <2>3. (Given \o <<relay.msg>>) \o <<>> = Given \o <<relay.msg>>
    BY <2>2, ConcatEmptySeq, ConcatProperties
  <2>4. (Given \o Held \o InRing)' = Given \o Held \o InRing
    BY <1>9, <2>1, <2>3
  <2> QED BY <1>1, <1>2, <1>8, <2>4 DEF RelayFifo
<1> QED BY <1>6, <1>7, <1>10 DEF IInv

(* A step that leaves the ring alone and takes nothing in hand.              *)
LEMMA QuietStep ==
  ASSUME IInv, UNCHANGED <<slots, head, tail, count, taken, sent>>,
         \/ relay' = relay
         \/ /\ relay.op # "taken" /\ relay'.op # "taken" /\ dying # "done"
            /\ relay' \in [op : {"idle", "wait", "gone", "taken", "refused"}, buf : AnyBuf,
                           msg : Nat, at : Indices],
         dying' = dying \/ (dying = "no" /\ dying' = "yes"),
         freelist' \in Seq(AnyBuf),
         pub' \in [Threads -> [op : {"idle", "copied"}, buf : AnyBuf, msg : Nat]],
         used' \in [msgs : Nat, trouble : Nat]
  PROVE  IInv'
<1>1. TypeOK /\ RingInv /\ RelayFifo
  BY DEF IInv
<1>2. TypeOK'
  BY <1>1 DEF TypeOK
<1>3. RingInv'
  BY <1>1 DEF RingInv, Place, After
<1>4. Given' = Given /\ Held' = Held /\ InRing' = InRing
  BY DEF Given, Held, InRing
<1>5. (Given \o Held \o InRing)' = Given \o Held \o InRing
  BY <1>4
<1>6. RelayFifo'
  <2> HIDE DEF Given, Held, InRing
  <2> QED BY <1>1, <1>5 DEF RelayFifo
<1> QED BY <1>2, <1>3, <1>6 DEF IInv

-----------------------------------------------------------------------------
(* Every step, and the theorem.                                              *)

(* The empty ring.                                                           *)
LEMMA InitHolds == Init => IInv
<1>1. SUFFICES ASSUME Init PROVE IInv
  OBVIOUS
<1>2. RingSize \in Nat \ {0} /\ 0 \in Indices
  BY RelayAssumption DEF Indices
<1>3. TypeOK
  <2>1. slots \in [Indices -> [msg : Nat, buf : AnyBuf]]
    BY <1>1 DEF Init, Empty, AnyBuf, Indices
  <2>2. pub \in [Threads -> [op : {"idle", "copied"}, buf : AnyBuf, msg : Nat]]
    BY <1>1 DEF Init, Idle, AnyBuf
  <2>3. relay \in [op : {"idle", "wait", "gone", "taken", "refused"}, buf : AnyBuf,
                   msg : Nat, at : Indices]
    BY <1>1, <1>2 DEF Init, Resting, AnyBuf
  <2>4. head \in Indices /\ tail \in Indices /\ count \in 0..RingSize
    BY <1>1, <1>2 DEF Init
  <2>5. freelist \in Seq(AnyBuf) /\ taken \in Seq(Nat)
        /\ sent \in Seq([msg : Nat, topic : Nat, full : BOOLEAN])
    BY <1>1 DEF Init
  <2>6. used \in [msgs : Nat, trouble : Nat] /\ dying \in {"no", "yes", "done"}
    BY <1>1 DEF Init
  <2> QED BY <2>1, <2>2, <2>3, <2>4, <2>5, <2>6 DEF TypeOK
<1>4. RingInv
  <2>1. Place(0, 0) = 0
    <3>1. 0 \in 0..RingSize /\ 0 + 0 = 0 /\ 0 < RingSize
      BY <1>2
    <3> QED BY <1>2, <3>1, Places
  <2> QED BY <1>1, <2>1 DEF Init, RingInv, Resting
<1>5. RelayFifo
  <2>1. sent = <<>> /\ taken = <<>> /\ Held = <<>> /\ count = 0
    BY <1>1 DEF Init, Held, Resting
  <2>2. Given = <<>>
    <3>1. Given \in Seq(Nat) /\ Len(Given) = 0
      BY <1>3, <2>1, Handed
    <3> HIDE DEF Given
    <3> QED BY <3>1, EmptySeq
  <2>3. InRing = <<>>
    <3>1. InRing \in Seq(Nat) /\ Len(InRing) = 0
      BY <1>3, <2>1, Handed
    <3> HIDE DEF InRing
    <3> QED BY <3>1, EmptySeq
  <2>4. <<>> \o <<>> \o <<>> = <<>>
    BY ConcatEmptySeq, EmptySeq
  <2> HIDE DEF Given, Held, InRing
  <2> QED BY <2>1, <2>2, <2>3, <2>4 DEF RelayFifo
<1> QED BY <1>3, <1>4, <1>5 DEF IInv

(* What a connection thread does.                                            *)
LEMMA ThreadStep ==
  ASSUME IInv, NEW t \in Threads, PublishCopy(t) \/ PublishEnqueue(t) \/ WillPush(t)
  PROVE  IInv'
<1> DEFINE Pubs == [op : {"idle", "copied"}, buf : AnyBuf, msg : Nat]
<1>1. /\ pub \in [Threads -> Pubs] /\ freelist \in Seq(AnyBuf)
      /\ used \in [msgs : Nat, trouble : Nat]
  BY DEF IInv, TypeOK
<1>2. CASE PublishCopy(t)
  <2>1. used' \in [msgs : Nat, trouble : Nat]
    BY <1>1, <1>2 DEF PublishCopy, Spend
  <2>2. \A b \in AnyBuf : Copied(b) \in Pubs
    BY <1>1 DEF Copied
  <2>3. \E b \in AnyBuf : pub' = [pub EXCEPT ![t] = Copied(b)]
    <3>1. freelist # <<>> => Last(freelist) \in AnyBuf
      BY <1>1, ElementOfSeq DEF Last
    <3> QED BY <1>2, <3>1 DEF PublishCopy, AnyBuf
  <2>4. pub' \in [Threads -> Pubs]
    BY <1>1, <2>2, <2>3
  <2>5. freelist' \in Seq(AnyBuf)
    <3>1. CASE freelist # <<>> /\ freelist' = Front(freelist)
      <4>1. Len(freelist) \in Nat /\ Len(freelist) > 0
        BY <1>1, <3>1, EmptySeq
      <4>2. Front(freelist) = SubSeq(freelist, 1, Len(freelist) - 1)
        BY DEF Front
      <4>3. \A i \in 1..Len(freelist) - 1 : i \in 1..Len(freelist)
        BY <4>1
      <4> QED BY <1>1, <3>1, <4>1, <4>2, <4>3, SubSeqProperties
    <3>2. CASE freelist' = freelist
      BY <1>1, <3>2
    <3> QED BY <1>2, <3>1, <3>2 DEF PublishCopy
  <2>6. UNCHANGED <<slots, head, tail, count, taken, sent, relay, dying>>
    BY <1>2 DEF PublishCopy, ring
  <2> QED BY <2>1, <2>4, <2>5, <2>6, QuietStep
<1>3. CASE PublishEnqueue(t)
  <2>1. UNCHANGED <<freelist, relay, dying, sent, used>>
    BY <1>3 DEF PublishEnqueue
  <2>2. pub' \in [Threads -> Pubs]
    <3>1. Idle \in Pubs
      BY DEF Idle, AnyBuf
    <3> QED BY <1>1, <1>3, <3>1 DEF PublishEnqueue
  <2>3. pub[t].msg \in Nat /\ pub[t].buf \in AnyBuf
    BY <1>1
  <2>4. CASE Room
    <3>1. Enqueued(pub[t].msg, pub[t].buf)
      BY <1>3, <2>4 DEF PublishEnqueue
    <3> QED BY <1>1, <2>1, <2>2, <2>3, <2>4, <3>1, EnqueueStep DEF OthersTyped
  <2>5. CASE ~Room
    <3>1. UNCHANGED <<slots, head, tail, count, taken>>
      BY <1>3, <2>5 DEF PublishEnqueue, ring
    <3> QED BY <1>1, <2>1, <2>2, <3>1, QuietStep
  <2> QED BY <2>4, <2>5
<1>4. CASE WillPush(t)
  <2>1. Room /\ UNCHANGED <<freelist, pub, relay, dying, sent>>
    BY <1>4 DEF WillPush
  <2>2. used' \in [msgs : Nat, trouble : Nat] /\ used.msgs + 1 \in Nat
    BY <1>1, <1>4 DEF WillPush, Spend
  <2>3. \E b \in AnyBuf : Enqueued(used.msgs + 1, b)
    BY <1>4 DEF WillPush, AnyBuf
  <2>4. PICK b \in AnyBuf : Enqueued(used.msgs + 1, b)
    BY <2>3
  <2> QED BY <1>1, <2>1, <2>2, <2>4, EnqueueStep DEF OthersTyped
<1> QED BY <1>2, <1>3, <1>4

(* What the relay thread does apart from taking and publishing, and the      *)
(* shutdown.                                                                 *)
LEMMA OtherStep ==
  ASSUME IInv, RelayLoop \/ RelayLeaves \/ RelayKeeps \/ ShutdownBegin \/ ShutdownEnd
  PROVE  IInv'
<1> DEFINE Hands == [op : {"idle", "wait", "gone", "taken", "refused"}, buf : AnyBuf,
                     msg : Nat, at : Indices]
<1>1. /\ TypeOK /\ RingInv /\ RingSize \in Nat \ {0} /\ 0 \in Indices
      /\ relay \in Hands /\ freelist \in Seq(AnyBuf)
      /\ pub \in [Threads -> [op : {"idle", "copied"}, buf : AnyBuf, msg : Nat]]
      /\ used \in [msgs : Nat, trouble : Nat]
  BY RelayAssumption DEF IInv, TypeOK, Indices
<1>2. Resting \in Hands /\ Resting.op = "idle"
      /\ \A o \in {"wait", "gone"} : [Resting EXCEPT !.op = o] \in Hands
                                     /\ [Resting EXCEPT !.op = o].op = o
  BY <1>1 DEF Resting, AnyBuf
<1>3. CASE RelayLoop \/ RelayLeaves
  <2>1. /\ relay.op \in {"idle", "wait"} /\ dying # "done"
        /\ relay' \in Hands /\ relay'.op # "taken"
    BY <1>1, <1>2, <1>3 DEF RelayLoop, RelayLeaves, RingInv
  <2>2. UNCHANGED <<slots, head, tail, count, taken, sent, dying, freelist, pub, used>>
    BY <1>3 DEF RelayLoop, RelayLeaves, ring
  <2> HIDE DEF Hands
  <2> QED BY <1>1, <2>1, <2>2, QuietStep DEF Hands
<1>4. CASE RelayKeeps
  <2>1. relay.op = "refused" /\ dying # "done" /\ relay' = Resting
    BY <1>1, <1>4 DEF RelayKeeps, RingInv
  <2>2. freelist' \in Seq(AnyBuf)
    <3>1. relay.buf \in AnyBuf
      BY <1>1
    <3>2. Append(freelist, relay.buf) \in Seq(AnyBuf)
      BY <1>1, <3>1, AppendProperties
    <3> QED BY <1>1, <1>4, <3>2 DEF RelayKeeps
  <2>3. UNCHANGED <<slots, head, tail, count, taken, sent, dying, pub, used>>
    BY <1>4 DEF RelayKeeps, ring
  <2> QED BY <1>1, <1>2, <2>1, <2>2, <2>3, QuietStep
<1>5. CASE ShutdownBegin
  <2>1. UNCHANGED <<slots, head, tail, count, taken, sent, relay, freelist, pub, used>>
        /\ dying = "no" /\ dying' = "yes"
    BY <1>5 DEF ShutdownBegin, ring
  <2> QED BY <1>1, <2>1, QuietStep
<1>6. CASE ShutdownEnd
  <2>1. /\ dying' = "done" /\ relay.op = "gone" /\ head' = 0 /\ tail' = 0 /\ count' = 0
        /\ UNCHANGED <<slots, freelist, pub, relay, taken, sent, used>>
    BY <1>6 DEF ShutdownEnd
  <2>2. TypeOK'
    BY <1>1, <2>1 DEF TypeOK
  <2>3. Place(0, 0) = 0
    <3>1. 0 \in 0..RingSize /\ 0 + 0 = 0 /\ 0 < RingSize
      BY <1>1
    <3> QED BY <1>1, <3>1, Places
  <2>4. RingInv'
    BY <2>1, <2>3 DEF RingInv
  <2>5. RelayFifo'
    BY <2>1 DEF RelayFifo, IInv
  <2> QED BY <2>2, <2>4, <2>5 DEF IInv
<1> QED BY <1>3, <1>4, <1>5, <1>6

(* Until it is reset, the ring of the relay hands the messages over in the   *)
(* order in which it took them, each once and with its own topic unless the  *)
(* ring is full (cmq_mqtt_bridge_relay).                                     *)
THEOREM RelayKeepsOrder == Spec => []RelayFifo
<1>1. IInv /\ [Next]_vars => IInv'
  <2>1. SUFFICES ASSUME IInv, [Next]_vars PROVE IInv'
    OBVIOUS
  <2>2. CASE UNCHANGED vars
    BY <2>1, <2>2, QuietStep DEF vars, IInv, TypeOK
  <2>3. CASE \E t \in Threads : PublishCopy(t) \/ PublishEnqueue(t) \/ WillPush(t)
    BY <2>1, <2>3, ThreadStep
  <2>4. CASE RelayTake
    BY <2>1, <2>4, TakeStep
  <2>5. CASE RelayPublish
    BY <2>1, <2>5, PublishStep
  <2>6. CASE RelayLoop \/ RelayLeaves \/ RelayKeeps \/ ShutdownBegin \/ ShutdownEnd
    BY <2>1, <2>6, OtherStep
  <2> QED BY <2>1, <2>2, <2>3, <2>4, <2>5, <2>6 DEF Next
<1>2. IInv => RelayFifo
  BY DEF IInv
<1> QED BY <1>1, <1>2, InitHolds, PTL DEF Spec

-----------------------------------------------------------------------------
(* The gateway.                                                              *)

(* The operators of the library, as the gateway sees them.                   *)
LEMMA GateMin ==
  ASSUME NEW S, S \subseteq Nat, S # {}
  PROVE  Gate!Min(S) \in S /\ \A y \in S : Gate!Min(S) <= y
<1>1. \E x \in S : \A y \in S : x <= y
  BY Least
<1> QED BY <1>1 DEF Gate!Min

(* And the greatest element of a set of slots.                               *)
LEMMA GateMax ==
  ASSUME NEW n \in Nat, NEW S, S \subseteq 0..n, S # {}
  PROVE  Gate!Max(S) \in S /\ \A y \in S : Gate!Max(S) >= y
<1>1. \E x \in S : \A y \in S : x >= y
  BY Greatest
<1> QED BY <1>1 DEF Gate!Max

(* Counting is the same inside the instance.                                 *)
LEMMA GateCount == \A S : Gate!Cardinality(S) = Cardinality(S)
  BY DEF Gate!Cardinality, Cardinality, Gate!IsFiniteSet, IsFiniteSet

(* The marks for no name and no address are none, -1 is no descriptor.       *)
LEMMA GateConstants ==
  /\ NoName \notin PeerNames /\ NoAddr \notin Addrs
  /\ -1 \notin Fds /\ \A f \in Fds : f \in Int /\ f >= 0
  BY LinksAssumption

(* Its types: slots c, endpoints k, sockets s and dials h.                   *)
AnyName == PeerNames \cup {NoName}
AnyAddr == Addrs \cup {NoAddr}
GateSlot == [name : AnyName, addr : AnyAddr, fd : Fds \cup {-1}]
GateSock == [st : {"closed", "alive", "dead"}, name : AnyName]
GateEnd  == [addr : AnyAddr, gen : Nat, dialing : BOOLEAN]
GateDial == [op : {"idle", "dial"}, name : AnyName, addr : AnyAddr, gen : Nat,
             slot : Nat, fd : Fds \cup {-1}, old : BOOLEAN]
GateTypes(c, k, s, h) ==
  /\ c \in Seq(GateSlot) /\ k \in [PeerNames -> GateEnd]
  /\ s \in [Fds -> GateSock] /\ h \in [Threads -> GateDial]

(* A slot is empty as a whole, or its socket is open, leads to its cluster   *)
(* and was dialled at the endpoint of now; a cluster has one slot.           *)
SlotsOk(c, k, s) ==
  /\ \A i \in DOMAIN c : IF c[i].fd = -1 THEN c[i].name = NoName
       ELSE /\ c[i].name \in PeerNames
            /\ s[c[i].fd].st # "closed" /\ s[c[i].fd].name = c[i].name
            /\ c[i].addr = k[c[i].name].addr
  /\ \A i, j \in DOMAIN c : c[i].name = c[j].name /\ c[i].name # NoName => i = j

(* A dial has a socket of its own that no slot has, and a generation that is *)
(* not the cluster's any more when it was overtaken.                         *)
DialOk(d, k, s) ==
  IF d.op = "idle" THEN d.name = NoName /\ ~d.old
  ELSE /\ d.name \in PeerNames /\ d.fd \in Fds
       /\ s[d.fd].st # "closed" /\ s[d.fd].name = d.name
       /\ k[d.name].addr # NoAddr /\ d.gen <= k[d.name].gen
       /\ d.old => d.gen < k[d.name].gen
DialsOk(c, k, s, h) ==
  /\ \A t \in Threads : DialOk(h[t], k, s)
  /\ \A t \in Threads : h[t].op = "dial" => \A i \in DOMAIN c : c[i].fd # h[t].fd
  /\ \A t, u \in Threads : h[t].op = "dial" /\ h[u].op = "dial" /\ h[t].fd = h[u].fd => t = u

(* No open socket is without an owner.                                       *)
NoneLost(c, s, h) ==
  \A f \in Fds : s[f].st # "closed" =>
    \/ \E i \in DOMAIN c : c[i].fd = f
    \/ \E t \in Threads : h[t].op = "dial" /\ h[t].fd = f

GateOk(c, k, s, h) ==
  GateTypes(c, k, s, h) /\ SlotsOk(c, k, s) /\ DialsOk(c, k, s, h) /\ NoneLost(c, s, h)

GatePeer == [slot : Nat, fd : Fds \cup {-1}, name : PeerNames]
PeersOk == gPeers \in Seq(GatePeer)
GateInv == GateOk(gConns, gKnown, gSock, gTh) /\ PeersOk

(* A sequence changed inside its domain.                                     *)
LEMMA SameLength ==
  ASSUME NEW S, NEW c \in Seq(S), NEW d, DOMAIN d = DOMAIN c,
         d = [i \in DOMAIN c |-> d[i]], \A i \in DOMAIN c : d[i] \in S
  PROVE  d \in Seq(S) /\ Len(d) = Len(c)
<1>1. DOMAIN c = 1..Len(c) /\ Len(c) \in Nat
  BY LenProperties
<1>2. d \in [1..Len(c) -> S]
  BY <1>1
<1> QED BY <1>1, <1>2, SeqDef, LenProperties

(* Slots are closed: the sockets go with them.                               *)
LEMMA GateCloses ==
  ASSUME GateOk(gConns, gKnown, gSock, gTh), NEW I, I \subseteq DOMAIN gConns
  PROVE  /\ GateOk(Gate!Emptied(I), gKnown, Gate!Shut(I), gTh)
         /\ DOMAIN Gate!Emptied(I) = DOMAIN gConns
         /\ Len(Gate!Emptied(I)) = Len(gConns)
         /\ \A i \in DOMAIN gConns : Gate!Emptied(I)[i] = IF i \in I THEN Gate!Empty ELSE gConns[i]
         /\ \A f \in Fds : gSock[f].st = "closed" => Gate!Shut(I)[f].st = "closed"
         /\ \A f \in Fds : \/ Gate!Shut(I)[f] = gSock[f]
                           \/ /\ Gate!Shut(I)[f] = Gate!Closed
                              /\ \E i \in I : gConns[i].fd = f
<1> DEFINE c == Gate!Emptied(I)
           s == Gate!Shut(I)
<1> USE GateConstants
<1>1. \A i \in DOMAIN gConns : c[i] = IF i \in I THEN Gate!Empty ELSE gConns[i]
  BY DEF Gate!Emptied
<1>2. \A f \in Fds : s[f] = IF \E i \in I : gConns[i].fd = f THEN Gate!Closed ELSE gSock[f]
  BY DEF Gate!Shut
<1>3. gConns \in Seq(GateSlot) /\ \A i \in DOMAIN gConns : gConns[i] \in GateSlot
  BY ElementOfSeq, LenProperties DEF GateOk, GateTypes
<1>4. Gate!Empty \in GateSlot /\ Gate!Empty.fd = -1 /\ Gate!Empty.name = NoName
  BY DEF Gate!Empty, GateSlot, AnyName, AnyAddr
<1>5. c \in Seq(GateSlot) /\ Len(c) = Len(gConns) /\ DOMAIN c = DOMAIN gConns
  <2>1. c = [i \in DOMAIN gConns |-> c[i]] /\ DOMAIN c = DOMAIN gConns
    BY DEF Gate!Emptied
  <2>2. \A i \in DOMAIN gConns : c[i] \in GateSlot
    BY <1>1, <1>3, <1>4
  <2> QED BY <1>3, <2>1, <2>2, SameLength
<1>6. s \in [Fds -> GateSock]
  <2>1. Gate!Closed \in GateSock
    BY DEF Gate!Closed, GateSock, AnyName
  <2>2. \A f \in Fds : s[f] \in GateSock
    BY <1>2, <2>1 DEF GateOk, GateTypes
  <2> QED BY <2>2 DEF Gate!Shut
<1>7. GateTypes(c, gKnown, s, gTh)
  BY <1>5, <1>6 DEF GateOk, GateTypes
<1>8. Gate!Closed.st = "closed"
  BY DEF Gate!Closed
<1> HIDE DEF c, s
<1>9. \A i \in DOMAIN gConns, j \in I : gConns[i].fd = gConns[j].fd /\ gConns[i].fd # -1 => i = j
  BY <1>3 DEF GateOk, SlotsOk
<1>10. SlotsOk(c, gKnown, s)
  <2>1. ASSUME NEW i \in DOMAIN c, c[i].fd # -1
        PROVE  /\ c[i] = gConns[i] /\ c[i].fd \in Fds /\ s[c[i].fd] = gSock[c[i].fd]
    <3>1. i \notin I /\ c[i] = gConns[i]
      BY <1>1, <1>4, <1>5, <2>1
    <3>2. c[i].fd \in Fds
      BY <1>3, <1>5, <2>1, <3>1 DEF GateSlot
    <3>3. ~ \E j \in I : gConns[j].fd = c[i].fd
      BY <1>5, <1>9, <2>1, <3>1
    <3> QED BY <1>2, <3>1, <3>2, <3>3
  <2>2. \A i \in DOMAIN c : c[i].fd = -1 => c[i].name = NoName
    BY <1>1, <1>4, <1>5 DEF GateOk, SlotsOk
  <2>3. \A i \in DOMAIN c : c[i].name # NoName => c[i] = gConns[i]
    BY <1>1, <1>4, <1>5
  <2> QED BY <1>5, <2>1, <2>2, <2>3 DEF GateOk, SlotsOk
<1>11. ASSUME NEW t \in Threads, gTh[t].op = "dial"
       PROVE  gTh[t].fd \in Fds /\ s[gTh[t].fd] = gSock[gTh[t].fd]
  BY <1>2, <1>11 DEF GateOk, DialsOk, DialOk
<1>12. DialsOk(c, gKnown, s, gTh)
  <2>1. \A t \in Threads : DialOk(gTh[t], gKnown, s)
    <3> SUFFICES ASSUME NEW t \in Threads PROVE DialOk(gTh[t], gKnown, s)
      OBVIOUS
    <3>1. DialOk(gTh[t], gKnown, gSock) /\ gTh[t].op \in {"idle", "dial"}
      BY DEF GateOk, DialsOk, GateTypes, GateDial
    <3> QED BY <1>11, <3>1 DEF DialOk
  <2>2. ASSUME NEW t \in Threads, gTh[t].op = "dial", NEW i \in DOMAIN c
        PROVE  c[i].fd # gTh[t].fd
    BY <1>1, <1>4, <1>5, <1>11, <2>2 DEF GateOk, DialsOk
  <2> QED BY <2>1, <2>2 DEF GateOk, DialsOk
<1>13. NoneLost(c, s, gTh)
  <2> SUFFICES ASSUME NEW f \in Fds, s[f].st # "closed"
               PROVE  \/ \E i \in DOMAIN c : c[i].fd = f
                      \/ \E t \in Threads : gTh[t].op = "dial" /\ gTh[t].fd = f
    BY DEF NoneLost
  <2>1. gSock[f].st # "closed" /\ ~ \E i \in I : gConns[i].fd = f
    BY <1>2, <1>8
  <2>2. CASE \E i \in DOMAIN gConns : gConns[i].fd = f
    BY <1>1, <1>5, <2>1, <2>2
  <2> QED BY <2>1, <2>2 DEF GateOk, NoneLost
<1>14. GateOk(c, gKnown, s, gTh)
  BY <1>7, <1>10, <1>12, <1>13 DEF GateOk
<1> QED BY <1>1, <1>2, <1>5, <1>8, <1>14 DEF c, s

(* The endpoint and the generation of a cluster is all that counts of it.    *)
LEMMA GateKnows ==
  ASSUME NEW c, NEW k, NEW s, NEW h, GateOk(c, k, s, h), NEW k2 \in [PeerNames -> GateEnd],
         \A n \in PeerNames : k2[n].addr = k[n].addr /\ k2[n].gen = k[n].gen
  PROVE  GateOk(c, k2, s, h)
<1>1. GateTypes(c, k2, s, h)
  BY DEF GateOk, GateTypes
<1>2. SlotsOk(c, k2, s)
  BY DEF GateOk, SlotsOk
<1>3. \A t \in Threads : DialOk(h[t], k2, s)
  BY DEF GateOk, DialsOk, DialOk
<1> QED BY <1>1, <1>2, <1>3 DEF GateOk, DialsOk

(* A dial begins on a number that was closed.                                *)
LEMMA GateDials ==
  ASSUME NEW c, NEW k, NEW s, NEW h, GateOk(c, k, s, h), NEW t \in Threads, h[t].op = "idle",
         NEW f \in Fds, s[f].st = "closed", NEW d \in GateDial, d.op = "dial", d.fd = f,
         d.name \in PeerNames, k[d.name].addr # NoAddr, d.gen = k[d.name].gen, ~d.old
  PROVE  GateOk(c, k, [s EXCEPT ![f] = [st |-> "alive", name |-> d.name]], [h EXCEPT ![t] = d])
<1> DEFINE s2 == [s EXCEPT ![f] = [st |-> "alive", name |-> d.name]]
           h2 == [h EXCEPT ![t] = d]
<1> USE GateConstants
<1>1. s \in [Fds -> GateSock] /\ h \in [Threads -> GateDial] /\ c \in Seq(GateSlot)
  BY DEF GateOk, GateTypes
<1>2. /\ s2 \in [Fds -> GateSock] /\ h2 \in [Threads -> GateDial]
      /\ s2[f].st = "alive" /\ s2[f].name = d.name
      /\ \A g \in Fds : g # f => s2[g] = s[g]
      /\ h2[t] = d /\ \A u \in Threads : u # t => h2[u] = h[u]
  BY <1>1 DEF GateSock, AnyName
<1>3. GateTypes(c, k, s2, h2)
  BY <1>2 DEF GateOk, GateTypes
<1> HIDE DEF s2, h2
<1>4. \A i \in DOMAIN c : c[i].fd # f
  <2>1. \A i \in DOMAIN c : c[i] \in GateSlot
    BY <1>1, ElementOfSeq, LenProperties
  <2> QED BY <2>1 DEF GateOk, SlotsOk, GateSlot
<1>5. SlotsOk(c, k, s2)
  <2>1. \A i \in DOMAIN c : c[i].fd # -1 => s2[c[i].fd] = s[c[i].fd]
    <3>1. \A i \in DOMAIN c : c[i] \in GateSlot
      BY <1>1, ElementOfSeq, LenProperties
    <3>2. \A i \in DOMAIN c : c[i].fd \in Fds \cup {-1}
      BY <3>1 DEF GateSlot
    <3> QED BY <1>2, <1>4, <3>2
  <2> QED BY <2>1 DEF GateOk, SlotsOk
<1>6. \A u \in Threads : h[u].op = "dial" => h[u].fd \in Fds /\ h[u].fd # f
  BY DEF GateOk, DialsOk, DialOk
<1>7. \A u \in Threads : DialOk(h2[u], k, s2)
  <2> SUFFICES ASSUME NEW u \in Threads PROVE DialOk(h2[u], k, s2)
    OBVIOUS
  <2>1. CASE u = t
    BY <1>2, <2>1 DEF DialOk, GateOk, GateTypes, GateEnd
  <2>2. CASE u # t
    <3>1. DialOk(h[u], k, s) /\ h[u].op \in {"idle", "dial"}
      BY <1>1 DEF GateOk, DialsOk, GateDial
    <3>2. h2[u] = h[u] /\ (h[u].op = "dial" => s2[h[u].fd] = s[h[u].fd])
      BY <1>2, <1>6, <2>2
    <3> QED BY <3>1, <3>2 DEF DialOk
  <2> QED BY <2>1, <2>2
<1>8. DialsOk(c, k, s2, h2)
  BY <1>2, <1>4, <1>6, <1>7 DEF GateOk, DialsOk
<1>9. NoneLost(c, s2, h2)
  <2> SUFFICES ASSUME NEW g \in Fds, s2[g].st # "closed"
               PROVE  \/ \E i \in DOMAIN c : c[i].fd = g
                      \/ \E u \in Threads : h2[u].op = "dial" /\ h2[u].fd = g
    BY DEF NoneLost
  <2>1. CASE g = f
    BY <1>2, <2>1
  <2>2. CASE g # f
    BY <1>2, <2>2 DEF GateOk, NoneLost
  <2> QED BY <2>1, <2>2
<1> QED BY <1>3, <1>5, <1>8, <1>9 DEF GateOk, s2, h2

(* A dial ends and its socket is closed.                                     *)
LEMMA GateEnds ==
  ASSUME NEW c, NEW k, NEW s, NEW h, GateOk(c, k, s, h), NEW t \in Threads, h[t].op = "dial"
  PROVE  GateOk(c, k, [s EXCEPT ![h[t].fd] = Gate!Closed], [h EXCEPT ![t] = Gate!Idle])
<1> DEFINE f == h[t].fd
           s2 == [s EXCEPT ![f] = Gate!Closed]
           h2 == [h EXCEPT ![t] = Gate!Idle]
<1> USE GateConstants
<1>1. s \in [Fds -> GateSock] /\ h \in [Threads -> GateDial] /\ c \in Seq(GateSlot) /\ f \in Fds
  BY DEF GateOk, GateTypes, DialsOk, DialOk
<1>2. /\ s2 \in [Fds -> GateSock] /\ h2 \in [Threads -> GateDial]
      /\ s2[f].st = "closed" /\ h2[t].op = "idle" /\ h2[t].name = NoName /\ ~h2[t].old
      /\ \A g \in Fds : g # f => s2[g] = s[g]
      /\ \A u \in Threads : u # t => h2[u] = h[u]
  BY <1>1 DEF GateSock, GateDial, AnyName, AnyAddr, Gate!Closed, Gate!Idle
<1>3. GateTypes(c, k, s2, h2)
  BY <1>2 DEF GateOk, GateTypes
<1>4. \A i \in DOMAIN c : c[i].fd # f /\ c[i].fd \in Fds \cup {-1}
  <2>1. \A i \in DOMAIN c : c[i] \in GateSlot
    BY <1>1, ElementOfSeq, LenProperties
  <2> QED BY <2>1 DEF GateOk, DialsOk, GateSlot
<1>5. \A u \in Threads : u # t /\ h[u].op = "dial" => h[u].fd \in Fds /\ h[u].fd # f
  BY DEF GateOk, DialsOk, DialOk
<1> HIDE DEF s2, h2, f
<1>6. SlotsOk(c, k, s2)
  <2>1. \A i \in DOMAIN c : c[i].fd # -1 => s2[c[i].fd] = s[c[i].fd]
    BY <1>2, <1>4
  <2> QED BY <2>1 DEF GateOk, SlotsOk
<1>7. \A u \in Threads : DialOk(h2[u], k, s2)
  <2> SUFFICES ASSUME NEW u \in Threads PROVE DialOk(h2[u], k, s2)
    OBVIOUS
  <2>1. CASE u = t
    BY <1>2, <2>1 DEF DialOk
  <2>2. CASE u # t
    <3>1. DialOk(h[u], k, s) /\ h[u].op \in {"idle", "dial"}
      BY <1>1 DEF GateOk, DialsOk, GateDial
    <3> QED BY <1>2, <1>5, <2>2, <3>1 DEF DialOk
  <2> QED BY <2>1, <2>2
<1>8. DialsOk(c, k, s2, h2)
  BY <1>2, <1>7 DEF GateOk, DialsOk
<1>9. NoneLost(c, s2, h2)
  <2> SUFFICES ASSUME NEW g \in Fds, s2[g].st # "closed"
               PROVE  \/ \E i \in DOMAIN c : c[i].fd = g
                      \/ \E u \in Threads : h2[u].op = "dial" /\ h2[u].fd = g
    BY DEF NoneLost
  <2>1. g # f /\ s[g].st # "closed"
    BY <1>2
  <2> QED BY <1>2, <2>1 DEF GateOk, NoneLost, f
<1> QED BY <1>3, <1>6, <1>8, <1>9 DEF GateOk, s2, h2, f

(* Slot p, which was empty or is new, gets x.                                *)
Filled(d, c, p, x) ==
  /\ d \in Seq(GateSlot) /\ DOMAIN d = DOMAIN c \cup {p} /\ d[p] = x
  /\ p \in DOMAIN c => c[p].fd = -1
  /\ \A i \in DOMAIN c : i # p => d[i] = c[i]

(* A dial ends and its socket goes to a slot.                                *)
LEMMA GateInstalls ==
  ASSUME NEW c, NEW k, NEW s, NEW h, GateOk(c, k, s, h), NEW t \in Threads, h[t].op = "dial",
         \A i \in DOMAIN c : c[i].name # h[t].name,
         h[t].addr = k[h[t].name].addr,
         NEW p, NEW d,
         Filled(d, c, p, [name |-> h[t].name, addr |-> h[t].addr, fd |-> h[t].fd])
  PROVE  GateOk(d, k, s, [h EXCEPT ![t] = Gate!Idle])
<1> DEFINE h2 == [h EXCEPT ![t] = Gate!Idle]
<1> USE GateConstants DEF Filled
<1>1. /\ h \in [Threads -> GateDial] /\ h[t].fd \in Fds /\ h[t].name \in PeerNames
      /\ s[h[t].fd].st # "closed" /\ s[h[t].fd].name = h[t].name
  BY DEF GateOk, GateTypes, DialsOk, DialOk
<1>2. /\ h2 \in [Threads -> GateDial]
      /\ h2[t].op = "idle" /\ h2[t].name = NoName /\ ~h2[t].old
      /\ \A u \in Threads : u # t => h2[u] = h[u]
  BY <1>1 DEF GateDial, AnyName, AnyAddr, Gate!Idle
<1>3. GateTypes(d, k, s, h2)
  BY <1>2 DEF GateOk, GateTypes
<1> HIDE DEF h2
<1>4. d[p].fd = h[t].fd /\ d[p].name = h[t].name /\ d[p].addr = h[t].addr /\ d[p].fd # -1
  BY <1>1
<1>5. SlotsOk(d, k, s)
  <2>1. \A i \in DOMAIN d : i # p => i \in DOMAIN c /\ d[i] = c[i]
    OBVIOUS
  <2>2. /\ \A i \in DOMAIN c : IF c[i].fd = -1 THEN c[i].name = NoName
              ELSE /\ c[i].name \in PeerNames
                   /\ s[c[i].fd].st # "closed" /\ s[c[i].fd].name = c[i].name
                   /\ c[i].addr = k[c[i].name].addr
        /\ \A i, j \in DOMAIN c : c[i].name = c[j].name /\ c[i].name # NoName => i = j
    BY DEF GateOk, SlotsOk
  <2>3. \A i \in DOMAIN d : IF d[i].fd = -1 THEN d[i].name = NoName
              ELSE /\ d[i].name \in PeerNames
                   /\ s[d[i].fd].st # "closed" /\ s[d[i].fd].name = d[i].name
                   /\ d[i].addr = k[d[i].name].addr
    BY <1>1, <1>4, <2>1, <2>2
  <2>4. \A i, j \in DOMAIN d : d[i].name = d[j].name /\ d[i].name # NoName => i = j
    BY <1>4, <2>1, <2>2
  <2> QED BY <2>3, <2>4 DEF SlotsOk
<1>6. DialsOk(d, k, s, h2)
  <2>1. \A u \in Threads : DialOk(h2[u], k, s)
    BY <1>2 DEF GateOk, DialsOk, DialOk
  <2>2. ASSUME NEW u \in Threads, h2[u].op = "dial", NEW i \in DOMAIN d
        PROVE  d[i].fd # h2[u].fd
    <3>1. u # t /\ h2[u] = h[u]
      BY <1>2, <2>2
    <3>2. h[u].fd # h[t].fd /\ \A j \in DOMAIN c : c[j].fd # h[u].fd
      BY <2>2, <3>1 DEF GateOk, DialsOk
    <3> QED BY <1>4, <3>1, <3>2
  <2> QED BY <1>2, <2>1, <2>2 DEF GateOk, DialsOk
<1>7. NoneLost(d, s, h2)
  <2> SUFFICES ASSUME NEW g \in Fds, s[g].st # "closed"
               PROVE  \/ \E i \in DOMAIN d : d[i].fd = g
                      \/ \E u \in Threads : h2[u].op = "dial" /\ h2[u].fd = g
    BY DEF NoneLost
  <2>1. CASE \E i \in DOMAIN c : c[i].fd = g
    <3>1. PICK i \in DOMAIN c : c[i].fd = g
      BY <2>1
    <3>2. i # p
      BY <3>1
    <3> QED BY <3>1, <3>2
  <2>2. CASE \E u \in Threads : h[u].op = "dial" /\ h[u].fd = g
    BY <1>2, <1>4, <2>2
  <2> QED BY <2>1, <2>2 DEF GateOk, NoneLost
<1> QED BY <1>3, <1>5, <1>6, <1>7 DEF GateOk, h2

(* A cluster without a connection gets an endpoint or a generation, and its  *)
(* dials are overtaken.                                                      *)
LEMMA GateMoves ==
  ASSUME NEW c, NEW k, NEW s, NEW h, GateOk(c, k, s, h), NEW n \in PeerNames,
         \A i \in DOMAIN c : c[i].name # n,
         NEW k2 \in [PeerNames -> GateEnd], \A m \in PeerNames : m # n => k2[m] = k[m],
         k2[n].addr # NoAddr, k2[n].gen > k[n].gen \/ k[n].addr = NoAddr, k2[n].gen >= k[n].gen
  PROVE  GateOk(c, k2, s, [t \in Threads |-> [h[t] EXCEPT !.old = @ \/ h[t].name = n]])
<1> DEFINE h2 == [t \in Threads |-> [h[t] EXCEPT !.old = @ \/ h[t].name = n]]
<1> USE GateConstants
<1>1. h \in [Threads -> GateDial] /\ k \in [PeerNames -> GateEnd]
  BY DEF GateOk, GateTypes
<1>2. \A t \in Threads : /\ h2[t] \in GateDial /\ h2[t].op = h[t].op /\ h2[t].name = h[t].name
                         /\ h2[t].fd = h[t].fd /\ h2[t].gen = h[t].gen
                         /\ h2[t].old <=> (h[t].old \/ h[t].name = n)
  BY <1>1 DEF GateDial
<1>3. GateTypes(c, k2, s, h2)
  BY <1>2 DEF GateOk, GateTypes
<1> HIDE DEF h2
<1>4. SlotsOk(c, k2, s)
  BY DEF GateOk, SlotsOk
<1>5. \A t \in Threads : DialOk(h2[t], k2, s)
  <2> SUFFICES ASSUME NEW t \in Threads PROVE DialOk(h2[t], k2, s)
    OBVIOUS
  <2>1. DialOk(h[t], k, s) /\ h[t] \in GateDial
    BY <1>1 DEF GateOk, DialsOk
  <2>2. CASE h[t].op = "idle"
    BY <1>2, <2>1, <2>2 DEF DialOk
  <2>3. CASE h[t].op # "idle" /\ h[t].name # n
    BY <1>2, <2>1, <2>3 DEF DialOk
  <2>4. CASE h[t].op # "idle" /\ h[t].name = n
    <3>1. k2[n].gen > k[n].gen /\ h[t].gen <= k[n].gen
      BY <2>1, <2>4 DEF DialOk
    <3>2. k2[n].gen \in Nat /\ k[n].gen \in Nat /\ h[t].gen \in Nat
      BY <1>1, <2>1 DEF GateEnd, GateDial
    <3>3. h[t].gen < k2[n].gen
      BY <3>1, <3>2
    <3> QED BY <1>2, <2>1, <2>4, <3>2, <3>3 DEF DialOk
  <2> QED BY <2>2, <2>3, <2>4
<1>6. DialsOk(c, k2, s, h2)
  BY <1>2, <1>5 DEF GateOk, DialsOk
<1>7. NoneLost(c, s, h2)
  BY <1>2 DEF GateOk, NoneLost
<1> QED BY <1>3, <1>4, <1>6, <1>7 DEF GateOk, h2

(* A peer dies: its socket stays where it is.                                *)
LEMMA GateDies ==
  ASSUME NEW c, NEW k, NEW s, NEW h, GateOk(c, k, s, h), NEW f \in Fds, s[f].st # "closed"
  PROVE  GateOk(c, k, [s EXCEPT ![f].st = "dead"], h)
<1> DEFINE s2 == [s EXCEPT ![f].st = "dead"]
<1>1. s \in [Fds -> GateSock]
  BY DEF GateOk, GateTypes
<1>2. \A g \in Fds : /\ s2[g] \in GateSock /\ s2[g].name = s[g].name
                     /\ s2[g].st = "closed" <=> s[g].st = "closed"
  BY <1>1 DEF GateSock
<1>3. GateTypes(c, k, s2, h)
  BY <1>1, <1>2 DEF GateOk, GateTypes
<1> HIDE DEF s2
<1>4. SlotsOk(c, k, s2)
  <2>1. \A i \in DOMAIN c : c[i] \in GateSlot
    BY ElementOfSeq, LenProperties DEF GateOk, GateTypes
  <2>2. \A i \in DOMAIN c : c[i].fd \in Fds \cup {-1}
    BY <2>1 DEF GateSlot
  <2> QED BY <1>2, <2>2 DEF GateOk, SlotsOk
<1>5. \A t \in Threads : DialOk(h[t], k, s2)
  BY <1>2 DEF GateOk, DialsOk, DialOk
<1>6. NoneLost(c, s2, h)
  BY <1>2 DEF GateOk, NoneLost
<1> QED BY <1>3, <1>4, <1>5, <1>6 DEF GateOk, DialsOk, s2

(* Slots at the end are given back when they are empty.                      *)
LEMMA GateTrims ==
  ASSUME NEW c, NEW k, NEW s, NEW h, GateOk(c, k, s, h)
  PROVE  GateOk(Gate!Trim(c), k, s, h)
<1> DEFINE M == {0} \cup {i \in DOMAIN c : c[i].fd >= 0}
           m == Gate!Max(M)
           d == Gate!Trim(c)
<1> USE GateConstants
<1>1. c \in Seq(GateSlot) /\ DOMAIN c = 1..Len(c) /\ Len(c) \in Nat
  BY LenProperties DEF GateOk, GateTypes
<1>2. m \in M /\ \A i \in M : m >= i
  <2>1. M \subseteq 0..Len(c) /\ M # {}
    BY <1>1
  <2> QED BY <1>1, <2>1, GateMax
<1>3. m \in 0..Len(c) /\ d = SubSeq(c, 1, m)
  BY <1>1, <1>2 DEF Gate!Trim
<1> HIDE DEF d, m
<1>4. d \in Seq(GateSlot) /\ DOMAIN d = 1..m /\ \A i \in 1..m : d[i] = c[i]
  BY <1>1, <1>3, SubSeqProperties
<1>5. \A i \in DOMAIN c : c[i].fd \in Fds => i \in 1..m
  <2> SUFFICES ASSUME NEW i \in DOMAIN c, c[i].fd \in Fds PROVE i \in 1..m
    OBVIOUS
  <2>1. c[i].fd >= 0
    OBVIOUS
  <2>2. m >= i
    BY <1>2, <2>1
  <2> QED BY <1>1, <1>3, <2>2
<1>6. DOMAIN d \subseteq DOMAIN c
  BY <1>1, <1>3, <1>4
<1>7. GateTypes(d, k, s, h)
  BY <1>4 DEF GateOk, GateTypes
<1>8. SlotsOk(d, k, s)
  BY <1>4, <1>6 DEF GateOk, SlotsOk
<1>9. DialsOk(d, k, s, h)
  BY <1>4, <1>6 DEF GateOk, DialsOk
<1>10. NoneLost(d, s, h)
  BY <1>4, <1>5 DEF GateOk, NoneLost
<1> QED BY <1>7, <1>8, <1>9, <1>10 DEF GateOk, d

(* An overtaken dial leaves the slots as they are when it ends.              *)
GateLate == \A t \in Threads : gTh[t].old /\ gTh'[t].op = "idle" => gConns' = gConns

(* What the invariant says of the threads.                                   *)
LEMMA GateThread ==
  ASSUME GateInv, NEW t \in Threads
  PROVE  /\ gTh[t] \in GateDial /\ gTh \in [Threads -> GateDial]
         /\ gTh[t].op = "idle" => ~gTh[t].old /\ gTh[t].name = NoName
         /\ gTh[t].op = "dial" =>
              /\ gTh[t].name \in PeerNames /\ gTh[t].fd \in Fds
              /\ gKnown[gTh[t].name].addr # NoAddr
              /\ gTh[t].gen \in Nat /\ gKnown[gTh[t].name].gen \in Nat
              /\ gTh[t].old => Gate!CancelChanged(t)
         /\ gTh[t].op \in {"idle", "dial"}
<1>1. /\ gTh[t] \in GateDial /\ gTh \in [Threads -> GateDial] /\ DialOk(gTh[t], gKnown, gSock)
      /\ gKnown \in [PeerNames -> GateEnd]
  BY DEF GateInv, GateOk, GateTypes, DialsOk
<1> QED BY <1>1 DEF DialOk, GateDial, GateEnd, Gate!CancelChanged

(* What the invariant says of the slots and endpoints.                       *)
LEMMA GateBasics ==
  ASSUME GateInv
  PROVE  /\ gConns \in Seq(GateSlot) /\ DOMAIN gConns = 1..Len(gConns) /\ Len(gConns) \in Nat
         /\ \A i \in DOMAIN gConns : gConns[i] \in GateSlot
         /\ gKnown \in [PeerNames -> GateEnd] /\ gSock \in [Fds -> GateSock]
         /\ gTh \in [Threads -> GateDial]
  BY ElementOfSeq, LenProperties DEF GateInv, GateOk, GateTypes

(* While no dial ends, none ends late.                                       *)
LEMMA GateOnTime ==
  ASSUME GateInv, \A t \in Threads : gTh'[t].op = gTh[t].op
  PROVE  GateLate
  BY GateThread DEF GateLate

(* A new remote or a new endpoint: its slots are emptied, its generation     *)
(* moves on.                                                                 *)
LEMMA GateAddRemote ==
  ASSUME GateInv, NEW n \in PeerNames, NEW a \in Addrs, Gate!AddRemote(n, a)
  PROVE  GateInv' /\ GateLate
<1> DEFINE I == Gate!Named(n)
<1> USE GateConstants
<1>1. /\ gConns' = Gate!Emptied(I) /\ gSock' = Gate!Shut(I) /\ gPeers' = gPeers
      /\ gTh' = Gate!Overtaken(n)
  BY DEF Gate!AddRemote
<1>2. /\ I \subseteq DOMAIN gConns
      /\ \A i \in DOMAIN gConns : gConns[i].name = n => i \in I
  BY DEF Gate!Named
<1> HIDE DEF I
<1>3. /\ GateOk(gConns', gKnown, gSock', gTh)
      /\ DOMAIN gConns' = DOMAIN gConns
      /\ \A i \in DOMAIN gConns : gConns'[i] = IF i \in I THEN Gate!Empty ELSE gConns[i]
  BY <1>1, <1>2, GateCloses DEF GateInv
<1>4. \A i \in DOMAIN gConns' : gConns'[i].name # n
  BY <1>2, <1>3 DEF Gate!Empty
<1>5. gKnown \in [PeerNames -> GateEnd]
  BY GateBasics
<1>6. /\ gKnown' \in [PeerNames -> GateEnd] /\ \A m \in PeerNames : m # n => gKnown'[m] = gKnown[m]
      /\ gKnown'[n].addr # NoAddr
      /\ gKnown'[n].gen > gKnown[n].gen \/ gKnown[n].addr = NoAddr
      /\ gKnown'[n].gen >= gKnown[n].gen
  <2>1. CASE n \in Gate!Known
    BY <1>5, <2>1 DEF Gate!AddRemote, GateEnd, AnyAddr
  <2>2. CASE n \notin Gate!Known
    <3>1. gKnown[n].addr = NoAddr
      BY <2>2 DEF Gate!Known
    <3>2. gKnown' = [gKnown EXCEPT ![n] = [gKnown[n] EXCEPT !.addr = a]]
      BY <2>2 DEF Gate!AddRemote
    <3> QED BY <1>5, <3>1, <3>2 DEF GateEnd, AnyAddr
  <2> QED BY <2>1, <2>2
<1>7. gTh' = [t \in Threads |-> [gTh[t] EXCEPT !.old = @ \/ gTh[t].name = n]]
  BY <1>1 DEF Gate!Overtaken
<1>8. GateOk(gConns', gKnown', gSock', gTh')
  BY <1>3, <1>4, <1>6, <1>7, GateMoves
<1>9. \A t \in Threads : gTh'[t].op = gTh[t].op
  BY <1>7, GateThread DEF GateDial
<1> QED BY <1>1, <1>8, <1>9, GateOnTime DEF GateInv, PeersOk

(* A disconnect empties the cluster's slots and overtakes its dials.         *)
LEMMA GateDisconnect ==
  ASSUME GateInv, NEW n \in PeerNames, Gate!Disconnect(n)
  PROVE  GateInv' /\ GateLate
<1> DEFINE I == Gate!Named(n)
           c == Gate!Emptied(I)
<1> USE GateConstants
<1>1. /\ gConns' = Gate!Trim(c) /\ gSock' = Gate!Shut(I) /\ gPeers' = gPeers
      /\ gTh' = Gate!Overtaken(n) /\ n \in Gate!Known
      /\ gKnown' = [gKnown EXCEPT ![n].gen = @ + 1, ![n].dialing = FALSE]
  BY DEF Gate!Disconnect
<1>2. /\ I \subseteq DOMAIN gConns
      /\ \A i \in DOMAIN gConns : gConns[i].name = n => i \in I
  BY DEF Gate!Named
<1> HIDE DEF I
<1>3. /\ GateOk(c, gKnown, gSock', gTh)
      /\ DOMAIN c = DOMAIN gConns
      /\ \A i \in DOMAIN gConns : c[i] = IF i \in I THEN Gate!Empty ELSE gConns[i]
  BY <1>1, <1>2, GateCloses DEF GateInv
<1> HIDE DEF c
<1>4. \A i \in DOMAIN c : c[i].name # n
  BY <1>2, <1>3 DEF Gate!Empty
<1>5. gKnown \in [PeerNames -> GateEnd]
  BY GateBasics
<1>6. /\ gKnown' \in [PeerNames -> GateEnd] /\ \A m \in PeerNames : m # n => gKnown'[m] = gKnown[m]
      /\ gKnown'[n].addr # NoAddr
      /\ gKnown'[n].gen > gKnown[n].gen
      /\ gKnown'[n].gen >= gKnown[n].gen
  <2>1. gKnown[n] \in GateEnd /\ gKnown[n].addr # NoAddr
    BY <1>1, <1>5 DEF Gate!Known
  <2>2. /\ gKnown'[n] = [gKnown[n] EXCEPT !.gen = @ + 1, !.dialing = FALSE]
        /\ \A m \in PeerNames : m # n => gKnown'[m] = gKnown[m]
        /\ DOMAIN gKnown' = PeerNames /\ gKnown' = [m \in PeerNames |-> gKnown'[m]]
    BY <1>1, <1>5
  <2>a. gKnown'[n] = [addr |-> gKnown[n].addr, gen |-> gKnown[n].gen + 1, dialing |-> FALSE]
    BY <2>1, <2>2 DEF GateEnd
  <2>3. /\ gKnown'[n] \in GateEnd /\ gKnown'[n].addr = gKnown[n].addr
        /\ gKnown'[n].gen = gKnown[n].gen + 1 /\ gKnown[n].gen \in Nat
    BY <2>1, <2>a DEF GateEnd
  <2> QED BY <1>5, <2>1, <2>2, <2>3
<1>7. gTh' = [t \in Threads |-> [gTh[t] EXCEPT !.old = @ \/ gTh[t].name = n]]
  BY <1>1 DEF Gate!Overtaken
<1>8. GateOk(c, gKnown', gSock', gTh')
  BY <1>3, <1>4, <1>6, <1>7, GateMoves
<1>9. GateOk(gConns', gKnown', gSock', gTh')
  BY <1>1, <1>8, GateTrims
<1>10. \A t \in Threads : gTh'[t].op = gTh[t].op
  BY <1>7, GateThread DEF GateDial
<1> QED BY <1>1, <1>9, <1>10, GateOnTime DEF GateInv, PeersOk

(* The slot a dial is meant for is in the table.                             *)
LEMMA GateMeant ==
  ASSUME GateInv, NEW n \in PeerNames, Len(gConns) < MaxConns \/ Gate!Reusable(n) # {}
  PROVE  Gate!MeantFor(n) \in DOMAIN gConns \cup {0} /\ Gate!MeantFor(n) \in Nat
<1>1. DOMAIN gConns = 1..Len(gConns) /\ Len(gConns) \in Nat
  BY GateBasics
<1>2. /\ Gate!Elsewhere(n) \subseteq DOMAIN gConns /\ Gate!Reusable(n) \subseteq DOMAIN gConns
  BY DEF Gate!Elsewhere, Gate!Reusable, Gate!Named, Gate!EmptySlots, Gate!DeadSlots
<1>3. /\ Gate!Elsewhere(n) # {} => Gate!Min(Gate!Elsewhere(n)) \in DOMAIN gConns
      /\ Gate!Reusable(n) # {} => Gate!Min(Gate!Reusable(n)) \in DOMAIN gConns
  <2>1. Gate!Elsewhere(n) \subseteq Nat /\ Gate!Reusable(n) \subseteq Nat
    BY <1>1, <1>2
  <2> QED BY <1>2, <2>1, GateMin
<1>4. CASE Gate!Elsewhere(n) # {}
  BY <1>1, <1>3, <1>4 DEF Gate!MeantFor
<1>5. CASE Gate!Elsewhere(n) = {} /\ Len(gConns) >= MaxConns
  <2>1. Gate!Reusable(n) # {}
    BY <1>1, <1>5, LinksAssumption
  <2>2. Gate!MeantFor(n) = Gate!Min(Gate!Reusable(n))
    BY <1>5 DEF Gate!MeantFor
  <2> QED BY <1>1, <1>3, <2>1, <2>2
<1>6. CASE Gate!Elsewhere(n) = {} /\ ~(Len(gConns) >= MaxConns)
  BY <1>6 DEF Gate!MeantFor
<1> QED BY <1>4, <1>5, <1>6

(* A connect makes room, then dials a socket of its own or finds a dial      *)
(* under way.                                                                *)
LEMMA GateConnect ==
  ASSUME GateInv, NEW t \in Threads, NEW n \in PeerNames, Gate!ConnectBegin(t, n)
  PROVE  GateInv' /\ GateLate
<1> DEFINE m == Gate!MeantFor(n)
           I == Gate!Named(n) \cup (IF m = 0 THEN {} ELSE {m})
           F == {f \in Fds : Gate!Shut(I)[f].st = "closed"}
           f == Gate!Min(F)
           d == [op |-> "dial", name |-> n, addr |-> gKnown[n].addr, gen |-> gKnown[n].gen,
                 slot |-> m, fd |-> f, old |-> FALSE]
<1> USE GateConstants
<1>1. /\ gConns' = Gate!Emptied(I) /\ gPeers' = gPeers /\ gTh[t].op = "idle" /\ F # {}
      /\ n \in Gate!Known /\ (Len(gConns) < MaxConns \/ Gate!Reusable(n) # {})
  BY DEF Gate!ConnectBegin
<1>2. m \in DOMAIN gConns \cup {0} /\ m \in Nat
  BY <1>1, GateMeant
<1>3. I \subseteq DOMAIN gConns
  BY <1>2 DEF Gate!Named
<1>4. f \in F
  <2>1. F \subseteq Nat
    BY LinksAssumption
  <2> QED BY <1>1, <2>1, GateMin
<1>5. \/ gKnown[n].dialing /\ gSock' = Gate!Shut(I) /\ gKnown' = gKnown /\ gTh' = gTh
      \/ /\ gKnown' = [gKnown EXCEPT ![n].dialing = TRUE]
         /\ gSock' = [Gate!Shut(I) EXCEPT ![f] = [st |-> "alive", name |-> n]]
         /\ gTh' = [gTh EXCEPT ![t] = d]
  BY DEF Gate!ConnectBegin
<1>6. GateOk(gConns', gKnown, Gate!Shut(I), gTh)
  BY <1>1, <1>3, GateCloses DEF GateInv
<1> HIDE DEF I, m
<1>7. CASE gSock' = Gate!Shut(I) /\ gKnown' = gKnown /\ gTh' = gTh
  BY <1>1, <1>6, <1>7, GateOnTime DEF GateInv, PeersOk
<1>8. CASE /\ gKnown' = [gKnown EXCEPT ![n].dialing = TRUE]
           /\ gSock' = [Gate!Shut(I) EXCEPT ![f] = [st |-> "alive", name |-> n]]
           /\ gTh' = [gTh EXCEPT ![t] = d]
  <2>1. /\ gKnown \in [PeerNames -> GateEnd] /\ gKnown[n].addr # NoAddr
        /\ gTh \in [Threads -> GateDial]
    BY <1>1, GateBasics DEF Gate!Known
  <2>2. f \in Fds /\ Gate!Shut(I)[f].st = "closed"
    BY <1>4
  <2> HIDE DEF f, F
  <2>3. /\ d \in GateDial /\ d.op = "dial" /\ d.fd = f /\ d.name = n /\ d.gen = gKnown[n].gen
        /\ ~d.old
    BY <1>2, <2>1, <2>2 DEF GateDial, GateEnd, AnyName, AnyAddr
  <2> HIDE DEF d
  <2>4. GateOk(gConns', gKnown, gSock', gTh')
    BY <1>1, <1>6, <1>8, <2>1, <2>2, <2>3, GateDials
  <2>5. /\ gKnown' \in [PeerNames -> GateEnd]
        /\ \A x \in PeerNames : gKnown'[x].addr = gKnown[x].addr /\ gKnown'[x].gen = gKnown[x].gen
    BY <1>8, <2>1 DEF GateEnd
  <2>6. GateOk(gConns', gKnown', gSock', gTh')
    BY <2>4, <2>5, GateKnows
  <2>7. GateLate
    <3> SUFFICES ASSUME NEW u \in Threads, gTh[u].old, gTh'[u].op = "idle" PROVE FALSE
      BY DEF GateLate
    <3>1. u # t /\ gTh'[u] = gTh[u]
      BY <1>8, <2>1, <2>3
    <3> QED BY <3>1, GateThread
  <2> QED BY <1>1, <2>6, <2>7 DEF GateInv, PeersOk
<1> QED BY <1>5, <1>7, <1>8

(* Only the dial that ends may be late, and one that is cancelled is.        *)
LEMMA GateEndOnTime ==
  ASSUME GateInv, NEW t \in Threads, Gate!DialEnd(t), gTh[t].op = "dial",
         Gate!CancelChanged(t) => gConns' = gConns
  PROVE  GateLate
<1> SUFFICES ASSUME NEW u \in Threads, gTh[u].old, gTh'[u].op = "idle" PROVE gConns' = gConns
  BY DEF GateLate
<1>1. gTh' = [gTh EXCEPT ![t] = Gate!Idle] /\ gTh \in [Threads -> GateDial]
  BY GateBasics DEF Gate!DialEnd
<1>2. CASE u = t
  BY <1>2, GateThread
<1>3. CASE u # t
  <2>1. gTh'[u] = gTh[u]
    BY <1>1, <1>3
  <2> QED BY <2>1, GateThread
<1> QED BY <1>2, <1>3

(* The flag of a dial that ended is cleared.                                 *)
LEMMA GateEndKnows ==
  ASSUME GateInv, NEW t \in Threads, Gate!DialEnd(t), gTh[t].op = "dial",
         GateOk(gConns', gKnown, gSock', gTh')
  PROVE  GateOk(gConns', gKnown', gSock', gTh')
<1>1. gKnown \in [PeerNames -> GateEnd] /\ gTh[t].name \in PeerNames
  BY GateBasics, GateThread
<1>2. gKnown' = [gKnown EXCEPT ![gTh[t].name].dialing = FALSE]
  BY DEF Gate!DialEnd
<1>3. /\ gKnown' \in [PeerNames -> GateEnd]
      /\ \A x \in PeerNames : gKnown'[x].addr = gKnown[x].addr /\ gKnown'[x].gen = gKnown[x].gen
  BY <1>1, <1>2 DEF GateEnd
<1> QED BY <1>3, GateKnows

(* A dial that fails closes the socket it owns.                              *)
LEMMA GateDialFails ==
  ASSUME GateInv, NEW t \in Threads, Gate!DialFails(t)
  PROVE  GateInv' /\ GateLate
<1>1. /\ gTh[t].op = "dial" /\ gSock' = [gSock EXCEPT ![gTh[t].fd] = Gate!Closed]
      /\ Gate!DialEnd(t) /\ gConns' = gConns /\ gPeers' = gPeers
  BY DEF Gate!DialFails
<1>2. GateOk(gConns', gKnown, gSock', gTh')
  BY <1>1, GateEnds DEF GateInv, Gate!DialEnd
<1> QED BY <1>1, <1>2, GateEndKnows, GateEndOnTime DEF GateInv, PeersOk

(* A dial that finds its cluster connected closes the socket it owns.        *)
LEMMA GateDialSurplus ==
  ASSUME GateInv, NEW t \in Threads, Gate!DialSurplus(t)
  PROVE  GateInv' /\ GateLate
<1> DEFINE I == {i \in Gate!Named(gTh[t].name) : Gate!Dead(gConns[i].fd)}
<1>1. /\ gTh[t].op = "dial" /\ gConns' = Gate!Emptied(I) /\ ~Gate!CancelChanged(t)
      /\ gSock' = [Gate!Shut(I) EXCEPT ![gTh[t].fd] = Gate!Closed]
      /\ Gate!DialEnd(t) /\ gPeers' = gPeers
  BY DEF Gate!DialSurplus
<1>2. I \subseteq DOMAIN gConns
  BY DEF Gate!Named
<1> HIDE DEF I
<1>3. GateOk(gConns', gKnown, Gate!Shut(I), gTh)
  BY <1>1, <1>2, GateCloses DEF GateInv
<1>4. GateOk(gConns', gKnown, gSock', gTh')
  BY <1>1, <1>3, GateEnds DEF Gate!DialEnd
<1> QED BY <1>1, <1>4, GateEndKnows, GateEndOnTime DEF GateInv, PeersOk

(* A dial is installed only while its generation is the cluster's.           *)
LEMMA GateDialInstall ==
  ASSUME GateInv, NEW t \in Threads, Gate!DialInstall(t)
  PROVE  GateInv' /\ GateLate
<1> DEFINE n == gTh[t].name
           new == [name |-> n, addr |-> gTh[t].addr, fd |-> gTh[t].fd]
           p == Gate!PlaceFor(t)
           N == Gate!Named(n)
           I == N \cup ({p} \cap DOMAIN gConns)
           c == Gate!Emptied(I)
<1> USE GateConstants
<1>1. /\ gTh[t].op = "dial" /\ ~Gate!CancelChanged(t) /\ Gate!DialEnd(t) /\ gPeers' = gPeers
      /\ gSock' = Gate!Shut(I) /\ gTh[t].addr = gKnown[n].addr
      /\ gConns' = IF p > Len(gConns) THEN Append(gConns, new)
                   ELSE [Gate!Emptied(N) EXCEPT ![p] = new]
  BY DEF Gate!DialInstall, Gate!EndpointCurrent
<1>2. /\ gConns \in Seq(GateSlot) /\ DOMAIN gConns = 1..Len(gConns) /\ Len(gConns) \in Nat
      /\ \A i \in DOMAIN gConns : gConns[i] \in GateSlot
  BY GateBasics
<1>3. /\ n \in PeerNames /\ gTh[t].fd \in Fds /\ new \in GateSlot
  <2>1. n \in PeerNames /\ gTh[t].fd \in Fds /\ gTh[t] \in GateDial
    BY <1>1, GateThread
  <2> QED BY <2>1 DEF GateSlot, GateDial, AnyName
<1>4. /\ I \subseteq DOMAIN gConns /\ N \subseteq I
      /\ \A i \in DOMAIN gConns : gConns[i].name = n <=> i \in N
  BY DEF Gate!Named
<1>5. \/ p \in DOMAIN gConns
      \/ p = Len(gConns) + 1 /\ N = {}
  <2> DEFINE C == Gate!Claimable(n)
  <2>1. C \subseteq DOMAIN gConns /\ N \subseteq C /\ C \subseteq Nat
    BY <1>2 DEF Gate!Claimable, Gate!EmptySlots, Gate!DeadSlots, Gate!Named
  <2>2. C # {} => Gate!Min(C) \in DOMAIN gConns
    BY <2>1, GateMin
  <2>3. CASE gTh[t].slot \in C
    BY <2>1, <2>3 DEF Gate!PlaceFor
  <2>4. CASE gTh[t].slot \notin C /\ C # {}
    <3>1. p = Gate!Min(C)
      BY <2>4 DEF Gate!PlaceFor
    <3> QED BY <2>2, <2>4, <3>1
  <2>5. CASE C = {}
    <3>1. p = Len(gConns) + 1
      BY <2>5 DEF Gate!PlaceFor
    <3> QED BY <2>1, <2>5, <3>1
  <2> QED BY <2>3, <2>4, <2>5
<1> HIDE DEF p, N, I
<1>6. /\ GateOk(c, gKnown, gSock', gTh) /\ DOMAIN c = DOMAIN gConns
      /\ \A i \in DOMAIN gConns : c[i] = IF i \in I THEN Gate!Empty ELSE gConns[i]
  BY <1>1, <1>4, GateCloses DEF GateInv
<1>7. Gate!Empty.fd = -1 /\ Gate!Empty.name = NoName
  BY DEF Gate!Empty
<1> HIDE DEF c
<1>8. /\ \A i \in DOMAIN c : c[i].name # n
      /\ p \in DOMAIN c => c[p].fd = -1
  BY <1>3, <1>4, <1>6, <1>7 DEF I
<1>9. /\ gConns' \in Seq(GateSlot) /\ DOMAIN gConns' = DOMAIN c \cup {p} /\ gConns'[p] = new
      /\ \A i \in DOMAIN c : i # p => gConns'[i] = c[i]
  <2>1. CASE p \in DOMAIN gConns
    <3>1. gConns' = [Gate!Emptied(N) EXCEPT ![p] = new]
      BY <1>1, <1>2, <2>1
    <3>2. /\ N \subseteq DOMAIN gConns
          /\ DOMAIN Gate!Emptied(N) = DOMAIN gConns /\ Len(Gate!Emptied(N)) = Len(gConns)
          /\ \A i \in DOMAIN gConns :
                Gate!Emptied(N)[i] = IF i \in N THEN Gate!Empty ELSE gConns[i]
          /\ Gate!Emptied(N) \in Seq(GateSlot)
      BY <1>4, GateCloses DEF GateInv, GateOk, GateTypes
    <3>3. gConns' \in Seq(GateSlot)
      BY <1>2, <1>3, <2>1, <3>1, <3>2, ExceptSeq
    <3>4. /\ DOMAIN gConns' = DOMAIN gConns /\ gConns'[p] = new
          /\ \A i \in DOMAIN gConns : i # p => gConns'[i] = Gate!Emptied(N)[i]
      BY <2>1, <3>1, <3>2
    <3>5. \A i \in DOMAIN gConns : i # p => (i \in N <=> i \in I)
      BY DEF I
    <3> QED BY <1>6, <2>1, <3>2, <3>3, <3>4, <3>5
  <2>2. CASE p = Len(gConns) + 1 /\ N = {}
    <3>1. gConns' = Append(gConns, new)
      BY <1>1, <1>2, <2>2
    <3>2. I = {}
      BY <1>2, <2>2 DEF I
    <3>3. /\ gConns' \in Seq(GateSlot) /\ Len(gConns') = Len(gConns) + 1
          /\ gConns'[p] = new /\ \A i \in 1..Len(gConns) : gConns'[i] = gConns[i]
          /\ DOMAIN gConns' = 1..(Len(gConns) + 1)
      BY <1>2, <1>3, <2>2, <3>1, AppendProperties, LenProperties
    <3> QED BY <1>2, <1>6, <2>2, <3>2, <3>3
  <2> QED BY <1>5, <2>1, <2>2
<1>10. GateOk(gConns', gKnown, gSock', gTh')
  <2>1. gTh' = [gTh EXCEPT ![t] = Gate!Idle]
    BY <1>1 DEF Gate!DialEnd
  <2>2. GateOk(gConns', gKnown, gSock', [gTh EXCEPT ![t] = Gate!Idle])
    <3> HIDE DEF new, n
    <3>1. new = [name |-> gTh[t].name, addr |-> gTh[t].addr, fd |-> gTh[t].fd] /\ n = gTh[t].name
      BY DEF new, n
    <3>2. /\ \A i \in DOMAIN c : c[i].name # gTh[t].name
          /\ gTh[t].addr = gKnown[gTh[t].name].addr
      BY <1>1, <1>8, <3>1
    <3>3. Filled(gConns', c, p, [name |-> gTh[t].name, addr |-> gTh[t].addr, fd |-> gTh[t].fd])
      BY <1>8, <1>9, <3>1 DEF Filled
    <3> QED BY <1>1, <1>6, <3>2, <3>3, GateInstalls
  <2> QED BY <2>1, <2>2
<1> QED BY <1>1, <1>10, GateEndKnows, GateEndOnTime DEF GateInv, PeersOk

(* In a finite set of numbers every rank is taken.                           *)
LEMMA GateRank ==
  ASSUME NEW m \in Nat, NEW I, I \subseteq 1..m, NEW j \in 1..Gate!Cardinality(I)
  PROVE  \E i \in I : Gate!Cardinality({k \in I : k <= i}) = j
<1> DEFINE Up(i) == {k \in I : k <= i}
           T == {i \in I : Cardinality(Up(i)) >= j}
<1>1. j \in 1..Cardinality(I)
  BY GateCount
<1>2. IsFiniteSet(I) /\ Cardinality(I) \in Nat
  <2>1. IsFiniteSet(1..m)
    BY FS_Interval
  <2> QED BY <2>1, FS_Subset, FS_CardinalityType
<1>3. \A i : IsFiniteSet(Up(i)) /\ Cardinality(Up(i)) \in Nat
  <2>1. \A i : Up(i) \subseteq I
    OBVIOUS
  <2> QED BY <1>2, <2>1, FS_Subset, FS_CardinalityType
<1>4. T # {}
  <2>1. I # {}
    BY <1>1, FS_EmptySet
  <2>2. I \subseteq 0..m
    OBVIOUS
  <2>3. PICK x \in I : \A y \in I : x >= y
    BY <2>1, <2>2, Greatest
  <2>4. Up(x) = I
    BY <2>3
  <2>5. Cardinality(Up(x)) >= j
    BY <1>1, <2>4
  <2> QED BY <2>5
<1>5. PICK i \in T : \A y \in T : i <= y
  <2>1. T \subseteq I /\ I \subseteq Nat
    OBVIOUS
  <2>2. T \subseteq Nat
    BY <2>1
  <2> QED BY <1>4, <2>2, Least
<1>6. Cardinality(Up(i)) = j
  <2> SUFFICES ASSUME Cardinality(Up(i)) # j PROVE FALSE
    OBVIOUS
  <2> DEFINE L == Up(i) \ {i}
  <2>1. i \in Up(i) /\ i \in Nat /\ Cardinality(Up(i)) >= j
    OBVIOUS
  <2>2. IsFiniteSet(L) /\ Cardinality(L) = Cardinality(Up(i)) - 1
    BY <1>3, <2>1, FS_RemoveElement
  <2>3. Cardinality(L) >= j
    BY <1>3, <2>1, <2>2
  <2>4. L # {}
    <3>1. Cardinality({}) = 0
      BY FS_EmptySet
    <3> HIDE DEF L
    <3> QED BY <2>3, <3>1
  <2>5. L \subseteq 0..m
    <3>1. L \subseteq I
      OBVIOUS
    <3> HIDE DEF L
    <3> QED BY <3>1
  <2>6. PICK x \in L : \A y \in L : x >= y
    BY <2>4, <2>5, Greatest
  <2>7. Up(x) = L
    <3>1. x \in I /\ x < i
      BY <2>6
    <3>2. \A k \in I : k <= x <=> k <= i /\ k # i
      BY <2>6, <3>1
    <3> QED BY <3>2
  <2>8. x \in T /\ x < i
    <3>1. x \in I /\ x < i
      BY <2>6
    <3>2. Cardinality(Up(x)) >= j
      BY <2>3, <2>7
    <3> QED BY <3>1, <3>2
  <2>9. i <= x
    BY <1>5, <2>8
  <2> QED BY <2>8, <2>9
<1>7. Gate!Cardinality({k \in I : k <= i}) = j
  BY <1>6, GateCount
<1> QED BY <1>7

(* A forward notes the slots of its clusters.                                *)
LEMMA GateSendBegin ==
  ASSUME GateInv, NEW C, C \subseteq PeerNames, Gate!SendBegin(C)
  PROVE  GateInv' /\ GateLate
<1> DEFINE I == {i \in DOMAIN gConns : gConns[i].name \in C}
           n == Gate!Cardinality(I)
           At(j) == CHOOSE i \in I : Gate!Cardinality({k \in I : k <= i}) = j
<1>1. /\ gConns' = gConns /\ gKnown' = gKnown /\ gSock' = gSock /\ gTh' = gTh
      /\ gPeers' = [j \in 1..n |-> Gate!Peer(At(j))]
  BY DEF Gate!SendBegin
<1>2. PeersOk'
  <2>1. /\ DOMAIN gConns = 1..Len(gConns) /\ Len(gConns) \in Nat
        /\ \A i \in DOMAIN gConns : gConns[i] \in GateSlot
    BY GateBasics
  <2>2. IsFiniteSet(I) /\ n \in Nat
    <3>1. IsFiniteSet(1..Len(gConns))
      BY <2>1, FS_Interval
    <3>2. IsFiniteSet(I)
      BY <2>1, <3>1, FS_Subset
    <3> QED BY <3>2, FS_CardinalityType, GateCount
  <2>3. ASSUME NEW j \in 1..n PROVE \E i \in I : Gate!Cardinality({k \in I : k <= i}) = j
    <3>1. I \subseteq 1..Len(gConns)
      BY <2>1
    <3> HIDE DEF I
    <3> QED BY <2>1, <3>1, GateRank
  <2>4. \A j \in 1..n : At(j) \in I
    BY <2>3
  <2>5. \A i \in I : Gate!Peer(i) \in GatePeer
    BY <2>1 DEF Gate!Peer, GateSlot, GatePeer
  <2>6. gPeers' \in [1..n -> GatePeer]
    BY <1>1, <2>4, <2>5
  <2>7. gPeers' \in Seq(GatePeer)
    <3>1. n \in Nat
      BY <2>2
    <3> HIDE DEF n
    <3> QED BY <3>1, <2>6, CountedSeq, Zenon
  <2> QED BY <2>7 DEF PeersOk
<1> QED BY <1>1, <1>2, GateOnTime DEF GateInv

(* The next noted peer is checked, written to, or dropped.                   *)
LEMMA GateSendPeer ==
  ASSUME GateInv, NEW ok \in BOOLEAN, Gate!SendPeer(ok)
  PROVE  GateInv' /\ GateLate
<1> DEFINE p == Head(gPeers)
<1>1. /\ gPeers # <<>> /\ gPeers' = Tail(gPeers) /\ gKnown' = gKnown /\ gTh' = gTh
      /\ \/ /\ Gate!SamePeer(p) /\ gConns' = Gate!Emptied({p.slot})
            /\ gSock' = Gate!Shut({p.slot})
         \/ gConns' = gConns /\ gSock' = gSock
  BY DEF Gate!SendPeer
<1>2. GateOk(gConns', gKnown', gSock', gTh')
  <2>1. CASE /\ Gate!SamePeer(p) /\ gConns' = Gate!Emptied({p.slot})
             /\ gSock' = Gate!Shut({p.slot})
    <3>1. {p.slot} \subseteq DOMAIN gConns
      BY <2>1 DEF Gate!SamePeer
    <3>2. GateOk(Gate!Emptied({p.slot}), gKnown, Gate!Shut({p.slot}), gTh)
      BY <3>1, GateCloses DEF GateInv
    <3> QED BY <1>1, <2>1, <3>2
  <2> QED BY <1>1, <2>1 DEF GateInv
<1>3. PeersOk'
  <2>1. gPeers \in Seq(GatePeer)
    BY DEF GateInv, PeersOk
  <2>2. Tail(gPeers) \in Seq(GatePeer)
    BY <1>1, <2>1, HeadTailProperties
  <2> QED BY <1>1, <2>2 DEF PeersOk
<1> QED BY <1>1, <1>2, <1>3, GateOnTime DEF GateInv

(* A step that changes phase and counters only.                              *)
LEMMA GateQuiet ==
  ASSUME GateInv, Gate!DestroyBegin \/ UNCHANGED gatewayVars
  PROVE  GateInv' /\ GateLate
<1>1. /\ gConns' = gConns /\ gKnown' = gKnown /\ gSock' = gSock /\ gTh' = gTh
      /\ gPeers' = gPeers
  BY DEF Gate!DestroyBegin, gatewayVars
<1> QED BY <1>1, GateOnTime DEF GateInv, PeersOk

(* A dead peer's socket stays open and keeps its owner.                      *)
LEMMA GatePeerDies ==
  ASSUME GateInv, NEW f \in Fds, Gate!PeerDies(f)
  PROVE  GateInv' /\ GateLate
<1>1. /\ gSock[f].st = "alive" /\ gSock' = [gSock EXCEPT ![f].st = "dead"]
      /\ gConns' = gConns /\ gKnown' = gKnown /\ gTh' = gTh /\ gPeers' = gPeers
  BY DEF Gate!PeerDies
<1>2. GateOk(gConns', gKnown', gSock', gTh')
  BY <1>1, GateDies DEF GateInv
<1> QED BY <1>1, <1>2, GateOnTime DEF GateInv, PeersOk

(* The end of destroy empties the table when no dial is left.                *)
LEMMA GateDestroyEnd ==
  ASSUME GateInv, Gate!DestroyEnd
  PROVE  GateInv' /\ GateLate
<1>1. /\ gConns' = Gate!Emptied(DOMAIN gConns) /\ gSock' = Gate!Shut(DOMAIN gConns)
      /\ gKnown' = gKnown /\ gTh' = gTh /\ gPeers' = gPeers
  BY DEF Gate!DestroyEnd
<1>2. GateOk(gConns', gKnown', gSock', gTh')
  BY <1>1, GateCloses DEF GateInv
<1> QED BY <1>1, <1>2, GateOnTime DEF GateInv, PeersOk

(* The gateway starts with an empty table and no socket.                     *)
LEMMA GateInit == Gate!Init => GateInv
<1> SUFFICES ASSUME Gate!Init PROVE GateInv
  OBVIOUS
<1> USE DEF Gate!Init
<1>1. gConns = <<>> /\ gPeers = <<>> /\ DOMAIN gConns = {}
  OBVIOUS
<1>2. /\ gTh \in [Threads -> GateDial]
      /\ \A t \in Threads : gTh[t].op = "idle" /\ gTh[t].name = NoName /\ ~gTh[t].old
  BY GateConstants DEF Gate!Idle, GateDial, AnyName, AnyAddr
<1>3. gKnown \in [PeerNames -> GateEnd]
  BY DEF GateEnd, AnyAddr
<1>4. gSock \in [Fds -> GateSock] /\ \A f \in Fds : gSock[f].st = "closed"
  BY DEF Gate!Closed, GateSock, AnyName
<1>5. GateTypes(gConns, gKnown, gSock, gTh)
  <2>1. gConns \in Seq(GateSlot)
    BY <1>1
  <2> QED BY <1>2, <1>3, <1>4, <2>1 DEF GateTypes
<1>6. SlotsOk(gConns, gKnown, gSock)
  BY <1>1 DEF SlotsOk
<1>7. DialsOk(gConns, gKnown, gSock, gTh)
  BY <1>1, <1>2 DEF DialsOk, DialOk
<1>8. NoneLost(gConns, gSock, gTh)
  BY <1>4 DEF NoneLost
<1>9. PeersOk
  BY <1>1 DEF PeersOk
<1> QED BY <1>5, <1>6, <1>7, <1>8, <1>9 DEF GateInv, GateOk

(* Every step of the gateway keeps the invariant and is not late.            *)
LEMMA GateStep ==
  ASSUME GateInv, Gate!Next \/ UNCHANGED gatewayVars
  PROVE  GateInv' /\ GateLate
<1>1. CASE UNCHANGED gatewayVars
  BY <1>1, GateQuiet
<1>2. CASE \E n \in PeerNames, a \in Addrs : Gate!AddRemote(n, a)
  BY <1>2, GateAddRemote
<1>3. CASE \E t \in Threads, n \in PeerNames : Gate!ConnectBegin(t, n)
  BY <1>3, GateConnect
<1>4. CASE \E t \in Threads : Gate!DialFails(t) \/ Gate!DialSurplus(t) \/ Gate!DialInstall(t)
  BY <1>4, GateDialFails, GateDialSurplus, GateDialInstall
<1>5. CASE \E n \in PeerNames : Gate!Disconnect(n) \/ Gate!SendBegin({n})
  <2>1. PICK n \in PeerNames : Gate!Disconnect(n) \/ Gate!SendBegin({n})
    BY <1>5
  <2>2. {n} \subseteq PeerNames
    OBVIOUS
  <2> QED BY <2>1, <2>2, GateDisconnect, GateSendBegin
<1>6. CASE Gate!SendBegin(PeerNames)
  BY <1>6, GateSendBegin
<1>7. CASE \E ok \in BOOLEAN : Gate!SendPeer(ok)
  BY <1>7, GateSendPeer
<1>8. CASE \E f \in Fds : Gate!PeerDies(f)
  BY <1>8, GatePeerDies
<1>9. CASE Gate!DestroyBegin \/ Gate!DestroyEnd
  BY <1>9, GateQuiet, GateDestroyEnd
<1> QED BY <1>1, <1>2, <1>3, <1>4, <1>5, <1>6, <1>7, <1>8, <1>9 DEF Gate!Next

(* The invariant says that every open socket has one owner.                  *)
LEMMA GateOwned == GateInv => Gate!LinksOwned /\ Gate!ForwardSound
<1> SUFFICES ASSUME GateInv PROVE Gate!LinksOwned /\ Gate!ForwardSound
  OBVIOUS
<1> USE GateConstants
<1>1. /\ \A i \in DOMAIN gConns : gConns[i] \in GateSlot
      /\ SlotsOk(gConns, gKnown, gSock) /\ DialsOk(gConns, gKnown, gSock, gTh)
      /\ NoneLost(gConns, gSock, gTh)
  BY GateBasics DEF GateInv, GateOk
<1>2. ASSUME NEW i \in DOMAIN gConns, gConns[i].fd >= 0
      PROVE  /\ gConns[i].fd \in Fds /\ gConns[i].name \in PeerNames
             /\ gSock[gConns[i].fd].st # "closed"
             /\ gSock[gConns[i].fd].name = gConns[i].name
             /\ gConns[i].addr = gKnown[gConns[i].name].addr
             /\ \A j \in DOMAIN gConns : gConns[j].name = gConns[i].name => j = i
  <2>1. gConns[i].fd \in Fds /\ gConns[i].fd # -1
    BY <1>1, <1>2 DEF GateSlot
  <2> QED BY <1>1, <2>1 DEF SlotsOk
<1>3. ASSUME NEW f \in Fds
      PROVE  Gate!Cardinality({i \in DOMAIN gConns : gConns[i].fd = f})
               + Gate!Cardinality({t \in Threads : gTh[t].op = "dial" /\ gTh[t].fd = f})
             = IF gSock[f].st = "closed" THEN 0 ELSE 1
  <2> DEFINE S == {i \in DOMAIN gConns : gConns[i].fd = f}
             T == {t \in Threads : gTh[t].op = "dial" /\ gTh[t].fd = f}
  <2>1. \A i, j \in S : i = j
    <3> SUFFICES ASSUME NEW i \in S, NEW j \in S PROVE i = j
      OBVIOUS
    <3>1. /\ i \in DOMAIN gConns /\ j \in DOMAIN gConns
          /\ gConns[i].fd = f /\ gConns[j].fd = f /\ f >= 0
      OBVIOUS
    <3> QED BY <1>2, <3>1
  <2>2. \A t, u \in T : t = u
    BY <1>1 DEF DialsOk
  <2>3. S # {} => T = {} /\ gSock[f].st # "closed"
    <3> SUFFICES ASSUME NEW i \in S PROVE T = {} /\ gSock[f].st # "closed"
      OBVIOUS
    <3>1. i \in DOMAIN gConns /\ gConns[i].fd = f /\ f >= 0
      OBVIOUS
    <3> QED BY <1>1, <1>2, <3>1 DEF DialsOk
  <2>4. T # {} => gSock[f].st # "closed"
    BY <1>1 DEF DialsOk, DialOk
  <2>5. gSock[f].st # "closed" => S # {} \/ T # {}
    BY <1>1 DEF NoneLost
  <2> HIDE DEF S, T
  <2>6. /\ S # {} => \E x : S = {x}
        /\ T # {} => \E x : T = {x}
    BY <2>1, <2>2
  <2>7. Cardinality(S) + Cardinality(T) = IF gSock[f].st = "closed" THEN 0 ELSE 1
    BY <2>3, <2>4, <2>5, <2>6, Counted
  <2> QED BY <2>7, GateCount DEF S, T
<1>4. \A i \in DOMAIN gConns : gConns[i].fd >= 0 => Gate!Named(gConns[i].name) = {i}
  BY <1>2 DEF Gate!Named
<1>5. Gate!LinksOwned
  BY <1>2, <1>3, <1>4 DEF Gate!LinksOwned
<1>6. Gate!ForwardSound
  <2> SUFFICES ASSUME NEW j \in DOMAIN gPeers, Gate!SamePeer(gPeers[j])
               PROVE  /\ gSock[gPeers[j].fd].st # "closed"
                      /\ gSock[gPeers[j].fd].name = gPeers[j].name
    BY DEF Gate!ForwardSound
  <2>1. gPeers[j].name \in PeerNames
    <3>1. gPeers \in Seq(GatePeer)
      BY DEF GateInv, PeersOk
    <3>2. gPeers[j] \in GatePeer
      BY <3>1, Element
    <3> QED BY <3>2 DEF GatePeer
  <2>2. /\ gPeers[j].slot \in DOMAIN gConns /\ gConns[gPeers[j].slot].fd = gPeers[j].fd
        /\ gConns[gPeers[j].slot].name = gPeers[j].name
    BY DEF Gate!SamePeer
  <2>3. gConns[gPeers[j].slot].fd # -1
    BY <1>1, <2>1, <2>2 DEF SlotsOk
  <2> QED BY <1>1, <2>2, <2>3 DEF SlotsOk
<1> QED BY <1>5, <1>6

-----------------------------------------------------------------------------
(* The leaf's link to its hub.                                               *)

(* Its types: link b, interest u, sockets s and threads h.                   *)
Interest == [name : Addrs, id : 1..MaxId]
HubLink == [fd : Ports \cup {-1}, gen : Nat, dialing : BOOLEAN, up : BOOLEAN]
HubSock == [open : BOOLEAN, alive : BOOLEAN, seen : SUBSET Interest]
HubCall == [op : {"idle", "reaped", "dial", "replay"}, fd : Ports \cup {-1}, gen : Nat,
            flush : Seq(Nat), replay : Seq(Interest), old : BOOLEAN]
HubTypes(b, u, s, h) ==
  /\ b \in HubLink /\ u \in Seq(Interest)
  /\ s \in [Ports -> HubSock] /\ h \in [Threads -> HubCall]

(* No id is live twice; the link's socket is open, and once the link is up   *)
(* the hub has recorded the interest and nothing else.                       *)
LinkOk(b, u, s) ==
  /\ \A i, j \in DOMAIN u : u[i].id = u[j].id => i = j
  /\ IF b.fd = -1 THEN ~b.up ELSE s[b.fd].open
  /\ b.up => s[b.fd].seen = Hub!ToSet(u)

(* A dial has an open socket on which nothing was sent.  A replay of the     *)
(* present connection has sent what it does not have to send any more.  The  *)
(* generation of a call that was overtaken is not the link's.                *)
CallOk(d, b, u, s) ==
  /\ d.op \in {"dial", "replay"} => d.fd \in Ports /\ d.gen <= b.gen /\ (d.old => d.gen < b.gen)
  /\ d.op = "dial" => s[d.fd].open /\ s[d.fd].seen = {} /\ d.fd # b.fd
  /\ d.op = "replay" /\ d.fd = b.fd /\ d.gen = b.gen =>
       /\ ~b.up /\ s[d.fd].seen \cup Hub!ToSet(d.replay) = Hub!ToSet(u)
       /\ d.flush # <<>> => s[d.fd].seen = {}

(* No two dials have one socket, no two replays one generation.              *)
CallsApart(h) ==
  \A t, v \in Threads : h[t].op = h[v].op =>
    /\ h[t].op = "dial" /\ h[t].fd = h[v].fd => t = v
    /\ h[t].op = "replay" /\ h[t].gen = h[v].gen => t = v

(* No open socket is without an owner.                                       *)
HubOwns(b, s, h) ==
  \A f \in Ports : s[f].open =>
    b.fd = f \/ \E t \in Threads : h[t].op = "dial" /\ h[t].fd = f

HubOk(b, u, s, h) ==
  /\ HubTypes(b, u, s, h) /\ LinkOk(b, u, s) /\ CallsApart(h) /\ HubOwns(b, s, h)
  /\ \A t \in Threads : CallOk(h[t], b, u, s)

HubInv == HubOk(hub, subs, hSock, hTh) /\ pending \in Seq(Nat) /\ nextId \in Nat

(* -1 is no descriptor; ids are taken from a ring that is not empty.         *)
LEMMA HubConstants ==
  /\ -1 \notin Ports /\ \A f \in Ports : f \in Int /\ f >= 0
  /\ MaxId \in Nat \ {0} /\ MaxSubs \in Nat \ {0}
  BY LinksAssumption

(* A call that has returned.                                                 *)
LEMMA IdleCall == Hub!Idle \in HubCall /\ Hub!Idle.op = "idle"
<1>1. <<>> \in Seq(Nat) /\ <<>> \in Seq(Interest)
  OBVIOUS
<1> QED BY <1>1 DEF Hub!Idle, HubCall

(* No two live subscriptions have one id.                                    *)
UniqueIds(u) == \A i, j \in DOMAIN u : u[i].id = u[j].id => i = j

(* The connection is dropped, and perhaps cancelled for good.                *)
LEMMA HubDrops ==
  ASSUME NEW b, NEW u, NEW s, NEW h, HubOk(b, u, s, h),
         NEW b2 \in HubLink, b2.fd = -1, ~b2.up, b2.gen >= b.gen,
         NEW u2 \in Seq(Interest), UniqueIds(u2)
  PROVE  HubOk(b2, u2, Hub!Without(s, b.fd), h)
<1> DEFINE s2 == Hub!Without(s, b.fd)
<1>1. /\ b \in HubLink /\ s \in [Ports -> HubSock] /\ h \in [Threads -> HubCall]
      /\ LinkOk(b, u, s) /\ CallsApart(h) /\ HubOwns(b, s, h)
      /\ \A t \in Threads : CallOk(h[t], b, u, s)
  BY DEF HubOk, HubTypes
<1>2. Hub!Closed \in HubSock /\ ~Hub!Closed.open
  BY DEF Hub!Closed, HubSock
<1>3. /\ s2 \in [Ports -> HubSock]
      /\ \A f \in Ports : s2[f] = IF f = b.fd THEN Hub!Closed ELSE s[f]
  BY <1>1, <1>2 DEF Hub!Without
<1> HIDE DEF s2
<1>4. HubTypes(b2, u2, s2, h)
  BY <1>1, <1>3 DEF HubTypes
<1>5. LinkOk(b2, u2, s2)
  BY DEF LinkOk, UniqueIds
<1>6. HubOwns(b2, s2, h)
  BY <1>1, <1>2, <1>3 DEF HubOwns
<1>7. ASSUME NEW t \in Threads PROVE CallOk(h[t], b2, u2, s2)
  <2>1. CallOk(h[t], b, u, s) /\ h[t] \in HubCall /\ b.gen \in Nat /\ b2.gen \in Nat
    BY <1>1 DEF HubLink
  <2>2. h[t].gen \in Nat
    BY <2>1 DEF HubCall
  <2>3. h[t].op \in {"dial", "replay"} =>
          /\ h[t].fd \in Ports /\ h[t].gen <= b2.gen /\ (h[t].old => h[t].gen < b2.gen)
          /\ h[t].fd # b2.fd
    BY <2>1, <2>2, HubConstants DEF CallOk
  <2>4. h[t].op = "dial" => s2[h[t].fd].open /\ s2[h[t].fd].seen = {}
    BY <1>3, <2>1, <2>3 DEF CallOk
  <2> QED BY <2>3, <2>4 DEF CallOk
<1> QED BY <1>1, <1>4, <1>5, <1>6, <1>7 DEF HubOk, s2

(* Without a connection the interest is the leaf's own affair.               *)
LEMMA HubOffline ==
  ASSUME NEW b, NEW u, NEW s, NEW h, HubOk(b, u, s, h), b.fd = -1,
         NEW u2 \in Seq(Interest), UniqueIds(u2)
  PROVE  HubOk(b, u2, s, h)
<1>1. /\ b \in HubLink /\ s \in [Ports -> HubSock] /\ ~b.up /\ b.gen \in Nat
  BY DEF HubOk, HubTypes, LinkOk, HubLink
<1>2. Hub!Without(s, b.fd) = s
  BY <1>1, HubConstants DEF Hub!Without
<1> QED BY <1>1, <1>2, HubDrops

(* hub_dialing decides who may dial, not who owns what.                      *)
LEMMA HubDialing ==
  ASSUME NEW b, NEW u, NEW s, NEW h, HubOk(b, u, s, h),
         NEW b2 \in HubLink, b2.fd = b.fd, b2.gen = b.gen, b2.up = b.up
  PROVE  HubOk(b2, u, s, h)
<1>1. \A t \in Threads : CallOk(h[t], b2, u, s)
  BY DEF HubOk, CallOk
<1> QED BY <1>1 DEF HubOk, HubTypes, LinkOk, HubOwns

(* A call that is not dialling ends, or has reaped the link.                 *)
LEMMA HubRests ==
  ASSUME NEW b, NEW u, NEW s, NEW h, HubOk(b, u, s, h), NEW t \in Threads,
         h[t].op # "dial", NEW d \in HubCall, d.op \in {"idle", "reaped"}
  PROVE  HubOk(b, u, s, [h EXCEPT ![t] = d])
<1> DEFINE h2 == [h EXCEPT ![t] = d]
<1>1. h \in [Threads -> HubCall]
  BY DEF HubOk, HubTypes
<1>2. /\ h2 \in [Threads -> HubCall]
      /\ \A v \in Threads : h2[v] = IF v = t THEN d ELSE h[v]
  BY <1>1
<1> HIDE DEF h2
<1>3. HubOwns(b, s, h2)
  <2> SUFFICES ASSUME NEW f \in Ports, s[f].open, b.fd # f
               PROVE  \E v \in Threads : h2[v].op = "dial" /\ h2[v].fd = f
    BY DEF HubOwns
  <2>1. PICK v \in Threads : h[v].op = "dial" /\ h[v].fd = f
    BY DEF HubOk, HubOwns
  <2>2. h2[v] = h[v]
    BY <1>2, <2>1
  <2> QED BY <2>1, <2>2
<1>4. CallsApart(h2)
  BY <1>2 DEF HubOk, CallsApart
<1>5. CallOk(d, b, u, s)
  BY DEF CallOk
<1>6. \A v \in Threads : CallOk(h2[v], b, u, s)
  BY <1>2, <1>5 DEF HubOk
<1>7. HubTypes(b, u, s, h2) /\ LinkOk(b, u, s)
  BY <1>2 DEF HubOk, HubTypes
<1> QED BY <1>3, <1>4, <1>6, <1>7 DEF HubOk, h2

(* A dial takes a closed socket.                                             *)
LEMMA HubDials ==
  ASSUME NEW b, NEW u, NEW s, NEW h, HubOk(b, u, s, h), NEW t \in Threads,
         h[t].op \in {"idle", "reaped"}, NEW f \in Ports, ~s[f].open,
         NEW d \in HubCall, d.op = "dial", d.fd = f, d.gen = b.gen, ~d.old
  PROVE  HubOk(b, u, [s EXCEPT ![f] = Hub!Dialled], [h EXCEPT ![t] = d])
<1> DEFINE s2 == [s EXCEPT ![f] = Hub!Dialled]
           h2 == [h EXCEPT ![t] = d]
<1>1. /\ b \in HubLink /\ s \in [Ports -> HubSock] /\ h \in [Threads -> HubCall]
      /\ LinkOk(b, u, s) /\ CallsApart(h) /\ HubOwns(b, s, h) /\ u \in Seq(Interest)
      /\ \A v \in Threads : CallOk(h[v], b, u, s)
  BY DEF HubOk, HubTypes
<1>2. /\ Hub!Dialled \in HubSock /\ Hub!Dialled.open /\ Hub!Dialled.seen = {}
  BY DEF Hub!Dialled, HubSock
<1>3. /\ s2 \in [Ports -> HubSock] /\ h2 \in [Threads -> HubCall]
      /\ \A g \in Ports : s2[g] = IF g = f THEN Hub!Dialled ELSE s[g]
      /\ \A v \in Threads : h2[v] = IF v = t THEN d ELSE h[v]
  BY <1>1, <1>2
<1> HIDE DEF s2, h2
<1>4. b.fd # f /\ (b.fd = -1 \/ b.fd \in Ports)
  BY <1>1, HubConstants DEF LinkOk, HubLink
<1>5. \A v \in Threads : h[v].op = "dial" => h[v].fd \in Ports /\ h[v].fd # f
  BY <1>1 DEF CallOk
<1>6. LinkOk(b, u, s2)
  BY <1>1, <1>3, <1>4, HubConstants DEF LinkOk
<1>7. CallsApart(h2)
  BY <1>1, <1>3, <1>5 DEF CallsApart
<1>8. HubOwns(b, s2, h2)
  <2> SUFFICES ASSUME NEW g \in Ports, s2[g].open, b.fd # g
               PROVE  \E v \in Threads : h2[v].op = "dial" /\ h2[v].fd = g
    BY DEF HubOwns
  <2>1. CASE g = f
    BY <1>3, <2>1
  <2>2. CASE g # f
    <3>1. PICK v \in Threads : h[v].op = "dial" /\ h[v].fd = g
      BY <1>1, <1>3, <2>2 DEF HubOwns
    <3>2. h2[v] = h[v]
      BY <1>3, <3>1
    <3> QED BY <3>1, <3>2
  <2> QED BY <2>1, <2>2
<1>9. ASSUME NEW v \in Threads PROVE CallOk(h2[v], b, u, s2)
  <2>1. CASE v = t
    <3>1. b.gen \in Nat
      BY <1>1 DEF HubLink
    <3> QED BY <1>2, <1>3, <1>4, <2>1, <3>1 DEF CallOk
  <2>2. CASE v # t
    <3>1. h2[v] = h[v] /\ CallOk(h[v], b, u, s)
      BY <1>1, <1>3, <2>2
    <3>2. h[v].op = "dial" => s2[h[v].fd] = s[h[v].fd]
      BY <1>3, <1>5
    <3>3. h[v].op = "replay" /\ h[v].fd = b.fd => h[v].fd \in Ports /\ s2[h[v].fd] = s[h[v].fd]
      BY <1>3, <1>4, <3>1 DEF CallOk
    <3> QED BY <3>1, <3>2, <3>3 DEF CallOk
  <2> QED BY <2>1, <2>2
<1> QED BY <1>1, <1>3, <1>6, <1>7, <1>8, <1>9 DEF HubOk, HubTypes, s2, h2

(* A dial ends and closes the socket it owns.                                *)
LEMMA HubShuts ==
  ASSUME NEW b, NEW u, NEW s, NEW h, HubOk(b, u, s, h), NEW t \in Threads,
         h[t].op = "dial"
  PROVE  HubOk(b, u, Hub!Without(s, h[t].fd), [h EXCEPT ![t] = Hub!Idle])
<1> DEFINE s2 == Hub!Without(s, h[t].fd)
           h2 == [h EXCEPT ![t] = Hub!Idle]
<1>1. /\ b \in HubLink /\ s \in [Ports -> HubSock] /\ h \in [Threads -> HubCall]
      /\ LinkOk(b, u, s) /\ CallsApart(h) /\ HubOwns(b, s, h) /\ u \in Seq(Interest)
      /\ \A v \in Threads : CallOk(h[v], b, u, s)
  BY DEF HubOk, HubTypes
<1>2. /\ Hub!Closed \in HubSock /\ ~Hub!Closed.open
      /\ Hub!Idle \in HubCall /\ Hub!Idle.op = "idle"
  BY IdleCall DEF Hub!Closed, HubSock
<1>3. /\ s2 \in [Ports -> HubSock] /\ h2 \in [Threads -> HubCall]
      /\ \A g \in Ports : s2[g] = IF g = h[t].fd THEN Hub!Closed ELSE s[g]
      /\ \A v \in Threads : h2[v] = IF v = t THEN Hub!Idle ELSE h[v]
  BY <1>1, <1>2 DEF Hub!Without
<1> HIDE DEF s2, h2
<1>4. h[t].fd \in Ports /\ h[t].fd # b.fd /\ (b.fd = -1 \/ b.fd \in Ports)
  BY <1>1 DEF CallOk, HubLink
<1>5. LinkOk(b, u, s2)
  BY <1>1, <1>3, <1>4, HubConstants DEF LinkOk
<1>6. CallsApart(h2)
  BY <1>1, <1>2, <1>3 DEF CallsApart
<1>7. HubOwns(b, s2, h2)
  <2> SUFFICES ASSUME NEW g \in Ports, s2[g].open, b.fd # g
               PROVE  \E v \in Threads : h2[v].op = "dial" /\ h2[v].fd = g
    BY DEF HubOwns
  <2>1. g # h[t].fd /\ s[g].open
    BY <1>2, <1>3
  <2>2. PICK v \in Threads : h[v].op = "dial" /\ h[v].fd = g
    BY <1>1, <2>1 DEF HubOwns
  <2>3. h2[v] = h[v]
    BY <1>3, <2>1, <2>2
  <2> QED BY <2>2, <2>3
<1>8. ASSUME NEW v \in Threads PROVE CallOk(h2[v], b, u, s2)
  <2>1. CASE v = t
    BY <1>2, <1>3, <2>1 DEF CallOk
  <2>2. CASE v # t
    <3>1. h2[v] = h[v] /\ CallOk(h[v], b, u, s)
      BY <1>1, <1>3, <2>2
    <3>2. h[v].op = "dial" => h[v].fd \in Ports /\ h[v].fd # h[t].fd
      BY <1>1, <2>2, <3>1 DEF CallOk, CallsApart
    <3>3. h[v].op = "dial" => s2[h[v].fd] = s[h[v].fd]
      BY <1>3, <3>2
    <3>4. h[v].op = "replay" /\ h[v].fd = b.fd => h[v].fd \in Ports /\ s2[h[v].fd] = s[h[v].fd]
      BY <1>3, <1>4, <3>1 DEF CallOk
    <3> QED BY <3>1, <3>3, <3>4 DEF CallOk
  <2> QED BY <2>1, <2>2
<1> QED BY <1>1, <1>3, <1>5, <1>6, <1>7, <1>8 DEF HubOk, HubTypes, s2, h2

(* A dial of the present generation becomes the link, with everything still  *)
(* to be sent.                                                               *)
LEMMA HubPublishes ==
  ASSUME NEW b, NEW u, NEW s, NEW h, HubOk(b, u, s, h), NEW t \in Threads, b.fd = -1,
         h[t].op = "dial", h[t].gen = b.gen, NEW p \in Seq(Nat),
         NEW d, d = [h[t] EXCEPT !.op = "replay", !.gen = b.gen + 1, !.flush = p, !.replay = u],
         NEW b2, b2 = [fd |-> h[t].fd, gen |-> b.gen + 1, dialing |-> FALSE, up |-> FALSE]
  PROVE  HubOk(b2, u, s, [h EXCEPT ![t] = d])
<1> DEFINE h2 == [h EXCEPT ![t] = d]
<1>1. /\ b \in HubLink /\ s \in [Ports -> HubSock] /\ h \in [Threads -> HubCall]
      /\ LinkOk(b, u, s) /\ CallsApart(h) /\ HubOwns(b, s, h) /\ u \in Seq(Interest)
      /\ \A v \in Threads : CallOk(h[v], b, u, s)
  BY DEF HubOk, HubTypes
<1>2. h[t] \in HubCall /\ b.gen \in Nat /\ b.gen + 1 \in Nat
  BY <1>1 DEF HubLink
<1>3. /\ h[t].fd \in Ports /\ ~h[t].old /\ s[h[t].fd].open /\ s[h[t].fd].seen = {}
  <2>1. CallOk(h[t], b, u, s)
    BY <1>1
  <2>2. ~(h[t].gen < b.gen)
    BY <1>2
  <2> QED BY <2>1, <2>2 DEF CallOk
<1>4. /\ d \in HubCall /\ d.op = "replay" /\ d.gen = b.gen + 1 /\ d.replay = u
      /\ d.fd = h[t].fd /\ ~d.old
  BY <1>1, <1>2, <1>3 DEF HubCall
<1>5. /\ b2 \in HubLink /\ b2.fd = h[t].fd /\ b2.gen = b.gen + 1 /\ ~b2.up
  BY <1>2, <1>3 DEF HubLink
<1>6. /\ h2 \in [Threads -> HubCall]
      /\ \A v \in Threads : h2[v] = IF v = t THEN d ELSE h[v]
  BY <1>1, <1>4
<1> HIDE DEF h2
<1>7. LinkOk(b2, u, s)
  BY <1>1, <1>3, <1>5 DEF LinkOk
<1>8. \A v \in Threads : h[v].op = "replay" => h[v].gen \in Nat /\ h[v].gen <= b.gen
  BY <1>1 DEF CallOk, HubCall
<1>9. CallsApart(h2)
  <2> SUFFICES ASSUME NEW v \in Threads, NEW w \in Threads, h2[v].op = h2[w].op
               PROVE  /\ h2[v].op = "dial" /\ h2[v].fd = h2[w].fd => v = w
                      /\ h2[v].op = "replay" /\ h2[v].gen = h2[w].gen => v = w
    BY DEF CallsApart
  <2>1. CASE v # t /\ w # t
    BY <1>1, <1>6, <2>1 DEF CallsApart
  <2>2. \A x \in Threads : x # t /\ h2[x].op = "replay" => h2[x].gen # b.gen + 1
    BY <1>2, <1>6, <1>8
  <2>3. h2[t].op = "replay" /\ h2[t].gen = b.gen + 1
    BY <1>4, <1>6
  <2>4. CASE v = t \/ w = t
    BY <2>2, <2>3, <2>4
  <2> QED BY <2>1, <2>4
<1>10. HubOwns(b2, s, h2)
  <2> SUFFICES ASSUME NEW g \in Ports, s[g].open, b2.fd # g
               PROVE  \E v \in Threads : h2[v].op = "dial" /\ h2[v].fd = g
    BY DEF HubOwns
  <2>1. PICK v \in Threads : h[v].op = "dial" /\ h[v].fd = g
    BY <1>1, HubConstants DEF HubOwns
  <2>2. h2[v] = h[v]
    BY <1>5, <1>6, <2>1
  <2> QED BY <2>1, <2>2
<1>11. ASSUME NEW v \in Threads PROVE CallOk(h2[v], b2, u, s)
  <2>1. CASE v = t
    <3>1. h2[v] = d
      BY <1>6, <2>1
    <3>2. s[d.fd].seen \cup Hub!ToSet(d.replay) = Hub!ToSet(u)
      BY <1>3, <1>4
    <3> QED BY <1>2, <1>3, <1>4, <1>5, <3>1, <3>2 DEF CallOk
  <2>2. CASE v # t
    <3>1. h2[v] = h[v] /\ CallOk(h[v], b, u, s) /\ h[v].gen \in Nat
      BY <1>1, <1>6, <2>2 DEF HubCall
    <3>2. h[v].op = "dial" => h[v].fd # b2.fd
      BY <1>1, <1>5, <2>2 DEF CallsApart
    <3>3. h[v].op = "replay" => h[v].gen # b2.gen
      BY <1>2, <1>5, <1>8
    <3>4. h[v].op \in {"dial", "replay"} =>
            h[v].fd \in Ports /\ h[v].gen <= b2.gen /\ (h[v].old => h[v].gen < b2.gen)
      BY <1>2, <1>5, <3>1 DEF CallOk
    <3> QED BY <3>1, <3>2, <3>3, <3>4 DEF CallOk
  <2> QED BY <2>1, <2>2
<1> QED BY <1>1, <1>5, <1>6, <1>7, <1>9, <1>10, <1>11 DEF HubOk, HubTypes, h2

(* A frame of the replay moves interest from what is to be sent to what was. *)
LEMMA HubSends ==
  ASSUME NEW b, NEW u, NEW s, NEW h, HubOk(b, u, s, h), NEW t \in Threads,
         h[t].op = "replay", h[t].fd = b.fd, h[t].gen = b.gen,
         NEW X \in SUBSET Interest, NEW d \in HubCall, d.op = "replay", d.fd = h[t].fd,
         d.gen = h[t].gen, d.old = h[t].old,
         X \cup Hub!ToSet(d.replay) = Hub!ToSet(u), d.flush # <<>> => X = {}
  PROVE  HubOk(b, u, [s EXCEPT ![b.fd].seen = X], [h EXCEPT ![t] = d])
<1> DEFINE s2 == [s EXCEPT ![b.fd].seen = X]
           h2 == [h EXCEPT ![t] = d]
<1>1. /\ b \in HubLink /\ s \in [Ports -> HubSock] /\ h \in [Threads -> HubCall]
      /\ LinkOk(b, u, s) /\ CallsApart(h) /\ HubOwns(b, s, h) /\ u \in Seq(Interest)
      /\ \A v \in Threads : CallOk(h[v], b, u, s)
  BY DEF HubOk, HubTypes
<1>2. b.fd \in Ports /\ ~b.up /\ s[b.fd] \in HubSock
  BY <1>1 DEF CallOk
<1>3. /\ s2 \in [Ports -> HubSock] /\ h2 \in [Threads -> HubCall]
      /\ s2[b.fd].seen = X
      /\ \A g \in Ports : s2[g].open = s[g].open
      /\ \A g \in Ports : g # b.fd => s2[g] = s[g]
      /\ \A v \in Threads : h2[v] = IF v = t THEN d ELSE h[v]
  BY <1>1, <1>2 DEF HubSock
<1> HIDE DEF s2, h2
<1>4. LinkOk(b, u, s2)
  BY <1>1, <1>2, <1>3 DEF LinkOk
<1>5. CallsApart(h2)
  <2> SUFFICES ASSUME NEW v \in Threads, NEW w \in Threads, h2[v].op = h2[w].op
               PROVE  /\ h2[v].op = "dial" /\ h2[v].fd = h2[w].fd => v = w
                      /\ h2[v].op = "replay" /\ h2[v].gen = h2[w].gen => v = w
    BY DEF CallsApart
  <2>1. /\ h2[v].op = h[v].op /\ h2[v].fd = h[v].fd /\ h2[v].gen = h[v].gen
        /\ h2[w].op = h[w].op /\ h2[w].fd = h[w].fd /\ h2[w].gen = h[w].gen
    BY <1>3
  <2> QED BY <1>1, <2>1 DEF CallsApart
<1>6. HubOwns(b, s2, h2)
  <2> SUFFICES ASSUME NEW g \in Ports, s2[g].open, b.fd # g
               PROVE  \E v \in Threads : h2[v].op = "dial" /\ h2[v].fd = g
    BY DEF HubOwns
  <2>1. PICK v \in Threads : h[v].op = "dial" /\ h[v].fd = g
    BY <1>1, <1>3 DEF HubOwns
  <2>2. h2[v] = h[v]
    BY <1>3, <2>1
  <2> QED BY <2>1, <2>2
<1>7. ASSUME NEW v \in Threads PROVE CallOk(h2[v], b, u, s2)
  <2>1. CASE v = t
    <3>1. h2[v] = d /\ CallOk(h[t], b, u, s)
      BY <1>1, <1>3, <2>1
    <3> QED BY <1>2, <1>3, <3>1 DEF CallOk
  <2>2. CASE v # t
    <3>1. h2[v] = h[v] /\ CallOk(h[v], b, u, s)
      BY <1>1, <1>3, <2>2
    <3>2. ~(h[v].op = "replay" /\ h[v].gen = b.gen)
      BY <1>1, <2>2 DEF CallsApart
    <3>3. h[v].op = "dial" => s2[h[v].fd] = s[h[v].fd]
      BY <1>3, <3>1 DEF CallOk
    <3> QED BY <3>1, <3>2, <3>3 DEF CallOk
  <2> QED BY <2>1, <2>2
<1> QED BY <1>1, <1>3, <1>4, <1>5, <1>6, <1>7 DEF HubOk, HubTypes, s2, h2

(* A replay that has nothing left to send brings its link up.                *)
LEMMA HubComesUp ==
  ASSUME NEW b, NEW u, NEW s, NEW h, HubOk(b, u, s, h), NEW t \in Threads,
         h[t].op = "replay", h[t].fd = b.fd, h[t].gen = b.gen, h[t].replay = <<>>
  PROVE  HubOk([b EXCEPT !.up = TRUE], u, s, [h EXCEPT ![t] = Hub!Idle])
<1> DEFINE b2 == [b EXCEPT !.up = TRUE]
           h2 == [h EXCEPT ![t] = Hub!Idle]
<1>1. /\ b \in HubLink /\ s \in [Ports -> HubSock] /\ h \in [Threads -> HubCall]
      /\ LinkOk(b, u, s) /\ CallsApart(h) /\ HubOwns(b, s, h) /\ u \in Seq(Interest)
      /\ \A v \in Threads : CallOk(h[v], b, u, s)
  BY DEF HubOk, HubTypes
<1>2. /\ b2 \in HubLink /\ b2.fd = b.fd /\ b2.gen = b.gen /\ b2.up
  BY <1>1 DEF HubLink
<1>3. Hub!Idle \in HubCall /\ Hub!Idle.op = "idle"
  BY IdleCall
<1>4. /\ h2 \in [Threads -> HubCall]
      /\ \A v \in Threads : h2[v] = IF v = t THEN Hub!Idle ELSE h[v]
  BY <1>1, <1>3
<1> HIDE DEF b2, h2
<1>5. b.fd \in Ports /\ s[b.fd].seen = Hub!ToSet(u)
  <2>1. CallOk(h[t], b, u, s)
    BY <1>1
  <2>2. Hub!ToSet(<<>>) = {}
    BY DEF Hub!ToSet
  <2> QED BY <2>1, <2>2 DEF CallOk
<1>6. LinkOk(b2, u, s)
  BY <1>1, <1>2, <1>5, HubConstants DEF LinkOk
<1>7. CallsApart(h2)
  BY <1>1, <1>3, <1>4 DEF CallsApart
<1>8. HubOwns(b2, s, h2)
  <2> SUFFICES ASSUME NEW g \in Ports, s[g].open, b2.fd # g
               PROVE  \E v \in Threads : h2[v].op = "dial" /\ h2[v].fd = g
    BY DEF HubOwns
  <2>1. PICK v \in Threads : h[v].op = "dial" /\ h[v].fd = g
    BY <1>1, <1>2 DEF HubOwns
  <2>2. h2[v] = h[v]
    BY <1>4, <2>1
  <2> QED BY <2>1, <2>2
<1>9. ASSUME NEW v \in Threads PROVE CallOk(h2[v], b2, u, s)
  <2>1. CASE v = t
    BY <1>3, <1>4, <2>1 DEF CallOk
  <2>2. CASE v # t
    <3>1. h2[v] = h[v] /\ CallOk(h[v], b, u, s)
      BY <1>1, <1>4, <2>2
    <3>2. ~(h[v].op = "replay" /\ h[v].gen = b.gen)
      BY <1>1, <2>2 DEF CallsApart
    <3> QED BY <1>2, <3>1, <3>2 DEF CallOk
  <2> QED BY <2>1, <2>2
<1> QED BY <1>1, <1>2, <1>4, <1>6, <1>7, <1>8, <1>9 DEF HubOk, HubTypes, b2, h2

(* Interest changes on both sides of a link that is up.                      *)
LEMMA HubLearns ==
  ASSUME NEW b, NEW u, NEW s, NEW h, HubOk(b, u, s, h), b.up,
         NEW u2 \in Seq(Interest), UniqueIds(u2)
  PROVE  HubOk(b, u2, [s EXCEPT ![b.fd].seen = Hub!ToSet(u2)], h)
<1> DEFINE s2 == [s EXCEPT ![b.fd].seen = Hub!ToSet(u2)]
<1>1. /\ b \in HubLink /\ s \in [Ports -> HubSock] /\ h \in [Threads -> HubCall]
      /\ LinkOk(b, u, s) /\ CallsApart(h) /\ HubOwns(b, s, h)
      /\ \A v \in Threads : CallOk(h[v], b, u, s)
  BY DEF HubOk, HubTypes
<1>2. b.fd \in Ports /\ s[b.fd] \in HubSock /\ b.fd # -1
  BY <1>1, HubConstants DEF LinkOk, HubLink
<1>3. Hub!ToSet(u2) \in SUBSET Interest
  <2>1. \A i \in DOMAIN u2 : u2[i] \in Interest
    BY Element
  <2> QED BY <2>1 DEF Hub!ToSet
<1>4. /\ s2 \in [Ports -> HubSock] /\ s2[b.fd].seen = Hub!ToSet(u2)
      /\ \A g \in Ports : s2[g].open = s[g].open
      /\ \A g \in Ports : g # b.fd => s2[g] = s[g]
  BY <1>1, <1>2, <1>3 DEF HubSock
<1> HIDE DEF s2
<1>5. LinkOk(b, u2, s2)
  BY <1>1, <1>2, <1>4 DEF LinkOk, UniqueIds
<1>6. HubOwns(b, s2, h)
  BY <1>1, <1>4 DEF HubOwns
<1>7. ASSUME NEW v \in Threads PROVE CallOk(h[v], b, u2, s2)
  <2>1. CallOk(h[v], b, u, s)
    BY <1>1
  <2>2. h[v].op = "dial" => s2[h[v].fd] = s[h[v].fd]
    BY <1>4, <2>1 DEF CallOk
  <2> QED BY <2>1, <2>2 DEF CallOk
<1> QED BY <1>1, <1>4, <1>5, <1>6, <1>7 DEF HubOk, HubTypes, s2

(* Whether the other end is still there is not noted anywhere.               *)
LEMMA HubLoses ==
  ASSUME NEW b, NEW u, NEW s, NEW h, HubOk(b, u, s, h), NEW f \in Ports
  PROVE  HubOk(b, u, [s EXCEPT ![f].alive = FALSE], h)
<1> DEFINE s2 == [s EXCEPT ![f].alive = FALSE]
<1>1. /\ b \in HubLink /\ s \in [Ports -> HubSock]
      /\ LinkOk(b, u, s) /\ HubOwns(b, s, h)
      /\ \A v \in Threads : CallOk(h[v], b, u, s)
  BY DEF HubOk, HubTypes
<1>2. /\ s2 \in [Ports -> HubSock]
      /\ \A g \in Ports : s2[g].open = s[g].open /\ s2[g].seen = s[g].seen
  BY <1>1 DEF HubSock
<1> HIDE DEF s2
<1>3. b.fd = -1 \/ b.fd \in Ports
  BY <1>1 DEF HubLink
<1>4. LinkOk(b, u, s2)
  BY <1>1, <1>2, <1>3 DEF LinkOk
<1>5. HubOwns(b, s2, h)
  BY <1>1, <1>2 DEF HubOwns
<1>6. ASSUME NEW v \in Threads PROVE CallOk(h[v], b, u, s2)
  BY <1>1, <1>2 DEF CallOk
<1> QED BY <1>2, <1>4, <1>5, <1>6 DEF HubOk, HubTypes, s2

(* A disconnect marks the calls it overtakes: their generation has passed.   *)
LEMMA HubOvertakes ==
  ASSUME NEW b, NEW u, NEW s, NEW h, HubOk(b, u, s, h),
         \A t \in Threads : h[t].op \in {"dial", "replay"} => h[t].gen < b.gen
  PROVE  HubOk(b, u, s, [t \in Threads |-> [h[t] EXCEPT !.old = h[t].op # "idle"]])
<1> DEFINE h2 == [t \in Threads |-> [h[t] EXCEPT !.old = h[t].op # "idle"]]
<1>1. /\ h \in [Threads -> HubCall] /\ CallsApart(h) /\ HubOwns(b, s, h)
      /\ \A v \in Threads : CallOk(h[v], b, u, s)
  BY DEF HubOk, HubTypes
<1>2. \A t \in Threads :
        /\ h2[t] \in HubCall /\ h2[t].op = h[t].op /\ h2[t].fd = h[t].fd
        /\ h2[t].gen = h[t].gen /\ h2[t].flush = h[t].flush /\ h2[t].replay = h[t].replay
  BY <1>1 DEF HubCall
<1>3. h2 \in [Threads -> HubCall]
  BY <1>2
<1> HIDE DEF h2
<1>4. CallsApart(h2)
  BY <1>1, <1>2 DEF CallsApart
<1>5. HubOwns(b, s, h2)
  BY <1>1, <1>2 DEF HubOwns
<1>6. ASSUME NEW v \in Threads PROVE CallOk(h2[v], b, u, s)
  <2>1. CallOk(h[v], b, u, s)
    BY <1>1
  <2>2. h2[v].op \in {"dial", "replay"} =>
          h2[v].fd \in Ports /\ h2[v].gen <= b.gen /\ h2[v].gen < b.gen
    BY <1>2, <2>1 DEF CallOk
  <2> QED BY <1>2, <2>1, <2>2 DEF CallOk
<1> QED BY <1>3, <1>4, <1>5, <1>6 DEF HubOk, HubTypes, h2

(* The next subscription has an id that no live one has.                     *)
LEMMA Gains ==
  ASSUME NEW u \in Seq(Interest), UniqueIds(u), NEW x \in Interest, x.id \notin Hub!Ids(u)
  PROVE  /\ Append(u, x) \in Seq(Interest) /\ UniqueIds(Append(u, x))
         /\ Hub!ToSet(Append(u, x)) = Hub!ToSet(u) \cup {x}
<1> DEFINE w == Append(u, x)
<1>1. /\ w \in Seq(Interest) /\ Len(u) \in Nat /\ DOMAIN u = 1..Len(u)
      /\ DOMAIN w = 1..(Len(u) + 1)
      /\ w[Len(u) + 1] = x /\ \A i \in 1..Len(u) : w[i] = u[i]
  BY AppendProperties, LenProperties
<1> HIDE DEF w
<1>2. \A i \in DOMAIN u : u[i].id # x.id
  BY DEF Hub!Ids
<1>3. DOMAIN w = DOMAIN u \cup {Len(u) + 1} /\ Len(u) + 1 \notin DOMAIN u
  BY <1>1
<1>4. UniqueIds(w)
  BY <1>1, <1>2, <1>3 DEF UniqueIds
<1>5. Hub!ToSet(w) = Hub!ToSet(u) \cup {x}
  BY <1>1, <1>3 DEF Hub!ToSet
<1> QED BY <1>1, <1>4, <1>5 DEF w

(* A subscription is taken out of the array; the ones behind it move up.     *)
LEMMA Loses ==
  ASSUME NEW u \in Seq(Interest), UniqueIds(u), NEW k \in DOMAIN u
  PROVE  /\ Hub!RemoveAt(u, k) \in Seq(Interest) /\ UniqueIds(Hub!RemoveAt(u, k))
         /\ Hub!ToSet(Hub!RemoveAt(u, k)) = {x \in Hub!ToSet(u) : x.id # u[k].id}
<1> DEFINE n == Len(u)
           a == SubSeq(u, 1, k - 1)
           c == SubSeq(u, k + 1, n)
           w == a \o c
<1>1. n \in Nat /\ DOMAIN u = 1..n /\ k \in 1..n
  BY LenProperties
<1>2. a \in Seq(Interest) /\ Len(a) = k - 1 /\ \A i \in 1..k - 1 : a[i] = u[i]
  BY <1>1, SubSeqProperties
<1>3. c \in Seq(Interest) /\ Len(c) = n - k /\ \A i \in 1..n - k : c[i] = u[k + i]
  <2>1. k + 1 \in 1..n + 1
    BY <1>1
  <2>2. /\ c \in Seq(Interest) /\ Len(c) = (IF k + 1 <= n THEN n - (k + 1) + 1 ELSE 0)
        /\ \A i \in 1..n - (k + 1) + 1 : c[i] = u[k + 1 + i - 1]
    BY <1>1, <2>1, SubSeqProperties
  <2> QED BY <1>1, <2>2
<1> HIDE DEF a, c
<1>4. /\ w \in Seq(Interest) /\ Len(w) = n - 1
      /\ \A i \in 1..n - 1 : w[i] = IF i < k THEN u[i] ELSE u[i + 1]
  <2>1. w \in Seq(Interest) /\ Len(w) = Len(a) + Len(c)
    BY <1>2, <1>3, ConcatProperties
  <2>2. \A i \in 1..Len(a) + Len(c) : w[i] = IF i <= Len(a) THEN a[i] ELSE c[i - Len(a)]
    BY <1>2, <1>3, ConcatProperties
  <2>3. ASSUME NEW i \in 1..n - 1 PROVE w[i] = IF i < k THEN u[i] ELSE u[i + 1]
    <3>1. CASE i < k
      <4>1. i \in 1..k - 1 /\ i <= Len(a) /\ i \in 1..Len(a) + Len(c)
        BY <1>1, <1>2, <1>3, <3>1
      <4> QED BY <1>2, <2>2, <3>1, <4>1
    <3>2. CASE ~(i < k)
      <4>1. /\ i - Len(a) \in 1..n - k /\ ~(i <= Len(a)) /\ i \in 1..Len(a) + Len(c)
            /\ k + (i - Len(a)) = i + 1
        BY <1>1, <1>2, <1>3, <3>2
      <4>2. w[i] = c[i - Len(a)] /\ c[i - Len(a)] = u[k + (i - Len(a))]
        BY <1>3, <2>2, <4>1
      <4> QED BY <3>2, <4>1, <4>2
    <3> QED BY <3>1, <3>2
  <2>4. Len(a) + Len(c) = n - 1
    BY <1>1, <1>2, <1>3
  <2> QED BY <2>1, <2>3, <2>4
<1>5. Hub!RemoveAt(u, k) = w
  BY DEF Hub!RemoveAt, a, c
<1> HIDE DEF w
<1>6. DOMAIN w = 1..n - 1
  BY <1>4, LenProperties
<1>7. UniqueIds(w)
  <2> SUFFICES ASSUME NEW i \in 1..n - 1, NEW j \in 1..n - 1, w[i].id = w[j].id PROVE i = j
    BY <1>6 DEF UniqueIds
  <2>1. PICK p \in 1..n : w[i] = u[p] /\ p = (IF i < k THEN i ELSE i + 1)
    BY <1>1, <1>4
  <2>2. PICK q \in 1..n : w[j] = u[q] /\ q = (IF j < k THEN j ELSE j + 1)
    BY <1>1, <1>4
  <2>3. p = q
    BY <1>1, <2>1, <2>2 DEF UniqueIds
  <2> QED BY <1>1, <2>1, <2>2, <2>3
<1>8. \A x \in Hub!ToSet(w) : x \in Hub!ToSet(u) /\ x.id # u[k].id
  <2> SUFFICES ASSUME NEW i \in 1..n - 1 PROVE w[i] \in Hub!ToSet(u) /\ w[i].id # u[k].id
    BY <1>6 DEF Hub!ToSet
  <2>1. PICK p \in 1..n : w[i] = u[p] /\ p # k
    BY <1>1, <1>4
  <2> QED BY <1>1, <2>1 DEF UniqueIds, Hub!ToSet
<1>9. \A x \in Hub!ToSet(u) : x.id # u[k].id => x \in Hub!ToSet(w)
  <2> SUFFICES ASSUME NEW p \in 1..n, u[p].id # u[k].id PROVE \E i \in 1..n - 1 : w[i] = u[p]
    BY <1>1, <1>6 DEF Hub!ToSet
  <2>1. CASE p < k
    BY <1>1, <1>4, <2>1
  <2>2. CASE p > k
    <3>1. p - 1 \in 1..n - 1 /\ ~(p - 1 < k) /\ (p - 1) + 1 = p
      BY <1>1, <2>2
    <3> QED BY <1>4, <3>1
  <2> QED BY <1>1, <2>1, <2>2
<1> QED BY <1>4, <1>5, <1>7, <1>8, <1>9

(* The first of what is to be sent, and the rest.                            *)
LEMMA FirstAndRest ==
  ASSUME NEW S, NEW r \in Seq(S), r # <<>>
  PROVE  /\ Head(r) \in S /\ Tail(r) \in Seq(S)
         /\ Hub!ToSet(r) = {Head(r)} \cup Hub!ToSet(Tail(r))
<1>1. /\ Head(r) = r[1] /\ Tail(r) \in Seq(S) /\ Len(r) \in Nat \ {0}
      /\ Len(Tail(r)) = Len(r) - 1 /\ \A i \in 1..Len(r) - 1 : Tail(r)[i] = r[i + 1]
      /\ Head(r) \in S /\ DOMAIN r = 1..Len(r)
  BY HeadTailProperties, EmptySeq, LenProperties
<1>2. DOMAIN Tail(r) = 1..Len(r) - 1
  BY <1>1, LenProperties
<1> DEFINE q == Tail(r)
           m == Len(r)
<1>3. /\ m \in Nat \ {0} /\ DOMAIN r = 1..m /\ DOMAIN q = 1..m - 1 /\ Head(r) = r[1]
      /\ \A i \in 1..m - 1 : q[i] = r[i + 1]
  BY <1>1, <1>2
<1> HIDE DEF q, m
<1>4. \A i \in 1..m : i = 1 \/ \E j \in 1..m - 1 : i = j + 1
  <2> SUFFICES ASSUME NEW i \in 1..m, i # 1 PROVE \E j \in 1..m - 1 : i = j + 1
    OBVIOUS
  <2>1. i - 1 \in 1..m - 1 /\ i = (i - 1) + 1
    BY <1>3
  <2> QED BY <2>1
<1>5. \A j \in 1..m - 1 : j + 1 \in 1..m
  BY <1>3
<1>6. Hub!ToSet(r) = {r[1]} \cup Hub!ToSet(q)
  <2>1. \A i \in 1..m : r[i] = r[1] \/ \E j \in 1..m - 1 : r[i] = q[j]
    BY <1>3, <1>4
  <2>2. 1 \in 1..m /\ \A j \in 1..m - 1 : \E i \in 1..m : q[j] = r[i]
    BY <1>3, <1>5
  <2>3. /\ \A x : x \in Hub!ToSet(r) <=> \E i \in 1..m : x = r[i]
        /\ \A x : x \in Hub!ToSet(q) <=> \E j \in 1..m - 1 : x = q[j]
    BY <1>3 DEF Hub!ToSet
  <2> QED BY <2>1, <2>2, <2>3
<1> QED BY <1>1, <1>3, <1>6 DEF q

(* leaf_mint_sub_id: the id that is minted is neither live nor pending.      *)
LEMMA Minted ==
  ASSUME nextId \in Nat, Hub!Mintable # {}
  PROVE  Hub!Mint \in 1..MaxId /\ Hub!Mint \notin Hub!Ids(subs) /\ Hub!AfterMint \in Nat
<1> DEFINE M == Hub!Mintable
           D == {Hub!RingDistance(i) : i \in M}
<1>1. M \subseteq 1..MaxId /\ \A i \in M : i \notin Hub!Ids(subs)
  BY DEF Hub!Mintable
<1>2. ASSUME NEW i \in M PROVE Hub!RingDistance(i) \in Nat
  <2>1. i - nextId \in Int /\ MaxId \in Nat \ {0}
    BY <1>1, HubConstants
  <2> QED BY <2>1 DEF Hub!RingDistance
<1>3. D \subseteq Nat /\ D # {}
  BY <1>2
<1> HIDE DEF M
<1>4. PICK x \in D : \A y \in D : x <= y
  BY <1>3, Least
<1>5. PICK i \in M : x = Hub!RingDistance(i)
  OBVIOUS
<1>6. \E k \in M : \A j \in M : Hub!RingDistance(k) <= Hub!RingDistance(j)
  BY <1>4, <1>5
<1>7. Hub!Mint \in M
  BY <1>6, Zenon DEF Hub!Mint, M
<1>8. Hub!AfterMint \in Nat
  <2>1. Hub!Mint \in Nat /\ MaxId \in Nat \ {0}
    BY <1>1, <1>7, HubConstants
  <2> QED BY <2>1 DEF Hub!AfterMint
<1> QED BY <1>1, <1>7, <1>8

(* What the invariant says of the variables.                                 *)
LEMMA HubBasics ==
  ASSUME HubInv
  PROVE  /\ hub \in HubLink /\ subs \in Seq(Interest) /\ UniqueIds(subs)
         /\ hSock \in [Ports -> HubSock] /\ hTh \in [Threads -> HubCall]
         /\ pending \in Seq(Nat) /\ nextId \in Nat /\ HubOk(hub, subs, hSock, hTh)
         /\ hub.fd \in Ports \cup {-1} /\ hub.gen \in Nat /\ (hub.up => hub.fd \in Ports)
         /\ \A t \in Threads : CallOk(hTh[t], hub, subs, hSock) /\ hTh[t] \in HubCall
         /\ (hub.fd >= 0 <=> hub.fd \in Ports)
  BY HubConstants DEF HubInv, HubOk, HubTypes, LinkOk, UniqueIds, HubLink

(* The link after leaf_hub_drop, and after a disconnect.                     *)
LEMMA GoneLink ==
  ASSUME hub \in HubLink
  PROVE  /\ Hub!HubGone \in HubLink /\ Hub!HubGone.fd = -1 /\ ~Hub!HubGone.up
         /\ Hub!HubGone.gen = hub.gen
         /\ \A x \in BOOLEAN :
              LET b == [fd |-> -1, gen |-> hub.gen + 1, dialing |-> x, up |-> FALSE]
              IN b \in HubLink /\ b.fd = -1 /\ ~b.up /\ b.gen = hub.gen + 1 /\ b.gen >= hub.gen
<1>1. /\ Hub!HubGone \in HubLink /\ Hub!HubGone.fd = -1 /\ ~Hub!HubGone.up
      /\ Hub!HubGone.gen = hub.gen
  BY DEF Hub!HubGone, HubLink
<1>2. hub.gen \in Nat /\ hub.gen + 1 \in Nat /\ hub.gen + 1 >= hub.gen
  BY DEF HubLink
<1>3. \A x \in BOOLEAN : [fd |-> -1, gen |-> hub.gen + 1, dialing |-> x, up |-> FALSE] \in HubLink
  BY <1>2 DEF HubLink
<1> QED BY <1>1, <1>2, <1>3

(* A call that was overtaken neither publishes its socket nor brings the     *)
(* link up.                                                                  *)
HubLate == \A t \in Threads :
  hTh[t].old /\ hTh[t].op \in {"dial", "replay"} /\ hTh'[t] # hTh[t] =>
    hub'.fd # hTh[t].fd \/ hub' = hub

(* A step that leaves no link is never late ...                              *)
LEMMA HubDownOnTime ==
  ASSUME HubInv, hub'.fd = -1
  PROVE  HubLate
<1>1. \A t \in Threads : hTh[t].op \in {"dial", "replay"} => hTh[t].fd \in Ports
  BY HubBasics DEF CallOk
<1> QED BY <1>1, HubConstants DEF HubLate

(* ... nor is one of a call that is not overtaken.                           *)
LEMMA HubOnTime ==
  ASSUME HubInv, NEW t \in Threads, NEW d, hTh' = [hTh EXCEPT ![t] = d],
         hTh[t].old /\ hTh[t].op \in {"dial", "replay"} => hub'.fd # hTh[t].fd \/ hub' = hub
  PROVE  HubLate
<1>1. \A v \in Threads : v # t => hTh'[v] = hTh[v]
  BY HubBasics
<1> QED BY <1>1 DEF HubLate

(* A thread reaps a dead link.                                               *)
LEMMA HubReap ==
  ASSUME HubInv, NEW t \in Threads, Hub!ReapHub(t)
  PROVE  HubInv' /\ HubLate
<1> DEFINE d == [hTh[t] EXCEPT !.op = "reaped"]
<1>1. /\ hTh[t].op = "idle" /\ hSock' = Hub!Without(hSock, hub.fd) /\ hub' = Hub!HubGone
      /\ hTh' = [hTh EXCEPT ![t] = d] /\ UNCHANGED <<subs, pending, nextId>>
  <2>1. [hTh EXCEPT ![t].op = "reaped"] = [hTh EXCEPT ![t] = d]
    BY HubBasics
  <2> QED BY <2>1 DEF Hub!ReapHub
<1>2. d \in HubCall /\ d.op = "reaped"
  <2>1. hTh[t] \in HubCall
    BY HubBasics
  <2> QED BY <2>1 DEF HubCall
<1>3. HubOk(Hub!HubGone, subs, Hub!Without(hSock, hub.fd), hTh)
  BY HubBasics, GoneLink, HubDrops
<1> HIDE DEF d
<1>4. HubOk(Hub!HubGone, subs, Hub!Without(hSock, hub.fd), [hTh EXCEPT ![t] = d])
  BY <1>1, <1>2, <1>3, HubRests
<1>5. HubInv'
  BY <1>1, <1>4, HubBasics DEF HubInv
<1> QED BY <1>1, <1>5, HubBasics, GoneLink, HubDownOnTime

(* A dial begins, on a socket that is closed once a dead link is dropped.    *)
LEMMA HubDialBegin ==
  ASSUME HubInv, NEW t \in Threads, Hub!DialBegin(t)
  PROVE  HubInv' /\ HubLate
<1> DEFINE s1 == IF Hub!Linked THEN Hub!Without(hSock, hub.fd) ELSE hSock
           F == {f \in Ports : ~s1[f].open}
           b1 == IF Hub!Linked THEN Hub!HubGone ELSE hub
           b2 == [b1 EXCEPT !.dialing = TRUE]
           d == [Hub!Idle EXCEPT !.op = "dial", !.fd = Hub!Min(F), !.gen = hub.gen]
<1>1. /\ F # {} /\ hTh[t].op \in {"idle", "reaped"}
      /\ hSock' = [s1 EXCEPT ![Hub!Min(F)] = Hub!Dialled] /\ hub' = b2
      /\ hTh' = [hTh EXCEPT ![t] = d] /\ UNCHANGED <<subs, pending, nextId>>
  BY DEF Hub!DialBegin
<1>2. HubOk(b1, subs, s1, hTh) /\ b1 \in HubLink /\ b1.gen = hub.gen
  <2>1. CASE Hub!Linked
    <3>1. HubOk(Hub!HubGone, subs, Hub!Without(hSock, hub.fd), hTh)
      BY HubBasics, GoneLink, HubDrops
    <3> QED BY <2>1, <3>1, HubBasics, GoneLink
  <2>2. CASE ~Hub!Linked
    BY <2>2, HubBasics
  <2> QED BY <2>1, <2>2
<1>3. Hub!Min(F) \in F
  <2>1. F \subseteq Nat
    BY LinksAssumption
  <2>2. \E x \in F : \A y \in F : x <= y
    BY <1>1, <2>1, Least
  <2> HIDE DEF F
  <2> QED BY <2>2, Zenon DEF Hub!Min
<1>4. Hub!Min(F) \in Ports /\ ~s1[Hub!Min(F)].open
  BY <1>3
<1> DEFINE f == Hub!Min(F)
<1>5. /\ d \in HubCall /\ d.op = "dial" /\ d.fd = f /\ d.gen = b1.gen /\ ~d.old
  <2>1. hub.gen \in Nat /\ f \in Ports
    BY <1>4, HubBasics
  <2>2. ~Hub!Idle.old
    BY DEF Hub!Idle
  <2> DEFINE e == [Hub!Idle EXCEPT !.op = "dial", !.fd = f, !.gen = hub.gen]
  <2>3. e \in HubCall /\ e.op = "dial" /\ e.fd = f /\ e.gen = hub.gen /\ ~e.old
    <3> HIDE DEF f
    <3> QED BY <2>1, <2>2, IdleCall DEF HubCall
  <2> QED BY <1>2, <2>3
<1>6. b2 \in HubLink /\ b2.fd = b1.fd /\ b2.gen = b1.gen /\ b2.up = b1.up
  <2> HIDE DEF b1
  <2> QED BY <1>2 DEF HubLink
<1> HIDE DEF s1, F, b1, b2, d, f
<1>7. HubOk(b2, subs, s1, hTh)
  BY <1>2, <1>6, HubDialing
<1>8. HubOk(b2, subs, [s1 EXCEPT ![f] = Hub!Dialled], [hTh EXCEPT ![t] = d])
  BY <1>1, <1>4, <1>5, <1>6, <1>7, HubDials DEF f
<1>9. HubInv'
  BY <1>1, <1>8, HubBasics DEF HubInv, f
<1> QED BY <1>1, <1>9, HubOnTime

(* A reaper finds nothing to do.                                             *)
LEMMA HubReaperReturns ==
  ASSUME HubInv, NEW t \in Threads, Hub!ReaperReturns(t)
  PROVE  HubInv' /\ HubLate
<1>1. /\ hTh[t].op = "reaped" /\ hTh' = [hTh EXCEPT ![t] = Hub!Idle]
      /\ UNCHANGED <<hub, subs, pending, nextId, hSock>>
  BY DEF Hub!ReaperReturns
<1>2. HubOk(hub, subs, hSock, [hTh EXCEPT ![t] = Hub!Idle])
  BY <1>1, HubBasics, HubRests, IdleCall
<1>3. HubInv'
  BY <1>1, <1>2, HubBasics DEF HubInv
<1> QED BY <1>1, <1>3, HubOnTime

(* A dial that may not publish its socket closes it.                         *)
LEMMA HubDialFails ==
  ASSUME HubInv, NEW t \in Threads, Hub!DialFails(t)
  PROVE  HubInv' /\ HubLate
<1> DEFINE b2 == [hub EXCEPT !.dialing = FALSE]
<1>1. /\ hTh[t].op = "dial" /\ hTh' = [hTh EXCEPT ![t] = Hub!Idle] /\ hub' = b2
      /\ hSock' = Hub!Without(hSock, hTh[t].fd) /\ UNCHANGED <<subs, pending, nextId>>
  BY DEF Hub!DialFails
<1>2. b2 \in HubLink /\ b2.fd = hub.fd /\ b2.gen = hub.gen /\ b2.up = hub.up
  BY HubBasics DEF HubLink
<1> HIDE DEF b2
<1>3. HubOk(b2, subs, hSock, hTh)
  BY <1>2, HubBasics, HubDialing
<1>4. HubOk(b2, subs, Hub!Without(hSock, hTh[t].fd), [hTh EXCEPT ![t] = Hub!Idle])
  BY <1>1, <1>3, HubShuts
<1>5. HubInv'
  BY <1>1, <1>4, HubBasics DEF HubInv
<1>6. hub'.fd # hTh[t].fd
  BY <1>1, <1>2, HubBasics DEF CallOk
<1> QED BY <1>1, <1>5, <1>6, HubOnTime

(* A dial publishes its socket and claims what is to be sent ...             *)
LEMMA HubPublish ==
  ASSUME HubInv, NEW t \in Threads, Hub!Publish(t)
  PROVE  HubInv' /\ HubLate
<1> DEFINE s1 == Hub!Without(hSock, hub.fd)
           b2 == [fd |-> hTh[t].fd, gen |-> hub.gen + 1, dialing |-> FALSE, up |-> FALSE]
           d == [hTh[t] EXCEPT !.op = "replay", !.gen = hub.gen + 1, !.flush = pending,
                               !.replay = subs]
<1>1. hTh[t].op = "dial" /\ hub.gen = hTh[t].gen /\ hub' = b2 /\ pending' = <<>>
      /\ UNCHANGED <<subs, nextId>>
  BY DEF Hub!Publish, Hub!Superseded
<1>2. hSock' = s1
  <2>1. CASE Hub!Linked
    BY <2>1 DEF Hub!Publish
  <2>2. CASE ~Hub!Linked
    <3>1. hub.fd = -1
      BY <2>2, HubBasics DEF Hub!Publish, Hub!Superseded, Hub!MidReplay, Hub!Linked
    <3>2. Hub!Without(hSock, -1) = hSock
      BY HubBasics, HubConstants DEF Hub!Without
    <3> QED BY <2>2, <3>1, <3>2 DEF Hub!Publish
  <2> QED BY <2>1, <2>2
<1>3. hTh' = [hTh EXCEPT ![t] = d]
  <2>1. hTh \in [Threads -> HubCall]
    BY HubBasics
  <2> QED BY <2>1 DEF Hub!Publish
<1>4. HubOk(Hub!HubGone, subs, s1, hTh) /\ Hub!HubGone.fd = -1 /\ Hub!HubGone.gen = hub.gen
  BY HubBasics, GoneLink, HubDrops
<1>5. HubOk(b2, subs, s1, [hTh EXCEPT ![t] = d])
  <2> DEFINE b1 == Hub!HubGone
  <2> HIDE DEF b1, s1
  <2>1. HubOk(b1, subs, s1, hTh) /\ b1.fd = -1 /\ b1.gen = hub.gen /\ pending \in Seq(Nat)
    BY <1>4, HubBasics DEF b1
  <2>2. /\ b2 = [fd |-> hTh[t].fd, gen |-> b1.gen + 1, dialing |-> FALSE, up |-> FALSE]
        /\ d = [hTh[t] EXCEPT !.op = "replay", !.gen = b1.gen + 1, !.flush = pending,
                              !.replay = subs]
        /\ hTh[t].op = "dial" /\ hTh[t].gen = b1.gen
    BY <1>1, <2>1
  <2> HIDE DEF b2, d
  <2> QED BY <2>1, <2>2, HubPublishes
<1>6. <<>> \in Seq(Nat)
  OBVIOUS
<1>7. HubInv'
  <2> HIDE DEF b2, d, s1
  <2> QED BY <1>1, <1>2, <1>3, <1>5, <1>6, HubBasics DEF HubInv
<1>8. ~hTh[t].old
  <2>1. CallOk(hTh[t], hub, subs, hSock) /\ hub.gen \in Nat
    BY HubBasics
  <2>2. ~(hTh[t].gen < hub.gen)
    BY <1>1, <2>1
  <2> QED BY <1>1, <2>1, <2>2 DEF CallOk
<1> QED BY <1>3, <1>7, <1>8, HubOnTime

(* ... or finds no memory for it.                                            *)
LEMMA HubNoMemory ==
  ASSUME HubInv, NEW t \in Threads, Hub!PublishNoMemory(t)
  PROVE  HubInv' /\ HubLate
<1> DEFINE s1 == Hub!Without(hSock, hub.fd)
           b2 == [fd |-> -1, gen |-> hub.gen + 1, dialing |-> FALSE, up |-> FALSE]
<1>1. /\ hTh[t].op = "dial" /\ hub' = b2 /\ hTh' = [hTh EXCEPT ![t] = Hub!Idle]
      /\ UNCHANGED <<subs, pending, nextId>>
  BY DEF Hub!PublishNoMemory
<1>2. hSock' = Hub!Without(s1, hTh[t].fd)
  <2>1. CASE Hub!Linked
    BY <2>1 DEF Hub!PublishNoMemory
  <2>2. CASE ~Hub!Linked
    <3>1. hub.fd = -1
      BY <2>2, HubBasics DEF Hub!PublishNoMemory, Hub!Superseded, Hub!MidReplay, Hub!Linked
    <3>2. Hub!Without(hSock, -1) = hSock
      BY HubBasics, HubConstants DEF Hub!Without
    <3> QED BY <2>2, <3>1, <3>2 DEF Hub!PublishNoMemory
  <2> QED BY <2>1, <2>2
<1>3. b2 \in HubLink /\ b2.fd = -1 /\ ~b2.up /\ b2.gen >= hub.gen
  BY HubBasics, GoneLink
<1> HIDE DEF b2, s1
<1>4. HubOk(b2, subs, s1, hTh)
  BY <1>3, HubBasics, HubDrops DEF s1
<1>5. HubOk(b2, subs, Hub!Without(s1, hTh[t].fd), [hTh EXCEPT ![t] = Hub!Idle])
  BY <1>1, <1>4, HubShuts
<1>6. HubInv'
  BY <1>1, <1>2, <1>5, HubBasics DEF HubInv
<1> QED BY <1>1, <1>3, <1>6, HubDownOnTime

(* A call whose connection is still the link was not overtaken.              *)
LEMMA StillNotOld ==
  ASSUME HubInv, NEW t \in Threads, hTh[t].op = "replay", Hub!Still(hTh[t])
  PROVE  /\ ~hTh[t].old /\ hTh[t].fd = hub.fd /\ hTh[t].gen = hub.gen /\ hub.fd \in Ports
         /\ hSock[hub.fd].seen \cup Hub!ToSet(hTh[t].replay) = Hub!ToSet(subs)
         /\ hTh[t].flush # <<>> => hSock[hub.fd].seen = {}
         /\ hTh[t] \in HubCall /\ hSock[hub.fd] \in HubSock
<1>1. /\ CallOk(hTh[t], hub, subs, hSock) /\ hub.gen \in Nat /\ hTh[t] \in HubCall
      /\ hSock \in [Ports -> HubSock]
  BY HubBasics
<1>2. hTh[t].fd = hub.fd /\ hTh[t].gen = hub.gen
  BY DEF Hub!Still
<1>3. ~(hTh[t].gen < hub.gen)
  BY <1>1, <1>2
<1> QED BY <1>1, <1>2, <1>3 DEF CallOk

(* One UNSUB of the flush: the hub has nothing to forget yet.                *)
LEMMA HubFlush ==
  ASSUME HubInv, NEW t \in Threads, Hub!FlushFrame(t)
  PROVE  HubInv' /\ HubLate
<1> DEFINE X == {x \in hSock[hub.fd].seen : x.id # Head(hTh[t].flush)}
           d == [hTh[t] EXCEPT !.flush = Tail(@)]
<1>1. /\ hTh[t].op = "replay" /\ hTh[t].flush # <<>> /\ Hub!Still(hTh[t])
      /\ UNCHANGED <<hub, subs, pending, nextId>>
  BY DEF Hub!FlushFrame
<1>2. X = {}
  BY <1>1, StillNotOld
<1>3. hSock' = [hSock EXCEPT ![hub.fd].seen = X] /\ hTh' = [hTh EXCEPT ![t] = d]
  <2>1. hTh \in [Threads -> HubCall] /\ hSock \in [Ports -> HubSock]
    BY HubBasics
  <2> QED BY <1>1, <2>1, StillNotOld DEF Hub!FlushFrame
<1>4. /\ d \in HubCall /\ d.op = "replay" /\ d.fd = hTh[t].fd /\ d.gen = hTh[t].gen
      /\ d.old = hTh[t].old /\ d.replay = hTh[t].replay
  <2>1. hTh[t] \in HubCall /\ hTh[t].flush \in Seq(Nat)
    BY HubBasics DEF HubCall
  <2>2. Tail(hTh[t].flush) \in Seq(Nat)
    BY <1>1, <2>1, HeadTailProperties
  <2> QED BY <1>1, <2>1, <2>2 DEF HubCall
<1>5. X \in SUBSET Interest /\ X \cup Hub!ToSet(d.replay) = Hub!ToSet(subs)
  BY <1>1, <1>2, <1>4, StillNotOld
<1> HIDE DEF X, d
<1>6. HubOk(hub, subs, [hSock EXCEPT ![hub.fd].seen = X], [hTh EXCEPT ![t] = d])
  BY <1>1, <1>2, <1>4, <1>5, StillNotOld, HubSends, HubBasics
<1>7. HubInv'
  BY <1>1, <1>3, <1>6, HubBasics DEF HubInv
<1> QED BY <1>1, <1>3, <1>7, HubOnTime

(* One SUB of the replay, acknowledged.                                      *)
LEMMA HubReplay ==
  ASSUME HubInv, NEW t \in Threads, Hub!ReplayFrame(t)
  PROVE  HubInv' /\ HubLate
<1> DEFINE X == hSock[hub.fd].seen \cup {Head(hTh[t].replay)}
           d == [hTh[t] EXCEPT !.replay = Tail(@)]
<1>1. /\ hTh[t].op = "replay" /\ hTh[t].flush = <<>> /\ hTh[t].replay # <<>>
      /\ Hub!Still(hTh[t]) /\ UNCHANGED <<hub, subs, pending, nextId>>
  BY DEF Hub!ReplayFrame
<1>2. hSock' = [hSock EXCEPT ![hub.fd].seen = X] /\ hTh' = [hTh EXCEPT ![t] = d]
  <2>1. hTh \in [Threads -> HubCall] /\ hSock \in [Ports -> HubSock]
    BY HubBasics
  <2> QED BY <1>1, <2>1, StillNotOld DEF Hub!ReplayFrame
<1>3. hTh[t] \in HubCall /\ hTh[t].replay \in Seq(Interest) /\ hSock[hub.fd].seen \subseteq Interest
  BY <1>1, StillNotOld DEF HubCall, HubSock
<1>4. /\ Head(hTh[t].replay) \in Interest /\ Tail(hTh[t].replay) \in Seq(Interest)
      /\ Hub!ToSet(hTh[t].replay) = {Head(hTh[t].replay)} \cup Hub!ToSet(Tail(hTh[t].replay))
  BY <1>1, <1>3, FirstAndRest
<1>5. /\ d \in HubCall /\ d.op = "replay" /\ d.fd = hTh[t].fd /\ d.gen = hTh[t].gen
      /\ d.old = hTh[t].old /\ d.replay = Tail(hTh[t].replay) /\ d.flush = <<>>
  BY <1>1, <1>3, <1>4 DEF HubCall
<1>6. X \in SUBSET Interest /\ X \cup Hub!ToSet(d.replay) = Hub!ToSet(subs)
  <2>1. hSock[hub.fd].seen \cup Hub!ToSet(hTh[t].replay) = Hub!ToSet(subs)
    BY <1>1, StillNotOld
  <2> QED BY <1>3, <1>4, <1>5, <2>1
<1> HIDE DEF X, d
<1>7. HubOk(hub, subs, [hSock EXCEPT ![hub.fd].seen = X], [hTh EXCEPT ![t] = d])
  BY <1>1, <1>5, <1>6, StillNotOld, HubSends, HubBasics
<1>8. HubInv'
  BY <1>1, <1>2, <1>7, HubBasics DEF HubInv
<1> QED BY <1>1, <1>2, <1>8, HubOnTime

(* What is queued again is a queue of ids.                                   *)
LEMMA Queued ==
  ASSUME NEW p \in Seq(Nat)
  PROVE  /\ \A r \in Seq(Nat) : Hub!Requeue(p, r) \in Seq(Nat)
         /\ \A i \in Nat : Hub!Queue(p, i) \in Seq(Nat)
<1>1. ASSUME NEW r \in Seq(Nat) PROVE Hub!Requeue(p, r) \in Seq(Nat)
  <2> DEFINE m == Len(p) - (MaxSubs - Len(r)) + 1
             q == IF Len(p) > MaxSubs - Len(r) THEN SubSeq(p, m, Len(p)) ELSE p
  <2>1. Len(p) \in Nat /\ Len(r) \in Nat /\ MaxSubs \in Nat /\ m \in Int
        /\ DOMAIN p = 1..Len(p) /\ \A i \in 1..Len(p) : p[i] \in Nat
    BY LenProperties, HubConstants
  <2>2. Len(p) > MaxSubs - Len(r) => m >= 1
    BY <2>1
  <2>3. Len(p) > MaxSubs - Len(r) => SubSeq(p, m, Len(p)) \in Seq(Nat)
    <3> SUFFICES ASSUME Len(p) > MaxSubs - Len(r) PROVE SubSeq(p, m, Len(p)) \in Seq(Nat)
      OBVIOUS
    <3> HIDE DEF m
    <3>1. \A i \in m..Len(p) : p[i] \in Nat
      BY <2>1, <2>2
    <3> QED BY <2>1, <3>1, SubSeqProperties
  <2>4. q \in Seq(Nat)
    BY <2>3
  <2>5. Hub!Requeue(p, r) = q \o r
    BY DEF Hub!Requeue
  <2> HIDE DEF q
  <2> QED BY <2>4, <2>5, ConcatProperties
<1>2. ASSUME NEW i \in Nat PROVE Hub!Queue(p, i) \in Seq(Nat)
  <2>1. CASE Len(p) >= MaxSubs /\ p # <<>>
    <3>1. Tail(p) \in Seq(Nat)
      BY <2>1, HeadTailProperties
    <3> QED BY <2>1, <3>1, AppendProperties DEF Hub!Queue
  <2>2. CASE ~(Len(p) >= MaxSubs)
    BY <2>2, AppendProperties DEF Hub!Queue
  <2>3. p = <<>> => ~(Len(p) >= MaxSubs)
    BY HubConstants
  <2> QED BY <2>1, <2>2, <2>3
<1> QED BY <1>1, <1>2

(* A replay fails: only the owner of the link drops it.                      *)
LEMMA HubReplayFails ==
  ASSUME HubInv, NEW t \in Threads, Hub!ReplayFails(t)
  PROVE  HubInv' /\ HubLate
<1>1. /\ hTh[t].op = "replay" /\ hTh' = [hTh EXCEPT ![t] = Hub!Idle]
      /\ pending' = Hub!Requeue(pending, hTh[t].flush) /\ UNCHANGED <<subs, nextId>>
      /\ hub' = (IF Hub!Still(hTh[t]) THEN Hub!HubGone ELSE hub)
      /\ hSock' = (IF Hub!Still(hTh[t]) THEN Hub!Without(hSock, hTh[t].fd) ELSE hSock)
  BY DEF Hub!ReplayFails
<1>2. pending' \in Seq(Nat)
  <2>1. hTh[t].flush \in Seq(Nat)
    BY HubBasics DEF HubCall
  <2> QED BY <1>1, <2>1, HubBasics, Queued
<1>3. HubOk(hub, subs, hSock, [hTh EXCEPT ![t] = Hub!Idle])
  BY <1>1, HubBasics, HubRests, IdleCall
<1>4. CASE Hub!Still(hTh[t])
  <2>1. hSock' = Hub!Without(hSock, hub.fd) /\ hub' = Hub!HubGone
    BY <1>1, <1>4, StillNotOld
  <2>2. HubOk(Hub!HubGone, subs, Hub!Without(hSock, hub.fd), [hTh EXCEPT ![t] = Hub!Idle])
    BY <1>3, HubBasics, GoneLink, HubDrops
  <2>3. HubInv'
    BY <1>1, <1>2, <2>1, <2>2, HubBasics DEF HubInv
  <2> QED BY <2>1, <2>3, HubBasics, GoneLink, HubDownOnTime
<1>5. CASE ~Hub!Still(hTh[t])
  <2>1. HubInv'
    BY <1>1, <1>2, <1>3, <1>5, HubBasics DEF HubInv
  <2> QED BY <1>1, <1>5, <2>1, HubOnTime
<1> QED BY <1>4, <1>5

(* Everything is replayed.                                                   *)
LEMMA HubReplayDone ==
  ASSUME HubInv, NEW t \in Threads, Hub!ReplayDone(t)
  PROVE  HubInv' /\ HubLate
<1>1. /\ hTh[t].op = "replay" /\ hTh[t].replay = <<>> /\ hTh' = [hTh EXCEPT ![t] = Hub!Idle]
      /\ hub' = (IF Hub!Still(hTh[t]) THEN [hub EXCEPT !.up = TRUE] ELSE hub)
      /\ UNCHANGED <<subs, pending, nextId, hSock>>
  BY DEF Hub!ReplayDone
<1>2. CASE Hub!Still(hTh[t])
  <2>1. HubOk([hub EXCEPT !.up = TRUE], subs, hSock, [hTh EXCEPT ![t] = Hub!Idle])
    BY <1>1, <1>2, StillNotOld, HubBasics, HubComesUp
  <2>2. HubInv'
    BY <1>1, <1>2, <2>1, HubBasics DEF HubInv
  <2> QED BY <1>1, <1>2, <2>2, StillNotOld, HubOnTime
<1>3. CASE ~Hub!Still(hTh[t])
  <2>1. HubOk(hub, subs, hSock, [hTh EXCEPT ![t] = Hub!Idle])
    BY <1>1, HubBasics, HubRests, IdleCall
  <2>2. HubInv'
    BY <1>1, <1>3, <2>1, HubBasics DEF HubInv
  <2> QED BY <1>1, <1>3, <2>2, HubOnTime
<1> QED BY <1>2, <1>3

(* A disconnect drops the link and overtakes every call in flight.           *)
LEMMA HubDisconnect ==
  ASSUME HubInv, Hub!Disconnect
  PROVE  HubInv' /\ HubLate
<1> DEFINE b2 == [fd |-> -1, gen |-> hub.gen + 1, dialing |-> FALSE, up |-> FALSE]
           h2 == [t \in Threads |-> [hTh[t] EXCEPT !.old = hTh[t].op # "idle"]]
<1>1. /\ hSock' = Hub!Without(hSock, hub.fd) /\ hub' = b2 /\ hTh' = h2
      /\ UNCHANGED <<subs, pending, nextId>>
  BY DEF Hub!Disconnect
<1>2. b2 \in HubLink /\ b2.fd = -1 /\ ~b2.up /\ b2.gen = hub.gen + 1 /\ b2.gen >= hub.gen
  BY HubBasics, GoneLink
<1> HIDE DEF b2
<1>3. HubOk(b2, subs, Hub!Without(hSock, hub.fd), hTh)
  BY <1>2, HubBasics, HubDrops
<1>4. \A t \in Threads : hTh[t].op \in {"dial", "replay"} => hTh[t].gen < b2.gen
  <2> SUFFICES ASSUME NEW t \in Threads, hTh[t].op \in {"dial", "replay"}
               PROVE  hTh[t].gen < b2.gen
    OBVIOUS
  <2>1. CallOk(hTh[t], hub, subs, hSock) /\ hTh[t].gen \in Nat /\ hub.gen \in Nat
    BY HubBasics DEF HubCall
  <2> QED BY <1>2, <2>1 DEF CallOk
<1>5. HubOk(b2, subs, Hub!Without(hSock, hub.fd), h2)
  BY <1>3, <1>4, HubOvertakes
<1> HIDE DEF h2
<1>6. HubInv'
  BY <1>1, <1>5, HubBasics DEF HubInv
<1> QED BY <1>1, <1>2, <1>6, HubDownOnTime

(* Calls that leave the threads inside connect alone are never late.         *)
LEMMA HubAside ==
  ASSUME hTh' = hTh
  PROVE  HubLate
  BY DEF HubLate

(* A subscription is recorded on both sides, or locally while there is no    *)
(* link.                                                                     *)
LEMMA HubSubscribe ==
  ASSUME HubInv, NEW a \in Addrs, Hub!Subscribe(a)
  PROVE  HubInv' /\ HubLate
<1> DEFINE x == [name |-> a, id |-> Hub!Mint]
<1>1. /\ ~Hub!MidReplay /\ Hub!Mintable # {} /\ subs' = Append(subs, x)
      /\ nextId' = Hub!AfterMint /\ UNCHANGED <<hub, pending, hTh>>
      /\ hSock' = IF Hub!Linked THEN [hSock EXCEPT ![hub.fd].seen = @ \cup {x}] ELSE hSock
  BY DEF Hub!Subscribe, Hub!MaySubscribe
<1>2. nextId' \in Nat /\ x \in Interest /\ x.id \notin Hub!Ids(subs)
  BY <1>1, HubBasics, Minted DEF Interest
<1> HIDE DEF x
<1>3. /\ subs' \in Seq(Interest) /\ UniqueIds(subs')
      /\ Hub!ToSet(subs') = Hub!ToSet(subs) \cup {x}
  BY <1>1, <1>2, HubBasics, Gains
<1>4. HubOk(hub, subs', hSock', hTh)
  <2>1. CASE Hub!Linked
    <3>1. hub.up /\ hub.fd \in Ports
      BY <2>1, HubBasics DEF Hub!Linked
    <3>2. hSock[hub.fd].seen = Hub!ToSet(subs)
      BY <3>1 DEF HubInv, HubOk, LinkOk
    <3>3. hSock' = [hSock EXCEPT ![hub.fd].seen = Hub!ToSet(subs')]
      BY <1>1, <1>3, <2>1, <3>2
    <3> QED BY <1>3, <3>1, <3>3, HubBasics, HubLearns
  <2>2. CASE ~Hub!Linked
    <3>1. hub.fd = -1
      BY <1>1, <2>2, HubBasics DEF Hub!Linked, Hub!MidReplay
    <3> QED BY <1>1, <1>3, <2>2, <3>1, HubBasics, HubOffline
  <2> QED BY <2>1, <2>2
<1>5. HubInv'
  BY <1>1, <1>2, <1>4, HubBasics DEF HubInv
<1> QED BY <1>1, <1>5, HubAside

(* A subscription that the hub did not take.                                 *)
LEMMA HubSubscribeFails ==
  ASSUME HubInv, NEW a \in Addrs, NEW w \in BOOLEAN, Hub!SubscribeFails(a, w)
  PROVE  HubInv' /\ HubLate
<1>1. /\ Hub!Mintable # {} /\ nextId' = Hub!AfterMint /\ UNCHANGED <<subs, pending, hTh>>
      /\ hub' = (IF w THEN hub ELSE Hub!HubGone)
      /\ hSock' = (IF w THEN hSock ELSE Hub!Without(hSock, hub.fd))
  BY DEF Hub!SubscribeFails, Hub!MaySubscribe
<1>2. nextId' \in Nat
  BY <1>1, HubBasics, Minted
<1>3. HubOk(Hub!HubGone, subs, Hub!Without(hSock, hub.fd), hTh)
  BY HubBasics, GoneLink, HubDrops
<1>4. HubOk(hub', subs, hSock', hTh)
  BY <1>1, <1>3, HubBasics
<1>5. HubInv'
  BY <1>1, <1>2, <1>4, HubBasics DEF HubInv
<1> QED BY <1>1, <1>5, HubAside

(* A subscription ends on both sides, or locally while there is no link ...  *)
LEMMA HubUnsubscribe ==
  ASSUME HubInv, NEW i, Hub!Unsubscribe(i)
  PROVE  HubInv' /\ HubLate
<1> DEFINE u2 == Hub!RemoveAt(subs, i)
<1>1. /\ ~Hub!MidReplay /\ i \in DOMAIN subs /\ subs' = u2 /\ UNCHANGED <<hub, nextId, hTh>>
      /\ \/ /\ Hub!Linked /\ pending' = pending
            /\ hSock' = [hSock EXCEPT ![hub.fd].seen = {x \in @ : x.id # subs[i].id}]
         \/ ~Hub!Linked /\ pending' = Append(pending, subs[i].id) /\ hSock' = hSock
  BY DEF Hub!Unsubscribe
<1>2. /\ u2 \in Seq(Interest) /\ UniqueIds(u2)
      /\ Hub!ToSet(u2) = {x \in Hub!ToSet(subs) : x.id # subs[i].id}
  BY <1>1, HubBasics, Loses
<1> HIDE DEF u2
<1>3. pending' \in Seq(Nat)
  <2>1. subs[i] \in Interest
    BY <1>1, HubBasics, Element
  <2>2. subs[i].id \in Nat
    BY <2>1, HubConstants DEF Interest
  <2>3. Append(pending, subs[i].id) \in Seq(Nat)
    BY <2>2, HubBasics, AppendProperties
  <2> QED BY <1>1, <2>3, HubBasics
<1>4. HubOk(hub, u2, hSock', hTh)
  <2>1. CASE Hub!Linked
    <3>1. hub.up /\ hub.fd \in Ports
      BY <2>1, HubBasics DEF Hub!Linked
    <3>2. hSock[hub.fd].seen = Hub!ToSet(subs)
      BY <3>1 DEF HubInv, HubOk, LinkOk
    <3>3. hSock' = [hSock EXCEPT ![hub.fd].seen = Hub!ToSet(u2)]
      BY <1>1, <1>2, <2>1, <3>2
    <3> QED BY <1>2, <3>1, <3>3, HubBasics, HubLearns
  <2>2. CASE ~Hub!Linked
    <3>1. hub.fd = -1
      BY <1>1, <2>2, HubBasics DEF Hub!Linked, Hub!MidReplay
    <3>2. hSock' = hSock
      BY <1>1, <2>2
    <3> QED BY <1>2, <3>1, <3>2, HubBasics, HubOffline
  <2> QED BY <2>1, <2>2
<1>5. HubInv'
  BY <1>1, <1>3, <1>4, HubBasics DEF HubInv
<1> QED BY <1>1, <1>5, HubAside

(* ... or its UNSUB waits for the next link, as this one is dropped.         *)
LEMMA HubUnsubscribeFails ==
  ASSUME HubInv, NEW i, Hub!UnsubscribeFails(i)
  PROVE  HubInv' /\ HubLate
<1> DEFINE u2 == Hub!RemoveAt(subs, i)
<1>1. /\ i \in DOMAIN subs /\ subs' = u2 /\ pending' = Hub!Queue(pending, subs[i].id)
      /\ hub' = Hub!HubGone /\ hSock' = Hub!Without(hSock, hub.fd) /\ UNCHANGED <<nextId, hTh>>
  BY DEF Hub!UnsubscribeFails
<1>2. u2 \in Seq(Interest) /\ UniqueIds(u2)
  BY <1>1, HubBasics, Loses
<1> HIDE DEF u2
<1>3. pending' \in Seq(Nat)
  <2>1. subs[i] \in Interest
    BY <1>1, HubBasics, Element
  <2>2. subs[i].id \in Nat
    BY <2>1, HubConstants DEF Interest
  <2> QED BY <1>1, <2>2, HubBasics, Queued
<1>4. HubOk(Hub!HubGone, u2, Hub!Without(hSock, hub.fd), hTh)
  BY <1>2, HubBasics, GoneLink, HubDrops
<1>5. HubInv'
  BY <1>1, <1>3, <1>4, HubBasics DEF HubInv
<1> QED BY <1>1, <1>5, HubAside

(* The link is dropped by a poll, and at the end of destroy.                 *)
LEMMA HubEnds ==
  ASSUME HubInv, Hub!Poll \/ Hub!DestroyEnd
  PROVE  HubInv' /\ HubLate
<1>1. /\ hub' = Hub!HubGone /\ hSock' = Hub!Without(hSock, hub.fd)
      /\ (subs' = subs \/ subs' = <<>>) /\ UNCHANGED <<pending, nextId, hTh>>
  BY DEF Hub!Poll, Hub!DestroyEnd
<1>2. subs' \in Seq(Interest) /\ UniqueIds(subs')
  <2>1. <<>> \in Seq(Interest) /\ UniqueIds(<<>>)
    BY DEF UniqueIds
  <2> QED BY <1>1, <2>1, HubBasics
<1>3. HubOk(Hub!HubGone, subs', Hub!Without(hSock, hub.fd), hTh)
  BY <1>2, HubBasics, GoneLink, HubDrops
<1>4. HubInv'
  BY <1>1, <1>3, HubBasics DEF HubInv
<1> QED BY <1>1, <1>4, HubAside

(* The other end dies.                                                       *)
LEMMA HubDies ==
  ASSUME HubInv, NEW f \in Ports, Hub!HubDies(f)
  PROVE  HubInv' /\ HubLate
<1>1. /\ hSock' = [hSock EXCEPT ![f].alive = FALSE]
      /\ UNCHANGED <<hub, subs, pending, nextId, hTh>>
  BY DEF Hub!HubDies
<1>2. HubOk(hub, subs, [hSock EXCEPT ![f].alive = FALSE], hTh)
  BY HubBasics, HubLoses
<1>3. HubInv'
  BY <1>1, <1>2, HubBasics DEF HubInv
<1> QED BY <1>1, <1>3, HubAside

(* A step that changes the phase only, or nothing.                           *)
LEMMA HubQuiet ==
  ASSUME HubInv, Hub!DestroyBegin \/ UNCHANGED leafVars
  PROVE  HubInv' /\ HubLate
<1>1. UNCHANGED <<hub, subs, pending, nextId, hSock, hTh>>
  BY DEF Hub!DestroyBegin, leafVars
<1>2. HubInv'
  BY <1>1 DEF HubInv
<1> QED BY <1>1, <1>2, HubAside

(* The leaf starts without a link and without interest.                      *)
LEMMA HubInit == Hub!Init => HubInv
<1> SUFFICES ASSUME Hub!Init PROVE HubInv
  OBVIOUS
<1>1. /\ hub = [fd |-> -1, gen |-> 0, dialing |-> FALSE, up |-> FALSE]
      /\ subs = <<>> /\ pending = <<>> /\ nextId = 1
      /\ hSock = [f \in Ports |-> Hub!Closed] /\ hTh = [t \in Threads |-> Hub!Idle]
  BY DEF Hub!Init
<1>2. hub \in HubLink /\ hub.fd = -1 /\ ~hub.up
  BY <1>1 DEF HubLink
<1>3. Hub!Closed \in HubSock /\ ~Hub!Closed.open
  BY DEF Hub!Closed, HubSock
<1>4. /\ hSock \in [Ports -> HubSock] /\ \A f \in Ports : ~hSock[f].open
      /\ hTh \in [Threads -> HubCall] /\ \A t \in Threads : hTh[t].op = "idle"
  BY <1>1, <1>3, IdleCall
<1>5. /\ subs \in Seq(Interest) /\ pending \in Seq(Nat) /\ nextId \in Nat
      /\ \A i, j \in DOMAIN subs : subs[i].id = subs[j].id => i = j
  BY <1>1
<1> HIDE DEF Hub!Init
<1>6. HubTypes(hub, subs, hSock, hTh)
  BY <1>2, <1>4, <1>5 DEF HubTypes
<1>7. LinkOk(hub, subs, hSock)
  BY <1>2, <1>5 DEF LinkOk
<1>8. CallsApart(hTh) /\ HubOwns(hub, hSock, hTh)
  BY <1>4 DEF CallsApart, HubOwns
<1>9. \A t \in Threads : CallOk(hTh[t], hub, subs, hSock)
  BY <1>4 DEF CallOk
<1> QED BY <1>5, <1>6, <1>7, <1>8, <1>9 DEF HubInv, HubOk

(* Every step of the leaf.                                                   *)
LEMMA HubStep ==
  ASSUME HubInv, Hub!Next \/ UNCHANGED leafVars
  PROVE  HubInv' /\ HubLate
<1>1. CASE UNCHANGED leafVars \/ Hub!DestroyBegin
  BY <1>1, HubQuiet
<1>2. ASSUME NEW t \in Threads,
             \/ Hub!ReapHub(t) \/ Hub!DialBegin(t) \/ Hub!ReaperReturns(t) \/ Hub!DialFails(t)
             \/ Hub!Publish(t) \/ Hub!PublishNoMemory(t) \/ Hub!FlushFrame(t)
             \/ Hub!ReplayFrame(t) \/ Hub!ReplayFails(t) \/ Hub!ReplayDone(t)
      PROVE  HubInv' /\ HubLate
  BY <1>2, HubReap, HubDialBegin, HubReaperReturns, HubDialFails, HubPublish, HubNoMemory,
     HubFlush, HubReplay, HubReplayFails, HubReplayDone
<1>3. ASSUME NEW a \in Addrs,
             Hub!Subscribe(a) \/ \E w \in BOOLEAN : Hub!SubscribeFails(a, w)
      PROVE  HubInv' /\ HubLate
  BY <1>3, HubSubscribe, HubSubscribeFails
<1>4. ASSUME NEW i \in 1..MaxSubs, Hub!Unsubscribe(i) \/ Hub!UnsubscribeFails(i)
      PROVE  HubInv' /\ HubLate
  BY <1>4, HubUnsubscribe, HubUnsubscribeFails
<1>5. ASSUME NEW f \in Ports, Hub!HubDies(f) PROVE HubInv' /\ HubLate
  BY <1>5, HubDies
<1>6. CASE Hub!Disconnect
  BY <1>6, HubDisconnect
<1>7. CASE Hub!Poll \/ Hub!DestroyEnd
  BY <1>7, HubEnds
<1> QED BY <1>1, <1>2, <1>3, <1>4, <1>5, <1>6, <1>7, Zenon DEF Hub!Next

(* What the invariant is for.                                                *)
LEMMA HubOwned == HubInv => Hub!InterestExact /\ Hub!SocketsOwned
<1> SUFFICES ASSUME HubInv PROVE Hub!InterestExact /\ Hub!SocketsOwned
  OBVIOUS
<1>1. /\ LinkOk(hub, subs, hSock) /\ CallsApart(hTh) /\ HubOwns(hub, hSock, hTh)
      /\ \A t \in Threads : CallOk(hTh[t], hub, subs, hSock)
  BY DEF HubInv, HubOk
<1>2. Hub!InterestExact
  BY <1>1 DEF Hub!InterestExact, Hub!Linked, LinkOk
<1>3. hub.fd >= 0 => hSock[hub.fd].open
  BY <1>1, HubBasics, HubConstants DEF LinkOk
<1>4. ASSUME NEW f \in Ports, hSock[f].open
      PROVE  Hub!Cardinality({t \in Threads : hTh[t].op = "dial" /\ hTh[t].fd = f})
               + (IF hub.fd = f THEN 1 ELSE 0) = 1
  <2> DEFINE T == {t \in Threads : hTh[t].op = "dial" /\ hTh[t].fd = f}
  <2>1. hub.fd = f => T = {}
    BY <1>1 DEF CallOk
  <2>2. hub.fd # f => \E t : T = {t}
    <3> SUFFICES ASSUME hub.fd # f PROVE \E t : T = {t}
      OBVIOUS
    <3>1. PICK t \in Threads : hTh[t].op = "dial" /\ hTh[t].fd = f
      BY <1>1, <1>4 DEF HubOwns
    <3>2. T = {t}
      BY <1>1, <3>1 DEF CallsApart
    <3> QED BY <3>2
  <2> HIDE DEF T
  <2>3. Cardinality({}) = 0 /\ \A t : Cardinality({t}) = 1
    BY FS_EmptySet, FS_Singleton
  <2>4. Hub!Cardinality(T) = Cardinality(T)
    BY DEF Hub!Cardinality, Cardinality, Hub!IsFiniteSet, IsFiniteSet
  <2>5. Hub!Cardinality(T) = IF hub.fd = f THEN 0 ELSE 1
    BY <2>1, <2>2, <2>3, <2>4
  <2> QED BY <2>5 DEF T
<1>5. Hub!SocketsOwned
  BY <1>3, <1>4 DEF Hub!SocketsOwned
<1> QED BY <1>2, <1>5

-----------------------------------------------------------------------------
(* The gateway and the leaf in the composition.                              *)

(* A step of the node keeps what holds of the gateway.                       *)
LEMMA LinksGate ==
  ASSUME GateInv, [LinksNext]_<<gatewayVars, leafVars>>
  PROVE  GateInv' /\ GateLate
<1>1. Gate!Next \/ UNCHANGED gatewayVars
  BY Zenon DEF LinksNext
<1> QED BY <1>1, GateStep

(* A step of the node keeps what holds of the leaf's link.                   *)
LEMMA LinksHub ==
  ASSUME HubInv, [LinksNext]_<<gatewayVars, leafVars>>
  PROVE  HubInv' /\ HubLate
<1>1. Hub!Next \/ UNCHANGED leafVars
  BY Zenon DEF LinksNext
<1> QED BY <1>1, HubStep

(* What passes the check a forward or a broadcast makes before it writes is  *)
(* an open connection of the cluster the frame is for, although the lock was *)
(* given up since its peers were noted and slots and descriptors were given  *)
(* to other clusters in between (cmq_gateway_forward).                       *)
THEOREM ForwardsReachTheirCluster == LinksSpec => []ForwardSound
<1>1. Gate!Init => GateInv
  BY GateInit
<1>2. GateInv => ForwardSound
  BY GateOwned DEF ForwardSound
<1> QED BY <1>1, <1>2, LinksGate, PTL DEF LinksSpec

(* Every open socket of the gateway has exactly one owner, a slot or a       *)
(* dialling thread; a slot's socket leads to its cluster, was dialled at the *)
(* endpoint configured now, and is the only one of the cluster               *)
(* (gw_slot_claim_install, gw_slot_close_fd).                                *)
THEOREM GatewayOwned == LinksSpec => []Gate!LinksOwned
<1>1. Gate!Init => GateInv
  BY GateInit
<1>2. GateInv => Gate!LinksOwned
  BY GateOwned
<1> QED BY <1>1, <1>2, LinksGate, PTL DEF LinksSpec

(* A dial that a disconnect or a new endpoint has overtaken ends without     *)
(* installing its connection (gw_cluster_cancel_changed).                    *)
THEOREM GatewayNoLateInstall == LinksSpec => Gate!NoLateInstall
<1>1. Gate!Init => GateInv
  BY GateInit
<1>2. GateLate =>
        [\A t \in Threads : gTh[t].old /\ gTh'[t].op = "idle" => gConns' = gConns]_(Gate!vars)
  BY DEF GateLate
<1> QED BY <1>1, <1>2, LinksGate, PTL DEF LinksSpec, Gate!NoLateInstall

(* While its link is up the hub has recorded exactly the leaf's interest,    *)
(* however subscribe, unsubscribe, disconnect and failures fell between the  *)
(* frames of a replay (cmq_leaf_connect, cmq_leaf_subscribe).                *)
THEOREM HubKnowsTheInterest == LinksSpec => []InterestExact
<1>1. Hub!Init => HubInv
  BY HubInit
<1>2. HubInv => InterestExact
  BY HubOwned DEF InterestExact
<1> QED BY <1>1, <1>2, LinksHub, PTL DEF LinksSpec

(* Every open socket of the leaf has exactly one owner, the link or one      *)
(* dialling thread, and the link never names a closed one (leaf_hub_drop).   *)
THEOREM LeafOwned == LinksSpec => []Hub!SocketsOwned
<1>1. Hub!Init => HubInv
  BY HubInit
<1>2. HubInv => Hub!SocketsOwned
  BY HubOwned
<1> QED BY <1>1, <1>2, LinksHub, PTL DEF LinksSpec

(* A connect that a disconnect overtook neither publishes its socket nor     *)
(* brings the link up (hub_gen, leaf_cancel_changed).                        *)
THEOREM LeafStaysDown == LinksSpec => Hub!NoResurrect
<1>1. Hub!Init => HubInv
  BY HubInit
<1>2. HubLate =>
        [\A t \in Threads :
           hTh[t].old /\ hTh[t].op \in {"dial", "replay"} /\ hTh'[t] # hTh[t] =>
             hub'.fd # hTh[t].fd \/ hub' = hub]_(Hub!vars)
  BY DEF HubLate
<1> QED BY <1>1, <1>2, LinksHub, PTL DEF LinksSpec, Hub!NoResurrect

=============================================================================
