---------------------------- MODULE MailboxProofs ----------------------------
(* Proofs about the mailboxes and the cross-worker REQUEST, for any number   *)
(* of workers, clients, requests and faults, and any bounds of the queues.   *)
EXTENDS Mailbox, SequenceTheorems, FiniteSetTheorems, WellFoundedInduction,
        TLAPS

-----------------------------------------------------------------------------
(* The inductive invariant.                                                  *)

Target(i) == IF i \in Requests THEN To[i] ELSE Dest[i]
Home(i)   == Owner[Target(i)]

(* What may be queued for w: the SENDs and TEARDOWNs of its own clients.     *)
Post(w) == {m \in Message : /\ Owner[m.to] = w
                            /\ m.kind = "SEND" => m.to = Target(m.id)}

Labels   == {"idle", "take", "batch", "push", "signal", "look", "serve",
             "slept", "answer"}
Carrying == {"check", "claim", "send", "drain", "complete"}
Stages   == Carrying \cup {"none", "finish", "purge", "reclaim"}
Answers  == {"none", "waiting", "inactive", "acked", "failed", "forwarded"}

(* The ids in a queue; no id is in it twice.                                 *)
IdsOf(s)    == {s[k].id : k \in DOMAIN s}
Distinct(s) == \A j, k \in DOMAIN s : s[j].id = s[k].id /\ s[j].id # NoId => j = k
Boxed(s, w) == s \in Seq(Post(w)) /\ Len(s) <= QueueMax + Slack /\ Distinct(s)

TypeBoxes ==
    /\ DOMAIN mail = Workers /\ DOMAIN batch = Workers
    /\ mail = [w \in Workers |-> mail[w]] /\ batch = [w \in Workers |-> batch[w]]
    /\ \A w \in Workers : Boxed(mail[w], w) /\ Boxed(batch[w], w)

TypeConns ==
    /\ state \in [Clients -> {"open", "closing", "gone"}]
    /\ buf   \in [Clients -> SUBSET Ids]
    /\ sent  \in [Ids -> Nat]

TypeSlots ==
    /\ result \in [Requests -> {0, 1, 2, -1}]
    /\ refs   \in [Requests -> Int]
    /\ freed  \in [Requests -> Nat]
    /\ buffered \subseteq Requests

TypeControl ==
    /\ pc     \in [Workers -> Labels]
    /\ req    \in [Workers -> Requests \cup {NoId}]
    /\ code   \in [Workers -> {0, 1, -1}]
    /\ step   \in [Workers -> Stages]
    /\ answer \in [Requests -> Answers]
    /\ DOMAIN msg = Workers /\ msg = [w \in Workers |-> msg[w]]
    /\ apc \in {"idle", "signal"} /\ (apc = "signal" => amsg \in Message)
    /\ apc = "signal" => amsg.id \notin Requests
    /\ pushed \subseteq Sends /\ late \subseteq Ids

TypeInv == TypeBoxes /\ TypeConns /\ TypeSlots /\ TypeControl

(* The message in hand belongs to the stage it is in; the outer level stands *)
(* still while it is handled, and a batch exists only inside wakeup_cb.      *)
HandInv ==
    \A w \in Workers :
        /\ pc[w] \notin {"batch", "serve"} => step[w] = "none"
        /\ pc[w] # "batch" => batch[w] = <<>>
        /\ step[w] # "none" => msg[w] \in Post(w)
        /\ step[w] \in Carrying => msg[w].kind = "SEND"
        /\ step[w] \in {"purge", "reclaim"} => msg[w].kind = "TEARDOWN"
        /\ step[w] = "drain" => msg[w].id \in Requests
        /\ w \in ok => step[w] \in {"complete", "finish"}

(* A worker runs at most one REQUEST, one of its own clients'.               *)
RunInv ==
    /\ \A w \in Workers :
          /\ req[w] = NoId <=> pc[w] \in {"idle", "take", "batch"}
          /\ req[w] # NoId => /\ Owner[From[req[w]]] = w
                              /\ answer[req[w]] = "waiting"
    /\ \A r \in Requests : answer[r] = "waiting" => req[Owner[From[r]]] = r

BoxIds(w)   == IdsOf(mail[w])
TakenIds(w) == IdsOf(batch[w])
HandIds(w)  == IF step[w] \in Carrying THEN {msg[w].id} ELSE {}

(* No id is carried twice.                                                   *)
OnceInv ==
    \A w \in Workers :
        \A i \in Ids : /\ ~(i \in BoxIds(w) /\ i \in TakenIds(w))
                       /\ ~(i \in BoxIds(w) /\ i \in HandIds(w))
                       /\ ~(i \in TakenIds(w) /\ i \in HandIds(w))

On(i) == i \in BoxIds(Home(i)) \cup TakenIds(Home(i)) \cup HandIds(Home(i))

Pub(r)     == Owner[From[r]]
Running(r) == req[Pub(r)] = r
(* The publisher of r holds a reference of a slot.                           *)
Holds(r)   == /\ Running(r)
              /\ \/ pc[Pub(r)] \in {"signal", "look"}
                 \/ pc[Pub(r)] \in {"serve", "slept"} /\ refs[r] > 0

(* The publisher of r has allocated a slot.                                  *)
Allocated(r) == \/ answer[r] \notin {"none", "waiting"}
                \/ Running(r) /\ pc[Pub(r)] \in {"answer", "serve", "slept"}

(* refs counts the carrier and the publisher; a counted slot is not freed,   *)
(* and one that nobody counts is freed unless it was never allocated.        *)
SlotOk(r) ==
    /\ refs[r] = (IF On(r) THEN 1 ELSE 0) + (IF Holds(r) THEN 1 ELSE 0)
    /\ freed[r] <= 1
    /\ refs[r] > 0 => freed[r] = 0
    /\ answer[r] = "none" => ~On(r)
    /\ Running(r) /\ pc[Pub(r)] = "push" => refs[r] = 0
    /\ Allocated(r) /\ refs[r] = 0 => freed[r] = 1

SlotInv == \A r \in Requests : SlotOk(r)

(* Where the message with id i is: queued or taken, or at stage l of its     *)
(* target's worker.                                                          *)
Waiting(i) == i \in BoxIds(Home(i)) \/ i \in TakenIds(Home(i))
At(i, l)   == step[Home(i)] = l /\ msg[Home(i)].id = i
Early(i)   == Waiting(i) \/ At(i, "check") \/ At(i, "claim") \/ At(i, "send")
Unseen(i)  == sent[i] = 0 /\ \A c \in Clients : i \notin buf[c]

(* i was never queued, or its push was undone and another may follow.        *)
Unpushed(r) == \/ answer[r] = "none"
               \/ Running(r) /\ pc[Pub(r)] = "push"
               \/ Running(r) /\ pc[Pub(r)] \in {"serve", "slept"} /\ refs[r] = 0
Fresh(i)    == IF i \in Requests THEN Unpushed(i) ELSE i \notin pushed

(* A frame is in one place at a time: not written, in write_buf, or sent.    *)
FrameOk(i) ==
    /\ sent[i] <= 1
    /\ \A c \in Clients : i \in buf[c] => c = Target(i) /\ sent[i] = 0
    /\ Early(i) => Unseen(i)
    /\ Fresh(i) => ~On(i) /\ Unseen(i)
    /\ At(i, "drain") => i \in buf[Target(i)]

FrameInv == \A i \in Ids : FrameOk(i)

(* r goes to the cluster, or is about to; or it is acknowledged.             *)
Declined(r) == \/ answer[r] = "forwarded"
               \/ Running(r) /\ pc[Pub(r)] = "answer" /\ code[Pub(r)] = 0
Accepted(r) == \/ answer[r] = "acked"
               \/ Running(r) /\ pc[Pub(r)] = "answer" /\ code[Pub(r)] = 1

(* What the slot says about the frame.                                       *)
ResultOk(r) ==
    /\ r \notin buffered => Unseen(r)
    /\ Early(r) \/ result[r] = 0 => r \notin buffered
    /\ Waiting(r) \/ At(r, "check") \/ At(r, "claim") => result[r] \in {0, -1}
    /\ At(r, "send") \/ At(r, "drain") => result[r] = 2
    /\ At(r, "complete") /\ Home(r) \in ok => sent[r] = 1
    /\ result[r] = 1 => sent[r] = 1
    /\ Declined(r) => r \notin buffered /\ (On(r) => result[r] = -1)
    /\ Accepted(r) => sent[r] = 1

ResultInv == \A r \in Requests : ResultOk(r)

(* A SEND that was queued behind a TEARDOWN of its client stays behind it,   *)
(* or behind the purge or the close it leads to.                             *)
Shut(s, i) == \E j, k \in DOMAIN s : /\ j < k /\ s[k].id = i
                                     /\ s[j] = Teardown(Target(i))
HasTeardown(s, c) == \E j \in DOMAIN s : s[j] = Teardown(c)
InHandT(w, c, L)  == step[w] \in L /\ msg[w] = Teardown(c)

BoxSafe(i) ==
    i \in BoxIds(Home(i)) =>
        \/ Shut(mail[Home(i)], i) \/ InHandT(Home(i), Target(i), {"purge"})
        \/ HasTeardown(batch[Home(i)], Target(i)) \/ state[Target(i)] # "open"
TakenSafe(i) ==
    i \in TakenIds(Home(i)) =>
        \/ Shut(batch[Home(i)], i)
        \/ InHandT(Home(i), Target(i), {"purge", "reclaim"})
        \/ state[Target(i)] # "open"
Shielded(i) ==
    /\ BoxSafe(i) /\ TakenSafe(i)
    /\ At(i, "check") => state[Target(i)] # "open"
    /\ ~At(i, "claim") /\ ~At(i, "send") /\ ~At(i, "drain")

LateInv == \A i \in late : Unseen(i) /\ ~Fresh(i) /\ Shielded(i)

IInv == TypeInv /\ HandInv /\ RunInv /\ OnceInv /\ SlotInv /\ FrameInv
            /\ ResultInv /\ LateInv
-----------------------------------------------------------------------------
(* Sequences of messages.                                                    *)

(* t is what is left of s when the places of D are unlinked, in order.       *)
Thins(t, s, D, f) ==
    /\ f \in [DOMAIN t -> DOMAIN s \ D]
    /\ \A i, j \in DOMAIN t : i < j => f[i] < f[j]
    /\ \A k \in DOMAIN s \ D : \E i \in DOMAIN t : f[i] = k
    /\ \A i \in DOMAIN t : t[i] = s[f[i]]

(* A nonempty set of places has a first one.                                 *)
LEMMA FirstOfPlace ==
    ASSUME NEW S, S \subseteq Nat, S # {}
    PROVE  FirstOf(S) \in S
<1>1. PICK k \in S : \A j \in S : ~(<<j, k>> \in OpToRel(<, Nat))
  BY NatLessThanWellFounded, WFMin
<1>2. \A j \in S : ~(j < k)
  BY <1>1, Zenon DEF OpToRel
<1>3. \A j \in S : k <= j
  BY <1>2
<1> QED
  BY <1>3 DEF FirstOf

(* The messages behind the k-th.                                             *)
LEMMA SuffixParts ==
    ASSUME NEW S, NEW s \in Seq(S), NEW k \in 0..Len(s)
    PROVE  /\ SubSeq(s, k + 1, Len(s)) \in Seq(S)
           /\ Len(SubSeq(s, k + 1, Len(s))) = Len(s) - k
           /\ \A i \in 1..(Len(s) - k) : SubSeq(s, k + 1, Len(s))[i] = s[k + i]
<1>1. Len(s) \in Nat /\ DOMAIN s = 1..Len(s) /\ k \in Int /\ k + 1 \in Int
  BY LenProperties
<1>2. CASE k = Len(s)
  BY <1>1, <1>2, SubSeqEmpty
<1>3. CASE k < Len(s)
  <2> DEFINE m == k + 1
             n == Len(s)
  <2>1. m \in Int /\ n \in Int /\ m <= n
    BY <1>1, <1>3
  <2>2. \A i \in m..n : s[i] \in S
    BY <1>1, ElementOfSeq
  <2> HIDE DEF m, n
  <2>3. SubSeq(s, m, n) \in Seq(S) /\ Len(SubSeq(s, m, n)) = n - m + 1
            /\ \A i \in 1..(n - m + 1) : SubSeq(s, m, n)[i] = s[m + i - 1]
    BY <2>1, <2>2, SubSeqProperties
  <2>4. n - m + 1 = Len(s) - k /\ \A i \in Int : m + i - 1 = k + i
    BY <1>1 DEF m, n
  <2>5. \A i \in 1..(Len(s) - k) : SubSeq(s, m, n)[i] = s[k + i]
    BY <1>1, <2>3, <2>4
  <2> QED
    BY <2>3, <2>4, <2>5 DEF m, n
<1>4. k = Len(s) \/ k < Len(s)
  <2>1. Len(s) \in Nat
    BY LenProperties
  <2> QED
    BY <2>1
<1> QED
  BY <1>2, <1>3, <1>4

(* Unlinking the k-th message leaves all others in order.                    *)
LEMMA WithoutThins ==
    ASSUME NEW S, NEW s \in Seq(S), NEW k \in DOMAIN s
    PROVE  /\ Without(s, k) \in Seq(S) /\ Len(Without(s, k)) = Len(s) - 1
           /\ \E f : Thins(Without(s, k), s, {k}, f)
<1> DEFINE a == SubSeq(s, 1, k - 1)
           b == SubSeq(s, k + 1, Len(s))
           t == Without(s, k)
           f == [i \in DOMAIN t |-> IF i < k THEN i ELSE i + 1]
<1>1. Len(s) \in Nat /\ DOMAIN s = 1..Len(s) /\ k \in 1..Len(s)
  BY LenProperties
<1>2. a \in Seq(S) /\ Len(a) = k - 1 /\ \A i \in 1..(k - 1) : a[i] = s[i]
  BY <1>1, SubSeqProperties, ElementOfSeq
<1>3. b \in Seq(S) /\ Len(b) = Len(s) - k
          /\ \A i \in 1..(Len(s) - k) : b[i] = s[k + i]
  BY <1>1, SuffixParts
<1>4. t \in Seq(S) /\ Len(t) = Len(s) - 1
          /\ \A i \in 1..Len(t) : t[i] = IF i < k THEN s[i] ELSE s[i + 1]
  <2>1. t = a \o b
    BY DEF Without
  <2>2. t \in Seq(S) /\ Len(t) = Len(a) + Len(b)
            /\ \A i \in 1..(Len(a) + Len(b)) :
                  t[i] = IF i <= Len(a) THEN a[i] ELSE b[i - Len(a)]
    BY <1>2, <1>3, <2>1, ConcatProperties
  <2> HIDE DEF t, a, b
  <2>3. ASSUME NEW i \in 1..Len(t)
        PROVE  t[i] = IF i < k THEN s[i] ELSE s[i + 1]
    <3>1. CASE i < k
      BY <1>1, <1>2, <1>3, <2>2, <3>1
    <3>2. CASE i >= k
      <4>1. t[i] = b[i - (k - 1)] /\ i - (k - 1) \in 1..(Len(s) - k)
        BY <1>1, <1>2, <1>3, <2>2, <3>2
      <4>2. b[i - (k - 1)] = s[k + (i - (k - 1))]
        BY <1>3, <4>1
      <4>3. k + (i - (k - 1)) = i + 1
        BY <1>1
      <4> QED
        BY <3>2, <4>1, <4>2, <4>3, <1>1
    <3> QED
      BY <1>1, <3>1, <3>2
  <2> QED
    BY <1>1, <1>2, <1>3, <2>2, <2>3
<1>5. DOMAIN t = 1..(Len(s) - 1)
  BY <1>1, <1>4, LenProperties
<1>6. Thins(t, s, {k}, f)
  <2> HIDE DEF t
  <2>1. \A i \in DOMAIN t : f[i] \in DOMAIN s \ {k}
    BY <1>1, <1>5
  <2>2. \A i, j \in DOMAIN t : i < j => f[i] < f[j]
    BY <1>1, <1>5
  <2>3. \A j \in DOMAIN s \ {k} : \E i \in DOMAIN t : f[i] = j
    <3> SUFFICES ASSUME NEW j \in DOMAIN s \ {k}
                 PROVE  \E i \in DOMAIN t : f[i] = j
      OBVIOUS
    <3>1. CASE j < k
      <4>1. j \in DOMAIN t /\ f[j] = j
        BY <1>1, <1>5, <3>1
      <4> QED
        BY <4>1
    <3>2. CASE j > k
      <4>1. j - 1 \in DOMAIN t /\ f[j - 1] = j
        BY <1>1, <1>5, <3>2
      <4> QED
        BY <4>1
    <3> QED
      BY <1>1, <3>1, <3>2
  <2>4. \A i \in DOMAIN t : t[i] = s[f[i]]
    BY <1>1, <1>4, <1>5
  <2> QED
    BY <2>1, <2>2, <2>3, <2>4 DEF Thins
<1> QED
  BY <1>4, <1>6

(* What unlinking does to the ids of a mailbox, to their uniqueness and to   *)
(* the TEARDOWNs ahead of a SEND.                                            *)
LEMMA ThinsKeeps ==
    ASSUME NEW S, NEW s \in Seq(S), NEW t \in Seq(S), NEW D, NEW f,
           Thins(t, s, D, f)
    PROVE  /\ IdsOf(t) = {s[k].id : k \in DOMAIN s \ D}
           /\ Distinct(s) => Distinct(t)
           /\ \A i : \A j, k \in DOMAIN s \ D :
                j < k /\ s[k].id = i /\ s[j] = Teardown(Target(i)) => Shut(t, i)
<1>1. DOMAIN s \subseteq Int /\ DOMAIN t \subseteq Int
  BY LenProperties
<1>2. IdsOf(t) = {s[k].id : k \in DOMAIN s \ D}
  BY DEF Thins, IdsOf
<1>3. \A i, j \in DOMAIN t : f[i] = f[j] => i = j
  <2> SUFFICES ASSUME NEW i \in DOMAIN t, NEW j \in DOMAIN t, f[i] = f[j], i # j
               PROVE  FALSE
    OBVIOUS
  <2>1. i < j \/ j < i
    BY <1>1
  <2>2. f[i] < f[j] \/ f[j] < f[i]
    BY <2>1 DEF Thins
  <2>3. f[i] \in Int /\ f[j] \in Int
    BY <1>1 DEF Thins
  <2> QED
    BY <2>2, <2>3
<1>4. Distinct(s) => Distinct(t)
  BY <1>3 DEF Thins, Distinct
<1>5. ASSUME NEW i, NEW j \in DOMAIN s \ D, NEW k \in DOMAIN s \ D,
             j < k, s[k].id = i, s[j] = Teardown(Target(i))
      PROVE  Shut(t, i)
  <2>1. PICK x \in DOMAIN t, y \in DOMAIN t : f[x] = j /\ f[y] = k
    BY DEF Thins
  <2>2. x < y
    <3>1. CASE y < x
      <4>1. k < j
        BY <2>1, <3>1 DEF Thins
      <4> QED
        BY <1>1, <1>5, <4>1
    <3>2. CASE x = y
      BY <1>1, <1>5, <2>1, <3>2
    <3> QED
      BY <1>1, <3>1, <3>2
  <2>3. t[y].id = i /\ t[x] = Teardown(Target(i))
    BY <1>5, <2>1 DEF Thins
  <2> QED
    BY <2>2, <2>3 DEF Shut
<1> QED
  BY <1>2, <1>4, <1>5

(* A queued message changes the ids by its own.                              *)
LEMMA AppendKeeps ==
    ASSUME NEW S, NEW s \in Seq(S), NEW m \in S
    PROVE  /\ Append(s, m) \in Seq(S) /\ Len(Append(s, m)) = Len(s) + 1
           /\ IdsOf(Append(s, m)) = IdsOf(s) \cup {m.id}
           /\ Distinct(s) /\ (m.id = NoId \/ m.id \notin IdsOf(s))
                 => Distinct(Append(s, m))
           /\ \A i : Shut(s, i) => Shut(Append(s, m), i)
           /\ \A j \in DOMAIN s : s[j] = Teardown(Target(m.id))
                 => Shut(Append(s, m), m.id)
<1> DEFINE t == Append(s, m)
           n == Len(s)
<1>1. n \in Nat /\ DOMAIN s = 1..n
  BY LenProperties
<1>2. /\ t \in Seq(S) /\ Len(t) = n + 1 /\ t[n + 1] = m
      /\ \A k \in 1..n : t[k] = s[k]
  BY <1>1, AppendProperties
<1>3. DOMAIN t = 1..(n + 1)
  BY <1>1, <1>2, LenProperties
<1> HIDE DEF t, n
<1>4. \A k \in DOMAIN t : (k \in DOMAIN s /\ t[k] = s[k]) \/ (k = n + 1 /\ t[k] = m)
  BY <1>1, <1>2, <1>3
<1>5. \A k \in DOMAIN s : k \in DOMAIN t /\ t[k] = s[k] /\ k < n + 1 /\ k # n + 1
  BY <1>1, <1>2, <1>3
<1>6. n + 1 \in DOMAIN t /\ t[n + 1] = m
  BY <1>1, <1>2, <1>3
<1>7. IdsOf(t) = IdsOf(s) \cup {m.id}
  BY <1>4, <1>5, <1>6 DEF IdsOf
<1>8. Distinct(s) /\ (m.id = NoId \/ m.id \notin IdsOf(s)) => Distinct(t)
  BY <1>4, <1>5, <1>6 DEF Distinct, IdsOf
<1>9. \A i : Shut(s, i) => Shut(t, i)
  BY <1>5 DEF Shut
<1>10. \A j \in DOMAIN s : s[j] = Teardown(Target(m.id)) => Shut(t, m.id)
  BY <1>5, <1>6 DEF Shut
<1> QED
  BY <1>2, <1>7, <1>8, <1>9, <1>10 DEF t, n

Splits(a, b, s, n) == a = Front(s, n) /\ b = SubSeq(s, n + 1, Len(s))

(* Taking the first n messages splits the ids of a mailbox in two.           *)
LEMMA TakeKeeps ==
    ASSUME NEW S, NEW s \in Seq(S), NEW n \in 0..Len(s), Distinct(s),
           NEW a, NEW b, Splits(a, b, s, n)
    PROVE  /\ a \in Seq(S) /\ Len(a) = n /\ b \in Seq(S) /\ Len(b) = Len(s) - n
           /\ Distinct(a) /\ Distinct(b) /\ IdsOf(s) = IdsOf(a) \cup IdsOf(b)
           /\ \A i : i # NoId => ~(i \in IdsOf(a) /\ i \in IdsOf(b))
           /\ \A i : Shut(s, i) /\ i # NoId =>
                 /\ i \in IdsOf(a) => Shut(a, i)
                 /\ i \in IdsOf(b) =>
                       \/ Shut(b, i)
                       \/ \E j \in DOMAIN a : a[j] = Teardown(Target(i))
<1>1. Len(s) \in Nat /\ DOMAIN s = 1..Len(s) /\ \A k \in 1..Len(s) : s[k] \in S
  BY LenProperties, ElementOfSeq
<1>0. a = Front(s, n) /\ b = SubSeq(s, n + 1, Len(s))
  BY DEF Splits
<1>2. a \in Seq(S) /\ Len(a) = n /\ \A k \in 1..n : a[k] = s[k]
  <2>1. CASE n = 0
    BY <1>0, <1>1, <2>1, SubSeqEmpty DEF Front
  <2>2. CASE n > 0
    <3>1. \A k \in 1..n : s[k] \in S
      BY <1>1
    <3> QED
      BY <1>0, <1>1, <2>2, <3>1, SubSeqProperties DEF Front
  <2> QED
    BY <2>1, <2>2
<1>3. b \in Seq(S) /\ Len(b) = Len(s) - n /\ \A k \in 1..(Len(s) - n) : b[k] = s[n + k]
  BY <1>0, <1>1, SuffixParts
<1>4. DOMAIN a = 1..n /\ DOMAIN b = 1..(Len(s) - n)
  BY <1>2, <1>3, LenProperties
<1>5. \A k \in DOMAIN a : k \in DOMAIN s /\ a[k] = s[k] /\ k <= n
  BY <1>1, <1>2, <1>4
<1>6. \A k \in DOMAIN b : n + k \in DOMAIN s /\ b[k] = s[n + k] /\ n + k > n
  <2> SUFFICES ASSUME NEW k \in 1..(Len(s) - n)
               PROVE  n + k \in DOMAIN s /\ b[k] = s[n + k] /\ n + k > n
    BY <1>4
  <2>1. n + k \in 1..Len(s) /\ n + k > n
    BY <1>1
  <2> QED
    BY <1>1, <1>3, <2>1
<1>7. \A k \in DOMAIN s : k <= n => k \in DOMAIN a /\ a[k] = s[k]
  BY <1>1, <1>2, <1>4
<1>8. \A k \in DOMAIN s : k > n => k - n \in DOMAIN b /\ b[k - n] = s[k]
  <2> SUFFICES ASSUME NEW k \in DOMAIN s, k > n
               PROVE  k - n \in DOMAIN b /\ b[k - n] = s[k]
    OBVIOUS
  <2>1. k - n \in 1..(Len(s) - n) /\ n + (k - n) = k
    BY <1>1
  <2>2. b[k - n] = s[n + (k - n)]
    BY <1>3, <2>1
  <2> QED
    BY <1>4, <2>1, <2>2
<1>9. DOMAIN s \subseteq Int /\ DOMAIN a \subseteq Int /\ DOMAIN b \subseteq Int
  BY <1>1, <1>4
<1>10. Distinct(a)
  BY <1>5 DEF Distinct
<1>11. Distinct(b)
  <2> SUFFICES ASSUME NEW j \in DOMAIN b, NEW k \in DOMAIN b,
                      b[j].id = b[k].id, b[j].id # NoId
               PROVE  j = k
    BY DEF Distinct
  <2>1. n + j = n + k
    BY <1>6 DEF Distinct
  <2> QED
    BY <1>9, <2>1
<1>12. IdsOf(s) = IdsOf(a) \cup IdsOf(b)
  <2>1. \A k \in DOMAIN s : k <= n \/ k > n
    BY <1>9
  <2> QED
    BY <1>5, <1>6, <1>7, <1>8, <2>1 DEF IdsOf
<1>13. ASSUME NEW i, i # NoId, i \in IdsOf(a), i \in IdsOf(b)
       PROVE  FALSE
  <2>1. PICK j \in DOMAIN a, k \in DOMAIN b : a[j].id = i /\ b[k].id = i
    BY <1>13 DEF IdsOf
  <2>2. j = n + k
    BY <1>5, <1>6, <1>13, <2>1 DEF Distinct
  <2> QED
    BY <1>5, <1>6, <1>9, <2>1, <2>2
<1>14. ASSUME NEW i, Shut(s, i), i # NoId
       PROVE  /\ i \in IdsOf(a) => Shut(a, i)
              /\ i \in IdsOf(b) =>
                    \/ Shut(b, i)
                    \/ \E j \in DOMAIN a : a[j] = Teardown(Target(i))
  <2>1. PICK j \in DOMAIN s, k \in DOMAIN s :
            j < k /\ s[k].id = i /\ s[j] = Teardown(Target(i))
    BY <1>14 DEF Shut
  <2>2. ASSUME i \in IdsOf(a)
        PROVE  Shut(a, i)
    <3>1. PICK x \in DOMAIN a : a[x].id = i
      BY <2>2 DEF IdsOf
    <3>2. x = k
      BY <1>5, <1>14, <2>1, <3>1 DEF Distinct
    <3>3. k <= n /\ j <= n
      BY <1>5, <1>9, <2>1, <3>1, <3>2
    <3> QED
      BY <1>7, <2>1, <3>3 DEF Shut
  <2>3. ASSUME i \in IdsOf(b), ~\E x \in DOMAIN a : a[x] = Teardown(Target(i))
        PROVE  Shut(b, i)
    <3>1. PICK x \in DOMAIN b : b[x].id = i
      BY <2>3 DEF IdsOf
    <3>2. k = n + x
      BY <1>6, <1>14, <2>1, <3>1 DEF Distinct
    <3>3. k > n /\ j > n
      BY <1>6, <1>7, <1>9, <2>1, <2>3, <3>1, <3>2
    <3>4. j - n < k - n
      BY <1>9, <2>1
    <3> QED
      BY <1>8, <2>1, <3>3, <3>4 DEF Shut
  <2> QED
    BY <2>2, <2>3
<1> QED
  BY <1>2, <1>3, <1>10, <1>11, <1>12, <1>13, <1>14

(* Taking the first message of a batch.                                      *)
LEMMA TailKeeps ==
    ASSUME NEW S, NEW s \in Seq(S), s # <<>>, Distinct(s)
    PROVE  /\ Head(s) \in S /\ Tail(s) \in Seq(S) /\ Len(Tail(s)) = Len(s) - 1
           /\ Distinct(Tail(s)) /\ IdsOf(s) = {Head(s).id} \cup IdsOf(Tail(s))
           /\ Head(s).id # NoId => Head(s).id \notin IdsOf(Tail(s))
           /\ \A i : Shut(s, i) /\ i # NoId /\ i \in IdsOf(Tail(s)) =>
                 Shut(Tail(s), i) \/ Head(s) = Teardown(Target(i))
           /\ \A m : (\E j \in DOMAIN s : s[j] = m) =>
                 Head(s) = m \/ \E j \in DOMAIN Tail(s) : Tail(s)[j] = m
           /\ \A i : Shut(s, i) /\ i # NoId => Head(s).id # i
<1> DEFINE t == Tail(s)
<1>1. Len(s) \in Nat /\ DOMAIN s = 1..Len(s) /\ Len(s) # 0 /\ Head(s) = s[1]
  BY LenProperties, EmptySeq
<1>2. Head(s) \in S /\ t \in Seq(S) /\ Len(t) = Len(s) - 1
          /\ \A i \in 1..Len(t) : t[i] = s[i + 1]
  BY HeadTailProperties
<1>3. DOMAIN t = 1..(Len(s) - 1)
  BY <1>2, LenProperties
<1> HIDE DEF t
<1>4. \A k \in DOMAIN t : k + 1 \in DOMAIN s /\ t[k] = s[k + 1] /\ k + 1 # 1
  BY <1>1, <1>2, <1>3
<1>5. \A k \in DOMAIN s : k # 1 => k - 1 \in DOMAIN t /\ t[k - 1] = s[k]
  <2> SUFFICES ASSUME NEW k \in DOMAIN s, k # 1
               PROVE  k - 1 \in DOMAIN t /\ t[k - 1] = s[k]
    OBVIOUS
  <2>1. k - 1 \in 1..(Len(s) - 1) /\ (k - 1) + 1 = k
    BY <1>1
  <2>2. t[k - 1] = s[(k - 1) + 1]
    BY <1>2, <2>1
  <2> QED
    BY <1>3, <2>1, <2>2
<1>6. 1 \in DOMAIN s /\ DOMAIN s \subseteq Int /\ DOMAIN t \subseteq Int
  BY <1>1, <1>3
<1>7. Distinct(t)
  <2> SUFFICES ASSUME NEW j \in DOMAIN t, NEW k \in DOMAIN t,
                      t[j].id = t[k].id, t[j].id # NoId
               PROVE  j = k
    BY DEF Distinct
  <2>1. j + 1 = k + 1
    BY <1>4 DEF Distinct
  <2> QED
    BY <1>6, <2>1
<1>8. IdsOf(s) = {Head(s).id} \cup IdsOf(t)
  BY <1>1, <1>4, <1>5, <1>6 DEF IdsOf
<1>9. Head(s).id # NoId => Head(s).id \notin IdsOf(t)
  BY <1>1, <1>4, <1>6 DEF IdsOf, Distinct
<1>10. ASSUME NEW i, Shut(s, i), i # NoId
       PROVE  /\ i \in IdsOf(t) => Shut(t, i) \/ Head(s) = Teardown(Target(i))
              /\ Head(s).id # i
  <2>1. PICK j \in DOMAIN s, k \in DOMAIN s :
            j < k /\ s[k].id = i /\ s[j] = Teardown(Target(i))
    BY <1>10 DEF Shut
  <2>2. k # 1 /\ (j # 1 => j - 1 < k - 1)
    BY <1>1, <2>1
  <2>3. Head(s).id # i
    BY <1>1, <1>6, <1>10, <2>1, <2>2 DEF Distinct
  <2>4. CASE j = 1
    BY <1>1, <2>1, <2>3, <2>4
  <2>5. CASE j # 1
    BY <1>5, <2>1, <2>2, <2>3, <2>5 DEF Shut
  <2> QED
    BY <2>4, <2>5
<1>11. ASSUME NEW m, \E j \in DOMAIN s : s[j] = m
       PROVE  Head(s) = m \/ \E j \in DOMAIN t : t[j] = m
  BY <1>1, <1>5, <1>11
<1> QED
  BY <1>2, <1>7, <1>8, <1>9, <1>10, <1>11 DEF t

(* t is what an order-preserving choice of as many places as are kept leaves. *)
Chosen(t, s, K, pos) ==
    /\ pos \in [1..Cardinality(K) -> K]
    /\ \A i, j \in DOMAIN pos : i < j => pos[i] < pos[j]
    /\ t = [i \in DOMAIN pos |-> s[pos[i]]]

(* Such a choice keeps them all.                                             *)
LEMMA KeptThins ==
    ASSUME NEW S, NEW s \in Seq(S), NEW D, NEW K, K = DOMAIN s \ D,
           NEW t, NEW pos, Chosen(t, s, K, pos)
    PROVE  t \in Seq(S) /\ Len(t) <= Len(s) /\ Thins(t, s, D, pos)
<1>0. /\ pos \in [1..Cardinality(K) -> K]
      /\ \A i, j \in DOMAIN pos : i < j => pos[i] < pos[j]
      /\ t = [i \in DOMAIN pos |-> s[pos[i]]]
  BY DEF Chosen
<1> DEFINE n == Cardinality(K)
<1>1. Len(s) \in Nat /\ DOMAIN s = 1..Len(s)
  BY LenProperties
<1>2. IsFiniteSet(1..Len(s)) /\ Cardinality(1..Len(s)) = Len(s)
  <2> DEFINE m == Len(s)
  <2>1. m \in Nat
    BY <1>1
  <2> HIDE DEF m
  <2>2. IsFiniteSet(1..m) /\ Cardinality(1..m) = m
    BY <2>1, FS_Interval
  <2> QED
    BY <2>2 DEF m
<1>3. IsFiniteSet(K) /\ n <= Len(s) /\ n \in Nat
  <2>1. K \in SUBSET (1..Len(s))
    BY <1>1
  <2> QED
    BY <1>2, <2>1, FS_Subset, FS_CardinalityType
<1>4. IsFiniteSet(1..n) /\ Cardinality(1..n) = n
  BY <1>3, FS_Interval
<1> HIDE DEF n
<1>5. DOMAIN pos = 1..n /\ pos \in [1..n -> K] /\ K \subseteq Int /\ 1..n \subseteq Int
  <2>1. DOMAIN pos = 1..n /\ pos \in [1..n -> K]
    BY <1>0 DEF n
  <2>2. K \subseteq Int /\ 1..n \subseteq Int
    BY <1>1, <1>3
  <2> QED
    BY <2>1, <2>2
<1>6. \A i, j \in 1..n : i # j => pos[i] # pos[j]
  <2> SUFFICES ASSUME NEW i \in 1..n, NEW j \in 1..n, i # j, pos[i] = pos[j]
               PROVE  FALSE
    OBVIOUS
  <2>1. i < j \/ j < i
    BY <1>5
  <2>2. pos[i] < pos[j] \/ pos[j] < pos[i]
    BY <1>0, <1>5, <2>1
  <2>3. pos[i] \in Int /\ pos[j] \in Int
    BY <1>5
  <2> QED
    BY <2>2, <2>3
<1>7. \A k \in K : \E i \in 1..n : pos[i] = k
  <2> SUFFICES ASSUME NEW k \in K, \A i \in 1..n : pos[i] # k
               PROVE  FALSE
    OBVIOUS
  <2>1. IsFiniteSet(K \ {k}) /\ Cardinality(K \ {k}) = n - 1
    BY <1>3, FS_RemoveElement DEF n
  <2>2. pos \in [1..n -> K \ {k}]
    BY <1>5
  <2>3. Cardinality(K \ {k}) < Cardinality(1..n)
    BY <1>3, <1>4, <2>1
  <2> DEFINE A == 1..n
             B == K \ {k}
  <2>4. IsFiniteSet(A) /\ IsFiniteSet(B) /\ Cardinality(B) < Cardinality(A)
            /\ pos \in [A -> B]
    BY <1>4, <2>1, <2>2, <2>3
  <2> HIDE DEF A, B
  <2>5. \E x, y \in A : x # y /\ pos[x] = pos[y]
    BY <2>4, FS_PigeonHole
  <2> QED
    BY <1>6, <2>5 DEF A
<1>8. t \in [1..n -> S]
  <2>1. \A i \in 1..n : s[pos[i]] \in S
    BY <1>1, <1>5, ElementOfSeq
  <2> QED
    BY <1>0, <1>5, <2>1
<1>9. t \in Seq(S)
  BY <1>3, <1>8, SeqDef
<1>10. DOMAIN t = 1..n /\ Len(t) = n
  <2>1. DOMAIN t = 1..n
    BY <1>8
  <2>2. Len(t) \in Nat /\ DOMAIN t = 1..Len(t)
    BY <1>9, LenProperties
  <2> QED
    BY <1>3, <2>1, <2>2
<1>11. Thins(t, s, D, pos)
  BY <1>0, <1>5, <1>7, <1>10 DEF Thins
<1> QED
  BY <1>3, <1>9, <1>10, <1>11

-----------------------------------------------------------------------------
(* Messages.                                                                 *)

(* What is known of a queued message of w.                                   *)
LEMMA PostFacts ==
    ASSUME NEW w \in Workers, NEW m \in Post(w)
    PROVE  /\ m \in Message /\ m.to \in Clients /\ Owner[m.to] = w
           /\ m.kind = "SEND" => /\ m.id \in Ids /\ m.to = Target(m.id)
                                 /\ Home(m.id) = w /\ m.id # NoId
                                 /\ m = Send(m.id, m.to)
           /\ m.kind = "TEARDOWN" => m = Teardown(m.to) /\ m.id = NoId
           /\ m.kind \in {"SEND", "TEARDOWN"}
           /\ m.id \in Ids => m.kind = "SEND"
BY MailboxAssumption DEF Post, Message, Home, Ids, Send, Teardown

(* The letters a worker queues are what its peer may have in its mailbox.    *)
LEMMA LetterFacts ==
    /\ \A r \in Requests : /\ Send(r, To[r]) \in Post(Home(r)) /\ Home(r) = Owner[To[r]]
                           /\ Home(r) \in Workers /\ Target(r) = To[r]
                           /\ Pub(r) \in Workers /\ Pub(r) # Home(r)
    /\ \A s \in Sends : /\ Send(s, Dest[s]) \in Post(Home(s)) /\ Home(s) = Owner[Dest[s]]
                        /\ Home(s) \in Workers /\ Target(s) = Dest[s] /\ s \notin Requests
    /\ \A c \in Clients : Teardown(c) \in Post(Owner[c]) /\ Owner[c] \in Workers
BY MailboxAssumption DEF Post, Message, Home, Ids, Send, Teardown, Target, Pub

-----------------------------------------------------------------------------
(* What the operations on a mailbox do to it.                                *)

(* The SEND with id i stays behind the TEARDOWN of its client.               *)
StaysShut(i, t, s) == Shut(s, i) => Shut(t, i)

(* An element of a mailbox is a message of one of its worker's clients.      *)
LEMMA BoxElement ==
    ASSUME NEW w \in Workers, NEW s \in Seq(Post(w))
    PROVE  /\ \A k \in DOMAIN s : s[k] \in Post(w)
           /\ \A i \in Ids : i \in IdsOf(s) <=>
                 \E k \in DOMAIN s : /\ s[k].id = i /\ s[k].kind = "SEND"
                                     /\ s[k].to = Target(i)
           /\ \A i \in Ids : i \in IdsOf(s) => Home(i) = w
<1>1. \A k \in DOMAIN s : s[k] \in Post(w)
  BY LenProperties, ElementOfSeq
<1> QED
  BY <1>1, PostFacts DEF IdsOf

(* Unlinking one message.                                                    *)
LEMMA UnlinkEffect ==
    ASSUME NEW w \in Workers, NEW s, Boxed(s, w), NEW k \in DOMAIN s
    PROVE  /\ Boxed(Without(s, k), w)
           /\ \A i \in Ids : i \in IdsOf(Without(s, k))
                                <=> i \in IdsOf(s) /\ i # s[k].id
           /\ \A i \in Ids : s[k] # Teardown(Target(i)) /\ s[k].id # i
                                => StaysShut(i, Without(s, k), s)
<1> DEFINE t == Without(s, k)
<1>1. s \in Seq(Post(w)) /\ Len(s) \in Nat
  BY LenProperties DEF Boxed
<1>2. t \in Seq(Post(w)) /\ Len(t) = Len(s) - 1 /\ \E f : Thins(t, s, {k}, f)
  BY <1>1, WithoutThins
<1> HIDE DEF t
<1>3. PICK f : Thins(t, s, {k}, f)
  BY <1>2
<1>4. /\ IdsOf(t) = {s[j].id : j \in DOMAIN s \ {k}}
      /\ Distinct(s) => Distinct(t)
      /\ \A i : \A j, l \in DOMAIN s \ {k} :
           j < l /\ s[l].id = i /\ s[j] = Teardown(Target(i)) => Shut(t, i)
  BY <1>1, <1>2, <1>3, ThinsKeeps
<1>5. QueueMax + Slack \in Nat
  BY MailboxAssumption
<1>6. Boxed(t, w)
  BY <1>1, <1>2, <1>4, <1>5 DEF Boxed
<1>7. \A i \in Ids : i \in IdsOf(t) <=> i \in IdsOf(s) /\ i # s[k].id
  <2>1. NoId \notin Ids
    BY MailboxAssumption DEF Ids
  <2> QED
    BY <1>4, <2>1 DEF IdsOf, Boxed, Distinct
<1>8. \A i \in Ids : s[k] # Teardown(Target(i)) /\ s[k].id # i => StaysShut(i, t, s)
  BY <1>4 DEF StaysShut, Shut
<1> QED
  BY <1>6, <1>7, <1>8 DEF t

(* Queueing one message below the bound.                                     *)
LEMMA QueueEffect ==
    ASSUME NEW w \in Workers, NEW s, Boxed(s, w), NEW m \in Post(w),
           Len(s) < QueueMax + Slack, m.id = NoId \/ m.id \notin IdsOf(s)
    PROVE  /\ Boxed(Append(s, m), w)
           /\ \A i : i \in IdsOf(Append(s, m)) <=> i \in IdsOf(s) \/ i = m.id
           /\ \A i : StaysShut(i, Append(s, m), s)
           /\ \A j \in DOMAIN s : s[j] = Teardown(Target(m.id))
                 => Shut(Append(s, m), m.id)
<1> DEFINE t == Append(s, m)
<1>1. s \in Seq(Post(w)) /\ Len(s) \in Nat
  BY LenProperties DEF Boxed
<1>2. /\ t \in Seq(Post(w)) /\ Len(t) = Len(s) + 1
      /\ IdsOf(t) = IdsOf(s) \cup {m.id}
      /\ Distinct(s) /\ (m.id = NoId \/ m.id \notin IdsOf(s)) => Distinct(t)
      /\ \A i : Shut(s, i) => Shut(t, i)
      /\ \A j \in DOMAIN s : s[j] = Teardown(Target(m.id)) => Shut(t, m.id)
  BY <1>1, AppendKeeps
<1>3. QueueMax + Slack \in Nat
  BY MailboxAssumption
<1> HIDE DEF t
<1>4. Boxed(t, w)
  BY <1>1, <1>2, <1>3 DEF Boxed
<1> QED
  BY <1>2, <1>4 DEF StaysShut, t

(* Purging the SENDs of a client.                                            *)
LEMMA PurgeEffect ==
    ASSUME NEW w \in Workers, NEW c \in Clients, Boxed(mail[w], w), Purge(w, c)
    PROVE  /\ \E t : /\ mail' = [mail EXCEPT ![w] = t] /\ Boxed(t, w)
                     /\ \A i \in Ids : i \in IdsOf(t)
                                <=> i \in IdsOf(mail[w]) /\ Target(i) # c
                     /\ \A i \in Ids : Target(i) # c => StaysShut(i, t, mail[w])
           /\ CompleteSync({r \in Requests : r \in BoxIds(w) /\ Target(r) = c}, -1)
<1> DEFINE s == mail[w]
           D == Letters(s, c)
           K == DOMAIN s \ D
<1>1. PICK pos \in [1..Cardinality(K) -> K] :
          /\ \A i, j \in DOMAIN pos : i < j => pos[i] < pos[j]
          /\ mail' = [mail EXCEPT ![w] = [i \in DOMAIN pos |-> s[pos[i]]]]
  BY DEF Purge
<1> DEFINE t == [i \in DOMAIN pos |-> s[pos[i]]]
<1>2. s \in Seq(Post(w)) /\ Len(s) \in Nat
  BY LenProperties DEF Boxed
<1>3. t \in Seq(Post(w)) /\ Len(t) <= Len(s) /\ Thins(t, s, D, pos)
  <2>1. K = DOMAIN s \ D
    OBVIOUS
  <2>2. Chosen(t, s, K, pos)
    BY <1>1 DEF Chosen
  <2> HIDE DEF s, D, K, t
  <2> QED
    BY <1>2, <2>1, <2>2, KeptThins
<1>4. \A k \in DOMAIN s : k \in D <=> s[k].kind = "SEND" /\ s[k].to = c
  BY DEF Letters
<1>5. CompleteSync({r \in Requests : r \in BoxIds(w) /\ Target(r) = c}, -1)
  <2>1. UNION {SyncOf(s[k]) : k \in D} = {r \in Requests : r \in BoxIds(w) /\ Target(r) = c}
    <3>1. \A k \in DOMAIN s : s[k] \in Post(w)
      BY <1>2, BoxElement
    <3>2. \A k \in DOMAIN s : s[k].id \in Ids => (k \in D <=> Target(s[k].id) = c)
      BY <1>4, <3>1, PostFacts
    <3>3. D \subseteq DOMAIN s /\ BoxIds(w) = IdsOf(s) /\ Requests \subseteq Ids
      BY DEF Letters, BoxIds, Ids
    <3> HIDE DEF s, D
    <3> QED
      BY <3>2, <3>3 DEF SyncOf, IdsOf
  <2> QED
    BY <2>1 DEF Purge
<1>9. mail' = [mail EXCEPT ![w] = t]
  BY <1>1
<1> HIDE DEF s, D, K, t
<1>6. /\ IdsOf(t) = {s[j].id : j \in DOMAIN s \ D}
      /\ Distinct(s) => Distinct(t)
      /\ \A i : \A j, l \in DOMAIN s \ D :
           j < l /\ s[l].id = i /\ s[j] = Teardown(Target(i)) => Shut(t, i)
  BY <1>2, <1>3, ThinsKeeps
<1>7. Boxed(t, w)
  <2>1. Boxed(s, w)
    BY DEF s
  <2>2. QueueMax + Slack \in Nat /\ Len(t) \in Nat
    BY <1>3, MailboxAssumption, LenProperties
  <2> QED
    BY <1>2, <1>3, <1>6, <2>1, <2>2 DEF Boxed
<1>8. \A i \in Ids : i \in IdsOf(t) <=> i \in IdsOf(s) /\ Target(i) # c
  <2>1. \A k \in DOMAIN s : s[k] \in Post(w)
    BY <1>2, BoxElement
  <2>2. \A k \in DOMAIN s : s[k].id \in Ids => (k \in D <=> Target(s[k].id) = c)
    BY <1>4, <2>1, PostFacts
  <2>3. \A i \in Ids : i \in IdsOf(t) <=> \E k \in DOMAIN s : k \notin D /\ s[k].id = i
    BY <1>6
  <2> QED
    BY <2>2, <2>3 DEF IdsOf
<1>10. \A i \in Ids : Target(i) # c => StaysShut(i, t, s)
  <2> SUFFICES ASSUME NEW i \in Ids, Target(i) # c, Shut(s, i)
               PROVE  Shut(t, i)
    BY DEF StaysShut
  <2>1. PICK j \in DOMAIN s, k \in DOMAIN s :
            j < k /\ s[k].id = i /\ s[j] = Teardown(Target(i))
    BY DEF Shut
  <2>2. j \notin D
    BY <1>4, <2>1 DEF Teardown
  <2>3. k \notin D
    BY <1>2, <1>4, <2>1, BoxElement, PostFacts
  <2> QED
    BY <1>6, <2>1, <2>2, <2>3
<1> QED
  BY <1>5, <1>7, <1>8, <1>9, <1>10 DEF s

(* Taking a batch.                                                           *)
LEMMA TakeEffect ==
    ASSUME NEW w \in Workers, NEW s, Boxed(s, w), NEW n \in 0..Len(s),
           NEW a, NEW b, Splits(a, b, s, n)
    PROVE  /\ Boxed(a, w) /\ Boxed(b, w)
           /\ \A i \in Ids : i \in IdsOf(s) <=> i \in IdsOf(a) \/ i \in IdsOf(b)
           /\ \A i \in Ids : ~(i \in IdsOf(a) /\ i \in IdsOf(b))
           /\ \A i \in Ids : i \in IdsOf(a) => StaysShut(i, a, s)
           /\ \A i \in Ids : i \in IdsOf(b) /\ Shut(s, i) =>
                 \/ Shut(b, i) \/ \E j \in DOMAIN a : a[j] = Teardown(Target(i))
<1>1. s \in Seq(Post(w)) /\ Len(s) \in Nat /\ Distinct(s)
  BY LenProperties DEF Boxed
<1>2. /\ a \in Seq(Post(w)) /\ Len(a) = n /\ b \in Seq(Post(w)) /\ Len(b) = Len(s) - n
      /\ Distinct(a) /\ Distinct(b) /\ IdsOf(s) = IdsOf(a) \cup IdsOf(b)
      /\ \A i : i # NoId => ~(i \in IdsOf(a) /\ i \in IdsOf(b))
      /\ \A i : Shut(s, i) /\ i # NoId =>
            /\ i \in IdsOf(a) => Shut(a, i)
            /\ i \in IdsOf(b) =>
                  \/ Shut(b, i)
                  \/ \E j \in DOMAIN a : a[j] = Teardown(Target(i))
  BY <1>1, TakeKeeps
<1>3. NoId \notin Ids /\ QueueMax + Slack \in Nat
  BY MailboxAssumption DEF Ids
<1>4. Boxed(a, w) /\ Boxed(b, w)
  BY <1>1, <1>2, <1>3 DEF Boxed
<1> QED
  BY <1>2, <1>3, <1>4 DEF StaysShut

(* The mailbox of w becomes a well-formed t.                                 *)
LEMMA BoxUpdate ==
    ASSUME TypeBoxes, NEW w \in Workers, NEW t, Boxed(t, w),
           mail' = [mail EXCEPT ![w] = t], batch' = batch
    PROVE  /\ TypeBoxes' /\ mail'[w] = t
           /\ \A v \in Workers : v # w => mail'[v] = mail[v]
<1>1. /\ DOMAIN mail' = Workers /\ mail'[w] = t
      /\ \A v \in Workers : v # w => mail'[v] = mail[v]
  BY DEF TypeBoxes
<1>2. mail' = [v \in Workers |-> mail'[v]]
  BY DEF TypeBoxes
<1>3. \A v \in Workers : Boxed(mail'[v], v) /\ Boxed(batch'[v], v)
  BY <1>1 DEF TypeBoxes
<1> QED
  BY <1>1, <1>2, <1>3 DEF TypeBoxes

(* The ids of U leave the mailbox of w, and nothing else moves.              *)
Sheds(w, U) ==
    /\ TypeBoxes'
    /\ \A i \in Ids : i \in BoxIds(w)' <=> i \in BoxIds(w) /\ i \notin U
    /\ \A v \in Workers : v # w => mail'[v] = mail[v]
    /\ batch' = batch

(* The id i is queued for w, and nothing else moves.                         *)
Gains(w, i) ==
    /\ TypeBoxes'
    /\ \A j \in Ids : j \in BoxIds(w)' <=> j \in BoxIds(w) \/ j = i
    /\ \A v \in Workers : v # w => mail'[v] = mail[v]
    /\ batch' = batch
    /\ \A j \in Ids : StaysShut(j, mail'[w], mail[w])

ToClient(c) == {i \in Ids : Target(i) = c}

(* mailbox_purge_client takes the messages to c out of the mailbox, answers  *)
(* its REQUESTs with -1 and keeps the rest in order.                         *)
LEMMA PurgeMoves ==
    ASSUME TypeBoxes, NEW w \in Workers, NEW c \in Clients, Purge(w, c),
           batch' = batch
    PROVE  /\ Sheds(w, ToClient(c))
           /\ CompleteSync(BoxIds(w) \cap ToClient(c) \cap Requests, -1)
           /\ \A i \in Ids : Target(i) # c => StaysShut(i, mail'[w], mail[w])
<1>1. Boxed(mail[w], w)
  BY DEF TypeBoxes
<1>2. PICK t : /\ mail' = [mail EXCEPT ![w] = t] /\ Boxed(t, w)
               /\ \A i \in Ids : i \in IdsOf(t)
                                <=> i \in IdsOf(mail[w]) /\ Target(i) # c
               /\ \A i \in Ids : Target(i) # c => StaysShut(i, t, mail[w])
  BY <1>1, PurgeEffect
<1>3. /\ TypeBoxes' /\ mail'[w] = t
      /\ \A v \in Workers : v # w => mail'[v] = mail[v]
  BY <1>2, BoxUpdate
<1>4. CompleteSync({r \in Requests : r \in BoxIds(w) /\ Target(r) = c}, -1)
  BY <1>1, PurgeEffect
<1>5. {r \in Requests : r \in BoxIds(w) /\ Target(r) = c}
          = BoxIds(w) \cap ToClient(c) \cap Requests
  BY DEF ToClient, Ids
<1> QED
  BY <1>2, <1>3, <1>4, <1>5 DEF Sheds, BoxIds, ToClient

(* A message taken out of the middle of a mailbox leaves the others behind,  *)
(* in order.                                                                 *)
LEMMA UnlinkMoves ==
    ASSUME TypeBoxes, NEW w \in Workers, NEW k \in DOMAIN mail[w],
           mail' = [mail EXCEPT ![w] = Without(@, k)], batch' = batch
    PROVE  /\ Sheds(w, {mail[w][k].id}) /\ mail[w][k] \in Post(w)
           /\ \A i \in Ids : mail[w][k] # Teardown(Target(i)) /\ mail[w][k].id # i
                                => StaysShut(i, mail'[w], mail[w])
<1> DEFINE t == Without(mail[w], k)
<1>1. Boxed(mail[w], w) /\ mail' = [mail EXCEPT ![w] = t]
  BY DEF TypeBoxes
<1>2. /\ Boxed(t, w)
      /\ \A i \in Ids : i \in IdsOf(t) <=> i \in IdsOf(mail[w]) /\ i # mail[w][k].id
      /\ \A i \in Ids : mail[w][k] # Teardown(Target(i)) /\ mail[w][k].id # i
                                => StaysShut(i, t, mail[w])
  BY <1>1, UnlinkEffect
<1> HIDE DEF t
<1>3. /\ TypeBoxes' /\ mail'[w] = t
      /\ \A v \in Workers : v # w => mail'[v] = mail[v]
  BY <1>1, <1>2, BoxUpdate
<1>4. mail[w][k] \in Post(w)
  BY <1>1, BoxElement DEF Boxed
<1> QED
  BY <1>2, <1>3, <1>4 DEF Sheds, BoxIds

(* A push adds its message behind whatever is queued, a TEARDOWN of its      *)
(* client included.                                                          *)
LEMMA QueueMoves ==
    ASSUME TypeBoxes, NEW w \in Workers, NEW m \in Post(w),
           Len(mail[w]) < QueueMax + Slack, m.id = NoId \/ m.id \notin BoxIds(w),
           mail' = [mail EXCEPT ![w] = Append(@, m)], batch' = batch
    PROVE  /\ Gains(w, m.id)
           /\ Queued(w, Teardown(Target(m.id))) # {} => Shut(mail'[w], m.id)
<1> DEFINE t == Append(mail[w], m)
<1>1. Boxed(mail[w], w) /\ mail' = [mail EXCEPT ![w] = t]
          /\ (m.id = NoId \/ m.id \notin IdsOf(mail[w]))
  BY DEF TypeBoxes, BoxIds
<1>2. /\ Boxed(t, w)
      /\ \A i : i \in IdsOf(t) <=> i \in IdsOf(mail[w]) \/ i = m.id
      /\ \A i : StaysShut(i, t, mail[w])
      /\ \A j \in DOMAIN mail[w] : mail[w][j] = Teardown(Target(m.id))
                 => Shut(t, m.id)
  BY <1>1, QueueEffect
<1> HIDE DEF t
<1>3. /\ TypeBoxes' /\ mail'[w] = t
      /\ \A v \in Workers : v # w => mail'[v] = mail[v]
  BY <1>1, <1>2, BoxUpdate
<1> QED
  BY <1>2, <1>3 DEF Gains, BoxIds, Queued

-----------------------------------------------------------------------------
(* The steps.                                                                *)

(* The part of the invariant the sequential reasoning needs.                 *)
Base == TypeInv /\ HandInv /\ RunInv

(* A worker in a REQUEST runs one of its own; its peer is another worker.    *)
LEMMA RequestFacts ==
    ASSUME Base, NEW w \in Workers,
           pc[w] \in {"push", "signal", "look", "serve", "slept", "answer"}
    PROVE  /\ req[w] \in Requests /\ Pub(req[w]) = w /\ Running(req[w])
           /\ answer[req[w]] = "waiting" /\ Peer(w) = Home(req[w])
           /\ Peer(w) \in Workers /\ Peer(w) # w
           /\ Letter(w) = Send(req[w], To[req[w]]) /\ Letter(w) \in Post(Peer(w))
           /\ Target(req[w]) = To[req[w]] /\ To[req[w]] \in Clients
           /\ From[req[w]] \in Clients
<1>1. req[w] \in Requests /\ Pub(req[w]) = w /\ answer[req[w]] = "waiting"
  BY MailboxAssumption DEF Base, TypeInv, TypeControl, RunInv, Pub
<1> QED
  BY <1>1, LetterFacts, MailboxAssumption DEF Running, Peer, Letter, Home

(* A worker runs one REQUEST at a time.                                      *)
LEMMA RunStep ==
    ASSUME Base, Next
    PROVE  RunInv'
<1> USE DEF Base, TypeInv, TypeControl, RunInv
<1>1. ASSUME UNCHANGED <<pc, req, answer>>
      PROVE  RunInv'
  BY <1>1
<1>2. ASSUME NEW w \in Workers, MailStep(w)
      PROVE  RunInv'
  BY <1>1, <1>2 DEF MailStep, DeliverCheck, DeliverClaim, DeliverSend, DeliverDrain,
     DeliverComplete, DeliverFinish, TeardownPurge, TeardownReclaim, wait
<1>3. ASSUME NEW w \in Workers, EventLoop(w)
      PROVE  RunInv'
  BY <1>3 DEF EventLoop, WakeupDrain, TakeBatch, BatchNext, BatchEnd, Go, wait, HandInv
<1>4. ASSUME NEW w \in Workers, PushRequest(w)
      PROVE  RunInv'
  BY <1>4 DEF PushRequest, PushFailed, Serve, Return, Go, wait, Labels
<1>5. ASSUME NEW w \in Workers, SignalRequest(w)
      PROVE  RunInv'
  BY <1>5 DEF SignalRequest, PushFailed, Serve, Return, Go, wait, Labels
<1>6. ASSUME NEW w \in Workers, Look(w)
      PROVE  RunInv'
  BY <1>6 DEF Look, Decided, Abandon, Wait, Serve, Return, Go, wait, Labels
<1>7. ASSUME NEW w \in Workers, ServeBlocked(w)
      PROVE  RunInv'
  BY <1>7 DEF ServeBlocked, ServePop, ServeNext, ServeFlush, Go, wait, Labels
<1>8. ASSUME NEW w \in Workers, Slept(w)
      PROVE  RunInv'
  BY <1>8 DEF Slept, Return, Go, wait, Labels
<1>9. ASSUME NEW w \in Workers, AnswerRequest(w)
      PROVE  RunInv'
  BY <1>9, MailboxAssumption DEF AnswerRequest, Go
<1>10. ASSUME NEW w \in Workers, NEW r \in Requests, StartRequest(w, r)
       PROVE  RunInv'
  BY <1>10, MailboxAssumption DEF StartRequest, Go
<1>11. ASSUME NEW w \in Workers, NEW c \in Clients, Flush(w, c) \/ PeerClose(w, c)
       PROVE  RunInv'
  BY <1>1, <1>11 DEF Flush, PeerClose, wait
<1>12. ASSUME NEW w \in Workers, Expire(w)
       PROVE  RunInv'
  BY <1>1, <1>12 DEF Expire
<1>13. ASSUME NEW c \in Clients, PushTeardown(c) \/ AccountDies(c)
       PROVE  RunInv'
  BY <1>1, <1>13 DEF PushTeardown, AccountDies, wait
<1>14. ASSUME NEW s \in Sends, PushSend(s)
       PROVE  RunInv'
  BY <1>1, <1>14 DEF PushSend, wait
<1>15. ASSUME SignalPushed
       PROVE  RunInv'
  BY <1>1, <1>15 DEF SignalPushed, wait
<1> QED
  BY <1>2, <1>3, <1>4, <1>5, <1>6, <1>7, <1>8, <1>9, <1>10, <1>11, <1>12, <1>13,
     <1>14, <1>15 DEF Next, WorkerStep, RequestStep

(* The message a blocked worker serves comes from its own mailbox.           *)
LEMMA ServePopFacts ==
    ASSUME TypeBoxes, NEW w \in Workers, NEW S, S \subseteq DOMAIN mail[w], NEW n,
           ServePop(w, S, n)
    PROVE  /\ FirstOf(S) \in S /\ FirstOf(S) \in DOMAIN mail[w]
           /\ mail[w][FirstOf(S)] \in Post(w)
           /\ Handle(w, mail[w][FirstOf(S)])
           /\ mail' = [mail EXCEPT ![w] = Without(@, FirstOf(S))]
<1>1. mail[w] \in Seq(Post(w))
  BY DEF TypeBoxes, Boxed
<1>2. S \subseteq Nat /\ S # {}
  BY <1>1, LenProperties DEF ServePop
<1>3. FirstOf(S) \in S
  BY <1>2, FirstOfPlace
<1>4. mail[w][FirstOf(S)] \in Post(w)
  BY <1>1, <1>3, BoxElement
<1> QED
  BY <1>3, <1>4 DEF ServePop

(* A handled message enters the first stage of its kind.                     *)
LEMMA HandleHand ==
    ASSUME Base, NEW w \in Workers, step[w] = "none", NEW m \in Post(w),
           Handle(w, m), pc' = pc, pc[w] \in {"batch", "serve"},
           \A v \in Workers : pc[v] # "batch" => batch'[v] = <<>>
    PROVE  HandInv'
<1>1. m.kind \in {"SEND", "TEARDOWN"}
  BY PostFacts
<1>2. /\ msg'[w] = m /\ step'[w] = IF m.kind = "SEND" THEN "check" ELSE "purge"
      /\ \A v \in Workers : v # w => msg'[v] = msg[v] /\ step'[v] = step[v]
      /\ ok' = ok
  BY DEF Base, TypeInv, TypeControl, Handle
<1> QED
  BY <1>1, <1>2 DEF Base, HandInv, Carrying

(* The message in hand stays in step with the stage it is in.                *)
LEMMA HandStep ==
    ASSUME Base, Next
    PROVE  HandInv'
<1> USE DEF Base, TypeInv, TypeControl, HandInv
<1>1. ASSUME UNCHANGED <<pc, batch, step, msg, ok>>
      PROVE  HandInv'
  BY <1>1
<1>2. ASSUME NEW w \in Workers, DeliverCheck(w)
      PROVE  HandInv'
  BY <1>2 DEF DeliverCheck, Then, boxes, Carrying, Stages
<1>3. ASSUME NEW w \in Workers, DeliverClaim(w)
      PROVE  HandInv'
  BY <1>3 DEF DeliverClaim, Then, boxes, Carrying, Stages
<1>4. ASSUME NEW w \in Workers, DeliverSend(w)
      PROVE  HandInv'
  BY <1>4 DEF DeliverSend, Then, boxes, Carrying, Stages, SyncOf
<1>5. ASSUME NEW w \in Workers, DeliverDrain(w)
      PROVE  HandInv'
  BY <1>5 DEF DeliverDrain, Then, boxes, Carrying, Stages
<1>6. ASSUME NEW w \in Workers, DeliverComplete(w)
      PROVE  HandInv'
  BY <1>6 DEF DeliverComplete, Then, Drop, boxes, Carrying, Stages
<1>7. ASSUME NEW w \in Workers, DeliverFinish(w) \/ TeardownReclaim(w)
      PROVE  HandInv'
  BY <1>7 DEF DeliverFinish, TeardownReclaim, Then, Drop, boxes, Carrying, Stages
<1>8. ASSUME NEW w \in Workers, TeardownPurge(w)
      PROVE  HandInv'
  BY <1>8 DEF TeardownPurge, Then, Carrying, Stages
<1>9. ASSUME NEW w \in Workers, WakeupDrain(w) \/ TakeBatch(w) \/ BatchEnd(w)
      PROVE  HandInv'
  <2>1. step[w] = "none" \/ BatchEnd(w)
    BY <1>9 DEF WakeupDrain, TakeBatch
  <2>2. \A v \in Workers : v # w => batch'[v] = batch[v]
    BY <1>9 DEF WakeupDrain, TakeBatch, BatchEnd, TypeBoxes
  <2> QED
    BY <1>9, <2>1, <2>2 DEF WakeupDrain, TakeBatch, BatchEnd, Go, mbox, Labels
<1>10. ASSUME NEW w \in Workers, BatchNext(w)
       PROVE  HandInv'
  <2>1. Head(batch[w]) \in Post(w)
    BY <1>10, TailKeeps DEF BatchNext, TypeBoxes, Boxed
  <2>2. \A v \in Workers : pc[v] # "batch" => batch'[v] = <<>>
    BY <1>10 DEF BatchNext, TypeBoxes
  <2> QED
    BY <1>10, <2>1, <2>2, HandleHand DEF BatchNext
<1>11. ASSUME NEW w \in Workers, PushRequest(w)
       PROVE  HandInv'
  BY <1>11 DEF PushRequest, PushFailed, Serve, Return, Go, mbox, Labels
<1>12. ASSUME NEW w \in Workers, SignalRequest(w)
       PROVE  HandInv'
  BY <1>12 DEF SignalRequest, PushFailed, Serve, Return, Go, mbox, Labels
<1>13. ASSUME NEW w \in Workers, Look(w)
       PROVE  HandInv'
  BY <1>13 DEF Look, Decided, Abandon, Wait, Serve, Return, Go, mbox, boxes, Labels
<1>14. ASSUME NEW w \in Workers, ServeBlocked(w)
       PROVE  HandInv'
  <2>1. ASSUME NEW S, S \subseteq DOMAIN mail[w], NEW n, ServePop(w, S, n)
        PROVE  HandInv'
    <3>1. mail[w][FirstOf(S)] \in Post(w) /\ Handle(w, mail[w][FirstOf(S)])
      BY <2>1, ServePopFacts
    <3> QED
      BY <1>14, <2>1, <3>1, HandleHand DEF ServeBlocked, ServePop
  <2>2. ASSUME NEW S, NEW n, NEW p, ServeNext(w, S, n, p)
        PROVE  HandInv'
    BY <1>1, <1>14, <2>2 DEF ServeBlocked, ServeNext, mbox
  <2>3. ASSUME ServeFlush(w)
        PROVE  HandInv'
    BY <1>14, <2>3 DEF ServeBlocked, ServeFlush, Go, mbox, Labels
  <2>4. Reclaimable(w) \subseteq DOMAIN mail[w] /\ Poppable(w) \subseteq DOMAIN mail[w]
    BY DEF Reclaimable, Poppable
  <2> QED
    BY <1>14, <2>1, <2>2, <2>3, <2>4 DEF ServeBlocked
<1>15. ASSUME NEW w \in Workers, Slept(w) \/ AnswerRequest(w)
       PROVE  HandInv'
  BY <1>15 DEF Slept, AnswerRequest, Return, Go, mbox, boxes, Labels
<1>16. ASSUME NEW w \in Workers, NEW r \in Requests, StartRequest(w, r)
       PROVE  HandInv'
  BY <1>16 DEF StartRequest, Go, mbox, boxes
<1>17. ASSUME NEW w \in Workers, NEW c \in Clients, Flush(w, c) \/ PeerClose(w, c)
       PROVE  HandInv'
  BY <1>1, <1>17 DEF Flush, PeerClose, boxes, mbox
<1>18. ASSUME NEW w \in Workers, Expire(w)
       PROVE  HandInv'
  BY <1>1, <1>18 DEF Expire, boxes, mbox
<1>19. ASSUME NEW c \in Clients, PushTeardown(c) \/ AccountDies(c)
       PROVE  HandInv'
  BY <1>1, <1>19 DEF PushTeardown, AccountDies, boxes, mbox
<1>20. ASSUME NEW s \in Sends, PushSend(s)
       PROVE  HandInv'
  BY <1>1, <1>20 DEF PushSend, mbox
<1>21. ASSUME SignalPushed
       PROVE  HandInv'
  BY <1>1, <1>21 DEF SignalPushed, mbox
<1> QED
  BY <1>2, <1>3, <1>4, <1>5, <1>6, <1>7, <1>8, <1>9, <1>10, <1>11, <1>12, <1>13,
     <1>14, <1>15, <1>16, <1>17, <1>18, <1>19, <1>20, <1>21
     DEF Next, WorkerStep, RequestStep, MailStep, EventLoop

(* Writing out the buffers of C sends each frame in them once.               *)
LEMMA FlushFacts ==
    ASSUME TypeInv, FrameInv, NEW C, C \subseteq Clients, Flushed(C)
    PROVE  /\ sent' \in [Ids -> Nat]
           /\ \A i \in Ids : sent'[i] = IF \E c \in C : i \in buf[c] THEN 1 ELSE sent[i]
<1> SUFFICES ASSUME NEW i \in Ids
             PROVE  sent[i] + Cardinality({c \in C : i \in buf[c]})
                        = IF \E c \in C : i \in buf[c] THEN 1 ELSE sent[i]
  BY DEF Flushed, TypeInv, TypeConns
<1>1. CASE \E c \in C : i \in buf[c]
  <2>1. PICK c \in C : i \in buf[c]
    BY <1>1
  <2>2. {d \in C : i \in buf[d]} = {c} /\ sent[i] = 0
    BY <2>1 DEF FrameInv, FrameOk
  <2>3. Cardinality({c}) = 1
    BY FS_Singleton
  <2> QED
    BY <1>1, <2>2, <2>3
<1>2. CASE ~\E c \in C : i \in buf[c]
  <2>1. {d \in C : i \in buf[d]} = {}
    BY <1>2
  <2>2. sent[i] \in Nat
    BY DEF TypeInv, TypeConns
  <2> QED
    BY <1>2, <2>1, <2>2, FS_EmptySet
<1> QED
  BY <1>1, <1>2

(* The references of R are dropped.                                          *)
LEMMA ReleaseType ==
    ASSUME TypeSlots, NEW R, Release(R)
    PROVE  refs' \in [Requests -> Int] /\ freed' \in [Requests -> Nat]
BY DEF TypeSlots, Release

(* sync_complete keeps the slots of the requests well typed.                 *)
LEMMA CompleteType ==
    ASSUME TypeSlots, NEW R, NEW v \in {1, -1}, CompleteSync(R, v)
    PROVE  TypeSlots'
BY ReleaseType DEF TypeSlots, CompleteSync

(* client_finish_closing keeps connections and slots well typed.             *)
LEMMA FinishType ==
    ASSUME TypeInv, FrameInv, NEW w \in Workers, NEW c \in Clients,
           FinishClosing(w, c)
    PROVE  TypeConns' /\ TypeSlots'
<1>1. CASE UNCHANGED <<state, buf, sent, slots>>
  BY <1>1 DEF TypeInv, TypeConns, TypeSlots, slots
<1>2. CASE state' = [state EXCEPT ![c] = "gone"] /\ buf' = [buf EXCEPT ![c] = {}]
             /\ (Flushed({c}) \/ UNCHANGED sent) /\ Purge(w, c)
  <2>1. sent' \in [Ids -> Nat]
    BY <1>2, FlushFacts DEF TypeInv, TypeConns
  <2>2. TypeSlots'
    BY <1>2, CompleteType DEF TypeInv, Purge
  <2> QED
    BY <1>2, <2>1, <2>2 DEF TypeInv, TypeConns
<1> QED
  BY <1>1, <1>2 DEF FinishClosing

(* Every step keeps connections, slots and control state well typed.         *)
LEMMA TypeStep ==
    ASSUME Base, FrameInv, Next
    PROVE  TypeConns' /\ TypeSlots' /\ TypeControl'
<1> DEFINE Goal == TypeConns' /\ TypeSlots' /\ TypeControl'
<1> USE DEF Base, TypeInv
<1>1. \A w \in Workers : step[w] # "none" =>
          /\ msg[w] \in Post(w) /\ msg[w].to \in Clients
          /\ step[w] \in Carrying => msg[w].id \in Ids
  BY PostFacts DEF HandInv
<1>2. ASSUME NEW w \in Workers, DeliverCheck(w)
      PROVE  Goal
  BY <1>1, <1>2 DEF DeliverCheck, Then, slots, accept, wait, TypeConns, TypeSlots,
     TypeControl, Carrying, Stages
<1>3. ASSUME NEW w \in Workers, DeliverClaim(w)
      PROVE  Goal
  BY <1>1, <1>3 DEF DeliverClaim, Then, slots, accept, wait, TypeConns, TypeSlots,
     TypeControl, Carrying, Stages
<1>4. ASSUME NEW w \in Workers, DeliverSend(w)
      PROVE  Goal
  BY <1>1, <1>4 DEF DeliverSend, Then, slots, accept, wait, TypeConns, TypeSlots,
     TypeControl, Carrying, Stages, SyncOf
<1>5. ASSUME NEW w \in Workers, DeliverDrain(w)
      PROVE  Goal
  <2>1. sent' \in [Ids -> Nat]
    BY <1>1, <1>5, FlushFacts DEF DeliverDrain, TypeConns
  <2> QED
    BY <1>1, <1>5, <2>1 DEF DeliverDrain, Then, slots, accept, wait, TypeConns,
       TypeSlots, TypeControl, Carrying, Stages
<1>6. ASSUME NEW w \in Workers, DeliverComplete(w)
      PROVE  Goal
  <2>1. TypeSlots'
    BY <1>6, CompleteType DEF DeliverComplete
  <2> QED
    BY <1>6, <2>1 DEF DeliverComplete, Then, Drop, conns, accept, wait, TypeConns,
       TypeControl, Stages
<1>7. ASSUME NEW w \in Workers, DeliverFinish(w)
      PROVE  Goal
  <2>1. TypeConns' /\ TypeSlots'
    BY <1>1, <1>7, FinishType DEF DeliverFinish
  <2> QED
    BY <1>7, <2>1 DEF DeliverFinish, Drop, accept, wait, TypeControl, Stages
<1>8. ASSUME NEW w \in Workers, TeardownPurge(w)
      PROVE  Goal
  <2>1. TypeSlots'
    BY <1>8, CompleteType DEF TeardownPurge, Purge
  <2> QED
    BY <1>8, <2>1 DEF TeardownPurge, Then, conns, accept, wait, TypeConns,
       TypeControl, Stages
<1>9. ASSUME NEW w \in Workers, TeardownReclaim(w)
      PROVE  Goal
  BY <1>1, <1>9 DEF TeardownReclaim, Then, Drop, slots, accept, wait, TypeConns,
     TypeSlots, TypeControl, Stages
<1>10. ASSUME NEW w \in Workers, WakeupDrain(w) \/ TakeBatch(w) \/ BatchEnd(w)
       PROVE  Goal
  <2>1. pc' \in [Workers -> Labels]
    BY <1>10 DEF WakeupDrain, TakeBatch, BatchEnd, Go, Labels, TypeControl
  <2>2. UNCHANGED <<conns, slots, wait, mbox, answer, accept, late>>
    BY <1>10 DEF WakeupDrain, TakeBatch, BatchEnd
  <2> QED
    BY <2>1, <2>2 DEF conns, slots, wait, mbox, accept, TypeConns, TypeSlots,
       TypeControl
<1>11. ASSUME NEW w \in Workers, BatchNext(w)
       PROVE  Goal
  BY <1>11 DEF BatchNext, Handle, conns, slots, wait, accept, TypeConns, TypeSlots,
     TypeControl, Carrying, Stages
<1>12. ASSUME NEW w \in Workers, PushRequest(w)
       PROVE  Goal
  <2>1. req[w] \in Requests
    BY <1>12, RequestFacts DEF PushRequest
  <2>2. TypeSlots'
    BY <1>12, <2>1 DEF PushRequest, TypeSlots
  <2>3. pc' \in [Workers -> Labels]
    BY <1>12 DEF PushRequest, PushFailed, Serve, Return, Go, Labels, TypeControl
  <2>4. code' \in [Workers -> {0, 1, -1}]
    BY <1>12 DEF PushRequest, PushFailed, Return, TypeControl
  <2>5. late' \subseteq Ids
    BY <1>12, <2>1 DEF PushRequest, Behind, Letter, Send, TypeControl, Ids
  <2>6. UNCHANGED <<conns, req, mbox, answer, accept>>
    BY <1>12 DEF PushRequest
  <2> QED
    BY <2>2, <2>3, <2>4, <2>5, <2>6 DEF conns, mbox, accept, TypeConns, TypeControl
<1>13. ASSUME NEW w \in Workers, SignalRequest(w)
       PROVE  Goal
  <2>1. req[w] \in Requests
    BY <1>13, RequestFacts DEF SignalRequest
  <2> QED
    BY <1>13, <2>1 DEF SignalRequest, PushFailed, Serve, Return, Go, slots,
       conns, mbox, accept, TypeConns, TypeSlots, TypeControl, Labels
<1>14. ASSUME NEW w \in Workers, Look(w)
       PROVE  Goal
  <2>1. req[w] \in Requests
    BY <1>14, RequestFacts DEF Look
  <2> QED
    BY <1>14, <2>1, ReleaseType DEF Look, Decided, Abandon, Wait, Serve, Return, Go,
       conns, mbox, accept, TypeConns, TypeSlots, TypeControl, Labels
<1>15. ASSUME NEW w \in Workers, ServeBlocked(w)
       PROVE  Goal
  <2>1. ASSUME ServeFlush(w)
        PROVE  TypeConns'
    <3>1. PICK F \in SUBSET {c \in Mine(w) : buf[c] # {}} :
          \E X \in SUBSET {c \in Mine(w) \ F : buf[c] # {}} :
            /\ Flushed(F)
            /\ buf' = [c \in Clients |-> IF c \in F \cup X THEN {} ELSE buf[c]]
            /\ state' = [c \in Clients |-> IF c \in X THEN "closing" ELSE state[c]]
      BY <2>1 DEF ServeFlush
    <3>2. F \subseteq Clients /\ Flushed(F)
      BY <3>1 DEF Mine
    <3>3. sent' \in [Ids -> Nat]
      BY <3>2, FlushFacts
    <3> QED
      BY <3>1, <3>3 DEF TypeConns
  <2>2. TypeConns'
    BY <1>15, <2>1 DEF ServeBlocked, ServePop, ServeNext, TypeConns
  <2>3. pc' \in [Workers -> Labels]
    BY <1>15 DEF ServeBlocked, ServePop, ServeNext, ServeFlush, Go, Labels, TypeControl
  <2>4. step' \in [Workers -> Stages] /\ DOMAIN msg' = Workers
            /\ msg' = [v \in Workers |-> msg'[v]]
    BY <1>15 DEF ServeBlocked, ServePop, ServeNext, ServeFlush, Handle, mbox,
       Carrying, Stages, TypeControl
  <2>5. UNCHANGED <<slots, req, code, answer, accept, late>>
    BY <1>15 DEF ServeBlocked
  <2> QED
    BY <2>2, <2>3, <2>4, <2>5 DEF slots, accept, TypeSlots, TypeControl
<1>16. ASSUME NEW w \in Workers, Slept(w)
       PROVE  Goal
  <2>1. req[w] \in Requests
    BY <1>16, RequestFacts DEF Slept
  <2> QED
    BY <1>16, <2>1 DEF Slept, Return, Go, conns, mbox, accept, TypeConns, TypeSlots,
       TypeControl, Labels
<1>17. ASSUME NEW w \in Workers, AnswerRequest(w)
       PROVE  Goal
  <2>1. req[w] \in Requests
    BY <1>17, RequestFacts DEF AnswerRequest
  <2>2. code[w] \in {0, 1, -1}
    BY DEF TypeControl
  <2>3. answer' \in [Requests -> Answers]
    BY <1>17, <2>1, <2>2 DEF AnswerRequest, TypeControl, Answers
  <2>4. TypeConns'
    BY <1>17 DEF AnswerRequest, TypeConns
  <2> QED
    BY <1>17, <2>1, <2>3, <2>4 DEF AnswerRequest, Go, slots, mbox, accept, TypeSlots,
       TypeControl, Labels
<1>18. ASSUME NEW w \in Workers, NEW r \in Requests, StartRequest(w, r)
       PROVE  Goal
  BY <1>18 DEF StartRequest, Go, conns, slots, mbox, accept, TypeConns, TypeSlots,
     TypeControl, Labels, Answers
<1>19. ASSUME NEW w \in Workers, NEW c \in Clients, Flush(w, c)
       PROVE  Goal
  <2>1. sent' \in [Ids -> Nat]
    BY <1>19, FlushFacts DEF Flush
  <2> QED
    BY <1>19, <2>1 DEF Flush, slots, wait, mbox, accept, TypeConns, TypeSlots, TypeControl
<1>20. ASSUME NEW w \in Workers, NEW c \in Clients, PeerClose(w, c)
       PROVE  Goal
  <2>1. TypeSlots'
    BY <1>20, CompleteType DEF PeerClose, Purge
  <2> QED
    BY <1>20, <2>1 DEF PeerClose, wait, mbox, accept, TypeConns, TypeControl
<1>21. ASSUME NEW w \in Workers, Expire(w)
       PROVE  Goal
  BY <1>21 DEF Expire, conns, slots, mbox, accept, TypeConns, TypeSlots, TypeControl
<1>22. ASSUME NEW c \in Clients, PushTeardown(c) \/ AccountDies(c)
       PROVE  Goal
  <2>1. Teardown(c).id \notin Requests
    BY MailboxAssumption DEF Teardown
  <2> QED
    BY <1>22, <2>1, LetterFacts, PostFacts DEF PushTeardown, AccountDies, conns, slots,
       wait, mbox, accept, TypeConns, TypeSlots, TypeControl
<1>23. ASSUME NEW s \in Sends, PushSend(s)
       PROVE  Goal
  BY <1>23, LetterFacts, PostFacts DEF PushSend, Behind, Send, conns, slots, wait,
     mbox, TypeConns, TypeSlots, TypeControl, Ids
<1>24. ASSUME SignalPushed
       PROVE  Goal
  BY <1>24 DEF SignalPushed, conns, slots, wait, mbox, TypeConns, TypeSlots, TypeControl
<1> QED
  BY <1>2, <1>3, <1>4, <1>5, <1>6, <1>7, <1>8, <1>9, <1>10, <1>11, <1>12, <1>13,
     <1>14, <1>15, <1>16, <1>17, <1>18, <1>19, <1>20, <1>21, <1>22, <1>23, <1>24
     DEF Next, WorkerStep, RequestStep, MailStep, EventLoop

-----------------------------------------------------------------------------
(* How the messages move.                                                    *)

(* An id is queued or taken only at its own worker.                          *)
LEMMA AtHome ==
    ASSUME TypeInv, HandInv, NEW w \in Workers, NEW i \in Ids
    PROVE  /\ i \in BoxIds(w) \/ i \in TakenIds(w) \/ i \in HandIds(w)
                 => Home(i) = w /\ On(i)
           /\ Home(i) \in Workers
<1>1. mail[w] \in Seq(Post(w)) /\ batch[w] \in Seq(Post(w))
  BY DEF TypeInv, TypeBoxes, Boxed
<1>2. i \in BoxIds(w) \/ i \in TakenIds(w) => Home(i) = w
  BY <1>1, BoxElement DEF BoxIds, TakenIds
<1>3. i \in HandIds(w) => Home(i) = w
  BY PostFacts DEF HandInv, HandIds, Carrying
<1>4. Home(i) \in Workers
  BY LetterFacts DEF Ids
<1> QED
  BY <1>2, <1>3, <1>4 DEF On

(* The message a worker starts to handle is the one in its hands.            *)
LEMMA HandleIds ==
    ASSUME TypeInv, NEW w \in Workers, NEW m \in Post(w), Handle(w, m)
    PROVE  /\ \A v \in Workers : v # w => HandIds(v)' = HandIds(v)
           /\ \A i \in Ids : i \in HandIds(w)' <=> i = m.id
           /\ msg'[w] = m /\ step'[w] = IF m.kind = "SEND" THEN "check" ELSE "purge"
           /\ \A v \in Workers : v # w => msg'[v] = msg[v] /\ step'[v] = step[v]
<1>1. /\ msg'[w] = m /\ step'[w] = IF m.kind = "SEND" THEN "check" ELSE "purge"
      /\ \A v \in Workers : v # w => msg'[v] = msg[v] /\ step'[v] = step[v]
  BY DEF TypeInv, TypeControl, Handle
<1>2. \A i \in Ids : i = m.id => m.kind = "SEND"
  BY PostFacts
<1> QED
  BY <1>1, <1>2 DEF HandIds, Carrying

(* A handled message is in nobody's hands.                                   *)
LEMMA DropIds ==
    ASSUME TypeInv, NEW w \in Workers, Drop(w)
    PROVE  /\ \A v \in Workers : v # w => HandIds(v)' = HandIds(v)
           /\ HandIds(w)' = {} /\ step'[w] = "none"
           /\ \A v \in Workers : v # w => msg'[v] = msg[v] /\ step'[v] = step[v]
BY DEF TypeInv, TypeControl, Drop, HandIds, Carrying

(* Ids that only leave a mailbox or a hand stay unique.                      *)
LEMMA ShedsOnce ==
    ASSUME OnceInv, NEW w \in Workers, NEW U, Sheds(w, U),
           \A v \in Workers : HandIds(v)' \subseteq HandIds(v)
    PROVE  TypeBoxes' /\ OnceInv'
BY DEF OnceInv, Sheds, BoxIds, TakenIds

(* A new id is unique.                                                       *)
LEMMA GainsOnce ==
    ASSUME OnceInv, NEW w \in Workers, NEW i, Gains(w, i),
           i \in Ids => i \notin TakenIds(w) /\ i \notin HandIds(w),
           \A v \in Workers : HandIds(v)' = HandIds(v)
    PROVE  TypeBoxes' /\ OnceInv'
BY DEF OnceInv, Gains, BoxIds, TakenIds

(* While mailboxes and batches stay, every message is still in one place.    *)
LEMMA StillOnce ==
    ASSUME TypeInv, OnceInv, mail' = mail, batch' = batch,
           \A v \in Workers : HandIds(v)' \subseteq HandIds(v)
    PROVE  TypeBoxes' /\ OnceInv'
BY DEF OnceInv, BoxIds, TakenIds, TypeInv, TypeBoxes

(* The letter of the REQUEST that w runs, when it can be unlinked.           *)
LEMMA LetterUnlinks ==
    ASSUME Base, NEW w \in Workers,
           pc[w] \in {"push", "signal", "look", "serve", "slept", "answer"},
           Unlinked(Peer(w), Letter(w)), Unlink(Peer(w), Letter(w)), batch' = batch
    PROVE  /\ Sheds(Peer(w), {req[w]}) /\ req[w] \in BoxIds(Peer(w))
           /\ \A i \in Ids : i # req[w] => StaysShut(i, mail'[Peer(w)], mail[Peer(w)])
<1> DEFINE p == Peer(w)
           Q == Queued(p, Letter(w))
           k == FirstOf(Q)
<1>1. p \in Workers /\ Letter(w) = Send(req[w], To[req[w]])
  BY RequestFacts
<1>2. mail[p] \in Seq(Post(p))
  BY <1>1 DEF Base, TypeInv, TypeBoxes, Boxed
<1>3. Q # {} /\ Q \subseteq DOMAIN mail[p] /\ Q \subseteq Nat
  BY <1>2, LenProperties DEF Unlinked, Queued
<1>4. k \in Q
  BY <1>3, FirstOfPlace
<1>5. k \in DOMAIN mail[p] /\ mail[p][k] = Letter(w)
  BY <1>4 DEF Queued
<1>6. mail' = [mail EXCEPT ![p] = Without(@, k)]
  BY DEF Unlink
<1> HIDE DEF p, Q, k
<1>7. /\ Sheds(p, {mail[p][k].id})
      /\ \A i \in Ids : mail[p][k] # Teardown(Target(i)) /\ mail[p][k].id # i
                            => StaysShut(i, mail'[p], mail[p])
  BY <1>1, <1>5, <1>6, UnlinkMoves DEF Base, TypeInv
<1>8. mail[p][k].id = req[w] /\ \A c : mail[p][k] # Teardown(c)
  BY <1>1, <1>5 DEF Send, Teardown
<1>9. req[w] \in BoxIds(p)
  BY <1>5, <1>8 DEF BoxIds, IdsOf
<1> QED
  BY <1>7, <1>8, <1>9 DEF p

(* The message of the acceptor, when it can be unlinked.                     *)
LEMMA PushedUnlinks ==
    ASSUME Base, apc = "signal", NEW w, w = Owner[amsg.to],
           Unlinked(w, amsg), Unlink(w, amsg), batch' = batch
    PROVE  /\ w \in Workers /\ amsg \in Post(w) /\ Sheds(w, {amsg.id})
           /\ \A i \in Ids : amsg # Teardown(Target(i)) /\ amsg.id # i
                                => StaysShut(i, mail'[w], mail[w])
<1> DEFINE Q == Queued(w, amsg)
           k == FirstOf(Q)
<1>1. w \in Workers
  BY LetterFacts DEF Base, TypeInv, TypeControl, Message
<1>2. mail[w] \in Seq(Post(w))
  BY <1>1 DEF Base, TypeInv, TypeBoxes, Boxed
<1>3. Q # {} /\ Q \subseteq DOMAIN mail[w] /\ Q \subseteq Nat
  BY <1>2, LenProperties DEF Unlinked, Queued
<1>4. k \in Q
  BY <1>3, FirstOfPlace
<1>5. k \in DOMAIN mail[w] /\ mail[w][k] = amsg
  BY <1>4 DEF Queued
<1>6. mail' = [mail EXCEPT ![w] = Without(@, k)]
  BY DEF Unlink
<1> HIDE DEF Q, k
<1>7. /\ Sheds(w, {mail[w][k].id}) /\ mail[w][k] \in Post(w)
      /\ \A i \in Ids : mail[w][k] # Teardown(Target(i)) /\ mail[w][k].id # i
                            => StaysShut(i, mail'[w], mail[w])
  BY <1>1, <1>5, <1>6, UnlinkMoves DEF Base, TypeInv
<1> QED
  BY <1>1, <1>5, <1>7

(* A queued REQUEST is new to the mailbox of its target.                     *)
LEMMA RequestQueued ==
    ASSUME Base, SlotInv, NEW w \in Workers, PushRequest(w),
           Len(mail[Peer(w)]) < QueueMax
    PROVE  /\ Gains(Peer(w), req[w]) /\ ~On(req[w])
           /\ Queued(Peer(w), Teardown(To[req[w]])) # {} => Shut(mail'[Peer(w)], req[w])
<1> DEFINE p == Peer(w)
           m == Letter(w)
<1>1. /\ req[w] \in Requests /\ p \in Workers /\ m \in Post(p) /\ m.id = req[w]
      /\ m.to = To[req[w]] /\ Target(req[w]) = To[req[w]] /\ p = Home(req[w])
      /\ Running(req[w]) /\ Pub(req[w]) = w /\ pc[w] = "push"
  BY RequestFacts DEF PushRequest, Send
<1>2. ~On(req[w])
  BY <1>1 DEF SlotInv, SlotOk, Holds
<1>3. m.id \notin BoxIds(p)
  BY <1>1, <1>2 DEF On
<1>4. mail' = [mail EXCEPT ![p] = Append(@, m)] /\ batch' = batch
  BY DEF PushRequest
<1>5. Len(mail[p]) < QueueMax + Slack
  <2>1. QueueMax \in Nat /\ Slack \in Nat
    BY MailboxAssumption
  <2>2. mail[p] \in Seq(Post(p))
    BY <1>1 DEF Base, TypeInv, TypeBoxes, Boxed
  <2>3. Len(mail[p]) \in Nat
    BY <2>2, LenProperties
  <2> QED
    BY <2>1, <2>3
<1> HIDE DEF p, m
<1>6. /\ Gains(p, m.id)
      /\ Queued(p, Teardown(Target(m.id))) # {} => Shut(mail'[p], m.id)
  BY <1>1, <1>3, <1>4, <1>5, QueueMoves DEF Base, TypeInv
<1> QED
  BY <1>1, <1>2, <1>6 DEF p

(* A queued plain SEND is new to the mailbox of its target.                  *)
LEMMA SendQueued ==
    ASSUME Base, FrameInv, NEW s \in Sends, PushSend(s),
           Len(mail[Owner[Dest[s]]]) < QueueMax
    PROVE  /\ Gains(Home(s), s) /\ ~On(s)
           /\ Queued(Home(s), Teardown(Dest[s])) # {} => Shut(mail'[Home(s)], s)
<1> DEFINE p == Home(s)
           m == Send(s, Dest[s])
<1>1. /\ p \in Workers /\ p = Owner[Dest[s]] /\ m \in Post(p) /\ m.id = s
      /\ m.to = Dest[s] /\ Target(s) = Dest[s]
  BY LetterFacts DEF Send
<1>2. ~On(s)
  <2>1. Fresh(s) /\ FrameOk(s)
    BY LetterFacts DEF FrameInv, PushSend, Fresh, Ids
  <2> QED
    BY <2>1 DEF FrameOk
<1>3. m.id \notin BoxIds(p)
  BY <1>1, <1>2 DEF On
<1>4. mail' = [mail EXCEPT ![p] = Append(@, m)] /\ batch' = batch
  BY <1>1 DEF PushSend
<1>5. Len(mail[p]) < QueueMax + Slack
  <2>1. QueueMax \in Nat /\ Slack \in Nat
    BY MailboxAssumption
  <2>2. mail[p] \in Seq(Post(p))
    BY <1>1 DEF Base, TypeInv, TypeBoxes, Boxed
  <2>3. Len(mail[p]) \in Nat
    BY <2>2, LenProperties
  <2> QED
    BY <1>1, <2>1, <2>3
<1> HIDE DEF p, m
<1>6. /\ Gains(p, m.id)
      /\ Queued(p, Teardown(Target(m.id))) # {} => Shut(mail'[p], m.id)
  BY <1>1, <1>3, <1>4, <1>5, QueueMoves DEF Base, TypeInv
<1> QED
  BY <1>1, <1>2, <1>6 DEF p

(* A TEARDOWN adds no id.                                                    *)
LEMMA TeardownQueued ==
    ASSUME Base, NEW c \in Clients, PushTeardown(c)
    PROVE  Gains(Owner[c], NoId)
<1> DEFINE p == Owner[c]
           m == Teardown(c)
<1>1. p \in Workers /\ m \in Post(p) /\ m.id = NoId
  BY LetterFacts DEF Teardown
<1>2. mail' = [mail EXCEPT ![p] = Append(@, m)] /\ batch' = batch
          /\ Len(mail[p]) < QueueMax + Slack
  BY DEF PushTeardown
<1> HIDE DEF p, m
<1> QED
  BY <1>1, <1>2, QueueMoves DEF Base, TypeInv, p

(* A blocked worker takes one message of its mailbox in hand.                *)
LEMMA ServePopMoves ==
    ASSUME Base, NEW w \in Workers, NEW S, S \subseteq DOMAIN mail[w], NEW n,
           ServePop(w, S, n), batch' = batch
    PROVE  \E k \in S :
             /\ mail[w][k] \in Post(w) /\ Handle(w, mail[w][k])
             /\ Sheds(w, {mail[w][k].id}) /\ mail[w][k].id \in BoxIds(w)
             /\ \A i \in Ids : mail[w][k] # Teardown(Target(i)) /\ mail[w][k].id # i
                                => StaysShut(i, mail'[w], mail[w])
<1> DEFINE k == FirstOf(S)
<1>1. /\ k \in S /\ k \in DOMAIN mail[w] /\ mail[w][k] \in Post(w)
      /\ Handle(w, mail[w][k]) /\ mail' = [mail EXCEPT ![w] = Without(@, k)]
  BY ServePopFacts DEF Base, TypeInv
<1> HIDE DEF k
<1>2. /\ Sheds(w, {mail[w][k].id})
      /\ \A i \in Ids : mail[w][k] # Teardown(Target(i)) /\ mail[w][k].id # i
                                => StaysShut(i, mail'[w], mail[w])
  BY <1>1, UnlinkMoves DEF Base, TypeInv
<1>3. mail[w][k].id \in BoxIds(w)
  BY <1>1 DEF BoxIds, IdsOf
<1> QED
  BY <1>1, <1>2, <1>3

(* wakeup_cb moves the first messages of the mailbox to its batch.           *)
LEMMA TakeMoves ==
    ASSUME Base, NEW w \in Workers, TakeBatch(w)
    PROVE  /\ TypeBoxes' /\ TakenIds(w) = {} /\ HandIds(w) = {} /\ step[w] = "none"
           /\ \A i \in Ids : i \in BoxIds(w) <=> i \in BoxIds(w)' \/ i \in TakenIds(w)'
           /\ \A i \in Ids : ~(i \in BoxIds(w)' /\ i \in TakenIds(w)')
           /\ \A v \in Workers : v # w => mail'[v] = mail[v] /\ batch'[v] = batch[v]
           /\ \A i \in Ids : i \in TakenIds(w)' => StaysShut(i, batch'[w], mail[w])
           /\ \A i \in Ids : i \in BoxIds(w)' /\ Shut(mail[w], i) =>
                 Shut(mail'[w], i) \/ HasTeardown(batch'[w], Target(i))
<1> DEFINE s == mail[w]
           n == IF Len(mail[w]) < WakeBatch THEN Len(mail[w]) ELSE WakeBatch
           a == Front(s, n)
           b == SubSeq(s, n + 1, Len(s))
<1>1. Boxed(s, w) /\ Len(s) \in Nat
  BY LenProperties DEF Base, TypeInv, TypeBoxes, Boxed
<1>2. n \in 0..Len(s)
  BY <1>1, MailboxAssumption
<1>3. Splits(a, b, s, n)
  BY DEF Splits
<1>4. mail' = [mail EXCEPT ![w] = b] /\ batch' = [batch EXCEPT ![w] = a]
  BY DEF TakeBatch
<1>5. batch[w] = <<>> /\ step[w] = "none"
  BY DEF Base, HandInv, TakeBatch
<1> HIDE DEF n, a, b
<1>6. /\ Boxed(a, w) /\ Boxed(b, w)
      /\ \A i \in Ids : i \in IdsOf(s) <=> i \in IdsOf(a) \/ i \in IdsOf(b)
      /\ \A i \in Ids : ~(i \in IdsOf(a) /\ i \in IdsOf(b))
      /\ \A i \in Ids : i \in IdsOf(a) => StaysShut(i, a, s)
      /\ \A i \in Ids : i \in IdsOf(b) /\ Shut(s, i) =>
            \/ Shut(b, i) \/ \E j \in DOMAIN a : a[j] = Teardown(Target(i))
  <2> HIDE DEF s
  <2> QED
    BY <1>1, <1>2, <1>3, TakeEffect
<1>7. /\ mail'[w] = b /\ batch'[w] = a /\ DOMAIN mail' = Workers
      /\ DOMAIN batch' = Workers
      /\ mail' = [v \in Workers |-> mail'[v]] /\ batch' = [v \in Workers |-> batch'[v]]
      /\ \A v \in Workers : v # w => mail'[v] = mail[v] /\ batch'[v] = batch[v]
  BY <1>4 DEF Base, TypeInv, TypeBoxes
<1>8. \A v \in Workers : Boxed(mail'[v], v) /\ Boxed(batch'[v], v)
  BY <1>6, <1>7 DEF Base, TypeInv, TypeBoxes
<1>9. TypeBoxes'
  BY <1>7, <1>8 DEF TypeBoxes
<1>10. TakenIds(w) = {} /\ HandIds(w) = {}
  BY <1>5 DEF TakenIds, IdsOf, HandIds, Carrying
<1> QED
  BY <1>5, <1>6, <1>7, <1>9, <1>10 DEF BoxIds, TakenIds, HasTeardown

(* wakeup_cb takes the first message of its batch in hand.                   *)
LEMMA NextMoves ==
    ASSUME Base, NEW w \in Workers, BatchNext(w)
    PROVE  /\ TypeBoxes' /\ step[w] = "none" /\ HandIds(w) = {} /\ mail' = mail
           /\ Head(batch[w]) \in Post(w) /\ Handle(w, Head(batch[w]))
           /\ \A i \in Ids : i \in TakenIds(w)
                  <=> i \in TakenIds(w)' \/ i = Head(batch[w]).id
           /\ \A i \in Ids : i \in TakenIds(w)' => i # Head(batch[w]).id
           /\ \A v \in Workers : v # w => batch'[v] = batch[v]
           /\ \A i \in Ids : Shut(batch[w], i) => i # Head(batch[w]).id
           /\ \A i \in Ids : i \in TakenIds(w)' /\ Shut(batch[w], i) =>
                 Shut(batch'[w], i) \/ Head(batch[w]) = Teardown(Target(i))
           /\ \A c : HasTeardown(batch[w], c) =>
                 HasTeardown(batch'[w], c) \/ Head(batch[w]) = Teardown(c)
<1> DEFINE s == batch[w]
           t == Tail(s)
<1>1. s \in Seq(Post(w)) /\ Len(s) \in Nat /\ s # <<>> /\ Distinct(s)
          /\ Len(s) <= QueueMax + Slack
  BY LenProperties DEF Base, TypeInv, TypeBoxes, Boxed, BatchNext
<1> HIDE DEF s
<1>2. /\ Head(s) \in Post(w) /\ t \in Seq(Post(w)) /\ Len(t) = Len(s) - 1
      /\ Distinct(t) /\ IdsOf(s) = {Head(s).id} \cup IdsOf(t)
      /\ Head(s).id # NoId => Head(s).id \notin IdsOf(t)
      /\ \A i : Shut(s, i) /\ i # NoId /\ i \in IdsOf(t) =>
                 Shut(t, i) \/ Head(s) = Teardown(Target(i))
      /\ \A m : (\E j \in DOMAIN s : s[j] = m) =>
                 Head(s) = m \/ \E j \in DOMAIN t : t[j] = m
      /\ \A i : Shut(s, i) /\ i # NoId => Head(s).id # i
  BY <1>1, TailKeeps
<1> HIDE DEF t
<1>3. QueueMax + Slack \in Nat /\ NoId \notin Ids
  BY MailboxAssumption DEF Ids
<1>4. Boxed(t, w)
  BY <1>1, <1>2, <1>3 DEF Boxed
<1>5. batch' = [batch EXCEPT ![w] = t] /\ mail' = mail /\ step[w] = "none"
          /\ Handle(w, Head(s))
  BY DEF BatchNext, s, t
<1>6. /\ batch'[w] = t /\ DOMAIN batch' = Workers
      /\ batch' = [v \in Workers |-> batch'[v]]
      /\ \A v \in Workers : v # w => batch'[v] = batch[v]
  BY <1>5 DEF Base, TypeInv, TypeBoxes
<1>7. \A v \in Workers : Boxed(mail'[v], v) /\ Boxed(batch'[v], v)
  BY <1>4, <1>5, <1>6 DEF Base, TypeInv, TypeBoxes
<1>8. TypeBoxes'
  BY <1>5, <1>6, <1>7 DEF Base, TypeInv, TypeBoxes
<1>9. HandIds(w) = {}
  BY <1>5 DEF HandIds, Carrying
<1>10. TakenIds(w) = IdsOf(s) /\ TakenIds(w)' = IdsOf(t)
  BY <1>6 DEF TakenIds, s
<1>11. \A c : HasTeardown(s, c) => HasTeardown(t, c) \/ Head(s) = Teardown(c)
  BY <1>2 DEF HasTeardown
<1>12. \A i \in Ids : /\ i \in IdsOf(s) <=> i \in IdsOf(t) \/ i = Head(s).id
                      /\ i \in IdsOf(t) => i # Head(s).id
                      /\ Shut(s, i) => i # Head(s).id
                      /\ i \in IdsOf(t) /\ Shut(s, i) =>
                            Shut(t, i) \/ Head(s) = Teardown(Target(i))
  BY <1>2, <1>3
<1> QED
  BY <1>2, <1>5, <1>6, <1>8, <1>9, <1>10, <1>11, <1>12 DEF s

(* The messages stay well formed and no id is carried twice.                 *)
LEMMA OnceStep ==
    ASSUME IInv, Next
    PROVE  TypeBoxes' /\ OnceInv'
<1> DEFINE Goal == TypeBoxes' /\ OnceInv'
<1>0. Base /\ TypeInv /\ TypeBoxes /\ HandInv /\ RunInv /\ OnceInv /\ SlotInv /\ FrameInv
  BY DEF IInv, Base, TypeInv
<1>1. ASSUME UNCHANGED <<mail, batch, step, msg>>
      PROVE  Goal
  BY <1>0, <1>1, StillOnce DEF HandIds
<1>2. ASSUME NEW w \in Workers, DeliverCheck(w) \/ DeliverClaim(w) \/ DeliverSend(w)
                                  \/ DeliverDrain(w)
      PROVE  Goal
  <2>1. PICK l \in Carrying : step' = [step EXCEPT ![w] = l]
    BY <1>2 DEF DeliverCheck, DeliverClaim, DeliverSend, DeliverDrain, Then, Carrying
  <2>2. UNCHANGED <<mail, batch, msg>> /\ step[w] \in Carrying
    BY <1>2 DEF DeliverCheck, DeliverClaim, DeliverSend, DeliverDrain, boxes, Carrying
  <2>3. \A v \in Workers : HandIds(v)' = HandIds(v)
    BY <1>0, <2>1, <2>2 DEF HandIds, TypeInv, TypeControl
  <2> QED
    BY <1>0, <2>2, <2>3, StillOnce
<1>3. ASSUME NEW w \in Workers, DeliverComplete(w) \/ TeardownReclaim(w)
      PROVE  Goal
  <2>1. UNCHANGED <<mail, batch>>
    BY <1>3 DEF DeliverComplete, TeardownReclaim, boxes
  <2>2. \A v \in Workers : HandIds(v)' \subseteq HandIds(v)
    BY <1>0, <1>3, DropIds DEF DeliverComplete, TeardownReclaim, Then, HandIds, Carrying,
       TypeInv, TypeControl
  <2> QED
    BY <1>0, <2>1, <2>2, StillOnce
<1>4. ASSUME NEW w \in Workers, DeliverFinish(w)
      PROVE  Goal
  <2>1. \A v \in Workers : HandIds(v)' \subseteq HandIds(v)
    BY <1>0, <1>4, DropIds DEF DeliverFinish
  <2>2. batch' = batch /\ msg[w].to \in Clients
    BY <1>0, <1>4, PostFacts DEF DeliverFinish, HandInv
  <2>3. CASE mail' = mail
    BY <1>0, <2>1, <2>2, <2>3, StillOnce
  <2>4. CASE Purge(w, msg[w].to)
    BY <1>0, <2>1, <2>2, <2>4, PurgeMoves, ShedsOnce
  <2> QED
    BY <1>4, <2>3, <2>4 DEF DeliverFinish, FinishClosing
<1>5. ASSUME NEW w \in Workers, TeardownPurge(w)
      PROVE  Goal
  <2>1. \A v \in Workers : HandIds(v)' \subseteq HandIds(v)
    BY <1>0, <1>5 DEF TeardownPurge, Then, HandIds, Carrying, TypeInv, TypeControl
  <2>2. batch' = batch /\ msg[w].to \in Clients
    BY <1>0, <1>5, PostFacts DEF TeardownPurge, HandInv
  <2> QED
    BY <1>0, <1>5, <2>1, <2>2, PurgeMoves, ShedsOnce DEF TeardownPurge
<1>6. ASSUME NEW w \in Workers, WakeupDrain(w) \/ BatchEnd(w)
      PROVE  Goal
  BY <1>1, <1>6 DEF WakeupDrain, BatchEnd, mbox
<1>7. ASSUME NEW w \in Workers, TakeBatch(w)
      PROVE  Goal
  <2>1. \A v \in Workers : HandIds(v)' = HandIds(v)
    BY <1>7 DEF TakeBatch, mbox, HandIds
  <2> QED
    BY <1>0, <1>7, <2>1, TakeMoves DEF OnceInv, BoxIds, TakenIds
<1>8. ASSUME NEW w \in Workers, BatchNext(w)
      PROVE  Goal
  <2> DEFINE m == Head(batch[w])
  <2>1. /\ TypeBoxes' /\ mail' = mail /\ m \in Post(w) /\ Handle(w, m)
        /\ \A i \in Ids : i \in TakenIds(w) <=> i \in TakenIds(w)' \/ i = m.id
        /\ \A i \in Ids : i \in TakenIds(w)' => i # m.id
        /\ \A v \in Workers : v # w => batch'[v] = batch[v]
    BY <1>0, <1>8, NextMoves
  <2> HIDE DEF m
  <2>2. /\ \A v \in Workers : v # w => HandIds(v)' = HandIds(v)
        /\ \A i \in Ids : i \in HandIds(w)' <=> i = m.id
    BY <1>0, <2>1, HandleIds
  <2> QED
    BY <1>0, <2>1, <2>2 DEF OnceInv, BoxIds, TakenIds
<1>9. ASSUME NEW w \in Workers, ServeBlocked(w)
      PROVE  Goal
  <2>0. batch' = batch /\ batch[w] = <<>>
    BY <1>0, <1>9 DEF ServeBlocked, HandInv
  <2>1. ASSUME NEW S, S \subseteq DOMAIN mail[w], NEW n, ServePop(w, S, n)
        PROVE  Goal
    <3>1. PICK k \in S : /\ mail[w][k] \in Post(w) /\ Handle(w, mail[w][k])
                         /\ Sheds(w, {mail[w][k].id})
      BY <1>0, <2>0, <2>1, ServePopMoves
    <3>2. /\ \A v \in Workers : v # w => HandIds(v)' = HandIds(v)
          /\ \A i \in Ids : i \in HandIds(w)' <=> i = mail[w][k].id
      BY <1>0, <3>1, HandleIds
    <3>3. TakenIds(w)' = {}
      BY <2>0 DEF TakenIds, IdsOf
    <3> QED
      BY <1>0, <3>1, <3>2, <3>3 DEF OnceInv, Sheds, BoxIds, TakenIds
  <2>2. ASSUME UNCHANGED <<mail, mbox>>
        PROVE  Goal
    BY <1>1, <2>0, <2>2 DEF mbox
  <2>3. Reclaimable(w) \subseteq DOMAIN mail[w] /\ Poppable(w) \subseteq DOMAIN mail[w]
    BY DEF Reclaimable, Poppable
  <2> QED
    BY <1>9, <2>1, <2>2, <2>3 DEF ServeBlocked, ServeNext, ServeFlush
<1>10. ASSUME NEW w \in Workers, PushRequest(w)
       PROVE  Goal
  <2>1. UNCHANGED <<batch, step, msg>>
    BY <1>10 DEF PushRequest, mbox
  <2>2. CASE Len(mail[Peer(w)]) < QueueMax
    <3>1. Gains(Peer(w), req[w]) /\ ~On(req[w])
      BY <1>0, <1>10, <2>2, RequestQueued
    <3>2. Peer(w) \in Workers /\ Peer(w) = Home(req[w])
      BY <1>0, <1>10, RequestFacts DEF PushRequest
    <3>3. req[w] \notin TakenIds(Peer(w)) /\ req[w] \notin HandIds(Peer(w))
      BY <3>1, <3>2 DEF On
    <3>4. \A v \in Workers : HandIds(v)' = HandIds(v)
      BY <2>1 DEF HandIds
    <3> QED
      BY <1>0, <3>1, <3>2, <3>3, <3>4, GainsOnce
  <2>3. CASE ~(Len(mail[Peer(w)]) < QueueMax)
    BY <1>1, <1>10, <2>1, <2>3 DEF PushRequest
  <2> QED
    BY <2>2, <2>3
<1>11. ASSUME NEW w \in Workers, SignalRequest(w) \/ Slept(w)
       PROVE  Goal
  <2>1. UNCHANGED <<batch, step, msg>> /\ pc[w] \in {"signal", "slept"}
    BY <1>11 DEF SignalRequest, Slept, mbox
  <2>2. CASE mail' = mail
    BY <1>1, <2>1, <2>2
  <2>3. CASE Unlinked(Peer(w), Letter(w)) /\ Unlink(Peer(w), Letter(w))
    <3>1. Sheds(Peer(w), {req[w]}) /\ Peer(w) \in Workers
      BY <1>0, <2>1, <2>3, LetterUnlinks, RequestFacts
    <3>2. \A v \in Workers : HandIds(v)' = HandIds(v)
      BY <2>1 DEF HandIds
    <3> QED
      BY <1>0, <3>1, <3>2, ShedsOnce
  <2> QED
    BY <1>11, <2>2, <2>3 DEF SignalRequest, Slept
<1>12. ASSUME NEW w \in Workers, Look(w) \/ AnswerRequest(w) \/ Expire(w)
       PROVE  Goal
  BY <1>1, <1>12 DEF Look, AnswerRequest, Expire, boxes, mbox
<1>13. ASSUME NEW w \in Workers, NEW r \in Requests, StartRequest(w, r)
       PROVE  Goal
  BY <1>1, <1>13 DEF StartRequest, boxes, mbox
<1>14. ASSUME NEW w \in Workers, NEW c \in Clients, Flush(w, c)
       PROVE  Goal
  BY <1>1, <1>14 DEF Flush, boxes, mbox
<1>15. ASSUME NEW w \in Workers, NEW c \in Clients, PeerClose(w, c)
       PROVE  Goal
  <2>1. batch' = batch /\ \A v \in Workers : HandIds(v)' = HandIds(v)
    BY <1>15 DEF PeerClose, mbox, HandIds
  <2> QED
    BY <1>0, <1>15, <2>1, PurgeMoves, ShedsOnce DEF PeerClose
<1>16. ASSUME NEW c \in Clients, PushTeardown(c)
       PROVE  Goal
  <2>1. Gains(Owner[c], NoId) /\ Owner[c] \in Workers /\ NoId \notin Ids
    BY <1>0, <1>16, TeardownQueued, LetterFacts, MailboxAssumption DEF Ids
  <2>2. \A v \in Workers : HandIds(v)' = HandIds(v)
    BY <1>16 DEF PushTeardown, mbox, HandIds
  <2> QED
    BY <1>0, <2>1, <2>2, GainsOnce
<1>17. ASSUME NEW c \in Clients, AccountDies(c)
       PROVE  Goal
  BY <1>1, <1>17 DEF AccountDies, boxes, mbox
<1>18. ASSUME NEW s \in Sends, PushSend(s)
       PROVE  Goal
  <2>1. UNCHANGED <<batch, step, msg>> /\ Home(s) \in Workers /\ Home(s) = Owner[Dest[s]]
    BY <1>18, LetterFacts DEF PushSend, mbox
  <2>2. CASE Len(mail[Owner[Dest[s]]]) < QueueMax
    <3>1. Gains(Home(s), s) /\ ~On(s)
      BY <1>0, <1>18, <2>2, SendQueued
    <3>2. s \notin TakenIds(Home(s)) /\ s \notin HandIds(Home(s))
      BY <3>1 DEF On
    <3>3. \A v \in Workers : HandIds(v)' = HandIds(v)
      BY <2>1 DEF HandIds
    <3> QED
      BY <1>0, <2>1, <3>1, <3>2, <3>3, GainsOnce
  <2>3. CASE ~(Len(mail[Owner[Dest[s]]]) < QueueMax)
    BY <1>1, <1>18, <2>1, <2>3 DEF PushSend
  <2> QED
    BY <2>2, <2>3
<1>19. ASSUME SignalPushed
       PROVE  Goal
  <2> DEFINE w == Owner[amsg.to]
  <2>1. UNCHANGED <<batch, step, msg>> /\ apc = "signal"
    BY <1>19 DEF SignalPushed, mbox
  <2>2. CASE mail' = mail
    BY <1>1, <2>1, <2>2
  <2>3. CASE Unlinked(w, amsg) /\ Unlink(w, amsg)
    <3>1. w \in Workers /\ Sheds(w, {amsg.id})
      BY <1>0, <2>1, <2>3, PushedUnlinks
    <3>2. \A v \in Workers : HandIds(v)' = HandIds(v)
      BY <2>1 DEF HandIds
    <3> QED
      BY <1>0, <3>1, <3>2, ShedsOnce
  <2> QED
    BY <1>19, <2>2, <2>3 DEF SignalPushed
<1> QED
  BY <1>2, <1>3, <1>4, <1>5, <1>6, <1>7, <1>8, <1>9, <1>10, <1>11, <1>12, <1>13,
     <1>14, <1>15, <1>16, <1>17, <1>18, <1>19
     DEF Next, WorkerStep, RequestStep, MailStep, EventLoop

-----------------------------------------------------------------------------
(* What is carried after a step.                                             *)

Moving == TypeInv /\ HandInv /\ OnceInv

(* Where a request is under way does not change when no message moves ...    *)
LEMMA OnSame ==
    ASSUME Moving, mail' = mail, batch' = batch,
           \A v \in Workers : HandIds(v)' = HandIds(v), NEW i \in Ids
    PROVE  On(i)' <=> On(i)
<1>1. Home(i) \in Workers
  BY AtHome, LetterFacts DEF Ids
<1> QED
  BY <1>1 DEF On, BoxIds, TakenIds

(* ... when messages leave a mailbox, only for those that leave ...          *)
LEMMA OnShed ==
    ASSUME Moving, NEW w \in Workers, NEW U, Sheds(w, U),
           \A v \in Workers : HandIds(v)' = HandIds(v), NEW i \in Ids
    PROVE  On(i)' <=> On(i) /\ ~(i \in BoxIds(w) /\ i \in U)
<1>1. Home(i) \in Workers /\ (i \in BoxIds(w) => Home(i) = w)
  BY AtHome, LetterFacts DEF Ids, Moving
<1>2. TakenIds(Home(i))' = TakenIds(Home(i)) /\ HandIds(Home(i))' = HandIds(Home(i))
  BY <1>1 DEF Sheds, TakenIds
<1>3. CASE Home(i) = w
  BY <1>1, <1>2, <1>3 DEF On, Sheds, Moving, OnceInv
<1>4. CASE Home(i) # w
  BY <1>1, <1>2, <1>4 DEF On, Sheds, BoxIds
<1> QED
  BY <1>3, <1>4

(* ... when one is queued, only for that one ...                             *)
LEMMA OnGain ==
    ASSUME Moving, NEW w \in Workers, NEW j, Gains(w, j), j \in Ids => Home(j) = w,
           \A v \in Workers : HandIds(v)' = HandIds(v), NEW i \in Ids
    PROVE  On(i)' <=> On(i) \/ i = j
<1>1. Home(i) \in Workers
  BY LetterFacts DEF Ids
<1>2. TakenIds(Home(i))' = TakenIds(Home(i)) /\ HandIds(Home(i))' = HandIds(Home(i))
  BY <1>1 DEF Gains, TakenIds
<1>3. CASE Home(i) = w
  BY <1>1, <1>2, <1>3 DEF On, Gains
<1>4. CASE Home(i) # w
  BY <1>1, <1>2, <1>4 DEF On, Gains, BoxIds
<1> QED
  BY <1>3, <1>4

(* Taking a message in hand from the mailbox or the batch.                   *)
LEMMA OnPop ==
    ASSUME Moving, NEW w \in Workers, NEW m \in Post(w), Handle(w, m),
           step[w] = "none", Sheds(w, {m.id}), m.id \in BoxIds(w), NEW i \in Ids
    PROVE  On(i)' <=> On(i)
<1>1. Home(i) \in Workers /\ (i = m.id => Home(i) = w)
  BY PostFacts, LetterFacts DEF Ids
<1>2. /\ \A v \in Workers : v # w => HandIds(v)' = HandIds(v)
      /\ i \in HandIds(w)' <=> i = m.id
  BY HandleIds DEF Moving
<1>3. TakenIds(Home(i))' = TakenIds(Home(i)) /\ HandIds(w) = {}
  BY <1>1 DEF Sheds, TakenIds, HandIds, Carrying
<1>4. CASE Home(i) = w
  <2>1. i \in BoxIds(w)' <=> i \in BoxIds(w) /\ i # m.id
    BY DEF Sheds
  <2> QED
    BY <1>2, <1>3, <1>4, <2>1 DEF On
<1>5. CASE Home(i) # w
  <2>1. BoxIds(Home(i))' = BoxIds(Home(i)) /\ HandIds(Home(i))' = HandIds(Home(i))
    BY <1>1, <1>2, <1>5 DEF Sheds, BoxIds
  <2> QED
    BY <1>3, <2>1 DEF On
<1> QED
  BY <1>4, <1>5

(* ... and not at all when a worker takes its mailbox as its batch ...       *)
LEMMA OnTake ==
    ASSUME Base, OnceInv, NEW w \in Workers, TakeBatch(w), NEW i \in Ids
    PROVE  On(i)' <=> On(i)
<1>1. Home(i) \in Workers
  BY LetterFacts DEF Ids
<1>2. \A v \in Workers : HandIds(v)' = HandIds(v)
  BY DEF TakeBatch, mbox, HandIds
<1> QED
  BY <1>1, <1>2, TakeMoves DEF On, BoxIds, TakenIds

(* ... or the next message of the batch into its hands.                      *)
LEMMA OnNext ==
    ASSUME Base, OnceInv, NEW w \in Workers, BatchNext(w), NEW i \in Ids
    PROVE  On(i)' <=> On(i)
<1> DEFINE m == Head(batch[w])
<1>1. /\ mail' = mail /\ m \in Post(w) /\ Handle(w, m) /\ HandIds(w) = {}
      /\ \A j \in Ids : j \in TakenIds(w) <=> j \in TakenIds(w)' \/ j = m.id
      /\ \A v \in Workers : v # w => batch'[v] = batch[v]
  BY NextMoves
<1> HIDE DEF m
<1>2. /\ \A v \in Workers : v # w => HandIds(v)' = HandIds(v)
      /\ \A j \in Ids : j \in HandIds(w)' <=> j = m.id
  BY <1>1, HandleIds DEF Base
<1>3. Home(i) \in Workers
  BY LetterFacts DEF Ids
<1> QED
  BY <1>1, <1>2, <1>3 DEF On, BoxIds, TakenIds

(* The message in hand is completed.                                         *)
LEMMA OnComplete ==
    ASSUME Moving, NEW w \in Workers, DeliverComplete(w), NEW i \in Ids
    PROVE  /\ On(i)' <=> On(i) /\ i # msg[w].id
           /\ On(msg[w].id) /\ msg[w].id \in Ids
<1>1. mail' = mail /\ batch' = batch /\ HandIds(w) = {msg[w].id}
          /\ msg[w].id \in Ids /\ Home(msg[w].id) = w
  BY PostFacts DEF DeliverComplete, boxes, HandIds, Carrying, Moving, HandInv
<1>2. HandIds(w)' = {} /\ \A v \in Workers : v # w => HandIds(v)' = HandIds(v)
  <2>1. CASE Drop(w)
    BY <2>1, DropIds DEF Moving
  <2>2. CASE Then(w, "finish") /\ msg' = msg
    BY <2>2 DEF Then, HandIds, Carrying, Moving, TypeInv, TypeControl
  <2> QED
    BY <2>1, <2>2 DEF DeliverComplete
<1>3. Home(i) \in Workers
  BY LetterFacts DEF Ids
<1> QED
  BY <1>1, <1>2, <1>3 DEF On, BoxIds, TakenIds, Moving, OnceInv

-----------------------------------------------------------------------------
(* The slot of a REQUEST.                                                    *)

(* Nothing of r's slot changes.                                              *)
LEMMA SlotKept ==
    ASSUME NEW r \in Requests, SlotOk(r), On(r)' <=> On(r),
           refs'[r] = refs[r], freed'[r] = freed[r], answer'[r] = answer[r],
           Running(r)' <=> Running(r), Running(r) => pc'[Pub(r)] = pc[Pub(r)]
    PROVE  SlotOk(r)'
BY DEF SlotOk, Holds, Allocated

(* The carriers of the REQUESTs of R drop their references.                  *)
LEMMA SlotReleased ==
    ASSUME TypeInv, SlotInv, NEW R, NEW v, CompleteSync(R, v),
           \A r \in Requests : r \in R => On(r),
           \A r \in Requests : On(r)' <=> On(r) /\ r \notin R,
           UNCHANGED <<pc, req, answer>>
    PROVE  SlotInv'
<1> SUFFICES ASSUME NEW r \in Requests
             PROVE  SlotOk(r)'
  BY DEF SlotInv
<1>1. refs[r] \in Int /\ freed[r] \in Nat /\ SlotOk(r)
  BY DEF TypeInv, TypeSlots, SlotInv
<1>2. /\ refs'[r] = IF r \in R THEN refs[r] - 1 ELSE refs[r]
      /\ freed'[r] = IF r \in R /\ refs[r] = 1 THEN freed[r] + 1 ELSE freed[r]
  BY DEF CompleteSync, Release
<1>3. CASE r \notin R
  BY <1>1, <1>2, <1>3, SlotKept DEF Running
<1>4. CASE r \in R
  BY <1>1, <1>2, <1>4 DEF SlotOk, Holds, Allocated, Running
<1> QED
  BY <1>3, <1>4

(* A step of w inside its REQUEST leaves the other REQUESTs alone.           *)
LEMMA OtherRun ==
    ASSUME Base, NEW w \in Workers, NEW l, pc' = [pc EXCEPT ![w] = l],
           NEW q \in Requests, q # req[w], req'[Pub(q)] = req[Pub(q)]
    PROVE  /\ Running(q)' <=> Running(q)
           /\ Running(q) => pc'[Pub(q)] = pc[Pub(q)]
BY LetterFacts DEF Running, Base, TypeInv, TypeControl

(* A step that moves no message and touches no slot.                         *)
LEMMA SlotUntouched ==
    ASSUME SlotInv, \A r \in Requests : On(r)' <=> On(r),
           UNCHANGED <<refs, freed, pc, req, answer>>
    PROVE  SlotInv'
BY SlotKept DEF SlotInv, Running

(* A purge completes the slots of the letters it unlinks.                    *)
LEMMA PurgeSlot ==
    ASSUME Moving, SlotInv, NEW w \in Workers, NEW c \in Clients, Purge(w, c),
           batch' = batch, \A v \in Workers : HandIds(v)' = HandIds(v),
           UNCHANGED <<pc, req, answer>>
    PROVE  SlotInv'
<1> DEFINE R == BoxIds(w) \cap ToClient(c) \cap Requests
<1>1. Sheds(w, ToClient(c)) /\ CompleteSync(R, -1)
  BY PurgeMoves DEF Moving, TypeInv
<1>2. \A r \in Requests : r \in R => On(r)
  BY AtHome DEF Moving, Ids
<1>3. \A r \in Requests : On(r)' <=> On(r) /\ r \notin R
  BY <1>1, OnShed DEF Ids
<1> HIDE DEF R
<1> QED
  BY <1>1, <1>2, <1>3, SlotReleased DEF Moving

(* SlotInv while a worker handles a message.                                 *)
LEMMA SlotStepMail ==
    ASSUME IInv, NEW w \in Workers, MailStep(w)
    PROVE  SlotInv'
<1>0. Moving /\ Base /\ TypeInv /\ SlotInv /\ HandInv
  BY DEF IInv, Moving, Base
<1>1. UNCHANGED <<pc, req, answer>>
  BY DEF MailStep, DeliverCheck, DeliverClaim, DeliverSend, DeliverDrain,
     DeliverComplete, DeliverFinish, TeardownPurge, TeardownReclaim, wait
<1>2. ASSUME DeliverCheck(w) \/ DeliverClaim(w) \/ DeliverSend(w) \/ DeliverDrain(w)
               \/ TeardownReclaim(w)
      PROVE  SlotInv'
  <2>1. UNCHANGED <<mail, batch, refs, freed>>
    BY <1>2 DEF DeliverCheck, DeliverClaim, DeliverSend, DeliverDrain,
       TeardownReclaim, boxes, slots
  <2>2. \A v \in Workers : HandIds(v)' = HandIds(v)
    <3>1. CASE TeardownReclaim(w)
      <4>1. HandIds(w) = {}
        BY <3>1 DEF TeardownReclaim, HandIds, Carrying
      <4>2. CASE Drop(w)
        BY <1>0, <4>1, <4>2, DropIds
      <4>3. CASE Then(w, "finish") /\ msg' = msg
        BY <1>0, <4>1, <4>3 DEF Then, HandIds, Carrying, TypeInv, TypeControl
      <4> QED
        BY <3>1, <4>2, <4>3 DEF TeardownReclaim
    <3>2. CASE ~TeardownReclaim(w)
      <4>1. PICK l \in Carrying : step' = [step EXCEPT ![w] = l]
        BY <1>2, <3>2 DEF DeliverCheck, DeliverClaim, DeliverSend, DeliverDrain, Then,
           Carrying
      <4>2. msg' = msg /\ step[w] \in Carrying
        BY <1>2, <3>2 DEF DeliverCheck, DeliverClaim, DeliverSend, DeliverDrain, Carrying
      <4> QED
        BY <1>0, <4>1, <4>2 DEF HandIds, TypeInv, TypeControl
    <3> QED
      BY <3>1, <3>2
  <2> QED
    BY <1>0, <1>1, <2>1, <2>2, OnSame, SlotUntouched DEF Ids
<1>3. ASSUME DeliverComplete(w)
      PROVE  SlotInv'
  <2> DEFINE R == SyncOf(msg[w])
  <2>1. \A r \in Requests : On(r)' <=> On(r) /\ r # msg[w].id
    BY <1>0, <1>3, OnComplete DEF Ids
  <2>2. \A r \in Requests : r = msg[w].id => On(r)
    BY <1>0, <1>3, OnComplete DEF Ids
  <2>3. \A r \in Requests : r \in R <=> r = msg[w].id
    BY DEF SyncOf
  <2>4. PICK v : CompleteSync(R, v)
    BY <1>3 DEF DeliverComplete
  <2> HIDE DEF R
  <2> QED
    BY <1>0, <1>1, <2>1, <2>2, <2>3, <2>4, SlotReleased
<1>4. ASSUME DeliverFinish(w)
      PROVE  SlotInv'
  <2>1. \A v \in Workers : HandIds(v)' = HandIds(v)
    BY <1>0, <1>4, DropIds DEF DeliverFinish, HandIds, Carrying
  <2>2. batch' = batch /\ msg[w].to \in Clients
    BY <1>0, <1>4, PostFacts DEF DeliverFinish, HandInv
  <2>3. CASE UNCHANGED <<mail, slots>>
    BY <1>0, <1>1, <2>1, <2>2, <2>3, OnSame, SlotUntouched DEF Ids, slots
  <2>4. CASE Purge(w, msg[w].to)
    BY <1>0, <1>1, <2>1, <2>2, <2>4, PurgeSlot
  <2> QED
    BY <1>4, <2>3, <2>4 DEF DeliverFinish, FinishClosing
<1>5. ASSUME TeardownPurge(w)
      PROVE  SlotInv'
  <2>1. \A v \in Workers : HandIds(v)' = HandIds(v)
    BY <1>0, <1>5 DEF TeardownPurge, Then, HandIds, Carrying, TypeInv, TypeControl
  <2>2. batch' = batch /\ msg[w].to \in Clients /\ Purge(w, msg[w].to)
    BY <1>0, <1>5, PostFacts DEF TeardownPurge, HandInv
  <2> QED
    BY <1>0, <1>1, <2>1, <2>2, PurgeSlot
<1> QED
  BY <1>2, <1>3, <1>4, <1>5 DEF MailStep

(* Outside a REQUEST the event loop of w concerns no running REQUEST.        *)
LEMMA LoopRun ==
    ASSUME Base, NEW w \in Workers, req[w] = NoId, NEW l, pc' = [pc EXCEPT ![w] = l],
           req' = req, NEW q \in Requests
    PROVE  /\ Running(q)' <=> Running(q)
           /\ Running(q) => pc'[Pub(q)] = pc[Pub(q)]
<1>1. q # req[w]
  BY MailboxAssumption
<1> QED
  BY <1>1, OtherRun

(* SlotInv while a worker runs its event loop.                               *)
LEMMA SlotStepLoop ==
    ASSUME IInv, NEW w \in Workers, EventLoop(w)
    PROVE  SlotInv'
<1>0. Moving /\ Base /\ TypeInv /\ SlotInv /\ HandInv /\ OnceInv
  BY DEF IInv, Moving, Base
<1>1. UNCHANGED <<req, answer, refs, freed>>
  BY DEF EventLoop, WakeupDrain, TakeBatch, BatchNext, BatchEnd, wait, slots
<1>2. req[w] = NoId
  BY <1>0 DEF EventLoop, WakeupDrain, TakeBatch, BatchNext, BatchEnd, Base, RunInv
<1>3. \E l : pc' = [pc EXCEPT ![w] = l]
  <2>1. pc = [pc EXCEPT ![w] = pc[w]]
    BY <1>0 DEF TypeInv, TypeControl
  <2> QED
    BY <2>1 DEF EventLoop, WakeupDrain, TakeBatch, BatchNext, BatchEnd, Go
<1>4. \A r \in Requests : On(r)' <=> On(r)
  <2>1. CASE WakeupDrain(w) \/ BatchEnd(w)
    <3>1. UNCHANGED <<mail, batch, step, msg>>
      BY <2>1 DEF WakeupDrain, BatchEnd, mbox
    <3> QED
      BY <1>0, <3>1, OnSame DEF HandIds, Ids
  <2>2. CASE TakeBatch(w)
    BY <1>0, <2>2, OnTake DEF Ids
  <2>3. CASE BatchNext(w)
    BY <1>0, <2>3, OnNext DEF Ids
  <2> QED
    BY <2>1, <2>2, <2>3 DEF EventLoop
<1>5. \A q \in Requests : /\ Running(q)' <=> Running(q)
                          /\ Running(q) => pc'[Pub(q)] = pc[Pub(q)]
  BY <1>0, <1>1, <1>2, <1>3, LoopRun
<1> QED
  BY <1>0, <1>1, <1>4, <1>5, SlotKept DEF SlotInv

(* A step of w in its REQUEST r keeps all other slots.                       *)
LEMMA OtherSlots ==
    ASSUME Base, SlotInv, NEW w \in Workers, NEW l, pc' = [pc EXCEPT ![w] = l],
           req' = req, answer' = answer, NEW q \in Requests, q # req[w],
           On(q)' <=> On(q), refs'[q] = refs[q], freed'[q] = freed[q]
    PROVE  SlotOk(q)'
<1>1. /\ Running(q)' <=> Running(q)
      /\ Running(q) => pc'[Pub(q)] = pc[Pub(q)]
  BY OtherRun
<1> QED
  BY <1>1, SlotKept DEF SlotInv

(* Where a REQUEST goes when its push failed.                                *)
LEMMA PushFailedGoes ==
    ASSUME NEW w \in Workers, PushFailed(w)
    PROVE  \E l \in {"serve", "answer"} : pc' = [pc EXCEPT ![w] = l]
BY DEF PushFailed, Serve, Return, Go

(* SlotInv when a REQUEST is pushed to the owner's mailbox.                  *)
LEMMA SlotStepPush ==
    ASSUME IInv, NEW w \in Workers, PushRequest(w)
    PROVE  SlotInv'
<1>0. Moving /\ Base /\ TypeInv /\ SlotInv /\ HandInv
  BY DEF IInv, Moving, Base
<1>1. /\ pc[w] = "push" /\ req' = req /\ answer' = answer
      /\ UNCHANGED <<batch, step, msg>>
  BY DEF PushRequest, mbox
<1>a. PICK r \in Requests : r = req[w]
  BY <1>0, <1>1, RequestFacts
<1>2. /\ r \in Requests /\ Pub(r) = w /\ Running(r) /\ answer[r] = "waiting"
      /\ Peer(w) \in Workers /\ Peer(w) = Home(r) /\ Running(r)'
  BY <1>0, <1>1, <1>a, RequestFacts DEF Running
<1>3. refs[r] = 0 /\ ~On(r) /\ SlotOk(r)
  BY <1>0, <1>1, <1>2 DEF SlotInv, SlotOk, Holds
<1>4. \A v \in Workers : HandIds(v)' = HandIds(v)
  BY <1>1 DEF HandIds
<1>5. CASE Len(mail[Peer(w)]) < QueueMax
  <2>1. Gains(Peer(w), r)
    BY <1>a, <1>0, <1>5, RequestQueued
  <2>2. \A q \in Requests : On(q)' <=> On(q) \/ q = r
    BY <1>0, <1>2, <1>4, <2>1, OnGain DEF Ids
  <2>3. pc' = [pc EXCEPT ![w] = "signal"] /\ refs' = [refs EXCEPT ![r] = 2]
            /\ freed' = [freed EXCEPT ![r] = 0]
    BY <1>a, <1>5 DEF PushRequest, Go
  <2>b. \A q \in Requests : q # r => refs'[q] = refs[q] /\ freed'[q] = freed[q]
    BY <1>0, <2>3 DEF TypeInv, TypeSlots
  <2>4. \A q \in Requests : q # r => SlotOk(q)'
    BY <1>a, <1>0, <1>1, <2>b, <2>2, <2>3, OtherSlots
  <2>5. pc'[w] = "signal" /\ refs'[r] = 2 /\ freed'[r] = 0 /\ On(r)'
    BY <1>0, <1>2, <2>2, <2>3 DEF TypeInv, TypeControl, TypeSlots
  <2>6. SlotOk(r)'
    BY <1>1, <1>2, <2>5 DEF SlotOk, Holds, Allocated
  <2> QED
    BY <2>4, <2>6 DEF SlotInv
<1>6. CASE ~(Len(mail[Peer(w)]) < QueueMax)
  <2>1. mail' = mail /\ refs' = [refs EXCEPT ![r] = 0] /\ freed' = [freed EXCEPT ![r] = 1]
            /\ PushFailed(w)
    BY <1>a, <1>6 DEF PushRequest
  <2>2. \A q \in Requests : On(q)' <=> On(q)
    BY <1>0, <1>1, <1>4, <2>1, OnSame DEF Ids
  <2>3. PICK l \in {"serve", "answer"} : pc' = [pc EXCEPT ![w] = l]
    BY <2>1, PushFailedGoes
  <2>b. \A q \in Requests : q # r => refs'[q] = refs[q] /\ freed'[q] = freed[q]
    BY <1>0, <2>1 DEF TypeInv, TypeSlots
  <2>4. \A q \in Requests : q # r => SlotOk(q)'
    BY <1>a, <1>0, <1>1, <2>b, <2>2, <2>3, OtherSlots
  <2>5. pc'[w] = l /\ refs'[r] = 0 /\ freed'[r] = 1 /\ ~On(r)'
    BY <1>0, <1>2, <1>3, <2>1, <2>2, <2>3 DEF TypeInv, TypeControl, TypeSlots
  <2>6. SlotOk(r)'
    BY <1>1, <1>2, <2>5 DEF SlotOk, Holds, Allocated
  <2> QED
    BY <2>4, <2>6 DEF SlotInv
<1> QED
  BY <1>5, <1>6

(* SlotInv when the owner is signalled, or the signal fails and the REQUEST  *)
(* is unlinked again.                                                        *)
LEMMA SlotStepSignal ==
    ASSUME IInv, NEW w \in Workers, SignalRequest(w)
    PROVE  SlotInv'
<1>0. Moving /\ Base /\ TypeInv /\ SlotInv /\ HandInv /\ OnceInv
  BY DEF IInv, Moving, Base
<1>1. /\ pc[w] = "signal" /\ req' = req /\ answer' = answer
      /\ UNCHANGED <<batch, step, msg>>
  BY DEF SignalRequest, mbox
<1>a. PICK r \in Requests : r = req[w]
  BY <1>0, <1>1, RequestFacts
<1>2. /\ r \in Requests /\ Pub(r) = w /\ Running(r) /\ answer[r] = "waiting"
      /\ Peer(w) \in Workers /\ Peer(w) = Home(r) /\ Running(r)'
  BY <1>0, <1>1, <1>a, RequestFacts DEF Running
<1>3. SlotOk(r) /\ Holds(r) /\ refs[r] \in Int /\ freed[r] \in Nat
  BY <1>0, <1>1, <1>2 DEF SlotInv, Holds, TypeInv, TypeSlots
<1>4. \A v \in Workers : HandIds(v)' = HandIds(v)
  BY <1>1 DEF HandIds
<1>5. CASE UNCHANGED <<mail, slots>> /\ Go(w, "look")
  <2>1. \A q \in Requests : On(q)' <=> On(q)
    BY <1>0, <1>1, <1>4, <1>5, OnSame DEF Ids
  <2>2. pc' = [pc EXCEPT ![w] = "look"] /\ refs' = refs /\ freed' = freed
    BY <1>5 DEF Go, slots
  <2>3. \A q \in Requests : q # r => SlotOk(q)'
    BY <1>a, <1>0, <1>1, <2>1, <2>2, OtherSlots
  <2>4. pc'[w] = "look"
    BY <1>0, <2>2 DEF TypeInv, TypeControl
  <2>5. SlotOk(r)'
    BY <1>1, <1>2, <1>3, <2>1, <2>2, <2>4 DEF SlotOk, Holds, Allocated
  <2> QED
    BY <2>3, <2>5 DEF SlotInv
<1>6. CASE /\ Unlinked(Peer(w), Letter(w)) /\ Unlink(Peer(w), Letter(w))
           /\ refs' = [refs EXCEPT ![r] = 0] /\ freed' = [freed EXCEPT ![r] = @ + 1]
           /\ PushFailed(w)
  <2>1. Sheds(Peer(w), {r}) /\ r \in BoxIds(Peer(w))
    BY <1>a, <1>0, <1>1, <1>6, LetterUnlinks
  <2>2. \A q \in Requests : On(q)' <=> On(q) /\ ~(q \in BoxIds(Peer(w)) /\ q \in {r})
    BY <1>0, <1>2, <1>4, <2>1, OnShed DEF Ids
  <2>3. PICK l \in {"serve", "answer"} : pc' = [pc EXCEPT ![w] = l]
    BY <1>6, PushFailedGoes
  <2>b. \A q \in Requests : q # r => refs'[q] = refs[q] /\ freed'[q] = freed[q]
    BY <1>0, <1>6 DEF TypeInv, TypeSlots
  <2>4. \A q \in Requests : q # r => SlotOk(q)'
    BY <1>a, <1>0, <1>1, <2>b, <2>2, <2>3, OtherSlots
  <2>5. On(r)
    BY <1>0, <1>2, <2>1, AtHome DEF Moving, Ids
  <2>6. freed[r] = 0
    BY <1>3, <2>5 DEF SlotOk
  <2>7. pc'[w] = l /\ refs'[r] = 0 /\ freed'[r] = 1 /\ ~On(r)'
    BY <1>0, <1>2, <1>6, <2>1, <2>2, <2>3, <2>6 DEF TypeInv, TypeControl, TypeSlots
  <2>8. SlotOk(r)'
    BY <1>1, <1>2, <2>7 DEF SlotOk, Holds, Allocated
  <2> QED
    BY <2>4, <2>8 DEF SlotInv
<1> QED
  BY <1>a, <1>5, <1>6 DEF SignalRequest

(* Reading the result: the publisher drops its reference, or serves on.      *)
LEMMA SlotStepLook ==
    ASSUME IInv, NEW w \in Workers, Look(w)
    PROVE  SlotInv'
<1>0. Moving /\ Base /\ TypeInv /\ SlotInv /\ HandInv /\ OnceInv
  BY DEF IInv, Moving, Base
<1>1. /\ pc[w] = "look" /\ req' = req /\ answer' = answer
      /\ UNCHANGED <<mail, batch, step, msg>>
  BY DEF Look, mbox, boxes
<1>a. PICK r \in Requests : r = req[w]
  BY <1>0, <1>1, RequestFacts
<1>2. /\ r \in Requests /\ Pub(r) = w /\ Running(r) /\ answer[r] = "waiting"
      /\ Running(r)'
  BY <1>0, <1>1, <1>a, RequestFacts DEF Running
<1>3. SlotOk(r) /\ Holds(r) /\ refs[r] \in Int /\ freed[r] \in Nat
  BY <1>0, <1>1, <1>2 DEF SlotInv, Holds, TypeInv, TypeSlots
<1>4. \A q \in Requests : On(q)' <=> On(q)
  BY <1>0, <1>1, OnSame DEF Ids, HandIds
<1>5. CASE Release({r}) /\ pc' = [pc EXCEPT ![w] = "answer"]
  <2>1. /\ \A q \in Requests : q # r => refs'[q] = refs[q] /\ freed'[q] = freed[q]
        /\ refs'[r] = refs[r] - 1
        /\ freed'[r] = IF refs[r] = 1 THEN freed[r] + 1 ELSE freed[r]
    BY <1>5 DEF Release
  <2>2. \A q \in Requests : q # r => SlotOk(q)'
    BY <1>0, <1>1, <1>a, <1>4, <1>5, <2>1, OtherSlots
  <2>3. pc'[w] = "answer"
    BY <1>0, <1>5 DEF TypeInv, TypeControl
  <2>4. SlotOk(r)'
    BY <1>1, <1>2, <1>3, <1>4, <2>1, <2>3 DEF SlotOk, Holds, Allocated
  <2> QED
    BY <2>2, <2>4 DEF SlotInv
<1>6. CASE UNCHANGED <<refs, freed>> /\ pc' = [pc EXCEPT ![w] = "serve"]
  <2>2. \A q \in Requests : q # r => SlotOk(q)'
    BY <1>0, <1>1, <1>a, <1>4, <1>6, OtherSlots
  <2>3. pc'[w] = "serve"
    BY <1>0, <1>6 DEF TypeInv, TypeControl
  <2>4. SlotOk(r)'
    BY <1>1, <1>2, <1>3, <1>4, <1>6, <2>3 DEF SlotOk, Holds, Allocated
  <2> QED
    BY <2>2, <2>4 DEF SlotInv
<1> QED
  BY <1>a, <1>5, <1>6 DEF Look, Decided, Abandon, Wait, Return, Serve, Go

(* After a round of service; a cancelled letter takes its slot with it.      *)
LEMMA SlotStepSlept ==
    ASSUME IInv, NEW w \in Workers, Slept(w)
    PROVE  SlotInv'
<1>0. Moving /\ Base /\ TypeInv /\ SlotInv /\ HandInv /\ OnceInv
  BY DEF IInv, Moving, Base
<1>1. /\ pc[w] = "slept" /\ req' = req /\ answer' = answer
      /\ UNCHANGED <<batch, step, msg>>
  BY DEF Slept, mbox
<1>a. PICK r \in Requests : r = req[w]
  BY <1>0, <1>1, RequestFacts
<1>2. /\ Pub(r) = w /\ Running(r) /\ answer[r] = "waiting" /\ Running(r)'
      /\ Peer(w) \in Workers /\ Peer(w) = Home(r)
  BY <1>0, <1>1, <1>a, RequestFacts DEF Running
<1>3. SlotOk(r) /\ refs[r] \in Int /\ freed[r] \in Nat
  BY <1>0, <1>1, <1>2 DEF SlotInv, TypeInv, TypeSlots
<1>4. \A v \in Workers : HandIds(v)' = HandIds(v)
  BY <1>1 DEF HandIds
<1>5. CASE /\ UNCHANGED <<mail, refs, freed>>
           /\ \/ refs[r] = 0 /\ pc' = [pc EXCEPT ![w] = "push"]
              \/ refs[r] > 0 /\ pc' = [pc EXCEPT ![w] = "look"]
  <2>1. \A q \in Requests : On(q)' <=> On(q)
    BY <1>0, <1>1, <1>4, <1>5, OnSame DEF Ids
  <2>2. PICK l : /\ pc' = [pc EXCEPT ![w] = l]
                 /\ \/ refs[r] = 0 /\ l = "push"
                    \/ refs[r] > 0 /\ l = "look"
    BY <1>5
  <2>a. pc'[w] = l
    BY <1>0, <2>2 DEF TypeInv, TypeControl
  <2>3. \A q \in Requests : q # r => SlotOk(q)'
    BY <1>0, <1>1, <1>a, <1>5, <2>1, <2>2, OtherSlots
  <2>4. SlotOk(r)'
    BY <1>1, <1>2, <1>3, <1>5, <2>1, <2>2, <2>a DEF SlotOk, Holds, Allocated
  <2> QED
    BY <2>3, <2>4 DEF SlotInv
<1>6. CASE /\ Unlinked(Peer(w), Letter(w)) /\ Unlink(Peer(w), Letter(w)) /\ refs[r] > 0
           /\ refs' = [refs EXCEPT ![r] = 0] /\ freed' = [freed EXCEPT ![r] = @ + 1]
           /\ pc' = [pc EXCEPT ![w] = "answer"]
  <2>1. Sheds(Peer(w), {r}) /\ r \in BoxIds(Peer(w))
    BY <1>0, <1>1, <1>6, <1>a, LetterUnlinks
  <2>2. \A q \in Requests : On(q)' <=> On(q) /\ ~(q \in BoxIds(Peer(w)) /\ q \in {r})
    BY <1>0, <1>2, <1>4, <2>1, OnShed DEF Ids
  <2>3. \A q \in Requests : q # r => refs'[q] = refs[q] /\ freed'[q] = freed[q]
    BY <1>0, <1>6 DEF TypeInv, TypeSlots
  <2>4. \A q \in Requests : q # r => SlotOk(q)'
    BY <1>a, <1>0, <1>1, <1>6, <2>2, <2>3, OtherSlots
  <2>6. freed[r] = 0
    BY <1>3, <1>6 DEF SlotOk
  <2>7. pc'[w] = "answer" /\ refs'[r] = 0 /\ freed'[r] = 1 /\ ~On(r)'
    BY <1>0, <1>2, <1>6, <2>1, <2>2, <2>6 DEF TypeInv, TypeControl, TypeSlots
  <2>8. SlotOk(r)'
    BY <1>1, <1>2, <2>7 DEF SlotOk, Holds, Allocated
  <2> QED
    BY <2>4, <2>8 DEF SlotInv
<1> QED
  BY <1>a, <1>5, <1>6 DEF Slept, Return, Go

(* A blocked worker moves its own messages, and no slot.                     *)
LEMMA SlotStepServe ==
    ASSUME IInv, NEW w \in Workers, ServeBlocked(w)
    PROVE  SlotInv'
<1>0. Moving /\ Base /\ TypeInv /\ SlotInv /\ HandInv /\ OnceInv
  BY DEF IInv, Moving, Base
<1>1. /\ pc[w] = "serve" /\ req' = req /\ answer' = answer /\ step[w] = "none"
      /\ UNCHANGED <<batch, refs, freed>>
  BY DEF ServeBlocked, slots
<1>a. PICK r \in Requests : r = req[w]
  BY <1>0, <1>1, RequestFacts
<1>2. Pub(r) = w /\ Running(r) /\ answer[r] = "waiting" /\ Running(r)'
  BY <1>0, <1>1, <1>a, RequestFacts DEF Running
<1>3. ASSUME NEW S, S \subseteq DOMAIN mail[w], NEW n, ServePop(w, S, n)
      PROVE  SlotInv'
  <2>1. PICK k \in S : /\ mail[w][k] \in Post(w) /\ Handle(w, mail[w][k])
                       /\ Sheds(w, {mail[w][k].id}) /\ mail[w][k].id \in BoxIds(w)
    BY <1>0, <1>1, <1>3, ServePopMoves
  <2>2. PICK m \in Post(w) : Handle(w, m) /\ Sheds(w, {m.id}) /\ m.id \in BoxIds(w)
    BY <2>1
  <2>3. \A q \in Requests : On(q)' <=> On(q)
    BY <1>0, <1>1, <2>2, OnPop DEF Ids
  <2>4. pc' = pc
    BY <1>3 DEF ServePop
  <2> QED
    BY <1>0, <1>1, <2>3, <2>4, SlotUntouched
<1>4. ASSUME NEW S, NEW n, NEW p, ServeNext(w, S, n, p)
      PROVE  SlotInv'
  <2>1. UNCHANGED <<mail, step, msg, pc>>
    BY <1>4 DEF ServeNext, mbox
  <2>2. \A q \in Requests : On(q)' <=> On(q)
    BY <1>0, <1>1, <2>1, OnSame DEF Ids, HandIds
  <2> QED
    BY <1>0, <1>1, <2>1, <2>2, SlotUntouched
<1>5. ASSUME ServeFlush(w)
      PROVE  SlotInv'
  <2>1. UNCHANGED <<mail, step, msg>> /\ pc' = [pc EXCEPT ![w] = "slept"]
    BY <1>5 DEF ServeFlush, mbox, Go
  <2>2. \A q \in Requests : On(q)' <=> On(q)
    BY <1>0, <1>1, <2>1, OnSame DEF Ids, HandIds
  <2>3. \A q \in Requests : q # r => SlotOk(q)'
    BY <1>0, <1>1, <1>a, <2>1, <2>2, OtherSlots
  <2>4. pc'[w] = "slept" /\ SlotOk(r)
    BY <1>0, <2>1 DEF TypeInv, TypeControl, SlotInv
  <2>5. SlotOk(r)'
    BY <1>1, <1>2, <2>2, <2>4 DEF SlotOk, Holds, Allocated
  <2> QED
    BY <2>3, <2>5 DEF SlotInv
<1>6. Reclaimable(w) \subseteq DOMAIN mail[w] /\ Poppable(w) \subseteq DOMAIN mail[w]
  BY DEF Reclaimable, Poppable
<1> QED
  BY <1>3, <1>4, <1>5, <1>6 DEF ServeBlocked

(* A REQUEST is answered, or begins.                                         *)
LEMMA SlotStepEnds ==
    ASSUME IInv, NEW w \in Workers,
           AnswerRequest(w) \/ \E r \in Requests : StartRequest(w, r)
    PROVE  SlotInv'
<1>0. Moving /\ Base /\ TypeInv /\ SlotInv /\ HandInv /\ OnceInv
  BY DEF IInv, Moving, Base
<1>1. UNCHANGED <<mail, batch, step, msg, refs, freed>>
  BY DEF AnswerRequest, StartRequest, boxes, mbox, slots
<1>2. \A q \in Requests : On(q)' <=> On(q)
  BY <1>0, <1>1, OnSame DEF Ids, HandIds
<1>3. ASSUME AnswerRequest(w)
      PROVE  SlotInv'
  <2>1. PICK r \in Requests : r = req[w]
    BY <1>0, <1>3, RequestFacts DEF AnswerRequest
  <2>2. /\ Pub(r) = w /\ Running(r) /\ answer[r] = "waiting" /\ pc[w] = "answer"
        /\ SlotOk(r)
    BY <1>0, <1>3, <2>1, RequestFacts DEF AnswerRequest, SlotInv
  <2>3. PICK a \in Answers \ {"none", "waiting"} : answer' = [answer EXCEPT ![r] = a]
    <3>1. code[w] \in {0, 1, -1}
      BY <1>0 DEF TypeInv, TypeControl
    <3> QED
      BY <1>3, <2>1, <3>1 DEF AnswerRequest, Answers
  <2>4. pc' = [pc EXCEPT ![w] = "idle"] /\ req' = [req EXCEPT ![w] = NoId]
    BY <1>3 DEF AnswerRequest, Go
  <2>5. r # NoId /\ req'[w] = NoId /\ answer'[r] = a /\ ~Running(r)'
    BY <1>0, <2>2, <2>3, <2>4, MailboxAssumption DEF TypeInv, TypeControl, Running
  <2>6. SlotOk(r)'
    BY <1>1, <1>2, <2>2, <2>5 DEF SlotOk, Holds, Allocated
  <2>7. ASSUME NEW q \in Requests, q # r
        PROVE  SlotOk(q)'
    <3>1. Running(q)' <=> Running(q)
      BY <1>0, <2>1, <2>4, <2>7, MailboxAssumption, LetterFacts
         DEF Running, TypeInv, TypeControl
    <3>2. Running(q) => pc'[Pub(q)] = pc[Pub(q)]
      BY <1>0, <2>1, <2>4, <2>7, LetterFacts DEF Running, TypeInv, TypeControl
    <3>3. answer'[q] = answer[q] /\ SlotOk(q)
      BY <1>0, <2>3, <2>7 DEF TypeInv, TypeControl, SlotInv
    <3> QED
      BY <1>1, <1>2, <3>1, <3>2, <3>3, SlotKept
  <2> QED
    BY <2>6, <2>7 DEF SlotInv
<1>4. ASSUME NEW r \in Requests, StartRequest(w, r)
      PROVE  SlotInv'
  <2>1. /\ pc[w] = "idle" /\ answer[r] = "none" /\ Pub(r) = w
        /\ req' = [req EXCEPT ![w] = r] /\ answer' = [answer EXCEPT ![r] = "waiting"]
        /\ pc' = [pc EXCEPT ![w] = "push"]
    BY <1>4 DEF StartRequest, Go, Pub
  <2>2. req[w] = NoId /\ SlotOk(r) /\ ~Running(r)
    BY <1>0, <2>1, MailboxAssumption DEF Base, RunInv, SlotInv, Running
  <2>3. answer'[r] = "waiting" /\ Running(r)' /\ pc'[w] = "push"
    BY <1>0, <2>1 DEF TypeInv, TypeControl, Running
  <2>4. SlotOk(r)'
    BY <1>1, <1>2, <2>1, <2>2, <2>3 DEF SlotOk, Holds, Allocated
  <2>5. ASSUME NEW q \in Requests, q # r
        PROVE  SlotOk(q)'
    <3>1. Running(q)' <=> Running(q)
      BY <1>0, <2>1, <2>2, <2>5, MailboxAssumption, LetterFacts
         DEF Running, TypeInv, TypeControl
    <3>2. Running(q) => pc'[Pub(q)] = pc[Pub(q)]
      BY <1>0, <2>1, <2>2, <2>5, MailboxAssumption, LetterFacts
         DEF Running, TypeInv, TypeControl
    <3>3. answer'[q] = answer[q] /\ SlotOk(q)
      BY <1>0, <2>1, <2>5 DEF TypeInv, TypeControl, SlotInv
    <3> QED
      BY <1>1, <1>2, <3>1, <3>2, <3>3, SlotKept
  <2> QED
    BY <2>4, <2>5 DEF SlotInv
<1> QED
  BY <1>3, <1>4

(* Every step keeps the count of references.                                 *)
LEMMA SlotStep ==
    ASSUME IInv, Next
    PROVE  SlotInv'
<1>0. Moving /\ Base /\ TypeInv /\ SlotInv /\ HandInv /\ OnceInv /\ FrameInv
  BY DEF IInv, Moving, Base
<1>1. ASSUME UNCHANGED <<mail, batch, step, msg, refs, freed, pc, req, answer>>
      PROVE  SlotInv'
  BY <1>0, <1>1, OnSame, SlotUntouched DEF Ids, HandIds
<1>2. ASSUME NEW w \in Workers, Expire(w)
      PROVE  SlotInv'
  BY <1>1, <1>2 DEF Expire, boxes, slots, mbox
<1>3. ASSUME NEW w \in Workers, NEW c \in Clients, Flush(w, c)
      PROVE  SlotInv'
  BY <1>1, <1>3 DEF Flush, boxes, slots, mbox, wait
<1>4. ASSUME NEW w \in Workers, NEW c \in Clients, PeerClose(w, c)
      PROVE  SlotInv'
  <2>1. /\ batch' = batch /\ \A v \in Workers : HandIds(v)' = HandIds(v)
        /\ UNCHANGED <<pc, req, answer>> /\ Purge(w, c)
    BY <1>4 DEF PeerClose, mbox, HandIds, wait
  <2> QED
    BY <1>0, <2>1, PurgeSlot
<1>5. ASSUME NEW c \in Clients, AccountDies(c)
      PROVE  SlotInv'
  BY <1>1, <1>5 DEF AccountDies, boxes, slots, mbox, wait
<1>6. ASSUME NEW w \in Workers, NEW i, Gains(w, i), i \notin Requests, batch' = batch,
             i \in Ids => Home(i) = w,
             UNCHANGED <<step, msg, refs, freed, pc, req, answer>>
      PROVE  SlotInv'
  <2>1. \A r \in Requests : On(r)' <=> On(r)
    BY <1>0, <1>6, OnGain DEF Ids, HandIds
  <2> QED
    BY <1>0, <1>6, <2>1, SlotUntouched
<1>7. ASSUME NEW c \in Clients, PushTeardown(c)
      PROVE  SlotInv'
  <2>1. Gains(Owner[c], NoId) /\ Owner[c] \in Workers /\ NoId \notin Ids /\ NoId \notin Requests
    BY <1>0, <1>7, TeardownQueued, LetterFacts, MailboxAssumption DEF Ids
  <2>2. UNCHANGED <<batch, step, msg, refs, freed, pc, req, answer>>
    BY <1>7 DEF PushTeardown, mbox, slots, wait
  <2> QED
    BY <1>6, <2>1, <2>2
<1>8. ASSUME NEW s \in Sends, PushSend(s)
      PROVE  SlotInv'
  <2>1. UNCHANGED <<batch, step, msg, refs, freed, pc, req, answer>>
    BY <1>8 DEF PushSend, mbox, slots, wait
  <2>2. CASE Len(mail[Owner[Dest[s]]]) < QueueMax
    <3>1. Gains(Home(s), s) /\ Home(s) \in Workers /\ s \notin Requests
      BY <1>0, <1>8, <2>2, SendQueued, LetterFacts
    <3> QED
      BY <1>6, <2>1, <3>1
  <2>3. CASE ~(Len(mail[Owner[Dest[s]]]) < QueueMax)
    BY <1>1, <1>8, <2>1, <2>3 DEF PushSend
  <2> QED
    BY <2>2, <2>3
<1>9. ASSUME SignalPushed
      PROVE  SlotInv'
  <2>1. UNCHANGED <<batch, step, msg, refs, freed, pc, req, answer>> /\ apc = "signal"
    BY <1>9 DEF SignalPushed, mbox, slots, wait
  <2>2. CASE mail' = mail
    BY <1>1, <2>1, <2>2
  <2>3. CASE Unlinked(Owner[amsg.to], amsg) /\ Unlink(Owner[amsg.to], amsg)
    <3>1. PICK w \in Workers : w = Owner[amsg.to] /\ amsg \in Post(w) /\ Sheds(w, {amsg.id})
      BY <1>0, <2>1, <2>3, PushedUnlinks
    <3>2. \A r \in Requests : r # amsg.id
      BY <1>0, <2>1 DEF TypeInv, TypeControl
    <3>3. \A r \in Requests : On(r)' <=> On(r)
      BY <1>0, <2>1, <3>1, <3>2, OnShed DEF Ids, HandIds
    <3> QED
      BY <1>0, <2>1, <3>3, SlotUntouched
  <2> QED
    BY <1>9, <2>2, <2>3 DEF SignalPushed
<1> QED
  BY <1>2, <1>3, <1>4, <1>5, <1>7, <1>8, <1>9, SlotStepMail, SlotStepLoop,
     SlotStepPush, SlotStepSignal, SlotStepLook, SlotStepServe, SlotStepSlept,
     SlotStepEnds
     DEF Next, WorkerStep, RequestStep

-----------------------------------------------------------------------------
(* How a step moves the message with id i.                                   *)

(* It stays where it is, up to being taken from the mailbox into the batch.  *)
Still(i) == /\ Waiting(i)' <=> Waiting(i)
            /\ \A l \in Carrying : At(i, l)' <=> At(i, l)
(* It is taken in hand.                                                      *)
Taken(i) == Waiting(i) /\ ~Waiting(i)' /\ At(i, "check")'
(* It is purged or unlinked.                                                 *)
Leaves(i) == Waiting(i) /\ ~On(i)'
(* It is queued.                                                             *)
Enters(i) == Fresh(i) /\ ~On(i) /\ Waiting(i)' /\ \A l \in Carrying : ~At(i, l)'
(* Its target's worker takes one step of its delivery.                       *)
Delivers(i) ==
    /\ ~Waiting(i) /\ ~Waiting(i)'
    /\ \/ At(i, "check") /\ DeliverCheck(Home(i))
       \/ At(i, "claim") /\ DeliverClaim(Home(i))
       \/ At(i, "send") /\ DeliverSend(Home(i))
       \/ At(i, "drain") /\ DeliverDrain(Home(i))
       \/ At(i, "complete") /\ DeliverComplete(Home(i))

Moved(i) == Still(i) \/ Taken(i) \/ Leaves(i) \/ Enters(i) \/ Delivers(i)

(* A message is carried exactly when it waits or is at a stage of delivery.  *)
LEMMA OnIs ==
    ASSUME NEW i \in Ids
    PROVE  /\ On(i) <=> Waiting(i) \/ \E l \in Carrying : At(i, l)
           /\ On(i)' <=> Waiting(i)' \/ \E l \in Carrying : At(i, l)'
           /\ i \in HandIds(Home(i)) <=> \E l \in Carrying : At(i, l)
           /\ i \in HandIds(Home(i))' <=> \E l \in Carrying : At(i, l)'
BY DEF On, Waiting, At, HandIds

(* A message waits or is at one stage of its delivery.                       *)
LEMMA OnePlace ==
    ASSUME OnceInv, NEW i \in Ids
    PROVE  /\ Waiting(i) => \A l \in Carrying : ~At(i, l)
           /\ i \in BoxIds(Home(i)) => i \notin TakenIds(Home(i))
<1>1. Home(i) \in Workers
  BY LetterFacts DEF Ids
<1> QED
  BY <1>1, OnIs DEF OnceInv, Waiting

(* Nothing moves.                                                            *)
LEMMA NoneMoves ==
    ASSUME UNCHANGED <<mail, batch, step, msg>>, NEW i \in Ids
    PROVE  Still(i)
BY DEF Still, Waiting, At, BoxIds, TakenIds

(* Ids leave a mailbox; no message in delivery moves.                        *)
LEMMA ShedMoves ==
    ASSUME Moving, NEW w \in Workers, NEW U, Sheds(w, U), NEW i \in Ids,
           \A l \in Carrying : At(i, l)' <=> At(i, l)
    PROVE  IF i \in BoxIds(w) /\ i \in U THEN Leaves(i) ELSE Still(i)
<1>1. Home(i) \in Workers /\ (i \in BoxIds(w) => Home(i) = w)
  BY AtHome, LetterFacts DEF Ids, Moving
<1>2. TakenIds(Home(i))' = TakenIds(Home(i))
  BY <1>1 DEF Sheds, TakenIds
<1>3. CASE Home(i) = w
  <2>1. i \in BoxIds(w)' <=> i \in BoxIds(w) /\ i \notin U
    BY DEF Sheds
  <2>2. CASE i \in BoxIds(w) /\ i \in U
    <3>1. Waiting(i) /\ ~Waiting(i)' /\ \A l \in Carrying : ~At(i, l)'
      BY <1>2, <1>3, <2>1, <2>2, OnePlace DEF Waiting, Moving
    <3> QED
      BY <2>2, <3>1, OnIs DEF Leaves
  <2>3. CASE ~(i \in BoxIds(w) /\ i \in U)
    BY <1>2, <1>3, <2>1, <2>3 DEF Waiting, Still
  <2> QED
    BY <2>2, <2>3
<1>4. CASE Home(i) # w
  <2>1. BoxIds(Home(i))' = BoxIds(Home(i))
    BY <1>1, <1>4 DEF Sheds, BoxIds
  <2> QED
    BY <1>1, <1>2, <1>4, <2>1 DEF Waiting, Still
<1> QED
  BY <1>3, <1>4

(* An id is queued.                                                          *)
LEMMA GainMoves ==
    ASSUME Moving, NEW w \in Workers, NEW j, Gains(w, j), NEW i \in Ids,
           UNCHANGED <<step, msg>>, j \in Ids => Home(j) = w /\ Fresh(j) /\ ~On(j)
    PROVE  IF i = j THEN Enters(i) ELSE Still(i)
<1>1. Home(i) \in Workers
  BY LetterFacts DEF Ids
<1>2. /\ TakenIds(Home(i))' = TakenIds(Home(i))
      /\ \A l \in Carrying : At(i, l)' <=> At(i, l)
  BY <1>1 DEF Gains, TakenIds, At
<1>3. CASE i = j
  <2>1. i \in BoxIds(w)'
    BY <1>3 DEF Gains
  <2> QED
    BY <1>2, <1>3, <2>1, OnIs DEF Enters, Waiting
<1>4. CASE i # j
  <2>1. i \in BoxIds(Home(i))' <=> i \in BoxIds(Home(i))
    <3>1. CASE Home(i) = w
      BY <1>4, <3>1 DEF Gains
    <3>2. CASE Home(i) # w
      BY <1>1, <3>2 DEF Gains, BoxIds
    <3> QED
      BY <3>1, <3>2
  <2> QED
    BY <1>2, <1>4, <2>1 DEF Waiting, Still
<1> QED
  BY <1>3, <1>4

(* A worker takes m in hand.                                                 *)
LEMMA HandMoves ==
    ASSUME Moving, NEW w \in Workers, NEW m \in Post(w), Handle(w, m), step[w] = "none",
           NEW i \in Ids,
           i = m.id => Waiting(i) /\ ~Waiting(i)',
           i # m.id => (Waiting(i)' <=> Waiting(i))
    PROVE  IF i = m.id THEN Taken(i) ELSE Still(i)
<1>1. Home(i) \in Workers /\ (i = m.id => Home(i) = w /\ m.kind = "SEND")
  BY PostFacts, LetterFacts DEF Ids
<1>2. /\ msg'[w] = m /\ step'[w] = IF m.kind = "SEND" THEN "check" ELSE "purge"
      /\ \A v \in Workers : v # w => msg'[v] = msg[v] /\ step'[v] = step[v]
  BY HandleIds DEF Moving
<1>3. CASE i = m.id
  BY <1>1, <1>2, <1>3 DEF Taken, At
<1>4. CASE i # m.id
  <2>1. \A l \in Carrying : At(i, l)' <=> At(i, l)
    <3>1. CASE Home(i) = w
      BY <1>2, <1>4, <3>1 DEF At, Carrying
    <3>2. CASE Home(i) # w
      BY <1>1, <1>2, <3>2 DEF At
    <3> QED
      BY <3>1, <3>2
  <2> QED
    BY <1>4, <2>1 DEF Still
<1> QED
  BY <1>3, <1>4

(* One step of the message handler moves at most the message in hand.        *)
LEMMA StageMoves ==
    ASSUME Moving, NEW w \in Workers, NEW i \in Ids,
           \/ DeliverCheck(w) \/ DeliverClaim(w) \/ DeliverSend(w)
           \/ DeliverDrain(w) \/ DeliverComplete(w)
    PROVE  Still(i) \/ Delivers(i)
<1>1. UNCHANGED <<mail, batch>> /\ step[w] \in Carrying
  BY DEF DeliverCheck, DeliverClaim, DeliverSend, DeliverDrain, DeliverComplete,
     boxes, Carrying
<1>2. \A v \in Workers : v # w => step'[v] = step[v] /\ msg'[v] = msg[v]
  BY DEF DeliverCheck, DeliverClaim, DeliverSend, DeliverDrain, DeliverComplete,
     Then, Drop, Moving, TypeInv, TypeControl
<1>3. step'[w] \in Carrying => msg'[w] = msg[w]
  <2>1. CASE Drop(w)
    BY <2>1, DropIds DEF Moving, Carrying
  <2>2. CASE ~Drop(w)
    BY <2>2 DEF DeliverCheck, DeliverClaim, DeliverSend, DeliverDrain, DeliverComplete
  <2> QED
    BY <2>1, <2>2
<1>4. Home(i) \in Workers /\ (Waiting(i)' <=> Waiting(i))
  BY <1>1, LetterFacts DEF Ids, Waiting, BoxIds, TakenIds
<1>5. CASE Home(i) = w /\ msg[w].id = i
  <2>1. At(i, step[w]) /\ ~Waiting(i)
    BY <1>1, <1>5, OnePlace DEF At, Moving
  <2> QED
    BY <1>4, <1>5, <2>1 DEF Delivers, At, DeliverCheck, DeliverClaim, DeliverSend,
       DeliverDrain, DeliverComplete
<1>6. CASE ~(Home(i) = w /\ msg[w].id = i)
  <2>1. \A l \in Carrying : At(i, l)' <=> At(i, l)
    <3>1. CASE Home(i) = w
      BY <1>3, <1>6, <3>1 DEF At
    <3>2. CASE Home(i) # w
      BY <1>2, <1>4, <3>2 DEF At
    <3> QED
      BY <3>1, <3>2
  <2> QED
    BY <1>4, <2>1 DEF Still
<1> QED
  BY <1>5, <1>6

(* A worker that handles no SEND changes the stage of no message.            *)
LEMMA IdleHand ==
    ASSUME Moving, NEW w \in Workers, NEW i \in Ids,
           step[w] \notin Carrying, step'[w] \notin Carrying,
           \A v \in Workers : v # w => step'[v] = step[v] /\ msg'[v] = msg[v]
    PROVE  \A l \in Carrying : At(i, l)' <=> At(i, l)
<1>1. Home(i) \in Workers
  BY LetterFacts DEF Ids
<1> QED
  BY <1>1 DEF At

(* A purge of the mailbox of w.                                              *)
LEMMA PurgeTracks ==
    ASSUME Moving, NEW w \in Workers, NEW c \in Clients, Purge(w, c), batch' = batch,
           NEW i \in Ids, \A l \in Carrying : At(i, l)' <=> At(i, l)
    PROVE  IF i \in BoxIds(w) /\ Target(i) = c THEN Leaves(i) ELSE Still(i)
<1>1. Sheds(w, ToClient(c))
  BY PurgeMoves DEF Moving, TypeInv
<1> QED
  BY <1>1, ShedMoves DEF ToClient

(* The rest of the message handler.                                          *)
LEMMA RestMoves ==
    ASSUME Moving, NEW w \in Workers, NEW i \in Ids,
           DeliverFinish(w) \/ TeardownPurge(w) \/ TeardownReclaim(w)
    PROVE  Still(i) \/ Leaves(i)
<1>1. step[w] \notin Carrying /\ step'[w] \notin Carrying
          /\ \A v \in Workers : v # w => step'[v] = step[v] /\ msg'[v] = msg[v]
  <2>1. step[w] \in {"finish", "purge", "reclaim"}
    BY DEF DeliverFinish, TeardownPurge, TeardownReclaim
  <2>2. CASE Drop(w)
    BY <2>1, <2>2, DropIds DEF Moving, Carrying
  <2>3. CASE ~Drop(w)
    BY <2>1, <2>3 DEF DeliverFinish, TeardownPurge, TeardownReclaim, Then, Carrying,
       Moving, TypeInv, TypeControl
  <2> QED
    BY <2>2, <2>3
<1>2. \A l \in Carrying : At(i, l)' <=> At(i, l)
  BY <1>1, IdleHand
<1>3. batch' = batch /\ msg[w].to \in Clients
  BY PostFacts DEF DeliverFinish, TeardownPurge, TeardownReclaim, boxes, Moving, HandInv
<1>4. CASE mail' = mail
  BY <1>2, <1>3, <1>4 DEF Still, Waiting, BoxIds, TakenIds
<1>5. CASE Purge(w, msg[w].to)
  BY <1>2, <1>3, <1>5, PurgeTracks
<1> QED
  BY <1>4, <1>5 DEF DeliverFinish, TeardownPurge, TeardownReclaim, FinishClosing, boxes

(* The event loop and the service of a blocked worker take messages.         *)
LEMMA LoopMoves ==
    ASSUME Base, OnceInv, NEW w \in Workers, EventLoop(w) \/ ServeBlocked(w),
           NEW i \in Ids
    PROVE  Still(i) \/ Taken(i)
<1>0. Moving /\ Home(i) \in Workers
  BY LetterFacts DEF Base, Moving, Ids
<1>1. CASE WakeupDrain(w) \/ BatchEnd(w)
  BY <1>1, NoneMoves DEF WakeupDrain, BatchEnd, mbox
<1>2. CASE TakeBatch(w)
  <2>1. Waiting(i)' <=> Waiting(i)
    BY <1>0, <1>2, TakeMoves DEF Waiting, BoxIds, TakenIds
  <2> QED
    BY <1>2, <2>1 DEF TakeBatch, mbox, Still, At
<1>3. CASE BatchNext(w)
  <2>1. /\ mail' = mail /\ step[w] = "none"
        /\ \A v \in Workers : v # w => batch'[v] = batch[v]
    BY <1>3, NextMoves
  <2>2. PICK m \in Post(w) : /\ Handle(w, m)
                             /\ i \in TakenIds(w) <=> i \in TakenIds(w)' \/ i = m.id
                             /\ i \in TakenIds(w)' => i # m.id
    BY <1>3, NextMoves
  <2>3. i = m.id => Home(i) = w
    BY <2>2, PostFacts
  <2>4. i = m.id => Waiting(i) /\ ~Waiting(i)'
    BY <2>1, <2>2, <2>3, OnePlace DEF Waiting, BoxIds
  <2>5. i # m.id => (Waiting(i)' <=> Waiting(i))
    BY <1>0, <2>1, <2>2 DEF Waiting, BoxIds, TakenIds
  <2> QED
    BY <1>0, <2>1, <2>2, <2>4, <2>5, HandMoves
<1>4. ASSUME NEW S, S \subseteq DOMAIN mail[w], NEW n, ServePop(w, S, n),
             step[w] = "none", batch' = batch
      PROVE  Still(i) \/ Taken(i)
  <2>1. PICK k \in S : /\ mail[w][k] \in Post(w) /\ Handle(w, mail[w][k])
                       /\ Sheds(w, {mail[w][k].id}) /\ mail[w][k].id \in BoxIds(w)
    BY <1>4, ServePopMoves
  <2>2. PICK m \in Post(w) : Handle(w, m) /\ Sheds(w, {m.id}) /\ m.id \in BoxIds(w)
    BY <2>1
  <2>3. i = m.id => Home(i) = w
    BY <2>2, PostFacts
  <2>4. TakenIds(Home(i))' = TakenIds(Home(i))
    BY <1>0, <2>2 DEF Sheds, TakenIds
  <2>5. i = m.id => Waiting(i) /\ ~Waiting(i)'
    BY <2>2, <2>3, <2>4, OnePlace DEF Waiting, Sheds
  <2>6. i # m.id => (Waiting(i)' <=> Waiting(i))
    <3>1. CASE Home(i) = w
      BY <2>2, <2>4, <3>1 DEF Waiting, Sheds
    <3>2. CASE Home(i) # w
      BY <1>0, <2>2, <2>4, <3>2 DEF Waiting, Sheds, BoxIds
    <3> QED
      BY <3>1, <3>2
  <2> QED
    BY <1>0, <1>4, <2>2, <2>5, <2>6, HandMoves
<1>5. CASE ServeBlocked(w)
  <2>1. step[w] = "none" /\ batch' = batch
    BY <1>5 DEF ServeBlocked
  <2>2. Reclaimable(w) \subseteq DOMAIN mail[w] /\ Poppable(w) \subseteq DOMAIN mail[w]
    BY DEF Reclaimable, Poppable
  <2>3. CASE \/ ServePop(w, Reclaimable(w), ServeTeardowns)
             \/ ServePop(w, Poppable(w), WakeBatch)
    BY <1>4, <2>1, <2>2, <2>3
  <2>4. CASE UNCHANGED <<mail, step, msg>>
    BY <2>1, <2>4, NoneMoves
  <2> QED
    BY <1>5, <2>3, <2>4 DEF ServeBlocked, ServeNext, ServeFlush, mbox
<1> QED
  BY <1>1, <1>2, <1>3, <1>5 DEF EventLoop

(* A letter is unlinked.                                                     *)
LEMMA UnlinkTracks ==
    ASSUME Moving, NEW w \in Workers, NEW j, Sheds(w, {j}), UNCHANGED <<step, msg>>,
           NEW i \in Ids
    PROVE  Still(i) \/ (Leaves(i) /\ i = j)
<1>1. \A l \in Carrying : At(i, l)' <=> At(i, l)
  BY DEF At
<1> QED
  BY <1>1, ShedMoves

(* What queues and unlinks a letter of a REQUEST.                            *)
LEMMA RequestMoves ==
    ASSUME Base, OnceInv, SlotInv, NEW w \in Workers, NEW i \in Ids,
           PushRequest(w) \/ SignalRequest(w) \/ Slept(w)
    PROVE  \/ Still(i)
           \/ i = req[w] /\ (IF PushRequest(w) THEN Enters(i) ELSE Leaves(i))
<1>0. Moving
  BY DEF Base, Moving
<1>1. UNCHANGED <<batch, step, msg>> /\ pc[w] \in {"push", "signal", "slept"}
  BY DEF PushRequest, SignalRequest, Slept, mbox
<1>a. PICK r \in Requests : r = req[w]
  BY <1>1, RequestFacts
<1>2. Pub(r) = w /\ Running(r) /\ Peer(w) \in Workers /\ Peer(w) = Home(r)
  BY <1>1, <1>a, RequestFacts
<1>3. CASE mail' = mail
  BY <1>1, <1>3, NoneMoves
<1>4. CASE PushRequest(w) /\ Len(mail[Peer(w)]) < QueueMax
  <2>1. Gains(Peer(w), r) /\ ~On(r)
    BY <1>a, <1>4, RequestQueued
  <2>2. Fresh(r)
    BY <1>2, <1>4 DEF Fresh, Unpushed, PushRequest
  <2> QED
    BY <1>0, <1>1, <1>2, <1>a, <1>4, <2>1, <2>2, GainMoves
<1>5. CASE ~PushRequest(w) /\ Unlinked(Peer(w), Letter(w)) /\ Unlink(Peer(w), Letter(w))
  <2>1. Sheds(Peer(w), {r})
    BY <1>1, <1>5, <1>a, LetterUnlinks
  <2> QED
    BY <1>0, <1>1, <1>2, <1>5, <1>a, <2>1, UnlinkTracks
<1>6. pc[w] = "push" => PushRequest(w)
  BY DEF SignalRequest, Slept
<1>7. pc[w] # "push" => ~PushRequest(w)
  BY DEF PushRequest
<1> QED
  BY <1>3, <1>4, <1>5, <1>6, <1>7 DEF PushRequest, SignalRequest, Slept

(* What the acceptor queues and unlinks.                                     *)
LEMMA AcceptorMoves ==
    ASSUME Base, OnceInv, FrameInv, NEW i \in Ids,
           \/ \E c \in Clients : PushTeardown(c)
           \/ \E s \in Sends : PushSend(s)
           \/ SignalPushed
    PROVE  \/ Still(i)
           \/ i \in Sends /\ Enters(i) /\ i \notin pushed /\ pushed' = pushed \cup {i}
           \/ i \in Sends /\ Leaves(i) /\ pushed' = pushed
<1>0. Moving
  BY DEF Base, Moving
<1>1. ASSUME NEW c \in Clients, PushTeardown(c)
      PROVE  Still(i)
  <2>1. Gains(Owner[c], NoId) /\ Owner[c] \in Workers /\ NoId \notin Ids
    BY <1>1, TeardownQueued, LetterFacts, MailboxAssumption DEF Ids
  <2>2. UNCHANGED <<step, msg>>
    BY <1>1 DEF PushTeardown, mbox
  <2> QED
    BY <1>0, <2>1, <2>2, GainMoves
<1>2. ASSUME NEW s \in Sends, PushSend(s)
      PROVE  \/ Still(i)
             \/ i \in Sends /\ Enters(i) /\ i \notin pushed /\ pushed' = pushed \cup {i}
  <2>1. /\ UNCHANGED <<batch, step, msg>> /\ s \notin pushed /\ s \notin Requests
        /\ pushed' = pushed \cup {s} /\ Home(s) \in Workers
    BY <1>2, LetterFacts DEF PushSend, mbox
  <2>2. CASE Len(mail[Owner[Dest[s]]]) < QueueMax
    <3>1. Gains(Home(s), s) /\ ~On(s) /\ Fresh(s)
      BY <1>2, <2>1, <2>2, SendQueued DEF Fresh
    <3> QED
      BY <1>0, <2>1, <3>1, GainMoves
  <2>3. CASE ~(Len(mail[Owner[Dest[s]]]) < QueueMax)
    BY <1>2, <2>1, <2>3, NoneMoves DEF PushSend
  <2> QED
    BY <2>2, <2>3
<1>3. ASSUME SignalPushed
      PROVE  Still(i) \/ (i \in Sends /\ Leaves(i) /\ pushed' = pushed)
  <2>1. UNCHANGED <<batch, step, msg, pushed>> /\ apc = "signal"
    BY <1>3 DEF SignalPushed, mbox
  <2>2. CASE mail' = mail
    BY <2>1, <2>2, NoneMoves
  <2>3. CASE Unlinked(Owner[amsg.to], amsg) /\ Unlink(Owner[amsg.to], amsg)
    <3>1. PICK w \in Workers : w = Owner[amsg.to] /\ Sheds(w, {amsg.id})
      BY <2>1, <2>3, PushedUnlinks
    <3>2. amsg.id \notin Requests
      BY <2>1 DEF Base, TypeInv, TypeControl
    <3> QED
      BY <1>0, <2>1, <3>1, <3>2, UnlinkTracks DEF Ids
  <2> QED
    BY <1>3, <2>2, <2>3 DEF SignalPushed
<1> QED
  BY <1>1, <1>2, <1>3

(* The steps that move no message.                                           *)
Resting == \/ \E w \in Workers : Look(w) \/ AnswerRequest(w) \/ Expire(w)
           \/ \E w \in Workers, r \in Requests : StartRequest(w, r)
           \/ \E w \in Workers, c \in Clients : Flush(w, c)
           \/ \E c \in Clients : AccountDies(c)

(* A step that moves no message keeps every message where it was.            *)
LEMMA RestingMoves ==
    ASSUME Resting, NEW i \in Ids
    PROVE  Still(i)
<1>1. UNCHANGED <<mail, batch, step, msg>>
  BY DEF Resting, Look, AnswerRequest, Expire, StartRequest, Flush, AccountDies, boxes,
     mbox
<1> QED
  BY <1>1, NoneMoves

(* A peer that closes its connection takes along only its own unsent         *)
(* messages.                                                                 *)
LEMMA CloseMoves ==
    ASSUME Moving, NEW w \in Workers, NEW c \in Clients, PeerClose(w, c), NEW i \in Ids
    PROVE  Still(i) \/ Leaves(i)
<1>1. batch' = batch /\ Purge(w, c) /\ \A l \in Carrying : At(i, l)' <=> At(i, l)
  BY DEF PeerClose, mbox, At
<1> QED
  BY <1>1, PurgeTracks

(* Every step moves a message in one of the five ways.                       *)
LEMMA MovedStep ==
    ASSUME IInv, Next, NEW i \in Ids
    PROVE  Moved(i)
<1>0. Moving /\ Base /\ OnceInv /\ SlotInv /\ FrameInv
  BY DEF IInv, Moving, Base
<1>1. ASSUME NEW w \in Workers, MailStep(w)
      PROVE  Moved(i)
  BY <1>0, <1>1, StageMoves, RestMoves DEF MailStep, Moved
<1>2. ASSUME NEW w \in Workers, EventLoop(w) \/ ServeBlocked(w)
      PROVE  Moved(i)
  BY <1>0, <1>2, LoopMoves DEF Moved
<1>3. ASSUME NEW w \in Workers, PushRequest(w) \/ SignalRequest(w) \/ Slept(w)
      PROVE  Moved(i)
  BY <1>0, <1>3, RequestMoves DEF Moved
<1>4. ASSUME Resting
      PROVE  Moved(i)
  BY <1>4, RestingMoves DEF Moved
<1>5. ASSUME NEW w \in Workers, NEW c \in Clients, PeerClose(w, c)
      PROVE  Moved(i)
  BY <1>0, <1>5, CloseMoves DEF Moved
<1>6. ASSUME \/ \E c \in Clients : PushTeardown(c)
             \/ \E s \in Sends : PushSend(s)
             \/ SignalPushed
      PROVE  Moved(i)
  BY <1>0, <1>6, AcceptorMoves DEF Moved
<1> QED
  BY <1>1, <1>2, <1>3, <1>4, <1>5, <1>6 DEF Next, WorkerStep, RequestStep, Resting

(* What a step of the delivery leads to.                                     *)
LEMMA StageAfter ==
    ASSUME Moving, NEW i \in Ids, Delivers(i)
    PROVE  /\ At(i, "check") => At(i, "claim")' \/ At(i, "complete")'
           /\ At(i, "claim") => At(i, "send")' \/ At(i, "complete")'
           /\ At(i, "send") => At(i, "drain")' \/ At(i, "complete")'
           /\ At(i, "drain") => At(i, "complete")'
           /\ At(i, "complete") => \A l \in Carrying : ~At(i, l)'
<1> DEFINE w == Home(i)
<1>1. w \in Workers
  BY LetterFacts DEF Ids
<1> HIDE DEF w
<1>2. DeliverCheck(w) => Then(w, "claim") \/ Then(w, "complete")
  BY DEF DeliverCheck
<1>3. DeliverClaim(w) => Then(w, "send") \/ Then(w, "complete")
  BY DEF DeliverClaim
<1>4. DeliverSend(w) => Then(w, "drain") \/ Then(w, "complete")
  BY DEF DeliverSend
<1>5. DeliverDrain(w) => Then(w, "complete")
  BY DEF DeliverDrain
<1>6. DeliverCheck(w) \/ DeliverClaim(w) \/ DeliverSend(w) \/ DeliverDrain(w)
          => msg' = msg
  BY DEF DeliverCheck, DeliverClaim, DeliverSend, DeliverDrain
<1>7. \A l : Then(w, l) => step'[w] = l
  BY <1>1 DEF Then, Moving, TypeInv, TypeControl
<1>8. DeliverComplete(w) => step'[w] \notin Carrying
  <2>1. CASE Drop(w)
    BY <1>1, <2>1, DropIds DEF Moving, Carrying
  <2>2. CASE ~Drop(w)
    BY <1>7, <2>2 DEF DeliverComplete, Carrying
  <2> QED
    BY <2>1, <2>2
<1> QED
  BY <1>2, <1>3, <1>4, <1>5, <1>6, <1>7, <1>8 DEF Delivers, At, w

-----------------------------------------------------------------------------
(* What a step does to the frame of i.                                       *)

Kept(i) == sent'[i] = sent[i] /\ \A c \in Clients : i \in buf'[c] <=> i \in buf[c]
(* It is put into write_buf.                                                 *)
Written(i) == /\ At(i, "send") /\ DeliverSend(Home(i)) /\ sent'[i] = sent[i]
              /\ \A c \in Clients : i \in buf'[c] <=> i \in buf[c] \/ c = Target(i)
(* It leaves write_buf, sent or not.                                         *)
Emptied(i) == /\ i \in buf[Target(i)] /\ \A c \in Clients : i \notin buf'[c]
              /\ sent'[i] \in {0, 1}
              /\ At(i, "drain") => DeliverDrain(Home(i))

(* Emptying the output buffers of some connections loses only what was in    *)
(* them.                                                                     *)
LEMMA Empties ==
    ASSUME TypeInv, FrameInv, NEW w \in Workers, NEW C, NEW D, D \subseteq C,
           C \subseteq Mine(w),
           \A c \in Clients : buf'[c] = IF c \in C THEN {} ELSE buf[c],
           Flushed(D) \/ sent' = sent, step[w] # "drain" \/ DeliverDrain(w),
           NEW i \in Ids
    PROVE  Kept(i) \/ Emptied(i)
<1>1. C \subseteq Clients /\ D \subseteq Clients /\ \A c \in C : Owner[c] = w
  BY DEF Mine
<1>2. /\ \A c \in Clients : i \in buf[c] => c = Target(i) /\ sent[i] = 0
      /\ Target(i) \in Clients
  BY LetterFacts, MailboxAssumption DEF FrameInv, FrameOk, Ids, Target
<1>3. CASE \E c \in C : i \in buf[c]
  <2>1. Target(i) \in C /\ i \in buf[Target(i)] /\ Home(i) = w /\ sent[i] = 0
    BY <1>1, <1>2, <1>3 DEF Home
  <2>2. \A c \in Clients : i \notin buf'[c]
    BY <1>1, <1>2, <2>1
  <2>3. sent'[i] \in {0, 1}
    <3>1. CASE Flushed(D)
      BY <1>1, <2>1, <3>1, FlushFacts
    <3>2. CASE sent' = sent
      BY <2>1, <3>2
    <3> QED
      BY <3>1, <3>2
  <2> QED
    BY <2>1, <2>2, <2>3 DEF Emptied, At
<1>4. CASE ~\E c \in C : i \in buf[c]
  <2>1. sent'[i] = sent[i]
    <3>1. CASE Flushed(D)
      BY <1>1, <1>4, <3>1, FlushFacts
    <3> QED
      BY <3>1
  <2>2. \A c \in Clients : i \in buf'[c] <=> i \in buf[c]
    BY <1>4
  <2> QED
    BY <2>1, <2>2 DEF Kept
<1> QED
  BY <1>3, <1>4

(* The frames the message handler touches.                                   *)
LEMMA MailFrames ==
    ASSUME TypeInv, HandInv, FrameInv, NEW w \in Workers, MailStep(w), NEW i \in Ids
    PROVE  Kept(i) \/ Emptied(i) \/ Written(i)
<1>1. ASSUME UNCHANGED <<buf, sent>>
      PROVE  Kept(i)
  BY <1>1 DEF Kept
<1>2. CASE DeliverCheck(w) \/ DeliverClaim(w) \/ DeliverComplete(w) \/ TeardownPurge(w)
             \/ TeardownReclaim(w)
  BY <1>1, <1>2 DEF DeliverCheck, DeliverClaim, DeliverComplete, TeardownPurge,
     TeardownReclaim, conns
<1>3. step[w] # "none" => msg[w] \in Post(w) /\ msg[w].to \in Mine(w)
          /\ msg[w].to \in Clients
  BY PostFacts DEF HandInv, Post, Mine, Message
<1>4. CASE DeliverSend(w)
  <2>1. CASE UNCHANGED buf
    BY <1>1, <1>4, <2>1 DEF DeliverSend
  <2>2. CASE buf' = [buf EXCEPT ![msg[w].to] = @ \cup {msg[w].id}]
    <3>1. /\ msg[w].kind = "SEND" /\ msg[w] \in Post(w) /\ msg[w].to \in Clients
          /\ step[w] = "send" /\ sent' = sent
      BY <1>3, <1>4 DEF DeliverSend, HandInv, Carrying
    <3>2. msg[w].to = Target(msg[w].id) /\ Home(msg[w].id) = w
      BY <3>1, PostFacts DEF Post
    <3>3. CASE i = msg[w].id
      BY <1>4, <2>2, <3>1, <3>2, <3>3 DEF Written, At, TypeInv, TypeConns
    <3>4. CASE i # msg[w].id
      BY <2>2, <3>1, <3>4 DEF Kept, TypeInv, TypeConns
    <3> QED
      BY <3>3, <3>4
  <2> QED
    BY <1>4, <2>1, <2>2 DEF DeliverSend
<1>5. ASSUME NEW c \in Mine(w), buf' = [buf EXCEPT ![c] = {}],
             Flushed({c}) \/ sent' = sent, step[w] # "drain" \/ DeliverDrain(w)
      PROVE  Kept(i) \/ Emptied(i)
  <2>1. \A d \in Clients : buf'[d] = IF d \in {c} THEN {} ELSE buf[d]
    BY <1>5 DEF TypeInv, TypeConns
  <2>2. {c} \subseteq Mine(w)
    BY <1>5
  <2> QED
    BY <1>5, <2>1, <2>2, Empties
<1>6. CASE DeliverDrain(w)
  <2>1. CASE UNCHANGED <<buf, sent>>
    BY <1>1, <2>1
  <2>2. CASE ~UNCHANGED <<buf, sent>>
    <3>1. msg[w].to \in Mine(w) /\ buf' = [buf EXCEPT ![msg[w].to] = {}]
             /\ (Flushed({msg[w].to}) \/ sent' = sent)
      BY <1>3, <1>6, <2>2 DEF DeliverDrain
    <3> QED
      BY <1>5, <1>6, <3>1
  <2> QED
    BY <2>1, <2>2
<1>7. CASE DeliverFinish(w)
  <2>1. CASE UNCHANGED <<buf, sent>>
    BY <1>1, <2>1
  <2>2. CASE ~UNCHANGED <<buf, sent>>
    <3>1. /\ msg[w].to \in Mine(w) /\ buf' = [buf EXCEPT ![msg[w].to] = {}]
          /\ Flushed({msg[w].to}) \/ sent' = sent
          /\ step[w] # "drain"
      BY <1>3, <1>7, <2>2 DEF DeliverFinish, FinishClosing
    <3> QED
      BY <1>5, <3>1
  <2> QED
    BY <2>1, <2>2
<1> QED
  BY <1>2, <1>4, <1>6, <1>7 DEF MailStep

(* The event loop and the service of a blocked worker flush their clients.   *)
LEMMA FlushFrames ==
    ASSUME TypeInv, HandInv, FrameInv, NEW w \in Workers,
           \/ \E c \in Clients : Flush(w, c) \/ PeerClose(w, c)
           \/ ServeFlush(w) /\ step[w] = "none",
           NEW i \in Ids
    PROVE  Kept(i) \/ Emptied(i)
<1>1. ASSUME NEW c \in Clients, Flush(w, c) \/ PeerClose(w, c)
      PROVE  Kept(i) \/ Emptied(i)
  <2>1. /\ {c} \subseteq Mine(w) /\ buf' = [buf EXCEPT ![c] = {}]
        /\ Flushed({c}) \/ sent' = sent
        /\ pc[w] = "idle"
    BY <1>1 DEF Flush, PeerClose
  <2>2. step[w] # "drain" /\ \A d \in Clients : buf'[d] = IF d \in {c} THEN {} ELSE buf[d]
    BY <2>1 DEF HandInv, TypeInv, TypeConns
  <2> QED
    BY <2>1, <2>2, Empties
<1>2. ASSUME ServeFlush(w), step[w] = "none"
      PROVE  Kept(i) \/ Emptied(i)
  <2>1. PICK F \in SUBSET {c \in Mine(w) : buf[c] # {}} :
          \E X \in SUBSET {c \in Mine(w) \ F : buf[c] # {}} :
             /\ Flushed(F)
             /\ buf' = [c \in Clients |-> IF c \in F \cup X THEN {} ELSE buf[c]]
    BY <1>2 DEF ServeFlush
  <2>2. PICK X \in SUBSET {c \in Mine(w) \ F : buf[c] # {}} :
             /\ Flushed(F)
             /\ buf' = [c \in Clients |-> IF c \in F \cup X THEN {} ELSE buf[c]]
    BY <2>1
  <2>3. /\ F \subseteq F \cup X /\ F \cup X \subseteq Mine(w)
        /\ \A c \in Clients : buf'[c] = IF c \in F \cup X THEN {} ELSE buf[c]
    BY <2>2
  <2> QED
    BY <1>2, <2>2, <2>3, Empties
<1> QED
  BY <1>1, <1>2

(* Every step keeps, writes or empties the frame of i.                       *)
LEMMA FramesStep ==
    ASSUME IInv, Next, NEW i \in Ids
    PROVE  Kept(i) \/ Emptied(i) \/ Written(i)
<1>0. TypeInv /\ HandInv /\ FrameInv
  BY DEF IInv
<1>1. ASSUME UNCHANGED <<buf, sent>>
      PROVE  Kept(i)
  BY <1>1 DEF Kept
<1>2. ASSUME NEW w \in Workers, MailStep(w)
      PROVE  Kept(i) \/ Emptied(i) \/ Written(i)
  BY <1>0, <1>2, MailFrames
<1>3. ASSUME NEW w \in Workers, NEW c \in Clients, Flush(w, c) \/ PeerClose(w, c)
      PROVE  Kept(i) \/ Emptied(i)
  BY <1>0, <1>3, FlushFrames
<1>4. ASSUME NEW w \in Workers, ServeBlocked(w)
      PROVE  Kept(i) \/ Emptied(i)
  <2>1. CASE ServeFlush(w)
    BY <1>0, <1>4, <2>1, FlushFrames DEF ServeBlocked
  <2>2. CASE UNCHANGED <<buf, sent>>
    BY <1>1, <2>2
  <2> QED
    BY <1>4, <2>1, <2>2 DEF ServeBlocked, ServePop, ServeNext
<1>5. ASSUME NEW w \in Workers,
             EventLoop(w) \/ PushRequest(w) \/ SignalRequest(w) \/ Look(w) \/ Slept(w)
               \/ AnswerRequest(w) \/ Expire(w) \/ \E r \in Requests : StartRequest(w, r)
      PROVE  Kept(i)
  BY <1>1, <1>5 DEF EventLoop, WakeupDrain, TakeBatch, BatchNext, BatchEnd, PushRequest,
     SignalRequest, Look, Slept, AnswerRequest, Expire, StartRequest, conns
<1>6. ASSUME \/ \E c \in Clients : PushTeardown(c) \/ AccountDies(c)
             \/ \E s \in Sends : PushSend(s)
             \/ SignalPushed
      PROVE  Kept(i)
  BY <1>1, <1>6 DEF PushTeardown, AccountDies, PushSend, SignalPushed, conns
<1> QED
  BY <1>2, <1>3, <1>4, <1>5, <1>6 DEF Next, WorkerStep, RequestStep

-----------------------------------------------------------------------------
(* When a push may follow.                                                   *)

(* The REQUEST of q is where it was.                                         *)
SameRun(q) == /\ answer'[q] = answer[q] /\ (Running(q)' <=> Running(q))
              /\ Running(q) => /\ pc'[Pub(q)] = pc[Pub(q)]
                               /\ code'[Pub(q)] = code[Pub(q)]

(* A carrier drops its reference; no slot changes otherwise.                 *)
LEMMA CarrierDrops ==
    ASSUME IInv, NEW w \in Workers,
           MailStep(w) \/ \E c \in Clients : PeerClose(w, c), NEW r \in Requests
    PROVE  /\ refs'[r] = refs[r] \/ (On(r) /\ refs'[r] = refs[r] - 1)
           /\ SameRun(r) /\ pushed' = pushed /\ late' = late
<1>0. Moving /\ TypeInv /\ HandInv /\ TypeSlots
  BY DEF IInv, Moving, TypeInv
<1>1. UNCHANGED <<pc, req, answer, code, pushed, late>>
  BY DEF MailStep, DeliverCheck, DeliverClaim, DeliverSend, DeliverDrain,
     DeliverComplete, DeliverFinish, TeardownPurge, TeardownReclaim, PeerClose, wait,
     accept
<1>2. SameRun(r)
  BY <1>1 DEF SameRun, Running
<1>3. ASSUME NEW R, NEW v, CompleteSync(R, v), \A q \in Requests : q \in R => On(q)
      PROVE  refs'[r] = refs[r] \/ (On(r) /\ refs'[r] = refs[r] - 1)
  BY <1>3 DEF CompleteSync, Release
<1>4. ASSUME NEW c \in Clients, Purge(w, c), batch' = batch
      PROVE  refs'[r] = refs[r] \/ (On(r) /\ refs'[r] = refs[r] - 1)
  <2> DEFINE R == BoxIds(w) \cap ToClient(c) \cap Requests
  <2>1. CompleteSync(R, -1)
    BY <1>0, <1>4, PurgeMoves DEF TypeInv
  <2>2. \A q \in Requests : q \in R => On(q)
    BY <1>0, AtHome DEF Ids
  <2> HIDE DEF R
  <2> QED
    BY <1>3, <2>1, <2>2
<1>5. CASE DeliverComplete(w)
  <2> DEFINE R == SyncOf(msg[w])
  <2>1. \A q \in Requests : q \in R => On(q)
    BY <1>0, <1>5, OnComplete DEF Ids, SyncOf
  <2>2. PICK v : CompleteSync(R, v)
    BY <1>5 DEF DeliverComplete
  <2> HIDE DEF R
  <2> QED
    BY <1>1, <1>2, <1>3, <2>1, <2>2
<1>6. CASE DeliverFinish(w) \/ TeardownPurge(w)
  <2>1. batch' = batch /\ msg[w].to \in Clients
    BY <1>0, <1>6, PostFacts DEF DeliverFinish, TeardownPurge, HandInv
  <2>2. CASE Purge(w, msg[w].to)
    BY <1>1, <1>2, <1>4, <2>1, <2>2
  <2>3. CASE refs' = refs
    BY <1>1, <1>2, <2>3
  <2> QED
    BY <1>6, <2>2, <2>3 DEF DeliverFinish, TeardownPurge, FinishClosing, slots
<1>7. CASE \E c \in Clients : PeerClose(w, c)
  <2>1. PICK c \in Clients : Purge(w, c) /\ batch' = batch
    BY <1>7 DEF PeerClose
  <2> QED
    BY <1>1, <1>2, <1>4, <2>1
<1>8. CASE DeliverCheck(w) \/ DeliverClaim(w) \/ DeliverSend(w) \/ DeliverDrain(w)
             \/ TeardownReclaim(w)
  BY <1>1, <1>2, <1>8 DEF DeliverCheck, DeliverClaim, DeliverSend, DeliverDrain,
     TeardownReclaim, slots
<1> QED
  BY <1>5, <1>6, <1>7, <1>8 DEF MailStep

(* A step of w leaves the REQUESTs it does not run alone.                    *)
LEMMA OtherSame ==
    ASSUME Base, NEW w \in Workers,
           EventLoop(w) \/ RequestStep(w) \/ Expire(w), NEW q \in Requests, q # req[w]
    PROVE  SameRun(q) /\ refs'[q] = refs[q]
<1>1. Pub(q) \in Workers
  BY LetterFacts
<1>2. pc'[Pub(q)] # pc[Pub(q)] \/ req'[Pub(q)] # req[Pub(q)] \/ code'[Pub(q)] # code[Pub(q)]
          => Pub(q) = w
  BY <1>1 DEF EventLoop, WakeupDrain, TakeBatch, BatchNext, BatchEnd, RequestStep,
     PushRequest, SignalRequest, Look, Slept, AnswerRequest, ServeBlocked, Expire,
     PushFailed, Serve, Return, Go, Decided, Abandon, Wait, ServePop, ServeNext,
     ServeFlush, wait, Base, TypeInv, TypeControl
<1>3. req'[w] = req[w] \/ req'[w] = NoId
  BY DEF EventLoop, WakeupDrain, TakeBatch, BatchNext, BatchEnd, RequestStep,
     PushRequest, SignalRequest, Look, Slept, AnswerRequest, ServeBlocked, Expire,
     wait, Base, TypeInv, TypeControl
<1>4. (Running(q)' <=> Running(q)) /\ (Running(q) => Pub(q) # w)
  BY <1>1, <1>2, <1>3, MailboxAssumption DEF Running
<1>5. answer'[q] = answer[q]
  BY DEF EventLoop, WakeupDrain, TakeBatch, BatchNext, BatchEnd, RequestStep,
     PushRequest, SignalRequest, Look, Slept, AnswerRequest, ServeBlocked, Expire,
     Base, TypeInv, TypeControl
<1>6. refs'[q] = refs[q]
  BY DEF EventLoop, WakeupDrain, TakeBatch, BatchNext, BatchEnd, RequestStep,
     PushRequest, SignalRequest, Look, Slept, AnswerRequest, ServeBlocked, Expire,
     Decided, Abandon, Wait, Release, slots, Base, TypeInv, TypeSlots
<1> QED
  BY <1>2, <1>4, <1>5, <1>6 DEF SameRun

(* A REQUEST that is where it was is unpushed when it was before.            *)
LEMMA SameUnpushed ==
    ASSUME NEW q \in Requests, SameRun(q), refs'[q] = refs[q]
    PROVE  Unpushed(q)' <=> Unpushed(q)
BY DEF SameRun, Unpushed

(* The steps that are no worker's REQUEST, and the slots.                    *)
LEMMA ApartSame ==
    ASSUME Base, NEW r \in Requests,
           \/ \E w \in Workers, c \in Clients : Flush(w, c)
           \/ \E c \in Clients : PushTeardown(c) \/ AccountDies(c)
           \/ \E s \in Sends : PushSend(s)
           \/ SignalPushed
    PROVE  SameRun(r) /\ refs'[r] = refs[r]
<1>1. UNCHANGED <<pc, req, answer, code, refs>>
  BY DEF Flush, PushTeardown, AccountDies, PushSend, SignalPushed, wait, slots
<1> QED
  BY <1>1 DEF SameRun, Running

(* A REQUEST becomes unpushed only when its letter is unlinked, unannounced. *)
LEMMA UnpushedStep ==
    ASSUME IInv, Next, NEW r \in Requests, Unpushed(r)'
    PROVE  Unpushed(r) \/ (Leaves(r) /\ r \notin late')
<1>0. /\ Moving /\ Base /\ OnceInv /\ SlotInv /\ FrameInv /\ TypeInv
      /\ SlotOk(r) /\ refs[r] \in Int /\ Pub(r) \in Workers
  BY LetterFacts DEF IInv, Moving, Base, SlotInv, TypeInv, TypeSlots
<1> DEFINE Goal == Unpushed(r) \/ (Leaves(r) /\ r \notin late')
<1> HIDE DEF Goal
<1>1. ASSUME SameRun(r), refs'[r] = refs[r]
      PROVE  Goal
  BY <1>1, SameUnpushed DEF Goal
<1>2. ASSUME NEW w \in Workers, MailStep(w) \/ \E c \in Clients : PeerClose(w, c)
      PROVE  Goal
  <2>1. SameRun(r) /\ (refs'[r] = refs[r] \/ (On(r) /\ refs'[r] = refs[r] - 1))
    BY <1>2, CarrierDrops
  <2>2. CASE On(r) /\ refs'[r] = refs[r] - 1
    <3>1. CASE Holds(r)
      <4>1. refs'[r] = 1
        BY <1>0, <2>2, <3>1 DEF SlotOk
      <4> QED
        BY <2>1, <4>1 DEF Unpushed, SameRun, Goal
    <3>2. CASE ~Holds(r)
      <4>1. refs[r] = 1
        BY <1>0, <2>2, <3>2 DEF SlotOk
      <4> QED
        BY <2>1, <3>2, <4>1 DEF Unpushed, SameRun, Goal, Holds
    <3> QED
      BY <3>1, <3>2
  <2> QED
    BY <1>1, <2>1, <2>2
<1>3. ASSUME NEW w \in Workers, EventLoop(w) \/ RequestStep(w) \/ Expire(w), r # req[w]
      PROVE  Goal
  BY <1>0, <1>1, <1>3, OtherSame
<1>4. ASSUME \/ \E w \in Workers, c \in Clients : Flush(w, c)
             \/ \E c \in Clients : PushTeardown(c) \/ AccountDies(c)
             \/ \E s \in Sends : PushSend(s)
             \/ SignalPushed
      PROVE  Goal
  BY <1>0, <1>1, <1>4, ApartSame
<1>5. ASSUME NEW w \in Workers, NEW q \in Requests, StartRequest(w, q)
      PROVE  Goal
  <2>1. CASE r = q
    BY <1>5, <2>1 DEF StartRequest, Goal, Unpushed
  <2>2. CASE r # q
    <3>1. /\ req' = [req EXCEPT ![w] = q] /\ pc' = [pc EXCEPT ![w] = "push"]
          /\ answer' = [answer EXCEPT ![q] = "waiting"] /\ req[w] = NoId
          /\ UNCHANGED <<code, refs>>
      BY <1>0, <1>5 DEF StartRequest, Go, slots, Base, RunInv
    <3>2. SameRun(r)
      BY <1>0, <2>2, <3>1, MailboxAssumption DEF SameRun, Running, TypeInv, TypeControl
    <3> QED
      BY <1>1, <3>1, <3>2
  <2> QED
    BY <2>1, <2>2
<1>6. ASSUME NEW w \in Workers, EventLoop(w), r = req[w]
      PROVE  Goal
  <2>1. req[w] = NoId
    BY <1>0, <1>6 DEF EventLoop, WakeupDrain, TakeBatch, BatchNext, BatchEnd, Base, RunInv
  <2> QED
    BY <1>6, <2>1, MailboxAssumption
<1>7. ASSUME NEW w \in Workers, r = req[w], Expire(w)
      PROVE  Goal
  <2>1. UNCHANGED <<pc, req, answer, code, refs>>
    BY <1>7 DEF Expire, slots
  <2> QED
    BY <1>1, <2>1 DEF SameRun, Running
<1>8. ASSUME NEW w \in Workers, r = req[w], RequestStep(w)
      PROVE  Goal
  <2>0. /\ Pub(r) = w /\ Running(r) /\ answer[r] = "waiting"
        /\ pc[w] \in {"push", "signal", "look", "serve", "slept", "answer"}
    BY <1>0, <1>8, RequestFacts DEF RequestStep, PushRequest, SignalRequest, Look,
       ServeBlocked, Slept, AnswerRequest
  <2>1. CASE PushRequest(w)
    BY <2>0, <2>1 DEF PushRequest, Goal, Unpushed
  <2>2. CASE SignalRequest(w)
    <3>1. CASE Go(w, "look") /\ answer' = answer
      BY <1>0, <2>0, <3>1 DEF Go, Unpushed, TypeInv, TypeControl
    <3>2. CASE Unlinked(Peer(w), Letter(w)) /\ Unlink(Peer(w), Letter(w))
                 /\ late' = late \ {req[w]}
      <4>1. pc[w] = "signal" /\ UNCHANGED <<batch, step, msg>>
        BY <2>2 DEF SignalRequest, mbox
      <4>2. Sheds(Peer(w), {r}) /\ r \in BoxIds(Peer(w)) /\ Peer(w) \in Workers
        BY <1>0, <1>8, <3>2, <4>1, LetterUnlinks, RequestFacts
      <4>3. Leaves(r)
        BY <1>0, <4>1, <4>2, ShedMoves DEF Ids, At
      <4> QED
        BY <1>8, <3>2, <4>3 DEF Goal
    <3> QED
      BY <2>2, <3>1, <3>2 DEF SignalRequest
  <2>3. CASE Look(w)
    <3>1. pc[w] = "look" /\ Holds(r) /\ refs[r] > 0
      BY <1>0, <2>0, <2>3 DEF Look, Holds, SlotOk
    <3>2. CASE Go(w, "answer") /\ answer' = answer
      BY <1>0, <2>0, <3>2 DEF Go, Unpushed, TypeInv, TypeControl
    <3>3. CASE Go(w, "serve") /\ answer' = answer /\ refs' = refs
      BY <1>0, <2>0, <3>1, <3>3 DEF Go, Unpushed, TypeInv, TypeControl
    <3> QED
      BY <2>3, <3>2, <3>3 DEF Look, Decided, Abandon, Wait, Return, Serve
  <2>4. CASE ServeBlocked(w)
    <3>1. CASE ServeFlush(w)
      <4>1. pc' = [pc EXCEPT ![w] = "slept"] /\ UNCHANGED <<answer, refs>> /\ pc[w] = "serve"
        BY <2>4, <3>1 DEF ServeFlush, ServeBlocked, Go, slots
      <4>2. pc'[w] = "slept"
        BY <1>0, <4>1 DEF TypeInv, TypeControl
      <4> QED
        BY <2>0, <4>1, <4>2 DEF Unpushed, Goal
    <3>2. CASE pc' = pc
      <4>1. UNCHANGED <<pc, req, answer, code, refs>>
        BY <2>4, <3>2 DEF ServeBlocked, slots
      <4> QED
        BY <1>1, <4>1 DEF SameRun, Running
    <3> QED
      BY <2>4, <3>1, <3>2 DEF ServeBlocked, ServePop, ServeNext
  <2>5. CASE Slept(w)
    <3>1. CASE refs[r] = 0
      BY <2>0, <2>5, <3>1 DEF Slept, Goal, Unpushed
    <3>2. CASE refs[r] # 0
      <4>1. answer' = answer /\ (Go(w, "look") \/ Go(w, "answer"))
        BY <1>8, <2>5, <3>2 DEF Slept, Return
      <4>2. pc'[w] \in {"look", "answer"}
        BY <1>0, <4>1 DEF Go, TypeInv, TypeControl
      <4> QED
        BY <2>0, <4>1, <4>2 DEF Unpushed
    <3> QED
      BY <3>1, <3>2
  <2>6. CASE AnswerRequest(w)
    <3>1. PICK a : answer' = [answer EXCEPT ![r] = a] /\ a # "none"
      <4>1. code[w] \in {0, 1, -1}
        BY <1>0 DEF TypeInv, TypeControl
      <4> QED
        BY <1>8, <2>6, <4>1 DEF AnswerRequest
    <3>2. pc' = [pc EXCEPT ![w] = "idle"]
      BY <2>6 DEF AnswerRequest, Go
    <3>3. answer'[r] # "none" /\ pc'[w] = "idle"
      BY <1>0, <3>1, <3>2 DEF TypeInv, TypeControl
    <3> QED
      BY <2>0, <3>3 DEF Unpushed
  <2> QED
    BY <1>8, <2>1, <2>2, <2>3, <2>4, <2>5, <2>6 DEF RequestStep
<1> QED
  BY <1>2, <1>3, <1>4, <1>5, <1>6, <1>7, <1>8 DEF Next, WorkerStep, Goal

(* The ways to move exclude each other as far as they are needed.            *)
LEMMA EntersOnly ==
    ASSUME NEW i \in Ids, Enters(i)
    PROVE  ~Still(i) /\ ~Taken(i) /\ ~Leaves(i) /\ ~Delivers(i)
<1>1. ~Waiting(i) /\ Waiting(i)' /\ \A l \in Carrying : ~At(i, l)
  BY OnIs DEF Enters
<1> QED
  BY <1>1 DEF Still, Taken, Leaves, Delivers, Carrying

(* A plain SEND is pushed once.                                              *)
LEMMA SendPushed ==
    ASSUME IInv, Next, NEW s \in Sends
    PROVE  s \in pushed \/ Enters(s) => s \in pushed'
<1>0. Moving /\ Base /\ OnceInv /\ SlotInv /\ FrameInv /\ s \in Ids /\ s \notin Requests
  BY LetterFacts DEF IInv, Moving, Base, Ids
<1>1. ASSUME NEW w \in Workers, MailStep(w)
      PROVE  pushed' = pushed /\ ~Enters(s)
  <2>1. pushed' = pushed
    BY <1>1 DEF MailStep, DeliverCheck, DeliverClaim, DeliverSend, DeliverDrain,
       DeliverComplete, DeliverFinish, TeardownPurge, TeardownReclaim, accept
  <2> QED
    BY <1>0, <1>1, <2>1, StageMoves, RestMoves, EntersOnly DEF MailStep
<1>2. ASSUME NEW w \in Workers, EventLoop(w) \/ ServeBlocked(w)
      PROVE  pushed' = pushed /\ ~Enters(s)
  <2>1. pushed' = pushed
    BY <1>2 DEF EventLoop, WakeupDrain, TakeBatch, BatchNext, BatchEnd, ServeBlocked,
       accept
  <2> QED
    BY <1>0, <1>2, <2>1, LoopMoves, EntersOnly
<1>3. ASSUME NEW w \in Workers, PushRequest(w) \/ SignalRequest(w) \/ Slept(w)
      PROVE  pushed' = pushed /\ ~Enters(s)
  <2>1. pushed' = pushed /\ req[w] \in Requests
    BY <1>0, <1>3, RequestFacts DEF PushRequest, SignalRequest, Slept, accept
  <2>2. Still(s)
    BY <1>0, <1>3, <2>1, RequestMoves
  <2> QED
    BY <1>0, <2>1, <2>2, EntersOnly
<1>4. ASSUME Resting
      PROVE  pushed' = pushed /\ ~Enters(s)
  <2>1. pushed' = pushed
    BY <1>4 DEF Resting, Look, AnswerRequest, Expire, StartRequest, Flush, AccountDies,
       accept
  <2> QED
    BY <1>0, <1>4, <2>1, RestingMoves, EntersOnly
<1>5. ASSUME NEW w \in Workers, NEW c \in Clients, PeerClose(w, c)
      PROVE  pushed' = pushed /\ ~Enters(s)
  BY <1>0, <1>5, CloseMoves, EntersOnly DEF PeerClose, accept
<1>6. ASSUME \/ \E c \in Clients : PushTeardown(c)
             \/ \E t \in Sends : PushSend(t)
             \/ SignalPushed
      PROVE  s \in pushed \/ Enters(s) => s \in pushed'
  <2>1. pushed \subseteq pushed'
    BY <1>6 DEF PushTeardown, PushSend, SignalPushed
  <2> QED
    BY <1>0, <1>6, <2>1, AcceptorMoves, EntersOnly
<1> QED
  BY <1>1, <1>2, <1>3, <1>4, <1>5, <1>6 DEF Next, WorkerStep, RequestStep, Resting

(* What may be pushed after a step could be before, or was unlinked.         *)
LEMMA FreshStep ==
    ASSUME IInv, Next, NEW i \in Ids, Fresh(i)'
    PROVE  ~On(i)' /\ (Fresh(i) \/ (Leaves(i) /\ i \notin late'))
<1>1. CASE i \in Requests
  <2>1. Unpushed(i)' /\ SlotOk(i)'
    BY <1>1, SlotStep DEF Fresh, SlotInv
  <2>2. ~On(i)'
    BY <2>1 DEF SlotOk, Unpushed, Holds
  <2> QED
    BY <1>1, <2>1, <2>2, UnpushedStep DEF Fresh
<1>2. CASE i \in Sends
  <2>1. i \notin pushed /\ ~Enters(i) /\ i \notin Requests
    BY <1>2, SendPushed, LetterFacts DEF Fresh
  <2>2. Fresh(i) /\ ~On(i)
    BY <2>1 DEF Fresh, IInv, FrameInv, FrameOk
  <2>3. Still(i)
    BY <2>1, <2>2, MovedStep, OnIs DEF Moved, Taken, Leaves, Delivers, Carrying
  <2> QED
    BY <2>2, <2>3, OnIs DEF Still
<1> QED
  BY <1>1, <1>2 DEF Ids

(* Where a frame can be while its message is early.                          *)
LEMMA EarlyStep ==
    ASSUME IInv, Next, NEW i \in Ids, Early(i)'
    PROVE  (Early(i) \/ Fresh(i)) /\ ~Written(i)
<1>0. Moving /\ OnceInv
  BY DEF IInv, Moving
<1>1. Moved(i) /\ "check" \in Carrying /\ "claim" \in Carrying /\ "send" \in Carrying
          /\ "drain" \in Carrying /\ "complete" \in Carrying
  BY MovedStep DEF Carrying
<1>2. CASE Still(i)
  <2>1. Early(i)
    BY <1>1, <1>2 DEF Still, Early
  <2>2. ASSUME Written(i)
        PROVE  FALSE
    <3>1. At(i, "send") /\ DeliverSend(Home(i)) /\ ~Waiting(i)
      BY <1>0, <1>1, <2>2, OnePlace DEF Written
    <3>2. Delivers(i) /\ At(i, "send")'
      BY <1>1, <1>2, <3>1 DEF Delivers, Still
    <3> QED
      BY <1>0, <3>1, <3>2, StageAfter DEF At
  <2> QED
    BY <2>1, <2>2
<1>3. CASE Taken(i) \/ Leaves(i)
  BY <1>0, <1>1, <1>3, OnePlace DEF Taken, Leaves, Early, Written
<1>4. CASE Enters(i)
  BY <1>1, <1>4, OnIs DEF Enters, Written
<1>5. CASE Delivers(i)
  <2>1. ~At(i, "send")
    BY <1>0, <1>5, StageAfter DEF Early, At, Delivers
  <2>2. At(i, "check") \/ At(i, "claim")
    BY <1>0, <1>1, <1>5, <2>1, StageAfter DEF Early, At, Delivers
  <2> QED
    BY <2>1, <2>2 DEF Early, Written
<1> QED
  BY <1>1, <1>2, <1>3, <1>4, <1>5 DEF Moved

(* Frames stay in one place.                                                 *)
LEMMA FrameStep ==
    ASSUME IInv, Next
    PROVE  FrameInv'
<1> SUFFICES ASSUME NEW i \in Ids
             PROVE  FrameOk(i)'
  BY DEF FrameInv
<1>0. Moving /\ OnceInv /\ FrameOk(i) /\ Target(i) \in Clients /\ sent[i] \in Nat
  BY MailboxAssumption DEF IInv, Moving, FrameInv, Target, Ids, TypeInv, TypeConns
<1>1. Kept(i) \/ Emptied(i) \/ Written(i)
  BY FramesStep
<1>2. Written(i) => Unseen(i)
  BY <1>0 DEF Written, FrameOk, Early
<1>3. /\ sent'[i] <= 1
      /\ \A c \in Clients : i \in buf'[c] => c = Target(i) /\ sent'[i] = 0
  <2>1. CASE Kept(i)
    BY <1>0, <2>1 DEF Kept, FrameOk
  <2>2. CASE Emptied(i)
    BY <2>2 DEF Emptied
  <2>3. CASE Written(i)
    BY <1>2, <2>3 DEF Written, Unseen
  <2> QED
    BY <1>1, <2>1, <2>2, <2>3
<1>4. Unseen(i) /\ ~Written(i) => Unseen(i)'
  BY <1>0, <1>1 DEF Unseen, Kept, Emptied
<1>5. Early(i)' => Unseen(i)'
  BY <1>0, <1>4, EarlyStep DEF FrameOk
<1>6. Fresh(i)' => ~On(i)' /\ Unseen(i)'
  <2> SUFFICES ASSUME Fresh(i)'
               PROVE  ~On(i)' /\ Unseen(i)'
    OBVIOUS
  <2>1. ~On(i)' /\ (Fresh(i) \/ Leaves(i))
    BY FreshStep
  <2>2. Unseen(i)
    BY <1>0, <2>1 DEF FrameOk, Leaves, Early
  <2>3. ~At(i, "send")
    BY <1>0, <2>1, OnIs, OnePlace DEF FrameOk, Leaves, Carrying
  <2> QED
    BY <1>4, <2>1, <2>2, <2>3 DEF Written
<1>7. At(i, "drain")' => i \in buf'[Target(i)]
  <2> SUFFICES ASSUME At(i, "drain")'
               PROVE  i \in buf'[Target(i)]
    OBVIOUS
  <2>0. Moved(i) /\ "drain" \in Carrying /\ "send" \in Carrying
    BY MovedStep DEF Carrying
  <2>1. CASE Still(i)
    <3>1. At(i, "drain") /\ i \in buf[Target(i)]
      BY <1>0, <2>0, <2>1 DEF Still, FrameOk
    <3>2. ~Emptied(i)
      <4> SUFFICES ASSUME Emptied(i)
                   PROVE  FALSE
        OBVIOUS
      <4>1. DeliverDrain(Home(i)) /\ ~Waiting(i) /\ ~Waiting(i)'
        BY <1>0, <2>0, <2>1, <3>1, OnePlace DEF Emptied, Still
      <4>2. Delivers(i)
        BY <3>1, <4>1 DEF Delivers
      <4> QED
        BY <1>0, <3>1, <4>2, StageAfter DEF At
    <3> QED
      BY <1>0, <1>1, <3>1, <3>2 DEF Kept, Written
  <2>2. CASE Taken(i)
    BY <2>2 DEF Taken, At
  <2>3. CASE Leaves(i) \/ Enters(i)
    BY <2>0, <2>3, OnIs DEF Leaves, Enters
  <2>4. CASE Delivers(i)
    <3>1. At(i, "send") /\ DeliverSend(Home(i))
      BY <1>0, <2>4, StageAfter DEF Delivers, At, Carrying
    <3>2. i \in buf'[Target(i)]
      <4>1. Home(i) \in Workers /\ step'[Home(i)] = "drain" /\ msg[Home(i)].id = i
        BY <3>1, LetterFacts DEF At, Ids
      <4>2. /\ ~Then(Home(i), "complete") /\ msg[Home(i)] \in Post(Home(i))
            /\ msg[Home(i)].kind = "SEND"
        BY <1>0, <3>1, <4>1 DEF Then, Moving, TypeInv, TypeControl, HandInv, At, Carrying
      <4>3. msg[Home(i)].to = Target(i)
        BY <4>1, <4>2 DEF Post
      <4>4. buf' = [buf EXCEPT ![Target(i)] = @ \cup {i}]
        BY <3>1, <4>1, <4>2, <4>3 DEF DeliverSend
      <4> QED
        BY <1>0, <4>4 DEF Moving, TypeInv, TypeConns
    <3> QED
      BY <3>2
  <2> QED
    BY <2>0, <2>1, <2>2, <2>3, <2>4 DEF Moved
<1> QED
  BY <1>3, <1>5, <1>6, <1>7 DEF FrameOk

-----------------------------------------------------------------------------
(* What a step does to the result of r's slot.                               *)

SlotSame(r) == result'[r] = result[r] /\ (r \in buffered' <=> r \in buffered)
(* A fresh slot is allocated.                                                *)
Resets(r) == /\ PushRequest(Pub(r)) /\ Running(r) /\ Unpushed(r)
             /\ result'[r] = 0 /\ r \notin buffered'
(* It fails without having been delivered.                                   *)
Fails(r) == /\ result[r] = 0 \/ Leaves(r)
            /\ result'[r] = -1 /\ (r \in buffered' <=> r \in buffered)
(* The handler that has the message in hand decides.                         *)
Decides(r) == Delivers(r) /\ ~At(r, "check") /\ ~At(r, "drain")

(* Only the REQUEST's own worker queues its letter.                          *)
LEMMA RequestEnters ==
    ASSUME IInv, Next, NEW r \in Requests, Enters(r)
    PROVE  PushRequest(Pub(r)) /\ Running(r)
<1>0. Moving /\ Base /\ OnceInv /\ SlotInv /\ FrameInv /\ r \in Ids /\ r \notin Sends
  BY LetterFacts DEF IInv, Moving, Base, Ids
<1>1. ~Still(r) /\ ~Taken(r) /\ ~Leaves(r) /\ ~Delivers(r)
  BY <1>0, EntersOnly
<1>2. ASSUME NEW w \in Workers, MailStep(w)
      PROVE  FALSE
  BY <1>0, <1>1, <1>2, StageMoves, RestMoves DEF MailStep
<1>3. ASSUME NEW w \in Workers, EventLoop(w) \/ ServeBlocked(w)
      PROVE  FALSE
  BY <1>0, <1>1, <1>3, LoopMoves
<1>4. ASSUME NEW w \in Workers, PushRequest(w) \/ SignalRequest(w) \/ Slept(w)
      PROVE  PushRequest(Pub(r)) /\ Running(r)
  <2>1. r = req[w] /\ PushRequest(w)
    BY <1>0, <1>1, <1>4, RequestMoves
  <2> QED
    BY <1>0, <2>1, RequestFacts DEF PushRequest
<1>5. ASSUME Resting
      PROVE  FALSE
  BY <1>0, <1>1, <1>5, RestingMoves
<1>6. ASSUME NEW w \in Workers, NEW c \in Clients, PeerClose(w, c)
      PROVE  FALSE
  BY <1>0, <1>1, <1>6, CloseMoves
<1>7. ASSUME \/ \E c \in Clients : PushTeardown(c)
             \/ \E t \in Sends : PushSend(t)
             \/ SignalPushed
      PROVE  FALSE
  BY <1>0, <1>1, <1>7, AcceptorMoves
<1> QED
  BY <1>2, <1>3, <1>4, <1>5, <1>6, <1>7 DEF Next, WorkerStep, RequestStep, Resting

(* A purge fails the letters it unlinks.                                     *)
LEMMA PurgeResults ==
    ASSUME Moving, NEW w \in Workers, NEW c \in Clients, Purge(w, c), batch' = batch,
           NEW r \in Requests, \A l \in Carrying : At(r, l)' <=> At(r, l)
    PROVE  SlotSame(r) \/ Fails(r)
<1>1. CompleteSync(BoxIds(w) \cap ToClient(c) \cap Requests, -1)
  BY PurgeMoves DEF Moving, TypeInv
<1>2. IF r \in BoxIds(w) /\ Target(r) = c THEN Leaves(r) ELSE Still(r)
  BY PurgeTracks DEF Ids
<1>3. /\ buffered' = buffered
      /\ result'[r] = result[r] \/ (r \in BoxIds(w) /\ Target(r) = c /\ result'[r] = -1)
  BY <1>1 DEF CompleteSync, ToClient, Ids
<1> QED
  BY <1>2, <1>3 DEF SlotSame, Fails

(* What the message handler does to the result.                              *)
LEMMA MailResults ==
    ASSUME Moving, NEW w \in Workers, MailStep(w), NEW r \in Requests
    PROVE  SlotSame(r) \/ Fails(r) \/ Decides(r)
<1>0. TypeInv /\ HandInv /\ r \in Ids /\ Home(r) \in Workers
  BY LetterFacts DEF Moving, Ids
<1>1. CASE DeliverCheck(w) \/ DeliverDrain(w) \/ TeardownReclaim(w)
  BY <1>1 DEF DeliverCheck, DeliverDrain, TeardownReclaim, slots, SlotSame
<1>2. CASE DeliverClaim(w) \/ DeliverSend(w) \/ DeliverComplete(w)
  <2>1. CASE Home(r) = w /\ msg[w].id = r
    <3>1. At(r, step[w]) /\ step[w] \in {"claim", "send", "complete"}
      BY <1>2, <2>1 DEF At, DeliverClaim, DeliverSend, DeliverComplete
    <3>2. ~Waiting(r)
      BY <1>0, <3>1, OnePlace DEF Moving, Carrying
    <3>3. UNCHANGED <<mail, batch>>
      BY <1>2 DEF DeliverClaim, DeliverSend, DeliverComplete, boxes
    <3>4. ~Waiting(r)'
      BY <3>2, <3>3 DEF Waiting, BoxIds, TakenIds
    <3> QED
      BY <1>2, <2>1, <3>1, <3>2, <3>4 DEF Decides, Delivers, At, DeliverClaim,
         DeliverSend, DeliverComplete
  <2>2. CASE ~(Home(r) = w /\ msg[w].id = r)
    <3>1. msg[w] \in Post(w) /\ msg[w].kind = "SEND"
      BY <1>0, <1>2 DEF DeliverClaim, DeliverSend, DeliverComplete, HandInv, Carrying
    <3>2. r # msg[w].id /\ r \notin SyncOf(msg[w])
      BY <2>2, <3>1, PostFacts DEF SyncOf
    <3> QED
      BY <1>2, <3>2 DEF DeliverClaim, DeliverSend, DeliverComplete, CompleteSync,
         SlotSame
  <2> QED
    BY <2>1, <2>2
<1>3. CASE DeliverFinish(w) \/ TeardownPurge(w)
  <2>1. batch' = batch /\ msg[w].to \in Clients
    BY <1>0, <1>3, PostFacts DEF DeliverFinish, TeardownPurge, HandInv
  <2>2. CASE Purge(w, msg[w].to)
    <3>1. step[w] \notin Carrying /\ step'[w] \notin Carrying
            /\ \A v \in Workers : v # w => step'[v] = step[v] /\ msg'[v] = msg[v]
      <4>1. CASE DeliverFinish(w)
        BY <1>0, <4>1, DropIds DEF DeliverFinish, Carrying
      <4>2. CASE TeardownPurge(w)
        BY <1>0, <4>2 DEF TeardownPurge, Then, Carrying, TypeInv, TypeControl
      <4> QED
        BY <1>3, <4>1, <4>2
    <3>2. \A l \in Carrying : At(r, l)' <=> At(r, l)
      BY <1>0, <3>1, IdleHand
    <3> QED
      BY <2>1, <2>2, <3>2, PurgeResults
  <2>3. CASE UNCHANGED <<result, buffered>>
    BY <2>3 DEF SlotSame
  <2> QED
    BY <1>3, <2>2, <2>3 DEF DeliverFinish, TeardownPurge, FinishClosing, slots
<1> QED
  BY <1>1, <1>2, <1>3 DEF MailStep

(* Every step keeps, resets, fails or decides the result of r.               *)
LEMMA ResultsStep ==
    ASSUME IInv, Next, NEW r \in Requests
    PROVE  SlotSame(r) \/ Resets(r) \/ Fails(r) \/ Decides(r)
<1>0. Moving /\ Base /\ TypeInv /\ SlotInv /\ OnceInv /\ result[r] \in {0, 1, 2, -1}
  BY DEF IInv, Moving, Base, TypeInv, TypeSlots
<1>1. ASSUME UNCHANGED <<result, buffered>>
      PROVE  SlotSame(r)
  BY <1>1 DEF SlotSame
<1>2. ASSUME NEW w \in Workers, MailStep(w)
      PROVE  SlotSame(r) \/ Fails(r) \/ Decides(r)
  BY <1>0, <1>2, MailResults
<1>3. ASSUME NEW w \in Workers, PushRequest(w)
      PROVE  SlotSame(r) \/ Resets(r)
  <2>1. /\ result' = [result EXCEPT ![req[w]] = 0] /\ buffered' = buffered \ {req[w]}
        /\ pc[w] = "push"
    BY <1>3 DEF PushRequest
  <2>2. CASE r = req[w]
    <3>1. Pub(r) = w /\ Running(r)
      BY <1>0, <2>1, <2>2, RequestFacts
    <3> QED
      BY <1>0, <1>3, <2>1, <2>2, <3>1 DEF Resets, Unpushed, TypeInv, TypeSlots
  <2>3. CASE r # req[w]
    BY <1>0, <2>1, <2>3 DEF SlotSame, TypeInv, TypeSlots
  <2> QED
    BY <2>2, <2>3
<1>4. ASSUME NEW w \in Workers, SignalRequest(w)
      PROVE  SlotSame(r) \/ Fails(r)
  <2>1. CASE UNCHANGED slots
    BY <1>1, <2>1 DEF slots
  <2>2. CASE /\ Unlinked(Peer(w), Letter(w)) /\ Unlink(Peer(w), Letter(w))
             /\ result' = [result EXCEPT ![req[w]] = -1] /\ buffered' = buffered
    <3>0. pc[w] = "signal" /\ UNCHANGED <<batch, step, msg>>
      BY <1>4 DEF SignalRequest, mbox
    <3>1. CASE r = req[w]
      <4>1. Sheds(Peer(w), {r}) /\ r \in BoxIds(Peer(w)) /\ Peer(w) \in Workers
        BY <1>0, <2>2, <3>0, <3>1, LetterUnlinks, RequestFacts
      <4>2. Leaves(r)
        BY <1>0, <3>0, <4>1, ShedMoves DEF Ids, At
      <4> QED
        BY <1>0, <2>2, <3>1, <4>2 DEF Fails, TypeInv, TypeSlots
    <3>2. CASE r # req[w]
      BY <1>0, <2>2, <3>2 DEF SlotSame, TypeInv, TypeSlots
    <3> QED
      BY <3>1, <3>2
  <2> QED
    BY <1>4, <2>1, <2>2 DEF SignalRequest
<1>5. ASSUME NEW w \in Workers, Look(w)
      PROVE  SlotSame(r) \/ Fails(r)
  <2>1. CASE result' = result
    BY <1>1, <1>5, <2>1 DEF Look
  <2>2. CASE result[req[w]] = 0 /\ result' = [result EXCEPT ![req[w]] = -1]
    BY <1>0, <1>5, <2>2 DEF Look, SlotSame, Fails, TypeInv, TypeSlots
  <2> QED
    BY <1>5, <2>1, <2>2 DEF Look, Decided, Abandon, Wait
<1>6. ASSUME NEW w \in Workers, NEW c \in Clients, PeerClose(w, c)
      PROVE  SlotSame(r) \/ Fails(r)
  <2>1. batch' = batch /\ Purge(w, c) /\ \A l \in Carrying : At(r, l)' <=> At(r, l)
    BY <1>6 DEF PeerClose, mbox, At
  <2> QED
    BY <1>0, <2>1, PurgeResults
<1>7. ASSUME NEW w \in Workers,
             EventLoop(w) \/ ServeBlocked(w) \/ Slept(w) \/ AnswerRequest(w) \/ Expire(w)
               \/ (\E q \in Requests : StartRequest(w, q))
               \/ \E c \in Clients : Flush(w, c)
      PROVE  SlotSame(r)
  BY <1>1, <1>7 DEF EventLoop, WakeupDrain, TakeBatch, BatchNext, BatchEnd,
     ServeBlocked, Slept, AnswerRequest, Expire, StartRequest, Flush, slots
<1>8. ASSUME \/ \E c \in Clients : PushTeardown(c) \/ AccountDies(c)
             \/ \E s \in Sends : PushSend(s)
             \/ SignalPushed
      PROVE  SlotSame(r)
  BY <1>1, <1>8 DEF PushTeardown, AccountDies, PushSend, SignalPushed, slots
<1> QED
  BY <1>2, <1>3, <1>4, <1>5, <1>6, <1>7, <1>8 DEF Next, WorkerStep, RequestStep

(* What each step of a delivery decides.                                     *)
LEMMA DecideFacts ==
    ASSUME TypeInv, HandInv, FrameInv, NEW r \in Requests, Delivers(r)
    PROVE  /\ At(r, "check") => SlotSame(r) /\ Home(r) \notin ok'
           /\ At(r, "claim") => /\ r \in buffered' <=> r \in buffered
                                /\ Home(r) \notin ok'
                                /\ At(r, "send")' => result[r] = 0 /\ result'[r] = 2
                                /\ ~At(r, "send")' => result'[r] = result[r]
           /\ At(r, "send") => /\ result'[r] = result[r] /\ Home(r) \notin ok'
                               /\ r \in buffered => r \in buffered'
                               /\ Unseen(r) => r \in buffered' \/ Unseen(r)'
           /\ At(r, "drain") => /\ SlotSame(r)
                                /\ Home(r) \in ok' => sent'[r] = 1
           /\ At(r, "complete") => /\ r \in buffered' <=> r \in buffered
                                   /\ result'[r] \in {result[r], 1, -1}
                                   /\ result[r] # 1 /\ result'[r] = 1 => Home(r) \in ok
<1> DEFINE w == Home(r)
<1>0. w \in Workers /\ r \in Ids
  BY LetterFacts DEF Ids
<1> HIDE DEF w
<1>1. msg[w].id = r /\ step[w] \in Carrying /\ msg[w] \in Post(w) /\ msg[w].to = Target(r)
  <2>1. msg[w].id = r /\ step[w] \in Carrying
    BY DEF Delivers, At, w, Carrying
  <2>2. msg[w] \in Post(w) /\ msg[w].kind = "SEND"
    BY <1>0, <2>1 DEF HandInv, Carrying
  <2> QED
    BY <2>1, <2>2 DEF Post
<1>2. SyncOf(msg[w]) = {r} /\ Target(r) \in Clients
  BY <1>1, MailboxAssumption DEF SyncOf, Target
<1>3. CASE At(r, "check")
  <2>1. DeliverCheck(w) /\ w \notin ok
    BY <1>0, <1>3 DEF Delivers, At, w, HandInv
  <2> QED
    BY <1>3, <2>1 DEF DeliverCheck, slots, SlotSame, At, w
<1>4. CASE At(r, "claim")
  <2>1. DeliverClaim(w) /\ w \notin ok
    BY <1>0, <1>4 DEF Delivers, At, w, HandInv
  <2>2. Then(w, "complete") => ~At(r, "send")'
    BY <1>0 DEF Then, At, w, TypeInv, TypeControl
  <2>3. Then(w, "send") => At(r, "send")'
    BY <1>0, <1>1, <2>1 DEF Then, At, w, TypeInv, TypeControl, DeliverClaim
  <2>4. \/ result' = result /\ Then(w, "complete")
        \/ result[r] = 0 /\ result'[r] = 2 /\ Then(w, "send")
    BY <1>2, <2>1 DEF DeliverClaim, CanClaim
  <2> QED
    BY <1>4, <2>1, <2>2, <2>3, <2>4 DEF DeliverClaim, At, w
<1>5. CASE At(r, "send")
  <2>1. DeliverSend(w) /\ w \notin ok
    BY <1>0, <1>5 DEF Delivers, At, w, HandInv
  <2>2. CASE r \in buffered'
    BY <1>2, <1>5, <2>1, <2>2 DEF DeliverSend, At, w
  <2>3. CASE r \notin buffered'
    BY <1>2, <1>5, <2>1, <2>3 DEF DeliverSend, At, w, Unseen
  <2> QED
    BY <2>2, <2>3
<1>6. CASE At(r, "drain")
  <2>1. DeliverDrain(w) /\ w \notin ok /\ r \in buf[Target(r)]
    BY <1>0, <1>6 DEF Delivers, At, w, HandInv, FrameInv, FrameOk
  <2>2. w \in ok' => Flushed({Target(r)})
    BY <1>1, <2>1 DEF DeliverDrain
  <2>3. w \in ok' => sent'[r] = 1
    <3> SUFFICES ASSUME Flushed({Target(r)})
                 PROVE  sent'[r] = 1
      BY <2>2
    <3>1. {Target(r)} \subseteq Clients
      BY <1>2
    <3> QED
      BY <1>0, <2>1, <3>1, FlushFacts
  <2> QED
    BY <1>6, <2>1, <2>3 DEF DeliverDrain, slots, SlotSame, At, w
<1>7. CASE At(r, "complete")
  <2>1. DeliverComplete(w)
    BY <1>7 DEF Delivers, At, w
  <2>2. CompleteSync({r}, IF w \in ok THEN 1 ELSE -1)
    BY <1>2, <2>1 DEF DeliverComplete
  <2> QED
    BY <1>7, <2>2 DEF CompleteSync, At, w
<1> QED
  BY <1>3, <1>4, <1>5, <1>6, <1>7 DEF Delivers

(* Only the handler of a SEND marks it written.                              *)
LEMMA OkStep ==
    ASSUME TypeInv, HandInv, Next, NEW v \in Workers, v \in ok', v \notin ok
    PROVE  step[v] \in {"send", "drain"}
<1>1. ASSUME NEW w \in Workers, MailStep(w)
      PROVE  step[v] \in {"send", "drain"}
  BY <1>1 DEF MailStep, DeliverCheck, DeliverClaim, DeliverSend, DeliverDrain,
     DeliverComplete, DeliverFinish, TeardownPurge, TeardownReclaim, Drop
<1>2. ASSUME NEW w \in Workers, EventLoop(w) \/ ServeBlocked(w)
      PROVE  FALSE
  BY <1>2 DEF EventLoop, WakeupDrain, TakeBatch, BatchNext, BatchEnd, Handle,
     ServeBlocked, ServePop, ServeNext, ServeFlush, mbox
<1>3. ASSUME NEW w \in Workers, PushRequest(w) \/ SignalRequest(w) \/ Slept(w)
      PROVE  FALSE
  BY <1>3 DEF PushRequest, SignalRequest, Slept, mbox
<1>4. ASSUME Resting
      PROVE  FALSE
  BY <1>4 DEF Resting, Look, AnswerRequest, Expire, StartRequest, Flush, AccountDies,
     mbox
<1>5. ASSUME \/ \E w \in Workers, c \in Clients : PeerClose(w, c)
             \/ \E c \in Clients : PushTeardown(c)
             \/ \E s \in Sends : PushSend(s)
             \/ SignalPushed
      PROVE  FALSE
  BY <1>5 DEF PeerClose, PushTeardown, PushSend, SignalPushed, mbox
<1> QED
  BY <1>1, <1>2, <1>3, <1>4, <1>5 DEF Next, WorkerStep, RequestStep, Resting

(* A REQUEST that is where it was is declined or accepted when it was.       *)
LEMMA SameDeclined ==
    ASSUME NEW r \in Requests, SameRun(r)
    PROVE  (Declined(r)' <=> Declined(r)) /\ (Accepted(r)' <=> Accepted(r))
BY DEF SameRun, Declined, Accepted

(* When a REQUEST gets its answer.                                           *)
LEMMA AnswerStep ==
    ASSUME IInv, Next, NEW r \in Requests
    PROVE  /\ Declined(r)' =>
                Declined(r) \/ (r \notin buffered' /\ (On(r)' => result'[r] = -1))
           /\ Accepted(r)' => Accepted(r) \/ result[r] = 1
<1>0. /\ Moving /\ Base /\ OnceInv /\ SlotInv /\ FrameInv /\ TypeInv /\ ResultOk(r)
      /\ SlotOk(r) /\ refs[r] \in Int /\ Pub(r) \in Workers /\ r \in Ids
  BY LetterFacts DEF IInv, Moving, Base, SlotInv, TypeInv, TypeSlots, ResultInv, Ids
<1> DEFINE D == Declined(r)' =>
                  Declined(r) \/ (r \notin buffered' /\ (On(r)' => result'[r] = -1))
           A == Accepted(r)' => Accepted(r) \/ result[r] = 1
<1> HIDE DEF D, A
<1>1. ASSUME SameRun(r)
      PROVE  D /\ A
  BY <1>1, SameDeclined DEF D, A
<1>2. ASSUME NEW w \in Workers, MailStep(w) \/ \E c \in Clients : PeerClose(w, c)
      PROVE  D /\ A
  BY <1>1, <1>2, CarrierDrops
<1>3. ASSUME NEW w \in Workers, EventLoop(w) \/ RequestStep(w) \/ Expire(w), r # req[w]
      PROVE  D /\ A
  BY <1>0, <1>1, <1>3, OtherSame
<1>4. ASSUME \/ \E w \in Workers, c \in Clients : Flush(w, c)
             \/ \E c \in Clients : PushTeardown(c) \/ AccountDies(c)
             \/ \E s \in Sends : PushSend(s)
             \/ SignalPushed
      PROVE  D /\ A
  BY <1>0, <1>1, <1>4, ApartSame
<1>5. ASSUME NEW w \in Workers, NEW q \in Requests, StartRequest(w, q)
      PROVE  D /\ A
  <2>1. /\ req' = [req EXCEPT ![w] = q] /\ pc' = [pc EXCEPT ![w] = "push"]
        /\ answer' = [answer EXCEPT ![q] = "waiting"] /\ req[w] = NoId
        /\ UNCHANGED <<code, refs>> /\ Pub(q) = w
    BY <1>0, <1>5 DEF StartRequest, Go, slots, Base, RunInv, Pub
  <2>2. CASE r = q
    <3>1. answer'[r] = "waiting" /\ pc'[Pub(r)] = "push"
      BY <1>0, <2>1, <2>2 DEF TypeInv, TypeControl
    <3> QED
      BY <3>1 DEF D, A, Declined, Accepted
  <2>3. CASE r # q
    <3>2. SameRun(r)
      BY <1>0, <2>1, <2>3, MailboxAssumption DEF SameRun, Running, TypeInv, TypeControl
    <3> QED
      BY <1>1, <3>2
  <2> QED
    BY <2>2, <2>3
<1>6. ASSUME NEW w \in Workers, EventLoop(w), r = req[w]
      PROVE  D /\ A
  <2>1. req[w] = NoId
    BY <1>0, <1>6 DEF EventLoop, WakeupDrain, TakeBatch, BatchNext, BatchEnd, Base, RunInv
  <2> QED
    BY <1>6, <2>1, MailboxAssumption
<1>7. ASSUME NEW w \in Workers, r = req[w], Expire(w)
      PROVE  D /\ A
  <2>1. UNCHANGED <<pc, req, answer, code>>
    BY <1>7 DEF Expire
  <2> QED
    BY <1>1, <2>1 DEF SameRun, Running
<1>8. ASSUME NEW w \in Workers, r = req[w], RequestStep(w)
      PROVE  D /\ A
  <2>0. /\ Pub(r) = w /\ Running(r) /\ answer[r] = "waiting"
        /\ pc[w] \in {"push", "signal", "look", "serve", "slept", "answer"}
    BY <1>0, <1>8, RequestFacts DEF RequestStep, PushRequest, SignalRequest, Look,
       ServeBlocked, Slept, AnswerRequest
  <2>a. ASSUME answer' = answer, NEW l, l # "answer", Go(w, l)
        PROVE  D /\ A
    <3>1. pc'[w] # "answer" /\ answer'[r] = "waiting"
      BY <1>0, <2>0, <2>a DEF Go, TypeInv, TypeControl
    <3> QED
      BY <2>0, <3>1 DEF D, A, Declined, Accepted
  <2>b. ASSUME answer' = answer, Return(w, 0), r \notin buffered',
               On(r)' => result'[r] = -1
        PROVE  D /\ A
    <3>1. code'[w] = 0 /\ answer'[r] = "waiting"
      BY <1>0, <2>0, <2>b DEF Return, TypeInv, TypeControl
    <3> QED
      BY <2>0, <2>b, <3>1 DEF D, A, Accepted
  <2>c. ASSUME answer' = answer, PushFailed(w), r \notin buffered', ~On(r)'
        PROVE  D /\ A
    BY <2>a, <2>b, <2>c DEF PushFailed, Serve
  <2>1. CASE PushRequest(w)
    <3>1. answer' = answer /\ r \notin buffered' /\ UNCHANGED <<batch, step, msg>>
      BY <1>8, <2>1 DEF PushRequest, mbox
    <3>2. CASE Go(w, "signal")
      BY <2>a, <3>1, <3>2
    <3>3. CASE PushFailed(w) /\ mail' = mail
      <4>1. refs[r] = 0 /\ ~On(r)
        BY <1>0, <2>0, <2>1 DEF PushRequest, SlotOk, Holds
      <4>2. ~On(r)'
        BY <1>0, <3>1, <3>3, <4>1, OnSame DEF HandIds
      <4> QED
        BY <2>c, <3>1, <3>3, <4>2
    <3> QED
      BY <2>1, <3>2, <3>3 DEF PushRequest
  <2>d. ASSUME Unlinked(Peer(w), Letter(w)), Unlink(Peer(w), Letter(w)),
               UNCHANGED <<batch, step, msg, buffered>>
        PROVE  r \notin buffered' /\ ~On(r)'
    <3>1. Sheds(Peer(w), {r}) /\ r \in BoxIds(Peer(w)) /\ Peer(w) \in Workers
      BY <1>0, <1>8, <2>0, <2>d, LetterUnlinks, RequestFacts
    <3>2. Leaves(r)
      BY <1>0, <2>d, <3>1, ShedMoves DEF At
    <3> QED
      BY <1>0, <2>d, <3>2 DEF Leaves, ResultOk, Early
  <2>2. CASE SignalRequest(w)
    <3>1. answer' = answer /\ UNCHANGED <<batch, step, msg>>
      BY <2>2 DEF SignalRequest, mbox
    <3>2. CASE Go(w, "look")
      BY <2>a, <3>1, <3>2
    <3>3. CASE Unlinked(Peer(w), Letter(w)) /\ Unlink(Peer(w), Letter(w))
                 /\ PushFailed(w) /\ buffered' = buffered
      BY <2>c, <2>d, <3>1, <3>3
    <3> QED
      BY <2>2, <3>2, <3>3 DEF SignalRequest
  <2>3. CASE Look(w)
    <3>1. answer' = answer /\ buffered' = buffered
      BY <2>3 DEF Look
    <3>2. CASE Wait(w)
      BY <2>a, <3>1, <3>2 DEF Wait, Serve
    <3>3. CASE Abandon(w) /\ result[r] = 0
      <4>1. result' = [result EXCEPT ![r] = -1] /\ Return(w, 0)
        BY <1>8, <3>3 DEF Abandon
      <4>2. result'[r] = -1 /\ r \notin buffered'
        BY <1>0, <3>1, <3>3, <4>1 DEF ResultOk, TypeInv, TypeSlots
      <4> QED
        BY <2>b, <3>1, <4>1, <4>2
    <3>4. CASE (Abandon(w) /\ result[r] # 0) \/ Decided(w)
      <4>1. PICK v \in {0, 1, -1} : /\ Return(w, v) /\ result' = result
                                    /\ v = 1 => result[r] = 1
                                    /\ v = 0 => result[r] = -1 /\ r \notin buffered
        <5>1. CASE Abandon(w) /\ result[r] # 0
          BY <1>8, <5>1 DEF Abandon
        <5>2. CASE Decided(w)
          BY <1>8, <5>2 DEF Decided, Terminal
        <5> QED
          BY <3>4, <5>1, <5>2
      <4>2. code'[w] = v /\ answer'[r] = "waiting"
        BY <1>0, <2>0, <3>1, <4>1 DEF Return, TypeInv, TypeControl
      <4> QED
        BY <2>0, <3>1, <4>1, <4>2 DEF D, A, Declined, Accepted
    <3> QED
      BY <2>3, <3>2, <3>3, <3>4 DEF Look
  <2>4. CASE ServeBlocked(w)
    <3>1. CASE ServeFlush(w)
      BY <2>4, <2>a, <3>1 DEF ServeFlush, ServeBlocked
    <3>2. CASE pc' = pc
      <4>1. UNCHANGED <<pc, req, answer, code>>
        BY <2>4, <3>2 DEF ServeBlocked
      <4> QED
        BY <1>1, <4>1 DEF SameRun, Running
    <3> QED
      BY <2>4, <3>1, <3>2 DEF ServeBlocked, ServePop, ServeNext
  <2>5. CASE Slept(w)
    <3>1. answer' = answer /\ UNCHANGED <<batch, step, msg, buffered>>
      BY <2>5 DEF Slept, mbox
    <3>2. CASE Go(w, "look") \/ Go(w, "push")
      BY <2>a, <3>1, <3>2
    <3>3. CASE Unlinked(Peer(w), Letter(w)) /\ Unlink(Peer(w), Letter(w)) /\ Return(w, 0)
      BY <2>b, <2>d, <3>1, <3>3
    <3> QED
      BY <2>5, <3>2, <3>3 DEF Slept
  <2>6. CASE AnswerRequest(w)
    <3>0. code[w] \in {0, 1, -1} /\ pc[w] = "answer"
      BY <1>0, <2>6 DEF TypeInv, TypeControl, AnswerRequest
    <3>1. PICK a : /\ answer' = [answer EXCEPT ![r] = a]
                   /\ a = "acked" => code[w] = 1
                   /\ a = "forwarded" => code[w] = 0
      BY <1>8, <2>6, <3>0 DEF AnswerRequest
    <3>2. pc' = [pc EXCEPT ![w] = "idle"]
      BY <2>6 DEF AnswerRequest, Go
    <3>3. answer'[r] = a /\ pc'[w] = "idle"
      BY <1>0, <3>1, <3>2 DEF TypeInv, TypeControl
    <3> QED
      BY <2>0, <3>0, <3>1, <3>3 DEF D, A, Declined, Accepted
  <2> QED
    BY <1>8, <2>1, <2>2, <2>3, <2>4, <2>5, <2>6 DEF RequestStep
<1> QED
  BY <1>2, <1>3, <1>4, <1>5, <1>6, <1>7, <1>8 DEF Next, WorkerStep, D, A

(* Where a message comes from, whether or not the step delivers it.          *)
LEMMA Origin ==
    ASSUME IInv, Next, NEW i \in Ids
    PROVE  /\ ~Delivers(i) =>
                /\ Waiting(i)' \/ At(i, "check")' \/ At(i, "claim")' =>
                      Waiting(i) \/ At(i, "check") \/ At(i, "claim") \/ Enters(i)
                /\ \A l \in {"claim", "send", "drain", "complete"} :
                      At(i, l)' => At(i, l)
                /\ On(i)' => On(i) \/ Enters(i)
           /\ Delivers(i) =>
                /\ ~Waiting(i)' /\ ~At(i, "check")'
                /\ At(i, "claim")' => At(i, "check")
                /\ At(i, "send")' => At(i, "claim")
                /\ At(i, "drain")' => At(i, "send")
                /\ At(i, "complete")' => ~At(i, "complete")
                /\ On(i) /\ (On(i)' => ~At(i, "complete"))
<1>0. Moving /\ Moved(i)
  BY MovedStep DEF IInv, Moving
<1>1. CASE Delivers(i)
  <2>1. ~Waiting(i)' /\ \E l \in Carrying : At(i, l)
    BY <1>1 DEF Delivers, Carrying
  <2>2. On(i)
    BY <2>1, OnIs
  <2>3. On(i)' => ~At(i, "complete")
    BY <1>0, <1>1, <2>1, StageAfter, OnIs
  <2>4. At(i, "complete")' => ~At(i, "complete")
    BY <1>0, <1>1, StageAfter DEF Carrying
  <2> QED
    BY <1>0, <1>1, <2>1, <2>2, <2>3, <2>4, StageAfter DEF At, Delivers, Carrying
<1>2. CASE Still(i)
  BY <1>1, <1>2, OnIs DEF Still, Carrying
<1>3. CASE Taken(i)
  BY <1>1, <1>3, OnIs DEF Taken, At, Carrying
<1>4. CASE Leaves(i)
  BY <1>1, <1>4, OnIs DEF Leaves, Carrying
<1>5. CASE Enters(i)
  BY <1>1, <1>5, OnIs DEF Enters, Carrying
<1> QED
  BY <1>0, <1>1, <1>2, <1>3, <1>4, <1>5 DEF Moved

(* The slot keeps telling the truth about the frame.                         *)
LEMMA ResultStep ==
    ASSUME IInv, Next
    PROVE  ResultInv'
<1> SUFFICES ASSUME NEW r \in Requests
             PROVE  ResultOk(r)'
  BY DEF ResultInv
<1>0. /\ r \in Ids /\ Base /\ OnceInv /\ FrameInv /\ FrameOk(r) /\ ResultOk(r)
      /\ TypeInv /\ HandInv /\ RunInv
  BY DEF IInv, Base, FrameInv, ResultInv, Ids
<1>1. SlotSame(r) \/ Resets(r) \/ Fails(r) \/ Decides(r)
  BY ResultsStep
<1>2. Kept(r) \/ Emptied(r) \/ Written(r)
  BY <1>0, FramesStep
<1>3. Unpushed(r) => Unseen(r) /\ ~On(r) /\ ~Declined(r)
  <2>1. Unpushed(r) => Unseen(r) /\ ~On(r)
    BY <1>0 DEF FrameOk, Fresh
  <2>2. Running(r) => answer[r] = "waiting"
    <3>1. Pub(r) \in Workers /\ r # NoId
      BY LetterFacts, MailboxAssumption
    <3> QED
      BY <1>0, <3>1 DEF RunInv, Running
  <2>3. Unpushed(r) => ~Declined(r)
    BY <2>2 DEF Unpushed, Declined
  <2> QED
    BY <2>1, <2>3
<1>4. Unseen(r) /\ ~Written(r) => Unseen(r)'
  BY <1>0, <1>2, LetterFacts, MailboxAssumption DEF Unseen, Kept, Emptied
<1>5. Written(r) => Delivers(r) /\ At(r, "send") /\ Unseen(r)
  <2>1. Written(r) => ~Early(r)' /\ Unseen(r)
    BY <1>0, EarlyStep DEF Written, FrameOk, Early
  <2>2. At(r, "send") => ~Waiting(r)
    BY <1>0, OnePlace DEF Carrying
  <2> QED
    BY <2>1, <2>2 DEF Written, Early, Delivers
<1>6. sent[r] = 1 => sent'[r] = 1
  BY <1>0, <1>2, <1>5, MailboxAssumption DEF Kept, Emptied, FrameOk, Unseen, Target
<1>7. Enters(r) => r \notin buffered' /\ result'[r] = 0
  <2> SUFFICES ASSUME Enters(r)
               PROVE  r \notin buffered' /\ result'[r] = 0
    OBVIOUS
  <2>1. PushRequest(Pub(r)) /\ req[Pub(r)] = r
    BY RequestEnters DEF Running
  <2> QED
    BY <1>0, <2>1 DEF PushRequest, TypeInv, TypeSlots
<1>8. /\ Enters(r) => ~Declined(r)
  <2>1. Enters(r) => Running(r) /\ pc[Pub(r)] = "push"
    BY RequestEnters DEF PushRequest
  <2> QED
    BY <1>3, <2>1 DEF Unpushed
<1>9. Delivers(r) =>
        /\ At(r, "check") => SlotSame(r) /\ Home(r) \notin ok'
        /\ At(r, "claim") => /\ r \in buffered' <=> r \in buffered
                             /\ Home(r) \notin ok'
                             /\ At(r, "send")' => result[r] = 0 /\ result'[r] = 2
                             /\ ~At(r, "send")' => result'[r] = result[r]
        /\ At(r, "send") => /\ result'[r] = result[r] /\ Home(r) \notin ok'
                            /\ r \in buffered => r \in buffered'
                            /\ Unseen(r) => r \in buffered' \/ Unseen(r)'
        /\ At(r, "drain") => /\ SlotSame(r)
                             /\ Home(r) \in ok' => sent'[r] = 1
        /\ At(r, "complete") => /\ r \in buffered' <=> r \in buffered
                                /\ result'[r] \in {result[r], 1, -1}
                                /\ result[r] # 1 /\ result'[r] = 1 => Home(r) \in ok
  BY <1>0, DecideFacts
<1>10. Decides(r) => Delivers(r) /\ (At(r, "claim") \/ At(r, "send") \/ At(r, "complete"))
  BY DEF Decides, Delivers
<1>11. \A l \in Carrying : At(r, l) => On(r)
  BY <1>0, OnIs
<1>12. /\ Fails(r) => result'[r] = -1 /\ (r \in buffered' <=> r \in buffered)
       /\ Fails(r) => result[r] = 0 \/ ~On(r)'
  BY DEF Fails, Leaves
<1>13. /\ \A l \in Carrying : At(r, l)' => On(r)'
       /\ Waiting(r)' => On(r)' /\ (Waiting(r) => On(r))
       /\ Waiting(r) => On(r)
  BY <1>0, OnIs
<1>14. Resets(r) => Unpushed(r) /\ result'[r] = 0 /\ r \notin buffered'
  BY DEF Resets
<1>a. r \notin buffered' => Unseen(r)'
  <2>1. CASE Written(r)
    BY <1>5, <1>9, <2>1
  <2>2. CASE ~Written(r) /\ r \notin buffered
    BY <1>0, <1>4, <2>2 DEF ResultOk
  <2>3. CASE ~Written(r) /\ r \in buffered /\ r \notin buffered'
    <3>1. Resets(r)
      BY <1>1, <1>9, <1>10, <1>12, <2>3 DEF SlotSame
    <3> QED
      BY <1>3, <1>4, <1>14, <2>3, <3>1
  <2> QED
    BY <2>1, <2>2, <2>3
<1>b. Early(r)' \/ result'[r] = 0 => r \notin buffered'
  <2>1. CASE result'[r] = 0
    <3>1. CASE Decides(r)
      BY <1>0, <1>9, <1>10, <2>1, <3>1 DEF ResultOk
    <3> QED
      BY <1>0, <1>1, <1>12, <1>14, <2>1, <3>1 DEF ResultOk, SlotSame
  <2>2. CASE Early(r)' /\ Enters(r)
    BY <1>7, <2>2
  <2>3. CASE Early(r)' /\ ~Enters(r)
    <3>1. On(r)' /\ ~Written(r) /\ (Early(r) \/ Fresh(r))
      BY <1>0, <1>13, <2>3, EarlyStep DEF Early, Carrying
    <3>2. On(r)
      BY <1>0, <2>3, <3>1, Origin
    <3>3. r \notin buffered
      BY <1>0, <1>3, <3>1, <3>2 DEF Fresh, ResultOk
    <3>4. CASE Decides(r)
      <4>1. ~At(r, "send")
        BY <1>0, <1>10, <2>3, <3>4, StageAfter, Origin DEF Early, At, Base, Moving
      <4> QED
        BY <1>9, <1>10, <3>3, <3>4, <4>1
    <3> QED
      BY <1>1, <1>12, <1>14, <3>3, <3>4 DEF SlotSame
  <2> QED
    BY <2>1, <2>2, <2>3
<1>c. Waiting(r)' \/ At(r, "check")' \/ At(r, "claim")' => result'[r] \in {0, -1}
  <2> SUFFICES ASSUME Waiting(r)' \/ At(r, "check")' \/ At(r, "claim")'
               PROVE  result'[r] \in {0, -1}
    OBVIOUS
  <2>1. CASE Delivers(r)
    <3>1. At(r, "check")
      BY <1>0, <2>1, Origin
    <3> QED
      BY <1>0, <1>9, <2>1, <3>1 DEF SlotSame, ResultOk
  <2>2. CASE ~Delivers(r)
    <3>1. Enters(r) \/ result[r] \in {0, -1}
      BY <1>0, <2>2, Origin DEF ResultOk
    <3> QED
      BY <1>1, <1>7, <1>10, <1>12, <1>14, <2>2, <3>1 DEF SlotSame
  <2> QED
    BY <2>1, <2>2
<1>d. At(r, "send")' \/ At(r, "drain")' => result'[r] = 2
  <2> SUFFICES ASSUME At(r, "send")' \/ At(r, "drain")'
               PROVE  result'[r] = 2
    OBVIOUS
  <2>1. CASE Delivers(r)
    BY <1>0, <1>9, <2>1, Origin DEF ResultOk
  <2>2. CASE ~Delivers(r)
    <3>1. (At(r, "send") \/ At(r, "drain")) /\ On(r)'
      BY <1>0, <1>13, <2>2, Origin DEF Carrying
    <3>2. result[r] = 2 /\ On(r)
      BY <1>0, <1>11, <3>1 DEF ResultOk, Carrying
    <3> QED
      BY <1>1, <1>3, <1>10, <1>12, <1>14, <2>2, <3>1, <3>2 DEF SlotSame
  <2> QED
    BY <2>1, <2>2
<1>e. At(r, "complete")' /\ Home(r) \in ok' => sent'[r] = 1
  <2> SUFFICES ASSUME At(r, "complete")', Home(r) \in ok'
               PROVE  sent'[r] = 1
    OBVIOUS
  <2>1. CASE Delivers(r)
    <3>1. At(r, "drain")
      BY <1>0, <1>9, <2>1, Origin DEF Delivers
    <3> QED
      BY <1>9, <2>1, <3>1
  <2>2. CASE ~Delivers(r)
    <3>1. At(r, "complete") /\ Home(r) \in Workers
      BY <1>0, <2>2, Origin, LetterFacts
    <3>2. Home(r) \in ok
      BY <1>0, <3>1, OkStep DEF At
    <3> QED
      BY <1>0, <1>6, <3>1, <3>2 DEF ResultOk
  <2> QED
    BY <2>1, <2>2
<1>f. result'[r] = 1 => sent'[r] = 1
  <2>1. CASE Decides(r)
    BY <1>0, <1>6, <1>9, <1>10, <2>1 DEF ResultOk
  <2> QED
    BY <1>0, <1>1, <1>6, <1>12, <1>14, <2>1 DEF SlotSame, ResultOk
<1>g. Declined(r)' => r \notin buffered' /\ (On(r)' => result'[r] = -1)
  <2> SUFFICES ASSUME Declined(r)
               PROVE  r \notin buffered' /\ (On(r)' => result'[r] = -1)
    BY AnswerStep
  <2>1. r \notin buffered /\ (On(r) => result[r] = -1) /\ (On(r)' => On(r))
    BY <1>0, <1>8, Origin DEF ResultOk
  <2>2. CASE Decides(r)
    <3>1. On(r) /\ result[r] = -1 /\ ~At(r, "send")
      BY <1>0, <1>10, <2>1, <2>2, Origin DEF ResultOk
    <3> QED
      BY <1>0, <1>9, <1>10, <2>1, <2>2, <3>1, Origin
  <2> QED
    BY <1>1, <1>3, <1>12, <1>14, <2>1, <2>2 DEF SlotSame
<1>h. Accepted(r)' => sent'[r] = 1
  BY <1>0, <1>6, AnswerStep DEF ResultOk
<1> QED
  BY <1>a, <1>b, <1>c, <1>d, <1>e, <1>f, <1>g, <1>h DEF ResultOk

-----------------------------------------------------------------------------
(* A SEND behind a TEARDOWN.                                                 *)

(* A client that is not open does not open again.                            *)
LEMMA StaysClosed ==
    ASSUME IInv, Next, NEW c \in Clients, state[c] # "open"
    PROVE  state'[c] # "open"
<1>0. state \in [Clients -> {"open", "closing", "gone"}]
  BY DEF IInv, TypeInv, TypeConns
<1>1. CASE state' = state
  BY <1>1
<1>2. ASSUME NEW d, state' = [state EXCEPT ![d] = "closing"]
                       \/ state' = [state EXCEPT ![d] = "gone"]
      PROVE  state'[c] # "open"
  BY <1>0, <1>2
<1>3. ASSUME NEW w \in Workers, MailStep(w)
      PROVE  state'[c] # "open"
  BY <1>1, <1>2, <1>3 DEF MailStep, DeliverCheck, DeliverClaim, DeliverSend, DeliverDrain,
     DeliverComplete, DeliverFinish, TeardownPurge, TeardownReclaim, FinishClosing, conns
<1>4. ASSUME NEW w \in Workers, EventLoop(w)
      PROVE  state'[c] # "open"
  BY <1>1, <1>4 DEF EventLoop, WakeupDrain, TakeBatch, BatchNext, BatchEnd, conns
<1>5. ASSUME NEW w \in Workers, ServeBlocked(w)
      PROVE  state'[c] # "open"
  <2>1. CASE ServeFlush(w)
    BY <1>0, <2>1 DEF ServeFlush
  <2> QED
    BY <1>1, <1>5, <2>1 DEF ServeBlocked, ServePop, ServeNext
<1>6. ASSUME NEW w \in Workers, AnswerRequest(w)
      PROVE  state'[c] # "open"
  BY <1>0, <1>6 DEF AnswerRequest
<1>7. ASSUME NEW w \in Workers,
             PushRequest(w) \/ SignalRequest(w) \/ Look(w) \/ Slept(w) \/ Expire(w)
      PROVE  state'[c] # "open"
  BY <1>1, <1>7 DEF PushRequest, SignalRequest, Look, Slept, Expire, conns
<1>8. ASSUME NEW w \in Workers, NEW d \in Clients, Flush(w, d) \/ PeerClose(w, d)
      PROVE  state'[c] # "open"
  BY <1>1, <1>2, <1>8 DEF Flush, PeerClose
<1>9. CASE \/ \E w \in Workers, r \in Requests : StartRequest(w, r)
           \/ \E d \in Clients : PushTeardown(d) \/ AccountDies(d)
           \/ \E s \in Sends : PushSend(s)
           \/ SignalPushed
  BY <1>1, <1>9 DEF StartRequest, PushTeardown, AccountDies, PushSend, SignalPushed, conns
<1> QED
  BY <1>3, <1>4, <1>5, <1>6, <1>7, <1>8, <1>9 DEF Next, WorkerStep, RequestStep

Safe(i)  == BoxSafe(i) /\ TakenSafe(i)
SameHand(i) == /\ step'[Home(i)] = step[Home(i)] /\ msg'[Home(i)] = msg[Home(i)]
               /\ batch'[Home(i)] = batch[Home(i)]
StillClosed(i) == state[Target(i)] # "open" => state'[Target(i)] # "open"

(* The shield outlives a change of the mailbox that keeps what is ahead.     *)
LEMMA SafeBox ==
    ASSUME NEW i \in Ids, Safe(i), SameHand(i), StillClosed(i),
           i \in BoxIds(Home(i))' =>
               i \in BoxIds(Home(i)) /\ StaysShut(i, mail'[Home(i)], mail[Home(i)])
    PROVE  Safe(i)'
<1>1. TakenSafe(i)'
  BY DEF Safe, SameHand, StillClosed, TakenSafe, TakenIds, InHandT
<1>2. BoxSafe(i)'
  BY DEF Safe, SameHand, StillClosed, BoxSafe, InHandT, StaysShut
<1> QED
  BY <1>1, <1>2 DEF Safe

(* ... that unlinks it, or something else than the TEARDOWN ahead, ...       *)
LEMMA SafeShed ==
    ASSUME NEW i \in Ids, Safe(i), SameHand(i), StillClosed(i),
           NEW w \in Workers, NEW U, Sheds(w, U),
           i \in U \/ i \notin BoxIds(w) \/ StaysShut(i, mail'[w], mail[w])
    PROVE  Safe(i)'
<1>0. Home(i) \in Workers
  BY LetterFacts DEF Ids
<1>1. i \in BoxIds(Home(i))' =>
          i \in BoxIds(Home(i)) /\ StaysShut(i, mail'[Home(i)], mail[Home(i)])
  <2>1. CASE Home(i) = w
    BY <2>1 DEF Sheds
  <2>2. CASE Home(i) # w
    BY <1>0, <2>2 DEF Sheds, StaysShut, BoxIds
  <2> QED
    BY <2>1, <2>2
<1> QED
  BY <1>1, SafeBox

(* ... and that queues another message.                                      *)
LEMMA SafeGain ==
    ASSUME NEW i \in Ids, Safe(i), SameHand(i), StillClosed(i),
           NEW w \in Workers, NEW j, j # i, Gains(w, j)
    PROVE  Safe(i)'
<1>0. Home(i) \in Workers
  BY LetterFacts DEF Ids
<1>1. i \in BoxIds(Home(i))' =>
          i \in BoxIds(Home(i)) /\ StaysShut(i, mail'[Home(i)], mail[Home(i)])
  <2>1. CASE Home(i) = w
    BY <2>1 DEF Gains
  <2>2. CASE Home(i) # w
    BY <1>0, <2>2 DEF Gains, StaysShut, BoxIds
  <2> QED
    BY <2>1, <2>2
<1> QED
  BY <1>1, SafeBox

(* ... and a step that leaves its worker alone.                              *)
LEMMA SafeApart ==
    ASSUME NEW i \in Ids, Safe(i), SameHand(i), StillClosed(i),
           mail'[Home(i)] = mail[Home(i)]
    PROVE  Safe(i)'
BY SafeBox DEF BoxIds, StaysShut

(* Handling a message keeps the shield: a TEARDOWN purges, then closes.      *)
LEMMA SafeMail ==
    ASSUME IInv, NEW w \in Workers, MailStep(w), NEW i \in Ids, Safe(i), StillClosed(i)
    PROVE  Safe(i)'
<1>0. TypeInv /\ TypeBoxes /\ HandInv /\ Home(i) \in Workers
  BY LetterFacts DEF IInv, TypeInv, Ids
<1>1. CASE Home(i) # w
  <2>1. SameHand(i)
    BY <1>0, <1>1 DEF MailStep, DeliverCheck, DeliverClaim, DeliverSend, DeliverDrain,
       DeliverComplete, DeliverFinish, TeardownPurge, TeardownReclaim, boxes, Then, Drop,
       TypeInv, TypeControl, SameHand
  <2>2. mail'[Home(i)] = mail[Home(i)]
    BY <1>0, <1>1 DEF MailStep, DeliverCheck, DeliverClaim, DeliverSend, DeliverDrain,
       DeliverComplete, DeliverFinish, TeardownPurge, TeardownReclaim, boxes, FinishClosing,
       Purge, TypeInv, TypeBoxes
  <2> QED
    BY <2>1, <2>2, SafeApart
<1>2. CASE Home(i) = w /\ step[w] \in Carrying
  <2>1. UNCHANGED <<mail, batch>>
    BY <1>2 DEF MailStep, DeliverCheck, DeliverClaim, DeliverSend, DeliverDrain,
       DeliverComplete, DeliverFinish, TeardownPurge, TeardownReclaim, boxes, Carrying
  <2>2. \A L : L \subseteq {"purge", "reclaim"} => ~InHandT(w, Target(i), L)
    BY <1>2 DEF InHandT, Carrying
  <2> QED
    BY <1>2, <2>1, <2>2 DEF Safe, BoxSafe, TakenSafe, StillClosed, BoxIds, TakenIds
<1>3. CASE Home(i) = w /\ step[w] \notin Carrying
  <2>0. /\ DeliverFinish(w) \/ TeardownPurge(w) \/ TeardownReclaim(w)
        /\ msg[w] \in Post(w) /\ msg[w].to \in Clients /\ batch' = batch
    <3>1. DeliverFinish(w) \/ TeardownPurge(w) \/ TeardownReclaim(w)
      BY <1>3 DEF MailStep, DeliverCheck, DeliverClaim, DeliverSend, DeliverDrain,
         DeliverComplete, Carrying
    <3>2. step[w] # "none" /\ batch' = batch
      BY <3>1 DEF DeliverFinish, TeardownPurge, TeardownReclaim, boxes
    <3> QED
      BY <1>0, <3>1, <3>2, PostFacts DEF HandInv
  <2>p. ASSUME Purge(w, msg[w].to)
        PROVE  i \in BoxIds(w)' => /\ i \in BoxIds(w) /\ Target(i) # msg[w].to
                                   /\ StaysShut(i, mail'[w], mail[w])
    BY <1>0, <2>0, <2>p, PurgeMoves DEF Sheds, ToClient
  <2>1. CASE DeliverFinish(w)
    <3>1. \A L : L \subseteq {"purge", "reclaim"} => ~InHandT(w, Target(i), L)
      BY <2>1 DEF InHandT, DeliverFinish
    <3>2. i \in BoxIds(w)' => i \in BoxIds(w) /\ StaysShut(i, mail'[w], mail[w])
      <4>1. CASE mail' = mail
        BY <4>1 DEF BoxIds, StaysShut
      <4> QED
        BY <2>1, <2>p, <4>1 DEF DeliverFinish, FinishClosing
    <3> QED
      BY <1>3, <2>0, <3>1, <3>2 DEF Safe, BoxSafe, TakenSafe, StillClosed, TakenIds, StaysShut
  <2>2. CASE TeardownPurge(w)
    <3>1. step[w] = "purge" /\ step'[w] = "reclaim" /\ msg' = msg /\ Purge(w, msg[w].to)
      BY <1>0, <2>2 DEF TeardownPurge, Then, TypeInv, TypeControl
    <3>2. InHandT(w, Target(i), {"purge", "reclaim"}) => InHandT(w, Target(i), {"purge", "reclaim"})'
      BY <3>1 DEF InHandT
    <3>3. InHandT(w, Target(i), {"purge"}) => msg[w].to = Target(i)
      BY DEF InHandT, Teardown
    <3>4. TakenSafe(i)'
      BY <1>3, <2>0, <3>2 DEF Safe, TakenSafe, StillClosed, TakenIds
    <3>5. BoxSafe(i)'
      BY <1>3, <2>0, <2>p, <3>1, <3>3 DEF Safe, BoxSafe, StillClosed, StaysShut
    <3> QED
      BY <3>4, <3>5 DEF Safe
  <2>3. CASE TeardownReclaim(w)
    <3>1. mail' = mail /\ ~InHandT(w, Target(i), {"purge"})
      BY <2>3 DEF TeardownReclaim, boxes, InHandT
    <3>2. msg[w] = Teardown(Target(i)) => state'[Target(i)] # "open"
      <4>1. msg[w] = Teardown(Target(i)) => msg[w].to = Target(i)
        BY DEF Teardown
      <4> QED
        BY <1>0, <2>0, <2>3, <4>1 DEF TeardownReclaim, TypeInv, TypeConns
    <3> QED
      BY <1>3, <2>0, <3>1, <3>2 DEF Safe, BoxSafe, TakenSafe, StillClosed, BoxIds, TakenIds,
         InHandT
  <2> QED
    BY <2>0, <2>1, <2>2, <2>3
<1> QED
  BY <1>1, <1>2, <1>3

(* Taking a batch, or the next message of it, keeps the shield.              *)
LEMMA SafeLoop ==
    ASSUME IInv, NEW w \in Workers, EventLoop(w), NEW i \in Ids, Safe(i), StillClosed(i)
    PROVE  Safe(i)'
<1>0. Base /\ TypeInv /\ HandInv /\ Home(i) \in Workers
  BY LetterFacts DEF IInv, Base, TypeInv, Ids
<1>1. CASE WakeupDrain(w) \/ BatchEnd(w)
  <2>1. SameHand(i) /\ mail'[Home(i)] = mail[Home(i)]
    BY <1>1 DEF WakeupDrain, BatchEnd, SameHand, mbox
  <2> QED
    BY <2>1, SafeApart
<1>2. CASE TakeBatch(w)
  <2>1. /\ step[w] = "none" /\ UNCHANGED <<step, msg>>
        /\ \A v \in Workers : v # w => mail'[v] = mail[v] /\ batch'[v] = batch[v]
    BY <1>0, <1>2, TakeMoves DEF TakeBatch, mbox
  <2>2. CASE Home(i) # w
    BY <1>0, <2>1, <2>2, SafeApart DEF SameHand
  <2>3. CASE Home(i) = w
    <3>1. /\ ~InHandT(w, Target(i), {"purge"}) /\ ~HasTeardown(batch[w], Target(i))
      <4>1. batch[w] = <<>>
        BY <1>0, <1>2 DEF HandInv, TakeBatch
      <4> QED
        BY <2>1, <4>1 DEF InHandT, HasTeardown
    <3>2. /\ i \in BoxIds(w)' \/ i \in TakenIds(w)' => i \in BoxIds(w)
          /\ i \in TakenIds(w)' => StaysShut(i, batch'[w], mail[w])
          /\ i \in BoxIds(w)' /\ Shut(mail[w], i) =>
                Shut(mail'[w], i) \/ HasTeardown(batch'[w], Target(i))
      BY <1>0, <1>2, TakeMoves
    <3>3. BoxSafe(i)'
      BY <2>3, <3>1, <3>2 DEF Safe, BoxSafe, StillClosed
    <3>4. TakenSafe(i)'
      BY <2>3, <3>1, <3>2 DEF Safe, BoxSafe, TakenSafe, StillClosed, StaysShut
    <3> QED
      BY <3>3, <3>4 DEF Safe
  <2> QED
    BY <2>2, <2>3
<1>3. CASE BatchNext(w)
  <2> DEFINE m == Head(batch[w])
  <2>1. /\ step[w] = "none" /\ mail' = mail /\ m \in Post(w) /\ Handle(w, m)
        /\ \A v \in Workers : v # w => batch'[v] = batch[v]
        /\ i \in TakenIds(w)' => i \in TakenIds(w)
        /\ i \in TakenIds(w)' /\ Shut(batch[w], i) =>
              Shut(batch'[w], i) \/ m = Teardown(Target(i))
        /\ HasTeardown(batch[w], Target(i)) =>
              HasTeardown(batch'[w], Target(i)) \/ m = Teardown(Target(i))
    BY <1>0, <1>3, NextMoves
  <2> HIDE DEF m
  <2>2. /\ msg'[w] = m /\ step'[w] = IF m.kind = "SEND" THEN "check" ELSE "purge"
        /\ \A v \in Workers : v # w => msg'[v] = msg[v] /\ step'[v] = step[v]
    BY <1>0, <2>1, HandleIds
  <2>3. CASE Home(i) # w
    BY <1>0, <2>1, <2>2, <2>3, SafeApart DEF SameHand
  <2>4. CASE Home(i) = w
    <3>1. \A L : L \subseteq {"purge", "reclaim"} => ~InHandT(w, Target(i), L)
      BY <2>1 DEF InHandT
    <3>2. m = Teardown(Target(i)) => /\ InHandT(w, Target(i), {"purge"})'
                                     /\ InHandT(w, Target(i), {"purge", "reclaim"})'
      BY <2>2 DEF InHandT, Teardown
    <3>3. BoxSafe(i)'
      BY <2>1, <2>4, <3>1, <3>2 DEF Safe, BoxSafe, StillClosed, BoxIds
    <3>4. TakenSafe(i)'
      BY <2>1, <2>4, <3>1, <3>2 DEF Safe, TakenSafe, StillClosed
    <3> QED
      BY <3>3, <3>4 DEF Safe
  <2> QED
    BY <2>3, <2>4
<1> QED
  BY <1>1, <1>2, <1>3 DEF EventLoop

(* Serving the mailbox while blocked keeps it.                               *)
LEMMA SafeServe ==
    ASSUME IInv, NEW w \in Workers, ServeBlocked(w), NEW i \in Ids, Safe(i), StillClosed(i)
    PROVE  Safe(i)'
<1>0. Base /\ TypeInv /\ HandInv /\ Home(i) \in Workers
  BY LetterFacts DEF IInv, Base, TypeInv, Ids
<1>1. batch' = batch /\ step[w] = "none" /\ batch[w] = <<>>
  BY <1>0 DEF ServeBlocked, HandInv
<1>2. CASE UNCHANGED <<mail, step, msg>>
  BY <1>1, <1>2, SafeApart DEF SameHand
<1>3. ASSUME NEW S, S \subseteq DOMAIN mail[w], NEW n, ServePop(w, S, n)
      PROVE  Safe(i)'
  <2>1. PICK k \in S :
              /\ mail[w][k] \in Post(w) /\ Handle(w, mail[w][k])
              /\ Sheds(w, {mail[w][k].id})
              /\ mail[w][k] # Teardown(Target(i)) /\ mail[w][k].id # i
                                 => StaysShut(i, mail'[w], mail[w])
    BY <1>0, <1>1, <1>3, ServePopMoves
  <2> DEFINE m == mail[w][k]
  <2>2. /\ msg'[w] = m /\ step'[w] = IF m.kind = "SEND" THEN "check" ELSE "purge"
        /\ \A v \in Workers : v # w => msg'[v] = msg[v] /\ step'[v] = step[v]
    BY <1>0, <2>1, HandleIds
  <2>3. CASE Home(i) # w
    BY <1>0, <1>1, <2>1, <2>2, <2>3, SafeApart DEF SameHand, Sheds
  <2>4. CASE Home(i) = w
    <3>1. ~InHandT(w, Target(i), {"purge"}) /\ ~HasTeardown(batch[w], Target(i))
      BY <1>1 DEF InHandT, HasTeardown
    <3>2. m = Teardown(Target(i)) => InHandT(w, Target(i), {"purge"})'
      BY <2>2 DEF InHandT, Teardown
    <3>3. i \in BoxIds(w)' => i \in BoxIds(w) /\ m.id # i
      BY <2>1 DEF Sheds
    <3>4. BoxSafe(i)'
      BY <1>1, <2>1, <2>4, <3>1, <3>2, <3>3 DEF Safe, BoxSafe, StillClosed, StaysShut
    <3>5. i \notin TakenIds(w)'
      BY <1>1 DEF TakenIds, IdsOf
    <3> QED
      BY <2>4, <3>4, <3>5 DEF Safe, TakenSafe
  <2> QED
    BY <2>3, <2>4
<1>4. Reclaimable(w) \subseteq DOMAIN mail[w] /\ Poppable(w) \subseteq DOMAIN mail[w]
  BY DEF Reclaimable, Poppable
<1>5. CASE ServeFlush(w)
  BY <1>2, <1>5 DEF ServeFlush, mbox
<1> QED
  BY <1>2, <1>3, <1>4, <1>5 DEF ServeBlocked, ServeNext, mbox

(* What is recorded as late was so before, or is queued behind a TEARDOWN.   *)
LEMMA LateGrows ==
    ASSUME IInv, Next, NEW i \in late'
    PROVE  i \in Ids /\ (i \in late \/ (Enters(i) /\ Shut(mail'[Home(i)], i)))
<1>0. Base /\ OnceInv /\ SlotInv /\ FrameInv /\ Moving /\ late \subseteq Ids
  BY DEF IInv, Base, Moving, TypeInv, TypeControl
<1>1. ASSUME NEW w \in Workers, PushRequest(w)
      PROVE  i \in Ids /\ (i \in late \/ (Enters(i) /\ Shut(mail'[Home(i)], i)))
  <2>0. PICK r \in Requests : r = req[w]
    BY <1>0, <1>1, RequestFacts DEF PushRequest
  <2>1. /\ Peer(w) = Home(r) /\ Letter(w) = Send(r, To[r]) /\ Running(r) /\ pc[Pub(r)] = "push"
        /\ r \in Ids /\ Home(r) \in Workers
    BY <1>0, <1>1, <2>0, RequestFacts, LetterFacts DEF PushRequest, Ids
  <2>2. CASE late' = late
    BY <1>0, <2>2
  <2>3. CASE Len(mail[Peer(w)]) < QueueMax
    <3>1. /\ Gains(Home(r), r) /\ ~On(r) /\ UNCHANGED <<step, msg>>
          /\ Queued(Home(r), Teardown(To[r])) # {} => Shut(mail'[Home(r)], r)
          /\ late' = late \cup Behind(Home(r), Send(r, To[r]))
      BY <1>0, <1>1, <2>0, <2>1, <2>3, RequestQueued DEF PushRequest, mbox
    <3>2. Enters(r)
      <4>1. Fresh(r)
        BY <2>1 DEF Fresh, Unpushed
      <4> QED
        BY <1>0, <2>1, <3>1, <4>1, GainMoves
    <3>3. Behind(Home(r), Send(r, To[r])) \subseteq {r}
              /\ (r \in Behind(Home(r), Send(r, To[r])) => Shut(mail'[Home(r)], r))
      BY <3>1 DEF Behind, Send
    <3> QED
      BY <1>0, <2>1, <3>1, <3>2, <3>3
  <2> QED
    BY <1>1, <2>2, <2>3 DEF PushRequest
<1>2. ASSUME NEW s \in Sends, PushSend(s)
      PROVE  i \in Ids /\ (i \in late \/ (Enters(i) /\ Shut(mail'[Home(i)], i)))
  <2>1. /\ Home(s) = Owner[Dest[s]] /\ s \in Ids /\ Home(s) \in Workers /\ s \notin Requests
        /\ s \notin pushed
    BY <1>2, LetterFacts DEF Ids, PushSend
  <2>2. CASE late' = late
    BY <1>0, <2>2
  <2>3. CASE Len(mail[Owner[Dest[s]]]) < QueueMax
    <3>1. /\ Gains(Home(s), s) /\ ~On(s) /\ UNCHANGED <<step, msg>>
          /\ Queued(Home(s), Teardown(Dest[s])) # {} => Shut(mail'[Home(s)], s)
          /\ late' = late \cup Behind(Home(s), Send(s, Dest[s]))
      BY <1>0, <1>2, <2>1, <2>3, SendQueued DEF PushSend, mbox
    <3>2. Enters(s)
      <4>1. Fresh(s)
        BY <2>1 DEF Fresh
      <4> QED
        BY <1>0, <2>1, <3>1, <4>1, GainMoves
    <3>3. Behind(Home(s), Send(s, Dest[s])) \subseteq {s}
              /\ (s \in Behind(Home(s), Send(s, Dest[s])) => Shut(mail'[Home(s)], s))
      BY <3>1 DEF Behind, Send
    <3> QED
      BY <1>0, <2>1, <3>1, <3>2, <3>3
  <2> QED
    BY <1>2, <2>2, <2>3 DEF PushSend
<1>3. CASE late' \subseteq late
  BY <1>0, <1>3
<1>4. ASSUME NEW w \in Workers, MailStep(w) \/ EventLoop(w) \/ Expire(w)
      PROVE  late' = late
  BY <1>4 DEF MailStep, DeliverCheck, DeliverClaim, DeliverSend, DeliverDrain, DeliverComplete,
     DeliverFinish, TeardownPurge, TeardownReclaim, EventLoop, WakeupDrain, TakeBatch, BatchNext,
     BatchEnd, Expire
<1>5. ASSUME NEW w \in Workers,
             SignalRequest(w) \/ Look(w) \/ ServeBlocked(w) \/ Slept(w) \/ AnswerRequest(w)
      PROVE  late' \subseteq late
  BY <1>5 DEF SignalRequest, Look, ServeBlocked, Slept, AnswerRequest
<1>6. CASE \/ \E w \in Workers, r \in Requests : StartRequest(w, r)
           \/ \E w \in Workers, c \in Clients : Flush(w, c) \/ PeerClose(w, c)
           \/ \E c \in Clients : PushTeardown(c) \/ AccountDies(c)
           \/ SignalPushed
  <2>1. late' \subseteq late
    BY <1>6 DEF StartRequest, Flush, PeerClose, PushTeardown, AccountDies, SignalPushed
  <2> QED
    BY <1>3, <2>1
<1> QED
  BY <1>1, <1>2, <1>3, <1>4, <1>5, <1>6 DEF Next, WorkerStep, RequestStep

(* Pushing and taking back a REQUEST keeps the shield of what stays late.    *)
LEMMA SafeRequest ==
    ASSUME IInv, NEW w \in Workers, PushRequest(w) \/ SignalRequest(w) \/ Slept(w),
           NEW i \in Ids, Safe(i), StillClosed(i), ~Fresh(i)
    PROVE  Safe(i)'
<1>0. Base /\ SlotInv /\ Home(i) \in Workers
  BY LetterFacts DEF IInv, Base, TypeInv, Ids
<1>1. SameHand(i) /\ batch' = batch
  BY DEF PushRequest, SignalRequest, Slept, mbox, SameHand
<1>2. CASE mail' = mail
  BY <1>1, <1>2, SafeApart
<1>3. pc[w] \in {"push", "signal", "slept"}
  BY DEF PushRequest, SignalRequest, Slept
<1>4. CASE Unlinked(Peer(w), Letter(w)) /\ Unlink(Peer(w), Letter(w))
  <2>1. /\ Sheds(Peer(w), {req[w]}) /\ Peer(w) \in Workers
        /\ i # req[w] => StaysShut(i, mail'[Peer(w)], mail[Peer(w)])
    BY <1>0, <1>1, <1>3, <1>4, LetterUnlinks, RequestFacts
  <2> QED
    BY <1>1, <2>1, SafeShed
<1>5. CASE PushRequest(w) /\ Len(mail[Peer(w)]) < QueueMax
  <2>1. Gains(Peer(w), req[w]) /\ Peer(w) \in Workers
    BY <1>0, <1>3, <1>5, RequestQueued, RequestFacts
  <2>2. i # req[w]
    BY <1>0, <1>3, <1>5, RequestFacts DEF PushRequest, Fresh, Unpushed
  <2> QED
    BY <1>1, <2>1, <2>2, SafeGain
<1> QED
  BY <1>2, <1>4, <1>5 DEF PushRequest, SignalRequest, Slept

(* ... and so does what the acceptor pushes and takes back.                  *)
LEMMA SafeAcceptor ==
    ASSUME IInv, NEW i \in Ids, Safe(i), StillClosed(i), ~Fresh(i), i \in late',
           \/ \E c \in Clients : PushTeardown(c)
           \/ \E s \in Sends : PushSend(s)
           \/ SignalPushed
    PROVE  Safe(i)'
<1>0. Base /\ FrameInv /\ TypeInv /\ Home(i) \in Workers
  BY LetterFacts DEF IInv, Base, TypeInv, Ids
<1>1. SameHand(i) /\ batch' = batch
  BY DEF PushTeardown, PushSend, SignalPushed, mbox, SameHand
<1>2. CASE mail' = mail
  BY <1>1, <1>2, SafeApart
<1>3. ASSUME NEW c \in Clients, PushTeardown(c)
      PROVE  Safe(i)'
  <2>1. Gains(Owner[c], NoId) /\ Owner[c] \in Workers /\ i # NoId
    BY <1>0, <1>3, TeardownQueued, LetterFacts, MailboxAssumption DEF Ids
  <2> QED
    BY <1>1, <2>1, SafeGain
<1>4. ASSUME NEW s \in Sends, PushSend(s)
      PROVE  Safe(i)'
  <2>1. s \notin pushed /\ s \notin Requests /\ Home(s) = Owner[Dest[s]] /\ Home(s) \in Workers
    BY <1>4, LetterFacts DEF PushSend
  <2>2. i # s
    BY <2>1 DEF Fresh
  <2>3. CASE Len(mail[Owner[Dest[s]]]) < QueueMax
    BY <1>0, <1>1, <1>4, <2>1, <2>2, <2>3, SendQueued, SafeGain
  <2> QED
    BY <1>2, <1>4, <2>3 DEF PushSend
<1>5. CASE SignalPushed /\ mail' # mail
  <2> DEFINE w == Owner[amsg.to]
  <2>1. /\ apc = "signal" /\ Unlinked(w, amsg) /\ Unlink(w, amsg)
        /\ late' = late \ IF amsg.kind = "SEND" THEN {amsg.id}
                          ELSE {mail[w][k].id : k \in Letters(mail[w], amsg.to)}
    BY <1>5 DEF SignalPushed
  <2>2. /\ w \in Workers /\ amsg \in Post(w) /\ Sheds(w, {amsg.id})
        /\ amsg # Teardown(Target(i)) /\ amsg.id # i
                                => StaysShut(i, mail'[w], mail[w])
    BY <1>0, <1>1, <2>1, PushedUnlinks
  <2>3. amsg = Teardown(Target(i)) => i \notin BoxIds(w)
    <3> SUFFICES ASSUME amsg = Teardown(Target(i)), i \in BoxIds(w)
                 PROVE  FALSE
      OBVIOUS
    <3>1. amsg.kind = "TEARDOWN" /\ amsg.to = Target(i)
      BY DEF Teardown
    <3>2. mail[w] \in Seq(Post(w))
      BY <1>0, <2>2 DEF TypeInv, TypeBoxes, Boxed
    <3>3. PICK k \in DOMAIN mail[w] : /\ mail[w][k].id = i /\ mail[w][k].kind = "SEND"
                                      /\ mail[w][k].to = Target(i)
      BY <2>2, <3>2, BoxElement DEF BoxIds
    <3>4. k \in Letters(mail[w], amsg.to)
      BY <3>1, <3>3 DEF Letters
    <3> QED
      BY <2>1, <3>1, <3>3, <3>4
  <2> QED
    BY <1>1, <2>2, <2>3, SafeShed
<1> QED
  BY <1>2, <1>3, <1>4, <1>5

(* Only the worker's own loops take a message in hand.                       *)
LEMMA TakesShut ==
    ASSUME IInv, Next, NEW i \in Ids, Taken(i), Shielded(i)
    PROVE  state'[Target(i)] # "open"
<1>0. Base /\ Moving /\ OnceInv /\ TypeInv /\ HandInv /\ Home(i) \in Workers
           /\ Target(i) \in Clients
  BY LetterFacts, MailboxAssumption DEF IInv, Base, TypeInv, Ids, Moving, Target
<1> SUFFICES state[Target(i)] # "open"
  BY <1>0, StaysClosed
<1>1. /\ ~Still(i) /\ ~Leaves(i) /\ ~Enters(i) /\ ~Delivers(i)
      /\ Waiting(i) /\ step'[Home(i)] = "check" /\ msg'[Home(i)].id = i
  <2>1. Waiting(i) /\ ~Waiting(i)' /\ At(i, "check")' /\ On(i)' /\ "check" \in Carrying
    BY OnIs DEF Taken, Carrying
  <2> QED
    BY <2>1 DEF Still, Leaves, Enters, Delivers, At
<1>2. PICK w \in Workers : EventLoop(w) \/ ServeBlocked(w)
  <2>1. ASSUME NEW w \in Workers, MailStep(w)
        PROVE  FALSE
    BY <1>0, <1>1, <2>1, StageMoves, RestMoves DEF MailStep
  <2>2. ASSUME NEW w \in Workers, PushRequest(w) \/ SignalRequest(w) \/ Slept(w)
        PROVE  FALSE
    BY <1>0, <1>1, <2>2, RequestMoves DEF IInv
  <2>3. CASE \/ \E c \in Clients : PushTeardown(c)
             \/ \E s \in Sends : PushSend(s)
             \/ SignalPushed
    BY <1>0, <1>1, <2>3, AcceptorMoves DEF IInv
  <2>4. CASE Resting
    BY <1>1, <2>4, RestingMoves
  <2>5. ASSUME NEW w \in Workers, NEW c \in Clients, PeerClose(w, c)
        PROVE  FALSE
    BY <1>0, <1>1, <2>5, CloseMoves
  <2> QED
    BY <2>1, <2>2, <2>3, <2>4, <2>5 DEF Next, WorkerStep, RequestStep, Resting
<1> DEFINE u == Home(i)
<1>3. CASE WakeupDrain(w) \/ TakeBatch(w) \/ BatchEnd(w)
  <2>1. UNCHANGED <<step, msg>>
    BY <1>3 DEF WakeupDrain, TakeBatch, BatchEnd, mbox
  <2>2. At(i, "check")
    BY <1>1, <2>1 DEF At
  <2> QED
    BY <1>0, <1>1, <2>2, OnePlace DEF Carrying
<1>4. CASE BatchNext(w)
  <2> DEFINE m == Head(batch[w])
  <2>1. /\ step[w] = "none" /\ mail' = mail /\ m \in Post(w) /\ Handle(w, m)
        /\ \A j \in Ids : j \in TakenIds(w) <=> j \in TakenIds(w)' \/ j = m.id
        /\ Shut(batch[w], i) => i # m.id
        /\ \A v \in Workers : v # w => batch'[v] = batch[v]
    BY <1>0, <1>4, NextMoves
  <2>2. /\ msg'[w] = m
        /\ \A v \in Workers : v # w => msg'[v] = msg[v] /\ step'[v] = step[v]
    BY <1>0, <2>1, HandleIds
  <2> HIDE DEF m
  <2>3. u = w
    <3> SUFFICES ASSUME u # w
                 PROVE  FALSE
      OBVIOUS
    <3>1. At(i, "check")
      BY <1>0, <1>1, <2>2 DEF At
    <3> QED
      BY <1>0, <1>1, <3>1, OnePlace DEF Carrying
  <2>4. i = m.id /\ i \in TakenIds(u)
    BY <1>1, <2>1, <2>2, <2>3
  <2> QED
    BY <2>1, <2>3, <2>4 DEF Shielded, TakenSafe, InHandT
<1>5. CASE ServeBlocked(w)
  <2>1. step[w] = "none" /\ batch[w] = <<>> /\ batch' = batch
    BY <1>0, <1>5 DEF ServeBlocked, HandInv
  <2>2. ASSUME UNCHANGED <<step, msg>>
        PROVE  FALSE
    <3>1. At(i, "check")
      BY <1>1, <2>2 DEF At
    <3> QED
      BY <1>0, <1>1, <3>1, OnePlace DEF Carrying
  <2>3. ASSUME NEW S, S \subseteq DOMAIN mail[w], NEW n, ServePop(w, S, n)
        PROVE  \E k \in S : w = u /\ mail[w][k].id = i /\ mail[w][k].kind = "SEND"
                                  /\ i \in BoxIds(w)
    <3>1. PICK k \in S :
              /\ mail[w][k] \in Post(w) /\ Handle(w, mail[w][k])
              /\ Sheds(w, {mail[w][k].id}) /\ mail[w][k].id \in BoxIds(w)
      BY <1>0, <2>1, <2>3, ServePopMoves
    <3>2. /\ msg'[w] = mail[w][k]
          /\ step'[w] = IF mail[w][k].kind = "SEND" THEN "check" ELSE "purge"
          /\ \A v \in Workers : v # w => msg'[v] = msg[v] /\ step'[v] = step[v]
      BY <1>0, <3>1, HandleIds
    <3>3. u = w
      <4> SUFFICES ASSUME u # w
                   PROVE  FALSE
        OBVIOUS
      <4>1. At(i, "check")
        BY <1>0, <1>1, <3>2 DEF At
      <4> QED
        BY <1>0, <1>1, <4>1, OnePlace DEF Carrying
    <3> QED
      BY <1>1, <3>1, <3>2, <3>3
  <2>4. CASE \E n : ServePop(w, Reclaimable(w), n)
    BY <2>3, <2>4 DEF Reclaimable
  <2>5. CASE \E n : ServePop(w, Poppable(w), n)
    <3>1. PICK k \in Poppable(w) : /\ w = u /\ mail[w][k].id = i /\ mail[w][k].kind = "SEND"
                                   /\ i \in BoxIds(w)
      BY <2>3, <2>5 DEF Poppable
    <3>2. /\ mail[w] \in Seq(Post(w)) /\ Distinct(mail[w]) /\ k \in DOMAIN mail[w]
          /\ i # NoId
      BY <1>0, <3>1, MailboxAssumption DEF TypeInv, TypeBoxes, Boxed, Poppable, Ids
    <3>3. mail[w][k].to = Target(i) /\ DOMAIN mail[w] = 1..Len(mail[w]) /\ Len(mail[w]) \in Nat
      BY <1>0, <3>1, <3>2, BoxElement, PostFacts, LenProperties
    <3>4. ~Shut(mail[w], i)
      <4> SUFFICES ASSUME NEW j \in DOMAIN mail[w], NEW l \in DOMAIN mail[w], j < l,
                          mail[w][l].id = i, mail[w][j] = Teardown(Target(i))
                   PROVE  FALSE
        BY DEF Shut
      <4>1. l = k
        BY <3>1, <3>2 DEF Distinct
      <4>2. j \in 1..(k - 1)
        BY <3>2, <3>3, <4>1
      <4> QED
        BY <3>1, <3>3, <4>2 DEF Poppable
    <3>5. ~HasTeardown(batch[w], Target(i)) /\ ~InHandT(w, Target(i), {"purge"})
      BY <2>1 DEF HasTeardown, InHandT
    <3> QED
      BY <3>1, <3>4, <3>5 DEF Shielded, BoxSafe
  <2>6. CASE ServeFlush(w)
    BY <2>2, <2>6 DEF ServeFlush, mbox
  <2> QED
    BY <1>5, <2>2, <2>4, <2>5, <2>6 DEF ServeBlocked, ServeNext, mbox
<1> QED
  BY <1>2, <1>3, <1>4, <1>5 DEF EventLoop

(* Every step keeps the shield of what stays late.                           *)
LEMMA SafeStep ==
    ASSUME IInv, Next, NEW i \in late, i \in late', i \in Ids
    PROVE  Safe(i)'
<1>0. /\ Safe(i) /\ ~Fresh(i) /\ Target(i) \in Clients /\ Home(i) \in Workers
      /\ TypeInv /\ TypeBoxes
  BY LetterFacts, MailboxAssumption DEF IInv, LateInv, Shielded, Safe, Ids, Target, TypeInv
<1>1. StillClosed(i)
  BY <1>0, StaysClosed DEF StillClosed
<1>2. ASSUME NEW w \in Workers, MailStep(w) \/ EventLoop(w) \/ ServeBlocked(w)
      PROVE  Safe(i)'
  BY <1>0, <1>1, <1>2, SafeMail, SafeLoop, SafeServe
<1>3. ASSUME NEW w \in Workers, PushRequest(w) \/ SignalRequest(w) \/ Slept(w)
      PROVE  Safe(i)'
  BY <1>0, <1>1, <1>3, SafeRequest
<1>4. CASE \/ \E c \in Clients : PushTeardown(c)
           \/ \E s \in Sends : PushSend(s)
           \/ SignalPushed
  BY <1>0, <1>1, <1>4, SafeAcceptor
<1>5. CASE Resting
  <2>1. UNCHANGED <<mail, batch, step, msg>>
    BY <1>5 DEF Resting, Look, AnswerRequest, Expire, StartRequest, Flush, AccountDies,
       boxes, mbox
  <2> QED
    BY <1>0, <1>1, <2>1, SafeApart DEF SameHand
<1>6. ASSUME NEW w \in Workers, NEW c \in Clients, PeerClose(w, c)
      PROVE  Safe(i)'
  <2>1. /\ Sheds(w, ToClient(c))
        /\ Target(i) # c => StaysShut(i, mail'[w], mail[w])
    BY <1>0, <1>6, PurgeMoves DEF PeerClose
  <2>2. SameHand(i) /\ (Target(i) = c => i \in ToClient(c))
    BY <1>6 DEF PeerClose, mbox, SameHand, ToClient
  <2> QED
    BY <1>0, <1>1, <2>1, <2>2, SafeShed
<1> QED
  BY <1>2, <1>3, <1>4, <1>5, <1>6 DEF Next, WorkerStep, RequestStep, Resting

(* What is late is never written.                                            *)
LEMMA LateStep ==
    ASSUME IInv, Next
    PROVE  LateInv'
<1> SUFFICES ASSUME NEW i \in late'
             PROVE  Unseen(i)' /\ ~Fresh(i)' /\ Shielded(i)'
  BY DEF LateInv
<1>0. i \in Ids /\ FrameOk(i) /\ Moving /\ OnceInv
  BY LateGrows DEF IInv, FrameInv, Moving
<1>1. Home(i) \in Workers /\ Target(i) \in Clients
  BY <1>0, LetterFacts, MailboxAssumption DEF Ids, Target
<1>2. Kept(i) \/ Emptied(i) \/ Written(i)
  BY <1>0, FramesStep
<1>3. Unseen(i) /\ ~At(i, "send") => Unseen(i)'
  BY <1>1, <1>2 DEF Unseen, Kept, Emptied, Written
<1>4. Fresh(i)' => ~On(i)' /\ (Fresh(i) \/ (Leaves(i) /\ i \notin late'))
  BY <1>0, FreshStep
<1>5. CASE Enters(i) /\ Shut(mail'[Home(i)], i)
  <2>1. Unseen(i) /\ ~At(i, "send")
    BY <1>0, <1>5, OnIs DEF Enters, FrameOk, Carrying
  <2>2. On(i)' /\ \A l \in Carrying : ~At(i, l)'
    BY <1>0, <1>5, OnIs DEF Enters
  <2>3. i \in BoxIds(Home(i))'
    BY <1>5 DEF Shut, BoxIds, IdsOf
  <2>4. i \notin TakenIds(Home(i))'
    BY <1>0, <1>1, <2>3, OnceStep DEF OnceInv
  <2>5. Shielded(i)'
    BY <1>5, <2>2, <2>4 DEF Shielded, BoxSafe, TakenSafe, Carrying
  <2> QED
    BY <1>3, <1>4, <2>1, <2>2, <2>5
<1>6. CASE i \in late /\ ~Enters(i)
  <2>1. Unseen(i) /\ ~Fresh(i) /\ Shielded(i)
    BY <1>6 DEF IInv, LateInv
  <2>2. BoxSafe(i)' /\ TakenSafe(i)'
    BY <1>0, <1>6, SafeStep DEF Safe
  <2>3. ~At(i, "claim")' /\ ~At(i, "send")' /\ ~At(i, "drain")'
    <3>1. CASE Delivers(i)
      <4>1. At(i, "claim")' => At(i, "check") /\ DeliverCheck(Home(i)) /\ state[Target(i)] # "open"
        BY <1>0, <2>1, <3>1, Origin DEF Delivers, Shielded, At
      <4>2. ~At(i, "claim")'
        <5> SUFFICES ASSUME At(i, "claim")'
                     PROVE  FALSE
          OBVIOUS
        <5>1. msg[Home(i)].to = Target(i)
          <6>1. step[Home(i)] = "check" /\ msg[Home(i)].id = i
            BY <4>1 DEF At
          <6>2. msg[Home(i)] \in Post(Home(i)) /\ msg[Home(i)].kind = "SEND"
            BY <1>0, <1>1, <6>1 DEF Moving, HandInv, Carrying
          <6> QED
            BY <6>1, <6>2 DEF Post
        <5>2. Then(Home(i), "complete")
          BY <4>1, <5>1 DEF DeliverCheck
        <5> QED
          BY <1>0, <1>1, <5>2 DEF Then, At, Moving, TypeInv, TypeControl
      <4> QED
        BY <1>0, <2>1, <3>1, <4>2, Origin DEF Shielded
    <3>2. CASE ~Delivers(i)
      BY <1>0, <2>1, <3>2, Origin DEF Shielded
    <3> QED
      BY <3>1, <3>2
  <2>4. At(i, "check")' => state'[Target(i)] # "open"
    <3> SUFFICES ASSUME At(i, "check")'
                 PROVE  state'[Target(i)] # "open"
      OBVIOUS
    <3>0. Moved(i) /\ On(i)'
      BY <1>0, MovedStep, OnIs DEF Carrying
    <3>1. CASE Still(i)
      BY <1>1, <2>1, <3>1, StaysClosed DEF Still, Carrying, Shielded
    <3>2. CASE Taken(i)
      BY <1>0, <2>1, <3>2, TakesShut
    <3>3. CASE Delivers(i)
      BY <1>0, <3>3, Origin
    <3> QED
      BY <1>6, <3>0, <3>1, <3>2, <3>3 DEF Moved, Leaves
  <2>5. Shielded(i)'
    BY <2>2, <2>3, <2>4 DEF Shielded
  <2>6. ~At(i, "send")
    BY <2>1 DEF Shielded
  <2> QED
    BY <1>3, <1>4, <2>1, <2>5, <2>6
<1>7. i \in late \/ (Enters(i) /\ Shut(mail'[Home(i)], i))
  BY LateGrows
<1>8. i \in late => ~Enters(i)
  BY DEF IInv, LateInv, Enters
<1> QED
  BY <1>5, <1>6, <1>7, <1>8

-----------------------------------------------------------------------------
(* The theorems.                                                             *)

(* The invariant holds when the server starts, ...                           *)
LEMMA InitInv == Init => IInv
<1> SUFFICES ASSUME Init
             PROVE  IInv
  OBVIOUS
<1>0. /\ \A w \in Workers : /\ mail[w] = <<>> /\ batch[w] = <<>> /\ pc[w] = "idle"
                            /\ req[w] = NoId /\ step[w] = "none"
      /\ \A w \in Workers : BoxIds(w) = {} /\ TakenIds(w) = {} /\ HandIds(w) = {}
  BY DEF Init, BoxIds, TakenIds, HandIds, IdsOf, Carrying
<1>1. \A i \in Ids : /\ Home(i) \in Workers /\ ~On(i) /\ ~Waiting(i)
                     /\ \A l \in Carrying : ~At(i, l)
  BY <1>0, LetterFacts DEF Ids, On, Waiting, At, Carrying
<1>2. TypeInv
  <2>1. \A w \in Workers : Boxed(mail[w], w) /\ Boxed(batch[w], w)
    <3>1. \A w : Boxed(<<>>, w)
      <4>1. \A w : <<>> \in Seq(Post(w)) /\ Len(<<>>) = 0 /\ DOMAIN <<>> = {}
        OBVIOUS
      <4>2. QueueMax \in Nat /\ Slack \in Nat
        BY MailboxAssumption
      <4>3. 0 <= QueueMax + Slack
        BY <4>2
      <4> QED
        BY <4>1, <4>3 DEF Boxed, Distinct
    <3> QED
      BY <1>0, <3>1
  <2>2. TypeBoxes
    BY <2>1 DEF Init, TypeBoxes
  <2>3. TypeConns /\ TypeSlots
    BY DEF Init, TypeConns, TypeSlots
  <2>4. TypeControl
    BY DEF Init, TypeControl, Labels, Stages, Answers
  <2> QED
    BY <2>2, <2>3, <2>4 DEF TypeInv
<1>3. HandInv /\ OnceInv
  BY <1>0 DEF HandInv, OnceInv, Init, Carrying
<1>4. \A r \in Requests : /\ Pub(r) \in Workers /\ ~Running(r) /\ answer[r] = "none"
                          /\ r \in Ids
  BY <1>0, LetterFacts, MailboxAssumption DEF Running, Init, Ids
<1>5. RunInv
  BY <1>0, <1>4 DEF RunInv
<1>6. SlotInv
  BY <1>1, <1>4 DEF SlotInv, SlotOk, Holds, Allocated, Init
<1>7. \A i \in Ids : Unseen(i)
  BY DEF Init, Unseen
<1>8. FrameInv
  BY <1>1, <1>7 DEF FrameInv, FrameOk, Unseen, Carrying
<1>9. ResultInv
  BY <1>1, <1>4, <1>7 DEF ResultInv, ResultOk, Init, Carrying, Declined, Accepted, Early
<1>10. LateInv
  BY DEF Init, LateInv
<1> QED
  BY <1>2, <1>3, <1>5, <1>6, <1>8, <1>9, <1>10 DEF IInv

(* ... every step keeps it, ...                                              *)
LEMMA NextInv == IInv /\ [Next]_vars => IInv'
<1>1. ASSUME IInv, Next
      PROVE  IInv'
  <2>1. Base /\ FrameInv
    BY <1>1 DEF IInv, Base
  <2>2. TypeConns' /\ TypeSlots' /\ TypeControl'
    BY <1>1, <2>1, TypeStep
  <2>3. TypeBoxes' /\ OnceInv'
    BY <1>1, OnceStep
  <2>4. TypeInv'
    BY <2>2, <2>3 DEF TypeInv
  <2>5. HandInv' /\ RunInv'
    BY <1>1, <2>1, HandStep, RunStep
  <2>6. SlotInv' /\ FrameInv' /\ ResultInv' /\ LateInv'
    BY <1>1, SlotStep, FrameStep, ResultStep, LateStep
  <2> QED
    BY <2>3, <2>4, <2>5, <2>6 DEF IInv
<1>2. ASSUME IInv, UNCHANGED vars
      PROVE  IInv'
  <2>0. UNCHANGED vars
    BY <1>2
  <2>1. /\ UNCHANGED <<mail, batch, step, msg, state, buf, sent, result, refs, freed, buffered>>
        /\ UNCHANGED <<pc, req, code, answer, apc, amsg, pushed, late, ok>>
    BY <2>0 DEF vars, boxes, conns, slots, wait, mbox, accept
  <2>2. TypeInv' /\ HandInv' /\ RunInv'
    <3>1. TypeBoxes' /\ TypeConns' /\ TypeSlots' /\ TypeControl'
      BY <1>2, <2>1 DEF IInv, TypeInv, TypeBoxes, TypeConns, TypeSlots, TypeControl
    <3>2. HandInv' /\ RunInv'
      BY <1>2, <2>1 DEF IInv, HandInv, RunInv
    <3> QED
      BY <3>1, <3>2 DEF TypeInv
  <2>3. /\ \A w : BoxIds(w)' = BoxIds(w) /\ TakenIds(w)' = TakenIds(w) /\ HandIds(w)' = HandIds(w)
        /\ \A i : (On(i)' <=> On(i)) /\ (Waiting(i)' <=> Waiting(i)) /\ (Unseen(i)' <=> Unseen(i))
        /\ \A i, l : At(i, l)' <=> At(i, l)
    BY <2>1 DEF BoxIds, TakenIds, HandIds, On, Waiting, Unseen, At
  <2>4. \A r : /\ Running(r)' <=> Running(r)
               /\ Holds(r)' <=> Holds(r)
               /\ Allocated(r)' <=> Allocated(r)
               /\ Unpushed(r)' <=> Unpushed(r)
               /\ Declined(r)' <=> Declined(r)
               /\ Accepted(r)' <=> Accepted(r)
    BY <2>1 DEF Running, Holds, Allocated, Unpushed, Declined, Accepted
  <2>5. OnceInv' /\ SlotInv'
    BY <1>2, <2>1, <2>3, <2>4 DEF IInv, OnceInv, SlotInv, SlotOk
  <2>6. FrameInv'
    BY <1>2, <2>1, <2>3, <2>4 DEF IInv, FrameInv, FrameOk, Early, Fresh
  <2>7. ResultInv'
    BY <1>2, <2>1, <2>3, <2>4 DEF IInv, ResultInv, ResultOk, Early
  <2>8. LateInv'
    BY <1>2, <2>1, <2>3, <2>4 DEF IInv, LateInv, Shielded, BoxSafe, TakenSafe, Fresh, InHandT
  <2> QED
    BY <2>2, <2>5, <2>6, <2>7, <2>8 DEF IInv
<1> QED
  BY <1>1, <1>2

(* ... so it always holds.                                                   *)
THEOREM Invariant == Spec => []IInv
<1> QED
  BY InitInv, NextInv, PTL DEF Spec

(* A message carries the slot of r exactly when r's own worker has it.       *)
LEMMA CarriedIsOn ==
    ASSUME IInv, NEW r \in Requests
    PROVE  Carried(r) <=> On(r)
<1>0. TypeInv /\ HandInv /\ r \in Ids /\ Home(r) \in Workers
  BY LetterFacts DEF IInv, Ids
<1>1. On(r) => Carried(r)
  BY <1>0 DEF On, Carried, InMail, InBatch, InHand, BoxIds, TakenIds, HandIds, IdsOf, Carrying
<1>2. ASSUME NEW w \in Workers
      PROVE  /\ \A k \in DOMAIN mail[w] : mail[w][k].id = r => On(r)
             /\ \A k \in DOMAIN batch[w] : batch[w][k].id = r => On(r)
             /\ step[w] \in Carrying /\ msg[w].id = r => On(r)
  <2>1. r \in BoxIds(w) \/ r \in TakenIds(w) \/ r \in HandIds(w) => On(r)
    BY <1>0, AtHome
  <2> QED
    BY <2>1 DEF BoxIds, TakenIds, HandIds, IdsOf
<1> QED
  BY <1>1, <1>2 DEF Carried, InMail, InBatch, InHand, Carrying

(* req_sync_release, whatever the interleaving of the publisher, the owner   *)
(* and the purges: a sync slot is freed at most once, never while a message  *)
(* or the publisher still refers to it, and never leaked.                    *)
THEOREM SlotSafe == Spec => []SlotFreedOnce
<1>1. ASSUME IInv
      PROVE  SlotFreedOnce
  <2> SUFFICES ASSUME NEW r \in Requests
               PROVE  /\ freed[r] <= 1
                      /\ Carried(r) => freed[r] = 0
                      /\ \A w \in Workers : pc[w] = "look" /\ req[w] = r => freed[r] = 0
                      /\ Over(r) /\ ~Carried(r) => freed[r] = 1
    BY DEF SlotFreedOnce
  <2>0. SlotOk(r) /\ (Carried(r) <=> On(r)) /\ Base
    BY <1>1, CarriedIsOn DEF IInv, SlotInv, Base
  <2>1. freed[r] <= 1 /\ (On(r) => freed[r] = 0)
    BY <2>0 DEF SlotOk
  <2>2. ASSUME NEW w \in Workers, pc[w] = "look", req[w] = r
        PROVE  freed[r] = 0
    <3>1. Pub(r) = w /\ Running(r)
      BY <2>0, <2>2, RequestFacts
    <3>2. Holds(r)
      BY <2>2, <3>1 DEF Holds
    <3> QED
      BY <2>0, <3>2 DEF SlotOk
  <2>3. Over(r) /\ ~On(r) => freed[r] = 1
    <3> SUFFICES ASSUME Over(r), ~On(r)
                 PROVE  freed[r] = 1
      OBVIOUS
    <3>1. ~Running(r)
      <4>1. Pub(r) \in Workers /\ r # NoId
        BY LetterFacts, MailboxAssumption
      <4> QED
        BY <2>0, <4>1 DEF Base, RunInv, Running, Over
    <3>2. ~Holds(r) /\ Allocated(r)
      BY <3>1 DEF Holds, Allocated, Over
    <3> QED
      BY <2>0, <3>2 DEF SlotOk
  <2> QED
    BY <2>0, <2>1, <2>2, <2>3
<1> QED
  BY <1>1, Invariant, PTL

(* handle_request: a REQUEST that goes to the cluster was not and will not   *)
(* be written to a local responder.                                          *)
THEOREM OnlyOneResponder == Spec => []OneResponder
<1>1. ASSUME IInv
      PROVE  OneResponder
  BY <1>1 DEF IInv, ResultInv, ResultOk, OneResponder, Declined, Unseen
<1> QED
  BY <1>1, Invariant, PTL

(* A PUBACK means the REQUEST was written, no frame is written twice, and    *)
(* what was queued behind a TEARDOWN is never written.                       *)
THEOREM AckSound == Spec => []AckedOnce
<1>1. ASSUME IInv
      PROVE  AckedOnce
  BY <1>1 DEF IInv, ResultInv, ResultOk, FrameInv, FrameOk, LateInv, AckedOnce, Accepted, Unseen
<1> QED
  BY <1>1, Invariant, PTL

-----------------------------------------------------------------------------
(* No lost wakeup of a worker's mailbox, for any number of workers, clients  *)
(* and requests and any number of failed wakeups.                            *)

-----------------------------------------------------------------------------
(* The inductive invariant.                                                  *)

Has(s, m) == \E k \in DOMAIN s : s[k] = m
Inj(s)    == \A j, k \in DOMAIN s : s[j] = s[k] => j = k

(* The worker is bound to look at its mailbox.                               *)
Covered(w) == w \in woken \/ pc[w] = "take" \/ (pc[w] = "batch" /\ w \in more)

(* The thread that queued m has not signalled yet.                           *)
Announcing(m) == \/ apc = "signal" /\ amsg = m
                 \/ \E v \in Workers : pc[v] = "signal" /\ Letter(v) = m

(* No message is queued twice, and each queued message is covered or still   *)
(* to be announced by the thread that queued it.                             *)
WakeInv == \A w \in Workers :
              /\ Inj(mail[w])
              /\ \A m : Has(mail[w], m) => Covered(w) \/ Announcing(m)

-----------------------------------------------------------------------------
(* Messages that a mailbox keeps.                                            *)

Thinner(t, s) == (Inj(s) => Inj(t)) /\ \A m : Has(t, m) => Has(s, m)

(* Unlinking keeps a part of the messages; an unlinked one is gone.          *)
LEMMA ThinsMessages ==
    ASSUME NEW S, NEW s \in Seq(S), NEW t \in Seq(S), NEW D, NEW f, Thins(t, s, D, f)
    PROVE  /\ Thinner(t, s)
           /\ Inj(s) => \A k \in D \cap DOMAIN s : ~Has(t, s[k])
<1>1. DOMAIN s \subseteq Int /\ DOMAIN t \subseteq Int
  BY LenProperties
<1>2. \A i \in DOMAIN t : f[i] \in DOMAIN s \ D /\ t[i] = s[f[i]]
  BY DEF Thins
<1>3. \A i, j \in DOMAIN t : f[i] = f[j] => i = j
  <2> SUFFICES ASSUME NEW i \in DOMAIN t, NEW j \in DOMAIN t, f[i] = f[j], i # j
               PROVE  FALSE
    OBVIOUS
  <2>1. i < j \/ j < i
    BY <1>1
  <2>2. f[i] < f[j] \/ f[j] < f[i]
    BY <2>1 DEF Thins
  <2>3. f[i] \in Int /\ f[j] \in Int
    BY <1>1, <1>2
  <2> QED
    BY <2>2, <2>3
<1>4. \A m : Has(t, m) => Has(s, m)
  BY <1>2 DEF Has
<1>5. Inj(s) => Inj(t)
  BY <1>2, <1>3 DEF Inj
<1>6. Inj(s) => \A k \in D \cap DOMAIN s : ~Has(t, s[k])
  BY <1>2 DEF Inj, Has
<1> QED
  BY <1>4, <1>5, <1>6 DEF Thinner

(* worker_purge_send_for_id keeps a part of the mailbox.                     *)
LEMMA PurgeThinner ==
    ASSUME TypeBoxes, NEW w \in Workers, NEW c, Purge(w, c), NEW v \in Workers
    PROVE  Thinner(mail'[v], mail[v])
<1> DEFINE s == mail[w]
           D == Letters(s, c)
           K == DOMAIN s \ D
<1>1. PICK pos \in [1..Cardinality(K) -> K] :
          /\ \A i, j \in DOMAIN pos : i < j => pos[i] < pos[j]
          /\ mail' = [mail EXCEPT ![w] = [i \in DOMAIN pos |-> s[pos[i]]]]
  BY DEF Purge
<1> DEFINE t == [i \in DOMAIN pos |-> s[pos[i]]]
<1>2. s \in Seq(Post(w))
  BY DEF TypeBoxes, Boxed
<1>3. K = DOMAIN s \ D /\ Chosen(t, s, K, pos)
  BY <1>1 DEF Chosen
<1>4. mail' = [mail EXCEPT ![w] = t]
  BY <1>1
<1> HIDE DEF s, D, K, t
<1>5. t \in Seq(Post(w)) /\ Thins(t, s, D, pos)
  BY <1>2, <1>3, KeptThins
<1>6. Thinner(t, s)
  BY <1>2, <1>5, ThinsMessages
<1>7. CASE v = w
  BY <1>4, <1>6, <1>7 DEF s, TypeBoxes
<1>8. CASE v # w
  BY <1>4, <1>8 DEF TypeBoxes, Thinner
<1> QED
  BY <1>7, <1>8

(* Unlinking the k-th message keeps the others.                              *)
LEMMA WithoutThinner ==
    ASSUME TypeBoxes, NEW w \in Workers, NEW k \in DOMAIN mail[w],
           mail' = [mail EXCEPT ![w] = Without(@, k)], NEW v \in Workers
    PROVE  /\ Thinner(mail'[v], mail[v])
           /\ v = w /\ Inj(mail[w]) => ~Has(mail'[w], mail[w][k])
<1> DEFINE s == mail[w]
           t == Without(s, k)
<1>1. s \in Seq(Post(w)) /\ k \in DOMAIN s
  BY DEF TypeBoxes, Boxed
<1>2. mail' = [mail EXCEPT ![w] = t]
  OBVIOUS
<1> HIDE DEF s
<1>3. t \in Seq(Post(w)) /\ \E f : Thins(t, s, {k}, f)
  BY <1>1, WithoutThins
<1> HIDE DEF t
<1>4. Thinner(t, s) /\ (Inj(s) => ~Has(t, s[k]))
  BY <1>1, <1>3, ThinsMessages
<1>5. CASE v = w
  BY <1>2, <1>4, <1>5 DEF s, TypeBoxes
<1>6. CASE v # w
  BY <1>2, <1>6 DEF TypeBoxes, Thinner
<1> QED
  BY <1>5, <1>6

(* A message that could be unlinked is gone, the others stay.                *)
LEMMA UnlinkThinner ==
    ASSUME TypeBoxes, NEW w \in Workers, NEW m, Unlinked(w, m), Unlink(w, m), NEW v \in Workers
    PROVE  /\ Thinner(mail'[v], mail[v])
           /\ v = w /\ Inj(mail[w]) => ~Has(mail'[w], m)
<1> DEFINE Q == Queued(w, m)
           k == FirstOf(Q)
<1>1. mail[w] \in Seq(Post(w))
  BY DEF TypeBoxes, Boxed
<1>2. Q # {} /\ Q \subseteq DOMAIN mail[w] /\ Q \subseteq Nat
  BY <1>1, LenProperties DEF Unlinked, Queued
<1>3. k \in Q
  BY <1>2, FirstOfPlace
<1>4. k \in DOMAIN mail[w] /\ mail[w][k] = m
  BY <1>3 DEF Queued
<1>5. mail' = [mail EXCEPT ![w] = Without(@, k)]
  BY DEF Unlink
<1> HIDE DEF Q, k
<1> QED
  BY <1>4, <1>5, WithoutThinner

(* Queueing adds one message.                                                *)
LEMMA AppendMessages ==
    ASSUME TypeBoxes, NEW w \in Workers, NEW m \in Post(w), ~Has(mail[w], m),
           mail' = [mail EXCEPT ![w] = Append(@, m)], NEW v \in Workers
    PROVE  /\ Inj(mail[v]) => Inj(mail'[v])
           /\ \A x : Has(mail'[v], x) => Has(mail[v], x) \/ (v = w /\ x = m)
<1> DEFINE s == mail[w]
           t == Append(s, m)
<1>1. s \in Seq(Post(w)) /\ Len(s) \in Nat /\ DOMAIN s = 1..Len(s)
  BY LenProperties DEF TypeBoxes, Boxed
<1>2. /\ t \in Seq(Post(w)) /\ Len(t) = Len(s) + 1
      /\ \A i \in 1..Len(s) : t[i] = s[i]
      /\ t[Len(s) + 1] = m
  BY <1>1, AppendProperties
<1>3. DOMAIN t = 1..(Len(s) + 1)
  BY <1>2, LenProperties
<1>4. mail'[v] = IF v = w THEN t ELSE mail[v]
  BY DEF TypeBoxes
<1>5. ~Has(s, m)
  OBVIOUS
<1> HIDE DEF s, t
<1>6. \A i \in DOMAIN t : (i \in DOMAIN s /\ t[i] = s[i]) \/ (i = Len(s) + 1 /\ t[i] = m)
  BY <1>1, <1>2, <1>3
<1>7. Inj(s) => Inj(t)
  BY <1>5, <1>6 DEF Inj, Has
<1>8. \A x : Has(t, x) => Has(s, x) \/ x = m
  BY <1>6 DEF Has
<1> QED
  BY <1>4, <1>7, <1>8 DEF s

-----------------------------------------------------------------------------
(* Steps.                                                                    *)

(* Those that were about to signal still are.                                *)
Pending == /\ UNCHANGED <<apc, amsg>>
           /\ \A v \in Workers : pc[v] = "signal" => pc'[v] = "signal" /\ req'[v] = req[v]

StillCovered == \A v \in Workers : Covered(v) => Covered(v)'
AllThinner   == \A v \in Workers : Thinner(mail'[v], mail[v])

(* A step that queues nothing, announces nothing and uncovers nobody.        *)
LEMMA WakeKept ==
    ASSUME WakeInv, Pending, StillCovered, AllThinner
    PROVE  WakeInv'
<1>1. \A m : Announcing(m) => Announcing(m)'
  BY DEF Announcing, Pending, Letter
<1> QED
  BY <1>1 DEF WakeInv, StillCovered, AllThinner, Thinner

(* The worker's own loop: it empties the fd before it takes the messages.    *)
LEMMA WakeLoop ==
    ASSUME Base, WakeInv, NEW w \in Workers, EventLoop(w)
    PROVE  WakeInv'
<1>0. TypeBoxes /\ pc \in [Workers -> Labels] /\ RunInv
  BY DEF Base, TypeInv, TypeControl
<1>1. ASSUME NEW l, pc' = [pc EXCEPT ![w] = l], pc[w] # "signal", UNCHANGED <<apc, amsg, req>>
      PROVE  Pending
  BY <1>0, <1>1 DEF Pending
<1>2. CASE WakeupDrain(w)
  <2>1. Pending /\ mail' = mail
    BY <1>1, <1>2 DEF WakeupDrain, Go, accept, wait
  <2>2. StillCovered
    BY <1>0, <1>2 DEF WakeupDrain, Go, StillCovered, Covered
  <2> QED
    BY <2>1, <2>2, WakeKept DEF AllThinner, Thinner
<1>3. CASE TakeBatch(w)
  <2>1. Pending /\ pc[w] = "take" /\ pc' = [pc EXCEPT ![w] = "batch"] /\ woken' = woken
    BY <1>1, <1>3 DEF TakeBatch, Go, accept, wait
  <2>2. PICK n \in 0..Len(mail[w]) :
            /\ mail' = [mail EXCEPT ![w] = SubSeq(@, n + 1, Len(@))]
            /\ more' = IF n < Len(mail[w]) THEN more \cup {w} ELSE more \ {w}
    <3>1. Len(mail[w]) \in Nat /\ WakeBatch \in Nat
      BY <1>0, MailboxAssumption, LenProperties DEF TypeBoxes, Boxed
    <3> DEFINE n == IF Len(mail[w]) < WakeBatch THEN Len(mail[w]) ELSE WakeBatch
    <3>2. n \in 0..Len(mail[w])
      BY <3>1
    <3>3. /\ mail' = [mail EXCEPT ![w] = SubSeq(@, n + 1, Len(@))]
          /\ more' = IF n < Len(mail[w]) THEN more \cup {w} ELSE more \ {w}
      BY <1>3 DEF TakeBatch
    <3> QED
      BY <3>2, <3>3
  <2> DEFINE s == mail[w]
             t == SubSeq(s, n + 1, Len(s))
  <2>3. s \in Seq(Post(w)) /\ Len(s) \in Nat /\ DOMAIN s = 1..Len(s)
    BY <1>0, LenProperties DEF TypeBoxes, Boxed
  <2>4. /\ t \in Seq(Post(w)) /\ Len(t) = Len(s) - n
        /\ \A i \in 1..(Len(s) - n) : t[i] = s[n + i]
    BY <2>3, SuffixParts
  <2>5. DOMAIN t = 1..(Len(s) - n)
    BY <2>4, LenProperties
  <2>6. mail'[w] = t /\ \A v \in Workers : v # w => mail'[v] = mail[v]
    BY <1>0, <2>2 DEF TypeBoxes
  <2>7. n < Len(s) => w \in more'
    BY <2>2
  <2> HIDE DEF s, t
  <2>8. \A i \in DOMAIN t : n + i \in DOMAIN s /\ t[i] = s[n + i]
    BY <2>3, <2>4, <2>5
  <2>9. Inj(s) => Inj(t)
    <3> SUFFICES ASSUME Inj(s), NEW i \in DOMAIN t, NEW j \in DOMAIN t, t[i] = t[j]
                 PROVE  i = j
      BY DEF Inj
    <3>1. n + i = n + j
      BY <2>8 DEF Inj
    <3>2. i \in Int /\ j \in Int /\ n \in Int
      BY <2>5
    <3> QED
      BY <3>1, <3>2
  <2>10. Thinner(t, s)
    BY <2>8, <2>9 DEF Thinner, Has
  <2>11. AllThinner
    BY <2>6, <2>10 DEF AllThinner, Thinner, s
  <2>12. \A m : Announcing(m) => Announcing(m)'
    BY <2>1 DEF Announcing, Pending, Letter
  <2>13. ASSUME NEW m, Has(mail'[w], m)
         PROVE  Covered(w)'
    <3>1. n < Len(s)
      BY <2>3, <2>5, <2>6, <2>13 DEF Has
    <3> QED
      BY <1>0, <2>1, <2>7, <3>1 DEF Covered
  <2>14. \A v \in Workers : v # w /\ Covered(v) => Covered(v)'
    BY <1>0, <2>1, <2>2 DEF Covered
  <2> QED
    BY <2>11, <2>12, <2>13, <2>14 DEF WakeInv, AllThinner, Thinner
<1>4. CASE BatchNext(w)
  <2>1. UNCHANGED <<mail, woken, more, pc, apc, amsg, req>>
    BY <1>4 DEF BatchNext, accept, wait
  <2> QED
    BY <2>1, WakeKept DEF Pending, StillCovered, Covered, AllThinner, Thinner
<1>5. CASE BatchEnd(w)
  <2>1. mail' = mail /\ UNCHANGED <<apc, amsg, req>> /\ more' = more \ {w} /\ pc[w] = "batch"
    BY <1>5 DEF BatchEnd, accept, wait
  <2>2. \/ w \notin more /\ pc' = [pc EXCEPT ![w] = "idle"] /\ woken' = woken
        \/ w \in more /\ woken' = woken \cup {w} /\ pc' = [pc EXCEPT ![w] = "idle"]
        \/ w \in more /\ pc' = [pc EXCEPT ![w] = "take"] /\ woken' = woken
    BY <1>5 DEF BatchEnd, Go, Wake
  <2>3. Pending
    BY <1>1, <2>1, <2>2
  <2>4. StillCovered
    BY <1>0, <2>1, <2>2 DEF StillCovered, Covered
  <2> QED
    BY <2>1, <2>3, <2>4, WakeKept DEF AllThinner, Thinner
<1> QED
  BY <1>2, <1>3, <1>4, <1>5 DEF EventLoop

(* Handling messages and closing clients only thins the mailboxes.           *)
LEMMA WakeMail ==
    ASSUME Base, WakeInv, NEW w \in Workers,
           MailStep(w) \/ \E c \in Clients : PeerClose(w, c)
    PROVE  WakeInv'
<1>1. UNCHANGED <<woken, more, pc, apc, amsg, req>>
  BY DEF MailStep, DeliverCheck, DeliverClaim, DeliverSend, DeliverDrain,
     DeliverComplete, DeliverFinish, TeardownPurge, TeardownReclaim, PeerClose, boxes,
     accept, wait
<1>2. AllThinner
  <2>1. CASE mail' = mail
    BY <2>1 DEF AllThinner, Thinner
  <2>2. CASE \E c : Purge(w, c)
    BY <2>2, PurgeThinner DEF AllThinner, Base, TypeInv
  <2>3. mail' = mail \/ \E c : Purge(w, c)
    BY DEF MailStep, DeliverCheck, DeliverClaim, DeliverSend, DeliverDrain,
       DeliverComplete, DeliverFinish, TeardownPurge, TeardownReclaim, PeerClose, boxes,
       FinishClosing
  <2> QED
    BY <2>1, <2>2, <2>3
<1> QED
  BY <1>1, <1>2, WakeKept DEF Pending, StillCovered, Covered

(* The publisher's worker: only the push queues, only the signal announces.  *)
LEMMA WakeRequest ==
    ASSUME IInv, WakeInv, NEW w \in Workers, RequestStep(w) \/ Expire(w)
    PROVE  WakeInv'
<1>0. Base /\ SlotInv /\ TypeInv /\ TypeBoxes /\ pc \in [Workers -> Labels] /\ RunInv
  BY DEF IInv, Base, TypeInv, TypeControl
<1>a. ASSUME NEW l, pc' = [pc EXCEPT ![w] = l], pc[w] \notin {"signal", "take", "batch"},
             UNCHANGED <<woken, more, apc, amsg>>,
             \A v \in Workers : v # w => req'[v] = req[v]
      PROVE  Pending /\ StillCovered
  BY <1>0, <1>a DEF Pending, StillCovered, Covered
<1>b. UNCHANGED <<apc, amsg, more>>
  BY DEF RequestStep, PushRequest, SignalRequest, Look, ServeBlocked, Slept, AnswerRequest,
     Expire, accept, boxes
<1>1. CASE PushRequest(w)
  <2>0. PICK r \in Requests : r = req[w]
    BY <1>0, <1>1, RequestFacts DEF PushRequest
  <2>1. /\ Peer(w) = Home(r) /\ Letter(w) = Send(r, To[r]) /\ Letter(w) \in Post(Peer(w))
        /\ Peer(w) \in Workers /\ pc[w] = "push" /\ UNCHANGED <<woken, req>>
    BY <1>0, <1>1, <2>0, RequestFacts DEF PushRequest
  <2>2. CASE mail' = mail /\ PushFailed(w)
    <3>1. PICK l : pc' = [pc EXCEPT ![w] = l]
      BY <2>2, PushFailedGoes
    <3>2. Pending /\ StillCovered
      BY <1>a, <1>b, <2>1, <3>1
    <3> QED
      BY <2>2, <3>2, WakeKept DEF AllThinner, Thinner
  <2>3. CASE Len(mail[Peer(w)]) < QueueMax
    <3>1. /\ mail' = [mail EXCEPT ![Peer(w)] = Append(@, Letter(w))]
          /\ pc' = [pc EXCEPT ![w] = "signal"]
      BY <1>1, <2>3 DEF PushRequest, Go
    <3>2. ~Has(mail[Peer(w)], Letter(w))
      <4>1. ~On(r)
        BY <1>0, <1>1, <2>0, <2>3, RequestQueued
      <4> QED
        BY <2>1, <4>1 DEF Has, On, BoxIds, IdsOf, Send
    <3>3. Pending /\ StillCovered
      BY <1>a, <1>b, <2>1, <3>1
    <3>4. \A v \in Workers :
              /\ Inj(mail[v]) => Inj(mail'[v])
              /\ \A x : Has(mail'[v], x) => Has(mail[v], x) \/ x = Letter(w)
      BY <1>0, <2>1, <3>1, <3>2, AppendMessages
    <3>5. \A m : Announcing(m) => Announcing(m)'
      BY <3>3 DEF Announcing, Pending, Letter
    <3>6. \A m : m = Letter(w) => Announcing(m)'
      BY <1>0, <2>1, <3>1 DEF Announcing, Letter
    <3> QED
      BY <3>3, <3>4, <3>5, <3>6 DEF WakeInv, StillCovered
  <2> QED
    BY <1>1, <2>2, <2>3 DEF PushRequest
<1>2. CASE SignalRequest(w)
  <2>1. /\ Peer(w) \in Workers /\ pc[w] = "signal" /\ req' = req /\ woken \subseteq woken'
        /\ Letter(w) \in Post(Peer(w))
    BY <1>0, <1>2, RequestFacts DEF SignalRequest, Wake
  <2>2. PICK l : pc' = [pc EXCEPT ![w] = l]
    BY <1>2, PushFailedGoes DEF SignalRequest, Go
  <2>3. StillCovered
    BY <1>0, <1>b, <2>1, <2>2 DEF StillCovered, Covered
  <2>4. \A m : Announcing(m) /\ m # Letter(w) => Announcing(m)'
    BY <1>0, <1>b, <2>1, <2>2 DEF Announcing, Letter
  <2>5. ASSUME AllThinner, Peer(w) \in woken' \/ ~Has(mail'[Peer(w)], Letter(w))
        PROVE  WakeInv'
    <3>1. ASSUME NEW v \in Workers, NEW m, Has(mail'[v], m)
          PROVE  Covered(v)' \/ Announcing(m)'
      <4>1. CASE v = Peer(w) /\ Peer(w) \in woken'
        BY <4>1 DEF Covered
      <4>2. CASE m # Letter(w)
        BY <2>3, <2>4, <2>5, <3>1, <4>2 DEF AllThinner, Thinner, StillCovered, WakeInv
      <4>3. CASE m = Letter(w)
        <5>1. v = Peer(w)
          <6>1. Has(mail[v], m)
            BY <2>5, <3>1 DEF AllThinner, Thinner
          <6>2. m \in Post(v)
            BY <1>0, <6>1, BoxElement DEF Has, TypeBoxes, Boxed
          <6> QED
            BY <2>1, <4>3, <6>2 DEF Post
        <5> QED
          BY <2>5, <3>1, <4>1, <4>3, <5>1
      <4> QED
        BY <4>2, <4>3
    <3>2. \A v \in Workers : Inj(mail'[v])
      BY <2>5 DEF AllThinner, Thinner, WakeInv
    <3> QED
      BY <3>1, <3>2 DEF WakeInv
  <2>6. CASE Wake(Peer(w)) /\ mail' = mail
    BY <2>5, <2>6 DEF Wake, AllThinner, Thinner
  <2>7. CASE ~Unlinked(Peer(w), Letter(w)) /\ mail' = mail
    BY <2>5, <2>7 DEF Unlinked, Queued, Has, AllThinner, Thinner
  <2>8. CASE Unlinked(Peer(w), Letter(w)) /\ Unlink(Peer(w), Letter(w))
    <3>1. AllThinner /\ ~Has(mail'[Peer(w)], Letter(w))
      BY <1>0, <2>1, <2>8, UnlinkThinner DEF AllThinner, WakeInv
    <3> QED
      BY <2>5, <3>1
  <2> QED
    BY <1>2, <2>6, <2>7, <2>8 DEF SignalRequest
<1>3. CASE Look(w)
  <2>1. /\ pc[w] = "look" /\ UNCHANGED <<mail, woken, req>>
        /\ \E l : pc' = [pc EXCEPT ![w] = l]
    BY <1>3 DEF Look, boxes, Decided, Abandon, Wait, Return, Serve, Go
  <2> QED
    BY <1>a, <1>b, <2>1, WakeKept DEF AllThinner, Thinner
<1>4. CASE ServeBlocked(w)
  <2>1. pc[w] = "serve" /\ UNCHANGED <<woken, req>>
    BY <1>4 DEF ServeBlocked
  <2>2. AllThinner
    <3>1. ASSUME NEW S, S \subseteq DOMAIN mail[w], NEW n, ServePop(w, S, n)
          PROVE  AllThinner
      BY <1>0, <3>1, ServePopFacts, WithoutThinner DEF AllThinner
    <3>2. Reclaimable(w) \subseteq DOMAIN mail[w] /\ Poppable(w) \subseteq DOMAIN mail[w]
      BY DEF Reclaimable, Poppable
    <3>3. CASE mail' = mail
      BY <3>3 DEF AllThinner, Thinner
    <3> QED
      BY <1>4, <3>1, <3>2, <3>3 DEF ServeBlocked, ServeNext, ServeFlush
  <2>3. CASE pc' = pc
    BY <1>b, <2>1, <2>2, <2>3, WakeKept DEF Pending, StillCovered, Covered
  <2>4. CASE ServeFlush(w)
    <3>1. pc' = [pc EXCEPT ![w] = "slept"]
      BY <2>4 DEF ServeFlush, Go
    <3> QED
      BY <1>a, <1>b, <2>1, <2>2, <3>1, WakeKept
  <2> QED
    BY <1>4, <2>3, <2>4 DEF ServeBlocked, ServePop, ServeNext
<1>5. CASE Slept(w)
  <2>1. /\ pc[w] = "slept" /\ UNCHANGED <<woken, req>>
        /\ \E l : pc' = [pc EXCEPT ![w] = l]
    BY <1>5 DEF Slept, Return, Go
  <2>2. AllThinner
    <3>1. CASE mail' = mail
      BY <3>1 DEF AllThinner, Thinner
    <3>2. CASE Unlinked(Peer(w), Letter(w)) /\ Unlink(Peer(w), Letter(w))
      BY <1>0, <2>1, <3>2, UnlinkThinner, RequestFacts DEF AllThinner
    <3> QED
      BY <1>5, <3>1, <3>2 DEF Slept
  <2> QED
    BY <1>a, <1>b, <2>1, <2>2, WakeKept
<1>6. CASE AnswerRequest(w)
  <2>1. /\ pc[w] = "answer" /\ UNCHANGED <<mail, woken>>
        /\ pc' = [pc EXCEPT ![w] = "idle"] /\ req' = [req EXCEPT ![w] = NoId]
    BY <1>6 DEF AnswerRequest, Go, boxes
  <2>2. \A v \in Workers : v # w => req'[v] = req[v]
    BY <1>0, <2>1 DEF TypeInv, TypeControl
  <2> QED
    BY <1>a, <1>b, <2>1, <2>2, WakeKept DEF AllThinner, Thinner
<1>7. CASE Expire(w)
  <2>1. UNCHANGED <<mail, woken, more, pc, apc, amsg, req>>
    BY <1>7 DEF Expire, boxes, accept
  <2> QED
    BY <2>1, WakeKept DEF Pending, StillCovered, Covered, AllThinner, Thinner
<1> QED
  BY <1>1, <1>2, <1>3, <1>4, <1>5, <1>6, <1>7 DEF RequestStep

(* The acceptor.                                                             *)
LEMMA WakeAcceptor ==
    ASSUME IInv, WakeInv,
           \/ \E c \in Clients : PushTeardown(c)
           \/ \E s \in Sends : PushSend(s)
           \/ SignalPushed
    PROVE  WakeInv'
<1>0. Base /\ FrameInv /\ TypeInv /\ TypeBoxes
  BY DEF IInv, Base, TypeInv
<1>1. UNCHANGED <<more, pc, req>> /\ woken \subseteq woken'
  BY DEF PushTeardown, PushSend, SignalPushed, wait, Wake
<1>2. StillCovered /\ \A m : ~(apc = "signal" /\ amsg = m) /\ Announcing(m) => Announcing(m)'
  BY <1>1 DEF StillCovered, Covered, Announcing, Letter
<1>3. ASSUME NEW w \in Workers, NEW m \in Post(w), ~Has(mail[w], m), apc = "idle",
             mail' = [mail EXCEPT ![w] = Append(@, m)], apc' = "signal", amsg' = m
      PROVE  WakeInv'
  <2>1. \A v \in Workers :
            /\ Inj(mail[v]) => Inj(mail'[v])
            /\ \A x : Has(mail'[v], x) => Has(mail[v], x) \/ x = m
    BY <1>0, <1>3, AppendMessages
  <2>2. Announcing(m)' /\ \A x : Announcing(x) => Announcing(x)'
    BY <1>2, <1>3 DEF Announcing
  <2> QED
    BY <1>2, <2>1, <2>2 DEF WakeInv, StillCovered
<1>4. ASSUME NEW c \in Clients, PushTeardown(c)
      PROVE  WakeInv'
  <2>1. Owner[c] \in Workers /\ Teardown(c) \in Post(Owner[c])
    BY LetterFacts
  <2>2. ~Has(mail[Owner[c]], Teardown(c))
    BY <1>4 DEF PushTeardown, Queued, Has
  <2> QED
    BY <1>3, <1>4, <2>1, <2>2 DEF PushTeardown
<1>5. ASSUME NEW s \in Sends, PushSend(s)
      PROVE  WakeInv'
  <2>1. /\ Home(s) = Owner[Dest[s]] /\ Home(s) \in Workers
        /\ Send(s, Dest[s]) \in Post(Home(s))
    BY LetterFacts
  <2>2. CASE UNCHANGED <<mail, apc, amsg>>
    BY <1>1, <1>2, <2>2, WakeKept DEF Pending, AllThinner, Thinner
  <2>3. CASE Len(mail[Owner[Dest[s]]]) < QueueMax
    <3>1. ~On(s)
      BY <1>0, <1>5, <2>3, SendQueued
    <3>2. ~Has(mail[Home(s)], Send(s, Dest[s]))
      BY <3>1 DEF Has, On, BoxIds, IdsOf, Send
    <3> QED
      BY <1>3, <1>5, <2>1, <2>3, <3>2 DEF PushSend
  <2> QED
    BY <1>5, <2>2, <2>3 DEF PushSend
<1>6. CASE SignalPushed
  <2> DEFINE w == Owner[amsg.to]
  <2>1. /\ w \in Workers /\ apc = "signal"
    BY <1>0, <1>6, LetterFacts DEF SignalPushed, TypeInv, TypeControl, Message
  <2>2. ASSUME AllThinner, w \in woken' \/ ~Has(mail'[w], amsg)
        PROVE  WakeInv'
    <3>1. ASSUME NEW v \in Workers, NEW m, Has(mail'[v], m)
          PROVE  Covered(v)' \/ Announcing(m)'
      <4>0. Has(mail[v], m)
        BY <2>2, <3>1 DEF AllThinner, Thinner
      <4>1. CASE m # amsg
        BY <1>2, <4>0, <4>1 DEF WakeInv, StillCovered
      <4>2. CASE m = amsg
        <5>1. m \in Post(v)
          BY <1>0, <4>0, BoxElement DEF Has, TypeBoxes, Boxed
        <5>2. v = w
          BY <4>2, <5>1 DEF Post
        <5> QED
          BY <2>2, <3>1, <4>2, <5>2 DEF Covered
      <4> QED
        BY <4>1, <4>2
    <3>2. \A v \in Workers : Inj(mail'[v])
      BY <2>2 DEF AllThinner, Thinner, WakeInv
    <3> QED
      BY <3>1, <3>2 DEF WakeInv
  <2>3. CASE Wake(w) /\ mail' = mail
    BY <2>2, <2>3 DEF Wake, AllThinner, Thinner
  <2>4. CASE ~Unlinked(w, amsg) /\ mail' = mail
    BY <2>2, <2>4 DEF Unlinked, Queued, Has, AllThinner, Thinner
  <2>5. CASE Unlinked(w, amsg) /\ Unlink(w, amsg)
    <3>1. AllThinner /\ ~Has(mail'[w], amsg)
      BY <1>0, <2>1, <2>5, UnlinkThinner DEF AllThinner, WakeInv
    <3> QED
      BY <2>2, <3>1
  <2> QED
    BY <1>6, <2>3, <2>4, <2>5 DEF SignalPushed
<1> QED
  BY <1>4, <1>5, <1>6

(* Every step keeps the invariant.                                           *)
LEMMA WakeStep ==
    ASSUME IInv, WakeInv, [Next]_vars
    PROVE  WakeInv'
<1>0. Base /\ pc \in [Workers -> Labels] /\ req \in [Workers -> Requests \cup {NoId}]
  BY DEF IInv, Base, TypeInv, TypeControl
<1>1. ASSUME NEW w \in Workers, NEW r \in Requests, StartRequest(w, r)
      PROVE  WakeInv'
  <2>1. /\ UNCHANGED <<mail, woken, more, apc, amsg>> /\ pc[w] = "idle"
        /\ pc' = [pc EXCEPT ![w] = "push"] /\ req' = [req EXCEPT ![w] = r]
    BY <1>1 DEF StartRequest, Go, boxes, accept
  <2> QED
    BY <1>0, <2>1, WakeKept DEF Pending, StillCovered, Covered, AllThinner, Thinner
<1>2. CASE \/ \E w \in Workers, c \in Clients : Flush(w, c)
           \/ \E c \in Clients : AccountDies(c)
           \/ UNCHANGED vars
  <2>1. UNCHANGED <<mail, woken, more, pc, apc, amsg, req>>
    BY <1>2 DEF Flush, AccountDies, vars, boxes, accept, wait
  <2> QED
    BY <2>1, WakeKept DEF Pending, StillCovered, Covered, AllThinner, Thinner
<1> QED
  BY <1>0, <1>1, <1>2, WakeLoop, WakeMail, WakeRequest, WakeAcceptor DEF Next, WorkerStep

(* worker_push_msg and worker_wakeup_cb: no wakeup is lost.  While messages  *)
(* are queued, the worker is about to look, its fd is readable, or the       *)
(* thread that queued them has yet to signal.                                *)
THEOREM NoLostWakeup == Spec => []NotStranded
<1>1. Init => WakeInv
  <2> SUFFICES ASSUME Init
               PROVE  WakeInv
    OBVIOUS
  <2>1. \A w \in Workers : mail[w] = <<>>
    BY DEF Init
  <2>2. \A w \in Workers : DOMAIN mail[w] = {}
    BY <2>1
  <2> QED
    BY <2>2 DEF WakeInv, Inj, Has
<1>2. ASSUME IInv, WakeInv
      PROVE  NotStranded
  <2> SUFFICES ASSUME NEW w \in Workers, mail[w] # <<>>
               PROVE  \/ w \in woken \/ pc[w] = "take" \/ (pc[w] = "batch" /\ w \in more)
                      \/ apc = "signal" /\ Owner[amsg.to] = w
                      \/ \E v \in Workers : pc[v] = "signal" /\ Peer(v) = w
    BY DEF NotStranded
  <2>1. mail[w] \in Seq(Post(w))
    BY <1>2 DEF IInv, TypeInv, TypeBoxes, Boxed
  <2>2. PICK k \in DOMAIN mail[w] : TRUE
    <3>1. Len(mail[w]) \in Nat /\ DOMAIN mail[w] = 1..Len(mail[w]) /\ Len(mail[w]) # 0
      BY <2>1, LenProperties, EmptySeq
    <3>2. 1 \in DOMAIN mail[w]
      BY <3>1
    <3> QED
      BY <3>2
  <2>3. mail[w][k] \in Post(w) /\ Has(mail[w], mail[w][k])
    BY <2>1, BoxElement DEF Has
  <2>4. Covered(w) \/ Announcing(mail[w][k])
    BY <1>2, <2>3 DEF WakeInv
  <2>5. CASE Covered(w)
    BY <2>5 DEF Covered
  <2>6. CASE apc = "signal" /\ amsg = mail[w][k]
    BY <2>3, <2>6 DEF Post
  <2>7. ASSUME NEW v \in Workers, pc[v] = "signal", Letter(v) = mail[w][k]
        PROVE  Peer(v) = w
    <3>1. Peer(v) = Owner[Letter(v).to]
      BY DEF Peer, Letter, Send
    <3> QED
      BY <2>3, <2>7, <3>1 DEF Post
  <2> QED
    BY <2>4, <2>5, <2>6, <2>7 DEF Announcing
<1>3. IInv /\ WakeInv /\ [Next]_vars => WakeInv'
  BY WakeStep
<1> QED
  BY <1>1, <1>2, <1>3, Invariant, PTL DEF Spec

=============================================================================
