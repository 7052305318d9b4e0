---------------------------- MODULE StreamProofs ----------------------------
(***************************************************************************)
(* Proofs about a stream, for any ring, any limits, any consumers, values  *)
(* and partitions, and any number of readers: total_bytes is what the ring *)
(* retains, and the stream implements a retained log.                      *)
(***************************************************************************)
EXTENDS StreamApi, SequenceTheorems, FiniteSetTheorems, WellFoundedInduction, TLAPS

-----------------------------------------------------------------------------
(* Slots: a sequence number modulo the size of the ring.                     *)

(* Quotient and remainder.                                                   *)
LEMMA DivMod ==
    ASSUME NEW N \in Nat \ {0}, NEW a \in Nat
    PROVE  a = N * (a \div N) + (a % N) /\ a \div N \in Nat /\ a % N \in 0 .. N - 1
  OBVIOUS

(* A multiple of N that is not 0 is at least N away from 0.                  *)
LEMMA Multiples ==
    ASSUME NEW N \in Nat \ {0}, NEW k \in Int, NEW l \in Int
    PROVE  /\ k >= 1 => N * k >= N
           /\ k <= 0 - 1 => N * k <= 0 - N
           /\ N * (k - l) = N * k - N * l
<1>1. k >= 1 => N * k >= N
  OBVIOUS
<1>2. k <= 0 - 1 => N * k <= 0 - N
  OBVIOUS
<1>3. N * (k - l) = N * k - N * l
  OBVIOUS
<1> QED BY <1>1, <1>2, <1>3

(* Two numbers less than N apart have the same remainder only if they are    *)
(* equal, and N more gives the same remainder.                               *)
LEMMA Remainders ==
    ASSUME NEW N \in Nat \ {0}, NEW a \in Nat
    PROVE  /\ \A b \in Nat : a < b /\ b - a < N => a % N # b % N
           /\ (a + N) % N = a % N
<1> DEFINE p == a \div N
<1>1. a = N * p + (a % N) /\ p \in Nat /\ a % N \in 0 .. N - 1
  BY DivMod
<1>2. ASSUME NEW b \in Nat, a <= b, b - a <= N, a % N = b % N
      PROVE  b = a \/ b - a = N
  <2> DEFINE q == b \div N
  <2>1. b = N * q + (b % N) /\ q \in Nat
    BY DivMod
  <2> HIDE DEF p, q
  <2>2. N * (q - p) = N * q - N * p
    BY <1>1, <2>1, Multiples
  <2>3. N * (q - p) = b - a
    BY <1>1, <1>2, <2>1, <2>2, SMT
  <2>4. CASE q - p >= 1
    BY <1>1, <1>2, <2>1, <2>3, <2>4, Multiples
  <2>5. CASE q - p <= 0 - 1
    BY <1>1, <1>2, <2>1, <2>3, <2>5, Multiples
  <2>6. CASE q = p
    BY <1>1, <1>2, <2>1, <2>6
  <2> QED BY <1>1, <2>1, <2>4, <2>5, <2>6
<1>3. (a + N) % N = a % N
  <2> DEFINE q == (a + N) \div N
             r == (a + N) % N
  <2>1. a + N = N * q + r /\ q \in Nat /\ r \in 0 .. N - 1
    <3>1. a + N \in Nat
      OBVIOUS
    <3> QED BY <3>1, DivMod
  <2> HIDE DEF p, q, r
  <2>2. N * (q - p) = N * q - N * p
    BY <1>1, <2>1, Multiples
  <2>3. N * (q - p) = N + (a % N) - r
    BY <1>1, <2>1, <2>2, SMT
  <2>4. CASE q - p >= 2
    <3>1. N * (q - p - 1) = N * (q - p) - N * 1
      BY <1>1, <2>1, Multiples
    <3>2. N * (q - p - 1) >= N
      BY <1>1, <2>1, <2>4, Multiples
    <3> QED BY <1>1, <2>1, <2>3, <3>1, <3>2
  <2>5. CASE q - p <= 0 - 1
    BY <1>1, <2>1, <2>3, <2>5, Multiples
  <2>6. CASE q = p
    BY <1>1, <2>1, <2>6
  <2>7. CASE q - p = 1
    <3>1. N * (q - p) = N
      BY <2>7
    <3>2. r = a % N
      BY <1>1, <2>1, <2>3, <3>1
    <3> QED BY <3>2 DEF r
  <2> QED BY <1>1, <2>1, <2>4, <2>5, <2>6, <2>7
<1>4. ASSUME NEW b \in Nat, a < b, b - a < N
      PROVE  a % N # b % N
  <2> HIDE DEF p
  <2>1. SUFFICES ASSUME a % N = b % N PROVE FALSE
    OBVIOUS
  <2>2. b = a \/ b - a = N
    BY <1>2, <1>4, <2>1
  <2> QED BY <1>4, <2>2
<1> QED BY <1>3, <1>4

(* Numbers of one window of the ring have slots of their own; the number     *)
(* that pushes the oldest message of a full ring out takes its slot.         *)
LEMMA Slot ==
    /\ \A s \in Nat \ {0} : SlotOf(s) \in 0 .. Cap - 1
    /\ \A s, t \in Nat \ {0} : s < t /\ t - s < Cap => SlotOf(s) # SlotOf(t)
    /\ \A s \in Nat \ {0} : SlotOf(s + Cap) = SlotOf(s)
<1>1. Cap \in Nat \ {0}
  BY StreamAssumption
<1>2. ASSUME NEW s \in Nat \ {0}
      PROVE  SlotOf(s) \in 0 .. Cap - 1
  BY <1>1, DivMod DEF SlotOf
<1>3. ASSUME NEW s \in Nat \ {0}, NEW t \in Nat \ {0}, s < t, t - s < Cap
      PROVE  SlotOf(s) # SlotOf(t)
  <2> DEFINE a == s - 1
             b == t - 1
  <2>1. a \in Nat /\ b \in Nat /\ a < b /\ b - a < Cap
    BY <1>1, <1>3
  <2> HIDE DEF a, b
  <2>2. a % Cap # b % Cap
    BY <1>1, <2>1, Remainders
  <2> QED BY <2>2 DEF SlotOf, a, b
<1>4. ASSUME NEW s \in Nat \ {0}
      PROVE  SlotOf(s + Cap) = SlotOf(s)
  <2> DEFINE a == s - 1
  <2>1. a \in Nat
    OBVIOUS
  <2>2. (a + Cap) % Cap = a % Cap
    <3> HIDE DEF a
    <3> QED BY <1>1, <2>1, Remainders
  <2>3. s + Cap - 1 = a + Cap /\ s - 1 = a
    BY <1>1
  <2> HIDE DEF a
  <2>4. SlotOf(s + Cap) = (a + Cap) % Cap /\ SlotOf(s) = a % Cap
    BY <1>1, <2>1, <2>3 DEF SlotOf
  <2> QED BY <2>2, <2>4
<1> QED BY <1>2, <1>3, <1>4

-----------------------------------------------------------------------------
(* Least and greatest of a set.                                              *)

(* A nonempty set of naturals has a least element.                           *)
LEMMA Least ==
    ASSUME NEW S, S \subseteq Nat, S # {}
    PROVE  Min(S) \in S /\ \A x \in S : Min(S) <= x
<1>1. PICK k \in S : \A j \in S : ~(<<j, k>> \in OpToRel(<, Nat))
  BY NatLessThanWellFounded, WFMin
<1>2. \A j \in S : ~(j < k)
  BY <1>1, Zenon DEF OpToRel
<1>3. \A j \in S : k <= j
  BY <1>2
<1> QED BY <1>3 DEF Min

(* The two-element sets that the code's comparisons build.                   *)
LEMMA Pairs ==
    ASSUME NEW a \in Int, NEW b \in Int
    PROVE  /\ Min({a, b}) = IF a <= b THEN a ELSE b
           /\ Max({a, b}) = IF a >= b THEN a ELSE b
  BY DEF Min, Max

-----------------------------------------------------------------------------
(* Sums of sizes.  A message of n bytes stands for n pairs of its number     *)
(* and a byte, so that the size of a set of messages is a cardinality.       *)

Bytes1(z, s) == {<<s, b>> : b \in 1 .. SizeAt(z, s)}
BytesIn(z, S) == UNION {Bytes1(z, s) : s \in S}
Sized(z, S) == \A s \in S : SizeAt(z, s) \in Nat

(* A message has as many bytes as its size.                                  *)
LEMMA OneSize ==
    ASSUME NEW z, NEW s, SizeAt(z, s) \in Nat
    PROVE  IsFiniteSet(Bytes1(z, s)) /\ Cardinality(Bytes1(z, s)) = SizeAt(z, s)
<1> DEFINE n == SizeAt(z, s)
           f == [b \in 1 .. n |-> <<s, b>>]
<1>1. f \in Bijection(1 .. n, Bytes1(z, s))
  BY DEF Bijection, Injection, IsInjective, Surjection, Bytes1
<1>2. IsFiniteSet(1 .. n) /\ Cardinality(1 .. n) = n
  BY FS_Interval
<1>3. ExistsBijection(1 .. n, Bytes1(z, s))
  BY <1>1 DEF ExistsBijection
<1> QED BY <1>2, <1>3, FS_Bijection

(* Finitely many messages have finitely many bytes.                          *)
LEMMA ManyFinite ==
    ASSUME NEW z, NEW S, IsFiniteSet(S), Sized(z, S)
    PROVE  IsFiniteSet(BytesIn(z, S)) /\ Cardinality(BytesIn(z, S)) \in Nat
<1> DEFINE U == {Bytes1(z, s) : s \in S}
           f == [s \in S |-> Bytes1(z, s)]
<1>1. f \in Surjection(S, U)
  BY DEF Surjection
<1>2. IsFiniteSet(U)
  BY <1>1, FS_Surjection
<1>3. \A T \in U : IsFiniteSet(T)
  BY OneSize DEF Sized
<1> HIDE DEF U
<1>4. IsFiniteSet(UNION U)
  BY <1>2, <1>3, FS_UNION
<1> QED BY <1>4, FS_CardinalityType DEF BytesIn, U

(* The bytes of two disjoint sets of messages add up.                        *)
LEMMA BytesAdd ==
    ASSUME NEW z, NEW S, NEW T, IsFiniteSet(S), IsFiniteSet(T),
           Sized(z, S), Sized(z, T), S \cap T = {}
    PROVE  Cardinality(BytesIn(z, S \cup T))
             = Cardinality(BytesIn(z, S)) + Cardinality(BytesIn(z, T))
<1>1. BytesIn(z, S \cup T) = BytesIn(z, S) \cup BytesIn(z, T)
  BY DEF BytesIn
<1>2. BytesIn(z, S) \cap BytesIn(z, T) = {}
  BY DEF BytesIn, Bytes1
<1>3. /\ IsFiniteSet(BytesIn(z, S)) /\ Cardinality(BytesIn(z, S)) \in Nat
      /\ IsFiniteSet(BytesIn(z, T)) /\ Cardinality(BytesIn(z, T)) \in Nat
  BY ManyFinite
<1>4. Cardinality(BytesIn(z, S) \cup BytesIn(z, T)) =
         Cardinality(BytesIn(z, S)) + Cardinality(BytesIn(z, T))
           - Cardinality(BytesIn(z, S) \cap BytesIn(z, T))
  BY <1>3, FS_Union
<1>5. Cardinality(BytesIn(z, S) \cap BytesIn(z, T)) = 0
  BY <1>2, FS_EmptySet, Zenon
<1> DEFINE m == Cardinality(BytesIn(z, S))
           n == Cardinality(BytesIn(z, T))
<1>6. Cardinality(BytesIn(z, S \cup T)) = m + n - 0
  BY <1>1, <1>4, <1>5, Zenon
<1>7. m \in Nat /\ n \in Nat
  BY <1>3
<1> HIDE DEF m, n
<1>8. m + n - 0 = m + n
  BY <1>7
<1> QED BY <1>6, <1>8, Zenon DEF m, n

(* One message after the others.                                             *)
LEMMA BytesOne ==
    ASSUME NEW z, NEW S, IsFiniteSet(S), Sized(z, S), NEW x \in S
    PROVE  Cardinality(BytesIn(z, S)) = SizeAt(z, x) + Cardinality(BytesIn(z, S \ {x}))
<1>1. IsFiniteSet(S \ {x}) /\ IsFiniteSet({x})
  BY FS_RemoveElement, FS_Singleton
<1>2. Sized(z, S \ {x}) /\ Sized(z, {x}) /\ SizeAt(z, x) \in Nat
  BY DEF Sized
<1>3. BytesIn(z, {x}) = Bytes1(z, x)
  BY DEF BytesIn
<1>4. {x} \cup (S \ {x}) = S /\ {x} \cap (S \ {x}) = {}
  OBVIOUS
<1>5. Cardinality(BytesIn(z, {x} \cup (S \ {x})))
        = Cardinality(BytesIn(z, {x})) + Cardinality(BytesIn(z, S \ {x}))
  BY <1>1, <1>2, <1>4, BytesAdd
<1> QED BY <1>2, <1>3, <1>4, <1>5, OneSize

(* The recursion that MapThenSumSet stands for, and a function that fulfils  *)
(* it on the subsets of S.                                                   *)
Pick(T) == CHOOSE x \in T : TRUE
Body(z, h, T) == IF T = {} THEN 0 ELSE SizeAt(z, Pick(T)) + h[T \ {Pick(T)}]
Sums(z, S, h) == h = [T \in SUBSET S |-> Body(z, h, T)]

(* The cardinality of the bytes fulfils it.                                  *)
LEMMA SumExists ==
    ASSUME NEW z, NEW S, IsFiniteSet(S), Sized(z, S)
    PROVE  Sums(z, S, [T \in SUBSET S |-> Cardinality(BytesIn(z, T))])
<1> DEFINE h == [T \in SUBSET S |-> Cardinality(BytesIn(z, T))]
<1>1. ASSUME NEW T \in SUBSET S
      PROVE  Cardinality(BytesIn(z, T)) = Body(z, h, T)
  <2>1. CASE T = {}
    <3>1. BytesIn(z, {}) = {}
      BY DEF BytesIn
    <3> QED BY <2>1, <3>1, FS_EmptySet DEF Body
  <2>2. CASE T # {}
    <3>1. Pick(T) \in T
      BY <2>2 DEF Pick
    <3>2. IsFiniteSet(T) /\ Sized(z, T)
      BY FS_Subset DEF Sized
    <3>3. Cardinality(BytesIn(z, T))
            = SizeAt(z, Pick(T)) + Cardinality(BytesIn(z, T \ {Pick(T)}))
      BY <3>1, <3>2, BytesOne
    <3>4. h[T \ {Pick(T)}] = Cardinality(BytesIn(z, T \ {Pick(T)}))
      OBVIOUS
    <3> QED BY <2>2, <3>3, <3>4 DEF Body
  <2> QED BY <2>1, <2>2
<1> QED BY <1>1 DEF Sums

(* Nothing else does.                                                        *)
LEMMA SumUnique ==
    ASSUME NEW z, NEW S, IsFiniteSet(S), NEW g, Sums(z, S, g), NEW h, Sums(z, S, h)
    PROVE  g[S] = h[S]
<1>1. \A T \in SUBSET S : g[T] = Body(z, g, T) /\ h[T] = Body(z, h, T)
  <2>1. ASSUME NEW f, Sums(z, S, f), NEW T \in SUBSET S
        PROVE  f[T] = Body(z, f, T)
    BY <2>1 DEF Sums
  <2> QED BY <2>1
<1> DEFINE D == {n \in Nat : \E T \in SUBSET S : Cardinality(T) = n /\ g[T] # h[T]}
<1>2. \A T \in SUBSET S : IsFiniteSet(T) /\ Cardinality(T) \in Nat
  BY FS_Subset, FS_CardinalityType
<1>3. SUFFICES ASSUME D # {} PROVE FALSE
  <2>1. ASSUME g[S] # h[S] PROVE Cardinality(S) \in D
    BY <1>2, <2>1
  <2> QED BY <2>1
<1>4. PICK n \in D : \A m \in D : ~(<<m, n>> \in OpToRel(<, Nat))
  BY <1>3, NatLessThanWellFounded, WFMin
<1>5. \A m \in D : ~(m < n)
  BY <1>4, Zenon DEF OpToRel
<1>6. PICK T \in SUBSET S : Cardinality(T) = n /\ g[T] # h[T]
  OBVIOUS
<1>7. T # {}
  BY <1>1, <1>6 DEF Body
<1> DEFINE R == T \ {Pick(T)}
<1>8. Pick(T) \in T
  BY <1>7 DEF Pick
<1>9. R \in SUBSET S /\ Cardinality(R) = n - 1
  BY <1>2, <1>6, <1>8, FS_RemoveElement
<1>10. Cardinality(R) \in Nat /\ Cardinality(R) < n
  BY <1>2, <1>9
<1>11. g[R] = h[R]
  BY <1>5, <1>9, <1>10
<1> QED BY <1>1, <1>6, <1>7, <1>11 DEF Body

(* The sum of sizes is the number of bytes.                                  *)
LEMMA SumIsBytes ==
    ASSUME NEW z, NEW S, IsFiniteSet(S), Sized(z, S)
    PROVE  BytesOf(z, S) = Cardinality(BytesIn(z, S))
<1> DEFINE g == CHOOSE h : Sums(z, S, h)
           c == [T \in SUBSET S |-> Cardinality(BytesIn(z, T))]
<1>1. Sums(z, S, c)
  BY SumExists
<1>2. Sums(z, S, g)
  BY <1>1
<1>3. BytesOf(z, S) = g[S]
  BY DEF BytesOf, MapThenSumSet, MapThenFoldSet, Sums, Body, Pick
<1> HIDE DEF g
<1>4. g[S] = c[S]
  BY <1>1, <1>2, SumUnique
<1> QED BY <1>3, <1>4

(* Sums of sizes: of nothing, of a set split in two, and of the same sizes.  *)
LEMMA Sums3 ==
    ASSUME NEW z, NEW S, IsFiniteSet(S), Sized(z, S)
    PROVE  /\ BytesOf(z, S) \in Nat
           /\ S = {} => BytesOf(z, S) = 0
           /\ \A T, U : S = T \cup U /\ T \cap U = {}
                  => BytesOf(z, S) = BytesOf(z, T) + BytesOf(z, U)
           /\ \A y : (\A s \in S : SizeAt(y, s) = SizeAt(z, s)) => BytesOf(y, S) = BytesOf(z, S)
<1>1. BytesOf(z, S) \in Nat
  BY SumIsBytes, ManyFinite
<1>2. S = {} => BytesOf(z, S) = 0
  <2>1. BytesIn(z, {}) = {}
    BY DEF BytesIn
  <2> QED BY <2>1, SumIsBytes, FS_EmptySet
<1>3. ASSUME NEW T, NEW U, S = T \cup U, T \cap U = {}
      PROVE  BytesOf(z, S) = BytesOf(z, T) + BytesOf(z, U)
  <2>1. T \in SUBSET S /\ U \in SUBSET S
    BY <1>3
  <2>2. IsFiniteSet(T) /\ IsFiniteSet(U) /\ Sized(z, T) /\ Sized(z, U)
    BY <2>1, FS_Subset DEF Sized
  <2>3. Cardinality(BytesIn(z, T \cup U))
             = Cardinality(BytesIn(z, T)) + Cardinality(BytesIn(z, U))
    BY <1>3, <2>2, BytesAdd
  <2> QED BY <1>3, <2>2, <2>3, SumIsBytes
<1>4. ASSUME NEW y, \A s \in S : SizeAt(y, s) = SizeAt(z, s)
      PROVE  BytesOf(y, S) = BytesOf(z, S)
  <2>1. Sized(y, S)
    BY <1>4 DEF Sized
  <2>2. BytesIn(y, S) = BytesIn(z, S)
    BY <1>4 DEF BytesIn, Bytes1
  <2> QED BY <2>1, <2>2, SumIsBytes
<1> QED BY <1>1, <1>2, <1>3, <1>4

(* One message counts its size.                                              *)
LEMMA SingleSize ==
    ASSUME NEW z, NEW s, SizeAt(z, s) \in Nat
    PROVE  BytesOf(z, {s}) = SizeAt(z, s)
<1>1. IsFiniteSet({s}) /\ Sized(z, {s})
  BY FS_Singleton DEF Sized
<1>2. BytesIn(z, {s}) = Bytes1(z, s)
  BY DEF BytesIn
<1> QED BY <1>1, <1>2, SumIsBytes, OneSize

-----------------------------------------------------------------------------
(* The inductive invariant, on the value of a stream.                        *)

Slots   == 0 .. Cap - 1
Cell    == [seq : Nat, val : Values \cup {NoVal}, valid : BOOLEAN]
RowSet  == [name : Consumers, acked : Nat, marks : [Parts -> Nat]]
Streams == [ring : [Slots -> Cell], head : Nat \ {0}, count : Nat, bytes : Nat,
            nparts : 1 .. MaxParts, part : [Slots -> Nat], cons : Seq(RowSet)]

(* The retained numbers are the newest ones before head, at most a ring of   *)
(* them; each is in its slot, and a slot that is in use holds one of them.   *)
Oldest(z) == z.head - z.count
RingInv(z) ==
    /\ z.count <= Cap /\ z.count < z.head
    /\ \A s \in Oldest(z) .. z.head - 1 :
          /\ z.ring[SlotOf(s)].valid /\ z.ring[SlotOf(s)].seq = s
          /\ z.ring[SlotOf(s)].val \in Values
    /\ \A i \in Slots : z.ring[i].valid =>
          /\ z.ring[i].seq \in Oldest(z) .. z.head - 1
          /\ SlotOf(z.ring[i].seq) = i

(* A partition, one row per name, and no watermark at or past head.          *)
PartInv(z) == \A i \in Slots : z.part[i] \in Parts
NameInv(z) == \A i, j \in DOMAIN z.cons : z.cons[i].name = z.cons[j].name => i = j
Behind(row, h) == row.acked < h /\ \A p \in Parts : row.marks[p] < h
MarkInv(z) == \A i \in DOMAIN z.cons : Behind(z.cons[i], z.head)

ByteInv(z) ==
    /\ z.bytes = BytesOf(z, Oldest(z) .. z.head - 1)
    /\ MaxBytes > 0 => z.bytes <= MaxBytes

Good(z) == z \in Streams /\ RingInv(z) /\ PartInv(z) /\ NameInv(z) /\ MarkInv(z) /\ ByteInv(z)

(* The messages numbered in S are the same in two streams.                   *)
SameAt(z, q, S) == \A s \in S : /\ q.ring[SlotOf(s)] = z.ring[SlotOf(s)]
                                /\ q.part[SlotOf(s)] = z.part[SlotOf(s)]

(* What the invariant says of the retained numbers.                          *)
LEMMA Basics ==
    ASSUME NEW z, Good(z)
    PROVE  /\ z.head \in Nat \ {0} /\ z.count \in Nat /\ z.bytes \in Nat
           /\ z.nparts \in 1 .. MaxParts /\ Cap \in Nat \ {0}
           /\ Oldest(z) \in Nat \ {0}
           /\ Retained(z) = Oldest(z) .. z.head - 1
           /\ FirstSeq(z) = IF z.count > 0 THEN Oldest(z) ELSE 0
           /\ LastSeq(z) = IF z.count > 0 THEN z.head - 1 ELSE 0
           /\ z.ring \in [Slots -> Cell] /\ z.part \in [Slots -> Nat]
           /\ z.cons \in Seq(RowSet)
<1>1. /\ z.head \in Nat \ {0} /\ z.count \in Nat /\ z.bytes \in Nat
      /\ z.nparts \in 1 .. MaxParts /\ z.ring \in [Slots -> Cell]
      /\ z.part \in [Slots -> Nat] /\ z.cons \in Seq(RowSet) /\ z.count < z.head
  BY DEF Good, Streams, RingInv
<1>2. Cap \in Nat \ {0}
  BY StreamAssumption
<1> QED BY <1>1, <1>2 DEF Oldest, Retained, FirstSeq, LastSeq

(* A retained number is in its slot and has a size.                          *)
LEMMA RetainedSlot ==
    ASSUME NEW z, Good(z), NEW s \in Oldest(z) .. z.head - 1
    PROVE  /\ s \in Nat \ {0} /\ SlotOf(s) \in Slots
           /\ z.ring[SlotOf(s)].valid /\ z.ring[SlotOf(s)].seq = s
           /\ z.ring[SlotOf(s)].val \in Values
           /\ SizeAt(z, s) \in Nat \ {0}
<1>1. s \in Nat \ {0}
  BY Basics
<1>2. SlotOf(s) \in Slots
  BY <1>1, Slot DEF Slots
<1>3. /\ z.ring[SlotOf(s)].valid /\ z.ring[SlotOf(s)].seq = s
      /\ z.ring[SlotOf(s)].val \in Values
  BY DEF Good, RingInv
<1> QED BY <1>1, <1>2, <1>3, StreamAssumption DEF SizeAt

(* The retained messages have a total size, and so have the parts of them.   *)
LEMMA RetainedSizes ==
    ASSUME NEW z, Good(z), NEW S, S \subseteq Oldest(z) .. z.head - 1
    PROVE  IsFiniteSet(S) /\ Sized(z, S)
<1>0. Oldest(z) \in Int /\ z.head - 1 \in Int
  BY Basics
<1>1. IsFiniteSet(Oldest(z) .. z.head - 1)
  BY <1>0, FS_Interval
<1>2. IsFiniteSet(S)
  BY <1>1, FS_Subset
<1> QED BY <1>2, RetainedSlot DEF Sized

(* Eviction of the k oldest messages.                                        *)
LEMMA EvictFields ==
    ASSUME NEW z, Good(z), NEW k \in 0 .. z.count
    PROVE  LET e == Evict(z, k)
           IN  /\ e \in Streams
               /\ e.head = z.head /\ e.count = z.count - k
               /\ e.nparts = z.nparts /\ e.part = z.part /\ e.cons = z.cons
               /\ Oldest(e) = Oldest(z) + k
               /\ \A i \in Slots : e.ring[i] =
                     IF z.ring[i].valid /\ z.ring[i].seq < Oldest(z) + k
                     THEN [z.ring[i] EXCEPT !.val = NoVal, !.valid = FALSE]
                     ELSE z.ring[i]
               /\ e.bytes = Debited(z.bytes, BytesOf(z, Oldest(z) .. Oldest(z) + k - 1))
<1> DEFINE e == Evict(z, k)
           end == FirstSeq(z) + k
<1>1. z \in Streams
  BY DEF Good
<1>2. /\ e.head = z.head /\ e.count = z.count - k
      /\ e.nparts = z.nparts /\ e.part = z.part /\ e.cons = z.cons
      /\ e.bytes = Debited(z.bytes, BytesOf(z, FirstSeq(z) .. end - 1))
  BY <1>1 DEF Evict, Streams
<1>9. e.ring = [i \in Slots |-> IF z.ring[i].valid /\ z.ring[i].seq < end
                                   THEN [z.ring[i] EXCEPT !.val = NoVal, !.valid = FALSE]
                                   ELSE z.ring[i]]
  BY <1>1 DEF Evict, Streams
<1>0. /\ z.head \in Nat /\ z.count \in Nat /\ k \in Nat /\ k <= z.count
      /\ Oldest(z) \in Nat /\ z.head - z.count = Oldest(z)
  BY Basics DEF Oldest
<1>3. FirstSeq(z) .. end - 1 = Oldest(z) .. Oldest(z) + k - 1
  BY Basics
<1>4. \A i \in Slots : (z.ring[i].valid /\ z.ring[i].seq < end)
                         <=> (z.ring[i].valid /\ z.ring[i].seq < Oldest(z) + k)
  <2>1. CASE z.count = 0
    <3>1. \A i \in Slots : ~z.ring[i].valid
      BY <2>1, Basics DEF Good, RingInv, Oldest
    <3> QED BY <3>1
  <2>2. CASE z.count > 0
    BY <2>2, Basics
  <2> QED BY <2>1, <2>2, Basics
<1> HIDE DEF e, end
<1>5. \A i \in Slots : e.ring[i] =
         IF z.ring[i].valid /\ z.ring[i].seq < Oldest(z) + k
         THEN [z.ring[i] EXCEPT !.val = NoVal, !.valid = FALSE]
         ELSE z.ring[i]
  <2>1. ASSUME NEW i \in Slots
        PROVE  e.ring[i] = IF z.ring[i].valid /\ z.ring[i].seq < end
                           THEN [z.ring[i] EXCEPT !.val = NoVal, !.valid = FALSE]
                           ELSE z.ring[i]
    BY <1>9
  <2> QED BY <1>4, <2>1, Zenon
<1>6. e.bytes = Debited(z.bytes, BytesOf(z, Oldest(z) .. Oldest(z) + k - 1))
  BY <1>2, <1>3
<1>7. Oldest(e) = Oldest(z) + k
  <2>1. e.head = z.head /\ e.count = z.count - k
    BY <1>2
  <2> QED BY <1>0, <2>1 DEF Oldest
<1>8. e \in Streams
  <2>1. ASSUME NEW i \in Slots PROVE e.ring[i] \in Cell
    <3>1. z.ring[i] \in Cell
      BY Basics
    <3>2. [z.ring[i] EXCEPT !.val = NoVal, !.valid = FALSE] \in Cell
      BY <3>1 DEF Cell
    <3> QED BY <1>5, <3>1, <3>2
  <2>2. e.ring \in [Slots -> Cell]
    BY <1>9, <2>1
  <2>3. Oldest(z) .. Oldest(z) + k - 1 \subseteq Oldest(z) .. z.head - 1
    BY Basics DEF Oldest
  <2>4. BytesOf(z, Oldest(z) .. Oldest(z) + k - 1) \in Nat
    BY <2>3, RetainedSizes, Sums3
  <2>5. e.bytes \in Nat
    BY <1>6, <2>4, Basics DEF Debited
  <2>6. e.count \in Nat
    <3>1. e.count = z.count - k
      BY <1>2
    <3> QED BY <1>0, <3>1
  <2>7. e = [z EXCEPT !.ring = e.ring, !.count = e.count, !.bytes = e.bytes]
    BY <1>1 DEF Evict, Streams, e
  <2> QED BY <1>1, <2>2, <2>5, <2>6, <2>7 DEF Streams
<1> QED BY <1>2, <1>5, <1>6, <1>7, <1>8 DEF e

(* It keeps the invariant and the messages that stay.                       *)
LEMMA EvictGood ==
    ASSUME NEW z, Good(z), NEW k \in 0 .. z.count
    PROVE  /\ Good(Evict(z, k))
           /\ SameAt(z, Evict(z, k), Oldest(z) + k .. z.head - 1)
<1> DEFINE e == Evict(z, k)
           o == Oldest(z)
<1>1. /\ e \in Streams
      /\ e.head = z.head /\ e.count = z.count - k
      /\ e.nparts = z.nparts /\ e.part = z.part /\ e.cons = z.cons
      /\ Oldest(e) = o + k
  BY EvictFields
<1>9. /\ \A i \in Slots : e.ring[i] =
            IF z.ring[i].valid /\ z.ring[i].seq < o + k
            THEN [z.ring[i] EXCEPT !.val = NoVal, !.valid = FALSE]
            ELSE z.ring[i]
      /\ e.bytes = Debited(z.bytes, BytesOf(z, o .. o + k - 1))
  BY EvictFields
<1>2. o \in Nat \ {0} /\ z.head \in Nat /\ z.count \in Nat /\ o + z.count = z.head
      /\ o + k <= z.head /\ Cap \in Nat /\ k \in Nat /\ k <= z.count
  <2>1. z.head \in Nat \ {0} /\ z.count \in Nat /\ Cap \in Nat \ {0} /\ o \in Nat \ {0}
    BY Basics
  <2>2. k \in Nat /\ k <= z.count /\ o = z.head - z.count
    BY <2>1 DEF Oldest
  <2> HIDE DEF o
  <2> QED BY <2>1, <2>2
<1> HIDE DEF e, o
<1>3. ASSUME NEW s \in o + k .. z.head - 1
      PROVE  e.ring[SlotOf(s)] = z.ring[SlotOf(s)]
  <2>1. s \in Oldest(z) .. z.head - 1
    BY <1>2 DEF o
  <2>2. SlotOf(s) \in Slots /\ z.ring[SlotOf(s)].seq = s
    BY <2>1, RetainedSlot
  <2>3. ~(s < o + k)
    BY <1>2
  <2> QED BY <1>9, <2>2, <2>3
<1>4. RingInv(e)
  <2>1. e.count <= Cap /\ e.count < e.head
    <3>1. z.count <= Cap /\ z.count < z.head
      BY DEF Good, RingInv
    <3> QED BY <1>1, <1>2, <3>1
  <2>2. ASSUME NEW s \in Oldest(e) .. e.head - 1
        PROVE  /\ e.ring[SlotOf(s)].valid /\ e.ring[SlotOf(s)].seq = s
               /\ e.ring[SlotOf(s)].val \in Values
    <3>1. s \in o + k .. z.head - 1 /\ s \in Oldest(z) .. z.head - 1
      BY <1>1, <1>2 DEF o
    <3> QED BY <1>3, <3>1, RetainedSlot
  <2>3. ASSUME NEW i \in Slots, e.ring[i].valid
        PROVE  e.ring[i].seq \in Oldest(e) .. e.head - 1 /\ SlotOf(e.ring[i].seq) = i
    <3>1. z.ring[i] \in Cell
      BY Basics
    <3>2. z.ring[i].valid /\ ~(z.ring[i].seq < o + k) /\ e.ring[i] = z.ring[i]
      BY <1>9, <2>3, <3>1 DEF Cell
    <3>3. z.ring[i].seq \in o .. z.head - 1 /\ SlotOf(z.ring[i].seq) = i
      BY <3>2 DEF Good, RingInv, o
    <3> QED BY <1>1, <1>2, <3>2, <3>3
  <2> QED BY <2>1, <2>2, <2>3 DEF RingInv
<1>5. ByteInv(e)
  <2> DEFINE A == o .. o + k - 1
             B == o + k .. z.head - 1
             C == o .. z.head - 1
  <2>1. C = A \cup B /\ A \cap B = {} /\ A \subseteq C /\ B \subseteq C
    BY <1>2
  <2>2. /\ IsFiniteSet(A) /\ Sized(z, A) /\ IsFiniteSet(B) /\ Sized(z, B)
        /\ IsFiniteSet(C) /\ Sized(z, C)
    BY <2>1, RetainedSizes DEF o
  <2> HIDE DEF A, B, C
  <2>3. BytesOf(z, C) = BytesOf(z, A) + BytesOf(z, B)
    BY <2>1, <2>2, Sums3
  <2>4. BytesOf(z, A) \in Nat /\ BytesOf(z, B) \in Nat
    BY <2>2, Sums3
  <2>5. z.bytes = BytesOf(z, C) /\ (MaxBytes > 0 => z.bytes <= MaxBytes)
    BY DEF Good, ByteInv, o, C
  <2>6. e.bytes = BytesOf(z, B)
    <3>1. e.bytes = Debited(z.bytes, BytesOf(z, A))
      BY <1>9 DEF A
    <3> QED BY <2>3, <2>4, <2>5, <3>1 DEF Debited
  <2>7. \A s \in B : SizeAt(e, s) = SizeAt(z, s)
    BY <1>3 DEF SizeAt, B
  <2>8. BytesOf(e, B) = BytesOf(z, B)
    BY <2>2, <2>7, Sums3
  <2>9. MaxBytes > 0 => e.bytes <= MaxBytes
    BY <2>3, <2>4, <2>5, <2>6, StreamAssumption
  <2>10. Oldest(e) .. e.head - 1 = B
    BY <1>1 DEF B
  <2> QED BY <2>6, <2>8, <2>9, <2>10 DEF ByteInv
<1>6. PartInv(e) /\ NameInv(e) /\ MarkInv(e)
  BY <1>1 DEF Good, PartInv, NameInv, MarkInv
<1>7. SameAt(z, e, o + k .. z.head - 1)
  BY <1>1, <1>3 DEF SameAt
<1> QED BY <1>1, <1>4, <1>5, <1>6, <1>7 DEF Good, e, o

(* A message stored under the next number.                                   *)
Stored(z, v, p) == [Put(z, v, p) EXCEPT !.bytes = Debited(@, Debit(z)) + Size[v]]

(* The fields it changes.                                                   *)
IsStored(z, v, p, q) ==
    /\ SlotOf(z.head) \in Slots
    /\ q.head = z.head + 1 /\ q.count = IF z.count < Cap THEN z.count + 1 ELSE Cap
    /\ q.nparts = z.nparts /\ q.cons = z.cons
    /\ q.bytes = Debited(z.bytes, Debit(z)) + Size[v]
    /\ q.ring = [z.ring EXCEPT ![SlotOf(z.head)] =
                    [seq |-> z.head, val |-> v, valid |-> TRUE]]
    /\ q.part = [z.part EXCEPT ![SlotOf(z.head)] = IF z.nparts > 1 THEN p ELSE @]
    /\ q = [z EXCEPT !.head = q.head, !.count = q.count, !.bytes = q.bytes,
                     !.ring = q.ring, !.part = q.part]

(* It changes these fields.                                                  *)
LEMMA StoredFields ==
    ASSUME NEW z, Good(z), NEW v \in Values, NEW p \in Parts,
           NEW q, q = Stored(z, v, p)
    PROVE  IsStored(z, v, p, q)
<1> DEFINE h == SlotOf(z.head)
           c == Min({z.count + 1, Cap})
           n == Debited(z.bytes, Debit(z)) + Size[v]
           g == [z.ring EXCEPT ![h] = [seq |-> z.head, val |-> v, valid |-> TRUE]]
           f == [z.part EXCEPT ![h] = IF z.nparts > 1 THEN p ELSE @]
<1>1. z \in Streams
  BY DEF Good
<1>2. z.head \in Nat \ {0} /\ z.count \in Nat /\ Cap \in Nat \ {0} /\ z.count <= Cap
  BY Basics DEF Good, RingInv
<1>3. h \in Slots
  BY <1>2, Slot DEF Slots
<1>4. c = IF z.count < Cap THEN z.count + 1 ELSE Cap
  BY <1>2, Pairs
<1>5. q = [z EXCEPT !.ring = g, !.part = f, !.head = z.head + 1, !.count = c, !.bytes = n]
  BY <1>1 DEF Stored, Put, Streams
<1>6. /\ q.head = z.head + 1 /\ q.count = c /\ q.nparts = z.nparts /\ q.cons = z.cons
      /\ q.bytes = n /\ q.ring = g /\ q.part = f
  <2> HIDE DEF c, n, g, f
  <2> QED BY <1>1, <1>5 DEF Streams
<1>7. q = [z EXCEPT !.head = q.head, !.count = q.count, !.bytes = q.bytes,
                    !.ring = q.ring, !.part = q.part]
  <2> HIDE DEF c, n, g, f
  <2> QED BY <1>1, <1>5, <1>6 DEF Streams
<1> QED BY <1>3, <1>4, <1>6, <1>7, Zenon DEF IsStored

(* It keeps the messages that stay in the ring.                              *)
LEMMA StoredRing ==
    ASSUME NEW z, Good(z), NEW v \in Values, NEW p \in Parts,
           NEW q, IsStored(z, v, p, q)
    PROVE  /\ Oldest(q) \in Nat \ {0}
           /\ Oldest(q) = IF z.count < Cap THEN Oldest(z) ELSE Oldest(z) + 1
           /\ SameAt(z, q, Oldest(q) .. z.head - 1)
           /\ q.ring[SlotOf(z.head)] = [seq |-> z.head, val |-> v, valid |-> TRUE]
           /\ q.part[SlotOf(z.head)] = IF z.nparts > 1 THEN p ELSE z.part[SlotOf(z.head)]
           /\ RingInv(q) /\ PartInv(q)
<1> DEFINE h == SlotOf(z.head)
           cell == [seq |-> z.head, val |-> v, valid |-> TRUE]
<1>1. /\ h \in Slots
      /\ q.head = z.head + 1 /\ q.count = IF z.count < Cap THEN z.count + 1 ELSE Cap
      /\ q.nparts = z.nparts
  BY DEF IsStored
<1>2. /\ q.ring = [z.ring EXCEPT ![h] = cell]
      /\ q.part = [z.part EXCEPT ![h] = IF z.nparts > 1 THEN p ELSE @]
  BY DEF IsStored
<1>3. /\ z.head \in Nat \ {0} /\ z.count \in Nat /\ Cap \in Nat \ {0} /\ z.count <= Cap
      /\ z.count < z.head /\ Oldest(z) = z.head - z.count
      /\ z.ring \in [Slots -> Cell] /\ z.part \in [Slots -> Nat]
  BY Basics DEF Good, RingInv, Oldest
<1>4. /\ Oldest(q) = IF z.count < Cap THEN Oldest(z) ELSE Oldest(z) + 1
      /\ Oldest(q) \in Nat \ {0} /\ z.head - Oldest(q) < Cap /\ Oldest(q) <= z.head
      /\ Oldest(z) \in Nat \ {0} /\ Oldest(q) >= Oldest(z)
  <2>1. Oldest(q) = q.head - q.count
    BY DEF Oldest
  <2> QED BY <1>1, <1>3, <2>1
<1>5. ASSUME NEW i \in Slots, i # h
      PROVE  q.ring[i] = z.ring[i] /\ q.part[i] = z.part[i]
  BY <1>2, <1>3, <1>5
<1>6. q.ring[h] = cell /\ q.part[h] = IF z.nparts > 1 THEN p ELSE z.part[h]
  BY <1>1, <1>2, <1>3
<1>7. ASSUME NEW s \in Oldest(q) .. z.head - 1
      PROVE  /\ s \in Oldest(z) .. z.head - 1 /\ SlotOf(s) \in Slots
             /\ q.ring[SlotOf(s)] = z.ring[SlotOf(s)]
             /\ q.part[SlotOf(s)] = z.part[SlotOf(s)]
  <2>1. s \in Nat \ {0} /\ s < z.head /\ z.head - s < Cap /\ s \in Oldest(z) .. z.head - 1
    BY <1>3, <1>4
  <2>2. SlotOf(s) # h /\ SlotOf(s) \in Slots
    BY <1>3, <2>1, Slot DEF Slots
  <2> HIDE DEF h
  <2> QED BY <1>5, <2>1, <2>2
<1>8. RingInv(q)
  <2>1. q.count <= Cap /\ q.count < q.head
    BY <1>1, <1>3
  <2>2. ASSUME NEW s \in Oldest(q) .. q.head - 1
        PROVE  /\ q.ring[SlotOf(s)].valid /\ q.ring[SlotOf(s)].seq = s
               /\ q.ring[SlotOf(s)].val \in Values
    <3>1. CASE s = z.head
      BY <1>6, <3>1
    <3>2. CASE s # z.head
      <4>1. s \in Oldest(q) .. z.head - 1
        BY <1>1, <1>3, <1>4, <3>2
      <4> QED BY <1>7, <4>1, RetainedSlot
    <3> QED BY <3>1, <3>2
  <2>3. ASSUME NEW i \in Slots, q.ring[i].valid
        PROVE  q.ring[i].seq \in Oldest(q) .. q.head - 1 /\ SlotOf(q.ring[i].seq) = i
    <3>1. CASE i = h
      <4>1. q.ring[i].seq = z.head
        BY <1>6, <3>1
      <4> QED BY <1>1, <1>3, <1>4, <3>1, <4>1
    <3>2. CASE i # h
      <4>1. q.ring[i] = z.ring[i]
        BY <1>5, <3>2
      <4>2. z.ring[i].seq \in Oldest(z) .. z.head - 1 /\ SlotOf(z.ring[i].seq) = i
        BY <2>3, <4>1 DEF Good, RingInv
      <4>3. z.count >= Cap => z.ring[i].seq # Oldest(z)
        <5>1. SUFFICES ASSUME z.count >= Cap, z.ring[i].seq = Oldest(z) PROVE FALSE
          OBVIOUS
        <5>2. z.head = Oldest(z) + Cap
          BY <1>3, <5>1
        <5>3. SlotOf(Oldest(z) + Cap) = SlotOf(Oldest(z))
          BY <1>4, Slot
        <5> QED BY <3>2, <4>2, <5>1, <5>2, <5>3
      <4>4. /\ Oldest(z) <= z.ring[i].seq /\ z.ring[i].seq <= z.head - 1 /\ z.ring[i].seq \in Int
            /\ Oldest(z) \in Nat
        BY <1>3, <1>4, <4>2
      <4>5. Oldest(q) <= z.ring[i].seq /\ q.head - 1 = z.head
        BY <1>1, <1>3, <1>4, <4>3, <4>4
      <4>6. z.ring[i].seq \in Oldest(q) .. q.head - 1
        BY <1>3, <1>4, <4>4, <4>5
      <4> QED BY <4>1, <4>2, <4>6
    <3> QED BY <3>1, <3>2
  <2> QED BY <2>1, <2>2, <2>3 DEF RingInv
<1>9. PartInv(q)
  <2>1. ASSUME NEW i \in Slots PROVE q.part[i] \in Parts
    <3>1. z.part[i] \in Parts
      BY DEF Good, PartInv
    <3>2. CASE i = h
      BY <1>6, <3>1, <3>2
    <3>3. CASE i # h
      BY <1>5, <3>1, <3>3
    <3> QED BY <3>2, <3>3
  <2> QED BY <1>1, <2>1 DEF PartInv
<1>10. SameAt(z, q, Oldest(q) .. z.head - 1)
  BY <1>7 DEF SameAt
<1> QED BY <1>4, <1>6, <1>8, <1>9, <1>10

(* It keeps the invariant, when the byte limit allows it.                    *)
LEMMA StoredGood ==
    ASSUME NEW z, Good(z), NEW v \in Values, NEW p \in Parts,
           NEW q, IsStored(z, v, p, q), MaxBytes > 0 => z.bytes + Size[v] <= MaxBytes
    PROVE  Good(q)
<1> DEFINE h == SlotOf(z.head)
           cell == [seq |-> z.head, val |-> v, valid |-> TRUE]
           o == Oldest(q)
<1>1. /\ h \in Slots
      /\ q.head = z.head + 1 /\ q.count = IF z.count < Cap THEN z.count + 1 ELSE Cap
      /\ q.nparts = z.nparts /\ q.cons = z.cons
      /\ q.bytes = Debited(z.bytes, Debit(z)) + Size[v]
  BY DEF IsStored
<1>2. /\ q.ring = [z.ring EXCEPT ![h] = cell]
      /\ q.part = [z.part EXCEPT ![h] = IF z.nparts > 1 THEN p ELSE @]
      /\ q = [z EXCEPT !.head = q.head, !.count = q.count, !.bytes = q.bytes,
                       !.ring = q.ring, !.part = q.part]
  BY DEF IsStored
<1>3. /\ o \in Nat \ {0}
      /\ o = IF z.count < Cap THEN Oldest(z) ELSE Oldest(z) + 1
      /\ q.ring[h] = cell /\ RingInv(q) /\ PartInv(q)
  BY StoredRing
<1>4. \A s \in o .. z.head - 1 : q.ring[SlotOf(s)] = z.ring[SlotOf(s)]
  <2>1. SameAt(z, q, o .. z.head - 1)
    BY StoredRing
  <2> QED BY <2>1 DEF SameAt
<1>5. /\ z.head \in Nat \ {0} /\ z.count \in Nat /\ Cap \in Nat \ {0} /\ z.bytes \in Nat
      /\ z.count <= Cap /\ Oldest(z) = z.head - z.count /\ Size[v] \in Nat /\ MaxBytes \in Nat
      /\ Oldest(z) \in Nat
  BY Basics, StreamAssumption DEF Good, RingInv, Oldest
<1>6. ByteInv(q)
  <2> DEFINE A == Oldest(z) .. o - 1
             B == o .. z.head - 1
             C == Oldest(z) .. z.head - 1
             H == {z.head}
             D == o .. q.head - 1
  <2>1. /\ C = A \cup B /\ A \cap B = {} /\ A \subseteq C /\ B \subseteq C
        /\ D = B \cup H /\ B \cap H = {}
    BY <1>1, <1>3, <1>5
  <2>2. /\ IsFiniteSet(A) /\ Sized(z, A) /\ IsFiniteSet(B) /\ Sized(z, B)
        /\ IsFiniteSet(C) /\ Sized(z, C)
    BY <2>1, RetainedSizes
  <2>3. \A s \in B : SizeAt(q, s) = SizeAt(z, s)
    BY <1>4 DEF SizeAt
  <2>4. SizeAt(q, z.head) = Size[v]
    BY <1>3 DEF SizeAt
  <2>5. Debit(z) = BytesOf(z, A)
    <3>1. CASE z.count < Cap
      <4>1. A = {}
        BY <1>3, <1>5, <3>1
      <4>2. BytesOf(z, A) = 0
        BY <2>2, <4>1, Sums3
      <4> QED BY <1>5, <3>1, <4>2 DEF Debit
    <3>2. CASE z.count >= Cap
      <4>1. A = {Oldest(z)} /\ FirstSeq(z) = Oldest(z) /\ Oldest(z) \in C
        BY <1>3, <1>5, <3>2, Basics
      <4>2. BytesOf(z, {Oldest(z)}) = SizeAt(z, Oldest(z))
        BY <4>1, RetainedSlot, SingleSize
      <4> QED BY <3>2, <4>1, <4>2 DEF Debit
    <3> QED BY <1>5, <3>1, <3>2
  <2> HIDE DEF A, B, C, H, D
  <2>6. BytesOf(z, C) = BytesOf(z, A) + BytesOf(z, B)
    BY <2>1, <2>2, Sums3
  <2>7. BytesOf(z, A) \in Nat /\ BytesOf(z, B) \in Nat
    BY <2>2, Sums3
  <2>8. z.bytes = BytesOf(z, C)
    BY DEF Good, ByteInv, C
  <2>9. BytesOf(q, B) = BytesOf(z, B)
    BY <2>2, <2>3, Sums3
  <2>10. BytesOf(q, H) = Size[v]
    BY <1>5, <2>4, SingleSize DEF H
  <2>11. IsFiniteSet(D) /\ Sized(q, D)
    <3>1. Sized(q, D)
      BY <1>5, <2>1, <2>2, <2>3, <2>4 DEF Sized, H
    <3>2. o \in Int /\ q.head - 1 \in Int
      BY <1>1, <1>3, <1>5
    <3> QED BY <3>1, <3>2, FS_Interval DEF D
  <2>12. BytesOf(q, D) = BytesOf(q, B) + BytesOf(q, H)
    BY <2>1, <2>11, Sums3
  <2>13. q.bytes = BytesOf(q, D) /\ (MaxBytes > 0 => q.bytes <= MaxBytes)
    BY <1>1, <1>5, <2>5, <2>6, <2>7, <2>8, <2>9, <2>10, <2>12 DEF Debited
  <2> QED BY <2>13 DEF ByteInv, D
<1>7. NameInv(q) /\ MarkInv(q)
  <2>1. NameInv(q)
    BY <1>1 DEF Good, NameInv
  <2>2. ASSUME NEW i \in DOMAIN z.cons PROVE Behind(z.cons[i], z.head + 1)
    <3>1. Behind(z.cons[i], z.head) /\ z.cons[i] \in RowSet
      BY Basics DEF Good, MarkInv
    <3> QED BY <1>5, <3>1 DEF Behind, RowSet
  <2> QED BY <1>1, <2>1, <2>2 DEF MarkInv
<1>8. q \in Streams
  <2>1. q.bytes \in Nat /\ q.count \in Nat /\ q.head \in Nat \ {0}
    <3>2. q.count \in Nat /\ q.head \in Nat \ {0}
      BY <1>1, <1>5
    <3>3. Debit(z) \in Nat
      <4>1. CASE z.count >= Cap
        <5>1. FirstSeq(z) = Oldest(z) /\ Oldest(z) \in Oldest(z) .. z.head - 1
          BY <1>5, <4>1, Basics
        <5> QED BY <4>1, <5>1, RetainedSlot DEF Debit
      <4>2. CASE ~(z.count >= Cap)
        BY <4>2 DEF Debit
      <4> QED BY <4>1, <4>2
    <3> QED BY <1>1, <1>5, <3>2, <3>3 DEF Debited
  <2>2. q.ring \in [Slots -> Cell]
    <3>1. cell \in Cell
      BY <1>5 DEF Cell
    <3>2. z.ring \in [Slots -> Cell]
      BY Basics
    <3> HIDE DEF cell, h
    <3> QED BY <1>2, <3>1, <3>2
  <2>3. q.part \in [Slots -> Nat]
    <3>1. z.part \in [Slots -> Nat] /\ p \in Nat
      BY Basics, StreamAssumption DEF Parts
    <3> HIDE DEF h
    <3> QED BY <1>2, <3>1
  <2>4. z \in Streams
    BY DEF Good
  <2> QED BY <1>2, <2>1, <2>2, <2>3, <2>4 DEF Streams
<1> QED BY <1>3, <1>6, <1>7, <1>8 DEF Good

-----------------------------------------------------------------------------
(* Watermarks and the floor below which messages may go.                     *)

FloorAt(z, a)   == Max({FirstSeq(z), Min({a, LastSeq(z)}) + 1})

(* A known consumer has one row.                                             *)
LEMMA OneRow ==
    ASSUME NEW z, Good(z), NEW c, Known(z, c)
    PROVE  \E i \in DOMAIN z.cons : /\ Rows(z, c) = {i} /\ Row(z, c) = z.cons[i]
                                   /\ z.cons[i].name = c /\ z.cons[i] \in RowSet
<1>1. PICK i \in Rows(z, c) : TRUE
  BY DEF Known
<1>2. i \in DOMAIN z.cons /\ z.cons[i].name = c
  BY <1>1 DEF Rows
<1>3. \A j \in Rows(z, c) : j = i
  BY <1>2 DEF Rows, Good, NameInv
<1>4. Rows(z, c) = {i}
  BY <1>1, <1>3
<1>5. Row(z, c) = z.cons[i]
  BY <1>4 DEF Row
<1>6. z.cons[i] \in RowSet
  BY <1>2, Basics
<1> QED BY <1>2, <1>4, <1>5, <1>6

(* The partition of a retained message is one of Parts, in use or not.       *)
LEMMA PartUsed ==
    ASSUME NEW z, Good(z), NEW s \in Retained(z)
    PROVE  PartAt(z, s) \in Parts /\ PartAt(z, s) \in Nat
<1>1. SlotOf(s) \in Slots
  BY Basics, RetainedSlot
<1>2. z.part[SlotOf(s)] \in Parts
  BY <1>1 DEF Good, PartInv
<1>3. MaxParts \in Nat \ {0}
  BY StreamAssumption
<1> QED BY <1>2, <1>3 DEF PartAt, Parts

(* The least watermark of the partitions in use is one of them.              *)
LEMMA LeastOf ==
    ASSUME NEW z, Good(z), NEW row \in RowSet
    PROVE  /\ \E q \in 0 .. z.nparts - 1 : LeastMark(row, z.nparts) = row.marks[q]
           /\ \A q \in 0 .. z.nparts - 1 : /\ LeastMark(row, z.nparts) <= row.marks[q]
                                           /\ row.marks[q] \in Nat /\ q \in Parts
<1> DEFINE F == {row.marks[q] : q \in 0 .. z.nparts - 1}
<1>1. z.nparts \in 1 .. MaxParts /\ MaxParts \in Nat
  BY Basics, StreamAssumption
<1>2. \A q \in 0 .. z.nparts - 1 : q \in Parts /\ row.marks[q] \in Nat
  BY <1>1 DEF RowSet, Parts
<1>3. F \subseteq Nat /\ row.marks[0] \in F /\ \A q \in 0 .. z.nparts - 1 : row.marks[q] \in F
  BY <1>1, <1>2
<1>4. LeastMark(row, z.nparts) = Min(F)
  BY DEF LeastMark
<1>5. Min(F) \in F /\ \A x \in F : Min(F) <= x
  <2> HIDE DEF F
  <2> QED BY <1>3, Least
<1>6. \E q \in 0 .. z.nparts - 1 : Min(F) = row.marks[q]
  BY <1>5
<1> HIDE DEF F
<1> QED BY <1>2, <1>3, <1>4, <1>5, <1>6

(* The watermark that covers a message is one of those in use.               *)
LEMMA MarkIs ==
    ASSUME NEW z, Good(z), NEW row \in RowSet, NEW s \in Retained(z)
    PROVE  /\ Mark(z, row, s) \in Nat
           /\ z.nparts <= 1 => Mark(z, row, s) = row.acked
           /\ z.nparts > 1 => \E q \in 0 .. z.nparts - 1 : Mark(z, row, s) = row.marks[q]
           /\ z.nparts > 1 /\ PartAt(z, s) < z.nparts => Mark(z, row, s) = row.marks[PartAt(z, s)]
           /\ z.nparts > 1 /\ ~(PartAt(z, s) < z.nparts) =>
                 Mark(z, row, s) = LeastMark(row, z.nparts)
<1>1. z.nparts \in Nat /\ PartAt(z, s) \in Nat
  BY Basics, PartUsed
<1>2. row.acked \in Nat
  BY DEF RowSet
<1>3. CASE z.nparts <= 1
  <2>1. Mark(z, row, s) = row.acked
    BY <1>1, <1>3 DEF Mark
  <2> QED BY <1>1, <1>2, <1>3, <2>1
<1>4. CASE z.nparts > 1 /\ PartAt(z, s) < z.nparts
  <2>1. Mark(z, row, s) = row.marks[PartAt(z, s)]
    BY <1>1, <1>4 DEF Mark
  <2>2. PartAt(z, s) \in 0 .. z.nparts - 1
    BY <1>1, <1>4
  <2>3. row.marks[PartAt(z, s)] \in Nat
    BY <2>2, LeastOf
  <2> QED BY <1>1, <1>4, <2>1, <2>2, <2>3
<1>5. CASE z.nparts > 1 /\ ~(PartAt(z, s) < z.nparts)
  <2>1. Mark(z, row, s) = LeastMark(row, z.nparts)
    BY <1>1, <1>5 DEF Mark
  <2>2. PICK q \in 0 .. z.nparts - 1 : LeastMark(row, z.nparts) = row.marks[q]
    BY LeastOf
  <2>3. row.marks[q] \in Nat
    BY LeastOf
  <2> QED BY <1>1, <1>5, <2>1, <2>2, <2>3
<1> QED BY <1>1, <1>3, <1>4, <1>5

(* A number below the floor of a watermark is covered by it.                 *)
LEMMA FloorCovers ==
    ASSUME NEW z, Good(z), NEW a \in Nat
    PROVE  /\ FloorAt(z, a) \in Nat
           /\ \A s \in Retained(z) : s < FloorAt(z, a) => s <= a
<1>1. FirstSeq(z) \in Nat /\ LastSeq(z) \in Nat
  BY Basics
<1> DEFINE m == Min({a, LastSeq(z)})
<1>2. m = IF a <= LastSeq(z) THEN a ELSE LastSeq(z)
  BY <1>1, Pairs
<1> HIDE DEF m
<1>3. FloorAt(z, a) = IF FirstSeq(z) >= m + 1 THEN FirstSeq(z) ELSE m + 1
  <2>1. m + 1 \in Int
    BY <1>1, <1>2
  <2>2. FloorAt(z, a) = Max({FirstSeq(z), m + 1})
    BY DEF FloorAt, m
  <2>3. FirstSeq(z) \in Int
    BY <1>1
  <2> QED BY <2>1, <2>2, <2>3, Pairs
<1>4. ASSUME NEW s \in Retained(z) PROVE s \in Nat /\ s >= FirstSeq(z)
  BY Basics
<1>5. \A s \in Retained(z) : s < FloorAt(z, a) => s <= a
  BY <1>1, <1>2, <1>3, <1>4
<1> QED BY <1>1, <1>2, <1>3, <1>5

(* The floor of a consumer is at most the floor of each watermark in use.    *)
LEMMA FloorOfRow ==
    ASSUME NEW z, Good(z), NEW row \in RowSet
    PROVE  /\ ConsumerFloor(z, row) \in Nat
           /\ \A s \in Retained(z) : ConsumerFloor(z, row) <= FloorAt(z, Mark(z, row, s))
<1>0. z.nparts \in 1 .. MaxParts /\ MaxParts \in Nat
  BY Basics, StreamAssumption
<1>1. CASE z.nparts <= 1
  <2>1. ConsumerFloor(z, row) = FloorAt(z, row.acked)
    BY <1>1 DEF ConsumerFloor, FloorAt
  <2>2. row.acked \in Nat /\ \A s \in Retained(z) : Mark(z, row, s) = row.acked
    BY <1>0, <1>1, MarkIs DEF RowSet
  <2>3. FloorAt(z, row.acked) \in Nat
    BY <2>2, FloorCovers
  <2> QED BY <2>1, <2>2, <2>3
<1>2. CASE z.nparts > 1
  <2> DEFINE F == {FloorAt(z, row.marks[p]) : p \in 0 .. z.nparts - 1}
  <2>1. ConsumerFloor(z, row) = Min(F)
    BY <1>0, <1>2 DEF ConsumerFloor, FloorAt
  <2>2. \A p \in 0 .. z.nparts - 1 : row.marks[p] \in Nat
    BY <1>0 DEF RowSet, Parts
  <2>3. F \subseteq Nat /\ F # {}
    <3>1. \A p \in 0 .. z.nparts - 1 : FloorAt(z, row.marks[p]) \in Nat
      BY <2>2, FloorCovers
    <3>2. FloorAt(z, row.marks[0]) \in F
      BY <1>0
    <3> QED BY <3>1, <3>2
  <2>4. ASSUME NEW s \in Retained(z) PROVE FloorAt(z, Mark(z, row, s)) \in F
    <3>1. PICK q \in 0 .. z.nparts - 1 : Mark(z, row, s) = row.marks[q]
      BY <1>2, MarkIs
    <3> QED BY <3>1
  <2> HIDE DEF F
  <2>5. Min(F) \in F /\ \A x \in F : Min(F) <= x
    BY <2>3, Least
  <2> QED BY <2>1, <2>3, <2>4, <2>5
<1> QED BY <1>0, <1>1, <1>2

(* A retained message below the floor of the stream is acknowledged by every *)
(* consumer.                                                                 *)
LEMMA FloorSettles ==
    ASSUME NEW z, Good(z)
    PROVE  /\ RetainFloor(z) \in Nat
           /\ \A s \in Retained(z), c \in Consumers :
                 s < RetainFloor(z) /\ Known(z, c) => s \notin Unacked(z, c)
<1> DEFINE F == {ConsumerFloor(z, z.cons[i]) : i \in DOMAIN z.cons} \cup {z.head + 1}
<1>1. ASSUME NEW i \in DOMAIN z.cons
      PROVE  z.cons[i] \in RowSet /\ ConsumerFloor(z, z.cons[i]) \in Nat
  BY Basics, FloorOfRow
<1>2. F \subseteq Nat /\ F # {}
  <2>1. z.head + 1 \in Nat
    BY Basics
  <2> QED BY <1>1, <2>1
<1>3. RetainFloor(z) = Min(F)
  BY DEF RetainFloor
<1>4. ASSUME NEW i \in DOMAIN z.cons PROVE ConsumerFloor(z, z.cons[i]) \in F
  OBVIOUS
<1> HIDE DEF F
<1>5. Min(F) \in F /\ \A x \in F : Min(F) <= x
  BY <1>2, Least
<1>6. ASSUME NEW s \in Retained(z), NEW c \in Consumers, s < RetainFloor(z), Known(z, c)
      PROVE  s \notin Unacked(z, c)
  <2>1. PICK i \in DOMAIN z.cons : Row(z, c) = z.cons[i] /\ z.cons[i] \in RowSet
    BY <1>6, OneRow
  <2> DEFINE row == z.cons[i]
             m == Mark(z, row, s)
  <2>2. m \in Nat
    BY <2>1, MarkIs
  <2>3. /\ FloorAt(z, m) \in Nat /\ ConsumerFloor(z, row) \in Nat
        /\ ConsumerFloor(z, row) <= FloorAt(z, m) /\ RetainFloor(z) <= ConsumerFloor(z, row)
    BY <1>1, <1>3, <1>4, <1>5, <2>1, <2>2, FloorCovers, FloorOfRow
  <2>4. s \in Nat /\ RetainFloor(z) \in Nat
    <3>1. s \in Nat
      BY Basics
    <3> QED BY <1>2, <1>3, <1>5, <3>1
  <2>5. s < FloorAt(z, m)
    BY <1>6, <2>3, <2>4
  <2>6. s <= m
    BY <2>2, <2>5, FloorCovers
  <2> QED BY <2>1, <2>2, <2>4, <2>6 DEF Unacked
<1> QED BY <1>2, <1>3, <1>5, <1>6

-----------------------------------------------------------------------------
(* Append.                                                                   *)

(* Whether b bytes leave no room for v.                                      *)
Over(v, b) == MaxBytes > 0 /\ (b >= MaxBytes \/ b + Size[v] > MaxBytes)

(* stream_append_impl evicts some of the oldest messages, all below the      *)
(* floor, and then refuses or stores.                                        *)
LEMMA AppendCases ==
    ASSUME NEW z, Good(z), NEW v \in Values, NEW p \in Parts
    PROVE  \E k \in 0 .. z.count :
              LET e == Evict(z, k)
              IN  /\ \A j \in 0 .. k - 1 : FirstSeq(z) + j < RetainFloor(z)
                  /\ \/ AppendImpl(z, v, p).st = e
                     \/ /\ AppendImpl(z, v, p).st = Stored(e, v, p)
                        /\ ~Over(v, e.bytes)
                        /\ e.count >= Cap => FirstSeq(e) < RetainFloor(z)
<1> DEFINE stop(k) == \/ ~Over(v, Evict(z, k).bytes) \/ k = z.count
                      \/ FirstSeq(z) + k >= RetainFloor(z)
           K == {k \in 0 .. z.count : stop(k)}
           k == Min(K)
           e == Evict(z, k)
<1>1. z.count \in Nat /\ FirstSeq(z) \in Nat /\ RetainFloor(z) \in Nat /\ Cap \in Nat
  BY Basics, FloorSettles
<1>2. K \subseteq Nat /\ z.count \in K
  BY <1>1
<1>3. k \in K /\ \A j \in K : k <= j
  <2> HIDE DEF K
  <2> QED BY <1>2, Least
<1>4. k \in 0 .. z.count
  <2> HIDE DEF k, stop
  <2> QED BY <1>3
<1>5. ASSUME NEW j \in 0 .. k - 1
      PROVE  FirstSeq(z) + j < RetainFloor(z)
  <2> HIDE DEF k
  <2>1. j \in 0 .. z.count /\ ~(k <= j)
    BY <1>1, <1>4
  <2>2. ~stop(j)
    <3> HIDE DEF stop
    <3> QED BY <1>3, <2>1
  <2>3. ~(FirstSeq(z) + j >= RetainFloor(z))
    BY <2>2
  <2> QED BY <1>1, <2>1, <2>3
<1>6. AppendImpl(z, v, p).st =
         IF Over(v, e.bytes) \/ (e.count >= Cap /\ FirstSeq(e) >= RetainFloor(z))
         THEN e ELSE Stored(e, v, p)
  BY DEF AppendImpl, Over, Stored
<1> HIDE DEF k, K, e
<1>7. Good(e)
  BY <1>4, EvictGood DEF e
<1>8. FirstSeq(e) \in Nat
  BY <1>7, Basics
<1>9. \/ AppendImpl(z, v, p).st = e
      \/ /\ AppendImpl(z, v, p).st = Stored(e, v, p)
         /\ ~Over(v, e.bytes)
         /\ e.count >= Cap => FirstSeq(e) < RetainFloor(z)
  BY <1>1, <1>6, <1>8
<1> QED BY <1>4, <1>5, <1>9 DEF e

(* What an append does to the retained messages.                             *)
Appended(z, v, y) ==
    /\ y.cons = z.cons /\ y.nparts = z.nparts
    /\ Oldest(z) <= Oldest(y) /\ Oldest(y) <= z.head
    /\ \A s \in Oldest(z) .. Oldest(y) - 1 : s < RetainFloor(z)
    /\ SameAt(z, y, Oldest(y) .. z.head - 1)
    /\ \/ y.head = z.head
       \/ y.head = z.head + 1 /\ y.ring[SlotOf(z.head)].val = v

(* An append keeps the invariant and drops only messages below the floor.    *)
LEMMA AppendGood ==
    ASSUME NEW z, Good(z), NEW v \in Values, NEW p \in Parts,
           NEW y, y = AppendImpl(z, v, p).st
    PROVE  Good(y) /\ Appended(z, v, y)
<1>1. PICK k \in 0 .. z.count :
              LET e == Evict(z, k)
              IN  /\ \A j \in 0 .. k - 1 : FirstSeq(z) + j < RetainFloor(z)
                  /\ \/ y = e
                     \/ /\ y = Stored(e, v, p)
                        /\ ~Over(v, e.bytes)
                        /\ e.count >= Cap => FirstSeq(e) < RetainFloor(z)
  BY AppendCases
<1> DEFINE e == Evict(z, k)
           o == Oldest(z)
<1>2. Good(e) /\ SameAt(z, e, o + k .. z.head - 1)
  BY EvictGood
<1>3. /\ e.head = z.head /\ e.count = z.count - k /\ e.nparts = z.nparts
      /\ e.part = z.part /\ e.cons = z.cons /\ Oldest(e) = o + k
  BY EvictFields
<1>4. /\ \A j \in 0 .. k - 1 : FirstSeq(z) + j < RetainFloor(z)
      /\ \/ y = e
         \/ /\ y = Stored(e, v, p)
            /\ ~Over(v, e.bytes)
            /\ e.count >= Cap => FirstSeq(e) < RetainFloor(z)
  BY <1>1
<1> HIDE DEF e, o
<1>5. /\ z.head \in Nat /\ z.count \in Nat /\ o \in Nat \ {0} /\ o = z.head - z.count
      /\ k \in Nat /\ k <= z.count /\ RetainFloor(z) \in Nat
      /\ z.count > 0 => FirstSeq(z) = o
  <2>1. z.head \in Nat /\ z.count \in Nat /\ o \in Nat \ {0} /\ RetainFloor(z) \in Nat
    BY Basics, FloorSettles DEF o
  <2> QED BY <2>1, Basics DEF o, Oldest
<1>6. ASSUME NEW s \in o .. o + k - 1
      PROVE  s < RetainFloor(z)
  <2>1. s - o \in 0 .. k - 1 /\ z.count > 0
    BY <1>5
  <2>2. FirstSeq(z) + (s - o) < RetainFloor(z)
    BY <1>4, <2>1
  <2> QED BY <1>5, <2>1, <2>2
<1>7. CASE y = e
  <2>1. /\ o <= Oldest(y) /\ Oldest(y) <= z.head
    BY <1>3, <1>5, <1>7
  <2>2. \A s \in o .. Oldest(y) - 1 : s < RetainFloor(z)
    <3>1. Oldest(y) = o + k
      BY <1>3, <1>7
    <3>2. o .. Oldest(y) - 1 = o .. o + k - 1
      BY <1>5, <3>1
    <3> QED BY <1>6, <3>2, Zenon
  <2>3. SameAt(z, y, Oldest(y) .. z.head - 1)
    BY <1>2, <1>3, <1>7
  <2> QED BY <1>2, <1>3, <1>7, <2>1, <2>2, <2>3 DEF Appended, o
<1>8. CASE /\ y = Stored(e, v, p)
           /\ ~Over(v, e.bytes)
           /\ e.count >= Cap => FirstSeq(e) < RetainFloor(z)
  <2>1. IsStored(e, v, p, y)
    BY <1>2, <1>3, <1>8, StoredFields
  <2>2. Good(y)
    <3>1. e.bytes \in Nat /\ MaxBytes \in Nat /\ Size[v] \in Nat
      BY <1>2, Basics, StreamAssumption
    <3>2. MaxBytes > 0 => e.bytes + Size[v] <= MaxBytes
      BY <1>8, <3>1 DEF Over
    <3> QED BY <1>2, <1>3, <2>1, <3>2, StoredGood
  <2>3. /\ Oldest(y) = IF e.count < Cap THEN Oldest(e) ELSE Oldest(e) + 1
        /\ SameAt(e, y, Oldest(y) .. e.head - 1)
        /\ y.ring[SlotOf(e.head)] = [seq |-> e.head, val |-> v, valid |-> TRUE]
    BY <1>2, <1>3, <2>1, StoredRing
  <2>4. Cap \in Nat \ {0} /\ e.count \in Nat /\ (e.count > 0 => FirstSeq(e) = Oldest(e))
    BY <1>2, Basics
  <2>5. Oldest(y) = (IF e.count < Cap THEN o + k ELSE o + k + 1)
        /\ o <= Oldest(y) /\ Oldest(y) <= z.head /\ o + k <= Oldest(y)
    <3>1. Oldest(e) = o + k /\ e.count = z.count - k
      BY <1>3
    <3>2. Oldest(y) = IF e.count < Cap THEN o + k ELSE o + k + 1
      BY <2>3, <3>1
    <3> QED BY <1>5, <2>4, <3>1, <3>2
  <2>6. ASSUME NEW s \in o .. Oldest(y) - 1 PROVE s < RetainFloor(z)
    <3>1. CASE s \in o .. o + k - 1
      BY <1>6, <3>1
    <3>2. CASE s = o + k /\ e.count >= Cap
      BY <1>3, <1>8, <2>4, <3>2
    <3> QED BY <1>5, <2>4, <2>5, <3>1, <3>2
  <2>7. SameAt(z, y, Oldest(y) .. z.head - 1)
    <3>1. \A s \in Oldest(y) .. z.head - 1 : s \in o + k .. z.head - 1
      BY <1>5, <2>5
    <3> QED BY <1>2, <1>3, <2>3, <3>1 DEF SameAt
  <2>8. y.head = z.head + 1 /\ y.ring[SlotOf(z.head)].val = v /\ y.nparts = z.nparts /\ y.cons = z.cons
    <3>1. y.head = e.head + 1 /\ y.nparts = e.nparts /\ y.cons = e.cons
      BY <2>1 DEF IsStored
    <3>2. y.ring[SlotOf(z.head)] = [seq |-> z.head, val |-> v, valid |-> TRUE]
      BY <1>3, <2>3
    <3> QED BY <1>3, <3>1, <3>2
  <2> QED BY <2>2, <2>5, <2>6, <2>7, <2>8 DEF Appended, o
<1> QED BY <1>4, <1>7, <1>8

-----------------------------------------------------------------------------
(* The calls on the consumer table.                                          *)

(* A stream that differs in its consumer table only.                         *)
LEMMA NewTable ==
    ASSUME NEW z, Good(z), NEW t \in Seq(RowSet), NEW y, y = [z EXCEPT !.cons = t],
           NameInv(y), MarkInv(y)
    PROVE  /\ Good(y)
           /\ y.head = z.head /\ y.count = z.count /\ y.nparts = z.nparts
           /\ y.ring = z.ring /\ y.part = z.part /\ y.cons = t
<1>1. z \in Streams
  BY DEF Good
<1>2. /\ y \in Streams /\ y.head = z.head /\ y.count = z.count /\ y.nparts = z.nparts
      /\ y.ring = z.ring /\ y.part = z.part /\ y.cons = t /\ y.bytes = z.bytes
  BY <1>1 DEF Streams
<1>3. Oldest(y) = Oldest(z)
  BY <1>2 DEF Oldest
<1>4. RingInv(y) /\ PartInv(y)
  BY <1>2, <1>3 DEF Good, RingInv, PartInv
<1>5. ByteInv(y)
  <2> DEFINE C == Oldest(z) .. z.head - 1
  <2>1. IsFiniteSet(C) /\ Sized(z, C)
    BY RetainedSizes
  <2>2. \A s \in C : SizeAt(y, s) = SizeAt(z, s)
    BY <1>2 DEF SizeAt
  <2>3. z.bytes = BytesOf(z, C) /\ (MaxBytes > 0 => z.bytes <= MaxBytes)
    BY DEF Good, ByteInv
  <2> HIDE DEF C
  <2>4. BytesOf(y, C) = BytesOf(z, C)
    BY <2>1, <2>2, Sums3
  <2> QED BY <1>2, <1>3, <2>3, <2>4 DEF ByteInv, C
<1> QED BY <1>2, <1>4, <1>5 DEF Good

(* The rows of the table are rows behind head, and their names are distinct. *)
LEMMA Table ==
    ASSUME NEW z, Good(z)
    PROVE  /\ Len(z.cons) \in Nat /\ DOMAIN z.cons = 1 .. Len(z.cons)
           /\ \A i \in DOMAIN z.cons : z.cons[i] \in RowSet /\ Behind(z.cons[i], z.head)
           /\ \A i, j \in DOMAIN z.cons : z.cons[i].name = z.cons[j].name => i = j
<1>1. z.cons \in Seq(RowSet)
  BY Basics
<1> QED BY <1>1, LenProperties, ElementOfSeq DEF Good, NameInv, MarkInv

(* The row of a new consumer is behind everything retained.                  *)
NewRow(z, c)  == InitParts(c, Max({FirstSeq(z) - 1, 0}))
Joining(z, f) == [z EXCEPT !.cons = Append(z.cons, f)]
Owed(z, f)    == \A s \in Retained(z) : s > f.acked /\ \A p \in Parts : s > f.marks[p]

(* It owes the consumer all of it.                                           *)
LEMMA RowOwed ==
    ASSUME NEW z, Good(z), NEW c \in Consumers
    PROVE  LET f == NewRow(z, c)
           IN  f \in RowSet /\ f.name = c /\ Behind(f, z.head) /\ Owed(z, f)
<1> DEFINE m == Max({FirstSeq(z) - 1, 0})
           f == NewRow(z, c)
<1>1. /\ z.head \in Nat \ {0} /\ z.count \in Nat /\ Oldest(z) \in Nat \ {0}
      /\ Oldest(z) = z.head - z.count
      /\ FirstSeq(z) = IF z.count > 0 THEN Oldest(z) ELSE 0
  BY Basics DEF Oldest
<1>2. m \in Nat /\ m < z.head /\ m < Oldest(z)
  <2>1. m = IF FirstSeq(z) - 1 >= 0 THEN FirstSeq(z) - 1 ELSE 0
    <3>1. FirstSeq(z) - 1 \in Int /\ 0 \in Int
      BY <1>1
    <3> QED BY <3>1, Pairs
  <2> HIDE DEF m
  <2> QED BY <1>1, <2>1
<1>3. f = [name |-> c, acked |-> m, marks |-> [p \in Parts |-> m]]
  BY DEF NewRow, InitParts
<1> HIDE DEF m, f
<1>4. f \in RowSet /\ f.name = c /\ f.acked = m /\ \A p \in Parts : f.marks[p] = m
  BY <1>2, <1>3 DEF RowSet
<1>5. Behind(f, z.head)
  BY <1>2, <1>4 DEF Behind
<1>6. Owed(z, f)
  <2>1. ASSUME NEW s \in Retained(z) PROVE s \in Nat /\ s >= Oldest(z)
    BY Basics
  <2>2. \A s \in Retained(z) : s > m
    BY <1>1, <1>2, <2>1
  <2> QED BY <1>4, <2>2 DEF Owed
<1> QED BY <1>4, <1>5, <1>6 DEF f

(* A new consumer is the last of the table.                                  *)
LEMMA AddGood ==
    ASSUME NEW z, Good(z), NEW c \in Consumers, ~Known(z, c),
           NEW f \in RowSet, f.name = c, Behind(f, z.head),
           NEW y, y = Joining(z, f)
    PROVE  /\ Good(y)
           /\ y.head = z.head /\ y.count = z.count /\ y.nparts = z.nparts
           /\ y.ring = z.ring /\ y.part = z.part /\ y.cons = Append(z.cons, f)
<1> DEFINE t == Append(z.cons, f)
           n == Len(z.cons)
<1>4. /\ n \in Nat /\ DOMAIN z.cons = 1 .. n /\ z.cons \in Seq(RowSet)
  BY Table, Basics
<1>5. /\ t \in Seq(RowSet) /\ DOMAIN t = 1 .. n + 1 /\ t[n + 1] = f
      /\ \A i \in 1 .. n : t[i] = z.cons[i]
  <2>2. /\ t \in Seq(RowSet) /\ Len(t) = n + 1 /\ t[n + 1] = f
        /\ \A i \in 1 .. n : t[i] = z.cons[i]
    BY <1>4, AppendProperties
  <2> HIDE DEF t, n
  <2> QED BY <2>2, LenProperties
<1>6. y.cons = t /\ y.head = z.head
  BY DEF Good, Streams, Joining
<1>7. \A i \in 1 .. n : z.cons[i].name # c
  BY <1>4 DEF Known, Rows
<1> HIDE DEF t, n
<1>8. NameInv(y)
  <2>1. ASSUME NEW i \in 1 .. n + 1, NEW j \in 1 .. n + 1, t[i].name = t[j].name
        PROVE  i = j
    <3>1. CASE i \in 1 .. n /\ j \in 1 .. n
      BY <1>4, <1>5, <2>1, <3>1, Table
    <3>2. CASE i = n + 1 /\ j \in 1 .. n
      BY <1>5, <1>7, <2>1, <3>2
    <3>3. CASE j = n + 1 /\ i \in 1 .. n
      BY <1>5, <1>7, <2>1, <3>3
    <3> QED BY <1>4, <3>1, <3>2, <3>3
  <2>2. y.cons = t /\ DOMAIN t = 1 .. n + 1
    BY <1>5, <1>6
  <2> QED BY <2>1, <2>2 DEF NameInv
<1>9. MarkInv(y)
  <2>2. ASSUME NEW i \in 1 .. n + 1 PROVE Behind(t[i], z.head)
    <3>1. CASE i = n + 1
      BY <1>5, <3>1
    <3>2. CASE i # n + 1
      <4>1. i \in 1 .. n
        BY <1>4, <3>2
      <4> QED BY <1>4, <1>5, <4>1, Table
    <3> QED BY <3>1, <3>2
  <2> QED BY <1>5, <1>6, <2>2 DEF MarkInv
<1>10. /\ Good(y)
       /\ y.head = z.head /\ y.count = z.count /\ y.nparts = z.nparts
       /\ y.ring = z.ring /\ y.part = z.part /\ y.cons = t
  <2>1. y = [z EXCEPT !.cons = t]
    BY DEF t, Joining
  <2>2. t \in Seq(RowSet)
    BY <1>5
  <2> QED BY <1>8, <1>9, <2>1, <2>2, NewTable
<1> QED BY <1>10 DEF t

(* The community module's removal of one element, element by element.        *)
LEMMA RowGone ==
    ASSUME NEW S, NEW s \in Seq(S), NEW k \in 1 .. Len(s)
    PROVE  RemoveAt(s, k) = [i \in 1 .. Len(s) - 1 |-> IF i < k THEN s[i] ELSE s[i + 1]]
<1> DEFINE n == Len(s)
           a == SubSeq(s, 1, k - 1)
           b == SubSeq(s, k + 1, n)
<1>1. n \in Nat /\ k \in Nat /\ k >= 1 /\ k <= n
  BY LenProperties
<1>2. /\ a \in Seq(S) /\ Len(a) = k - 1 /\ \A i \in 1 .. k - 1 : a[i] = s[i]
  <2>1. CASE k = 1
    BY <1>1, <2>1
  <2>2. CASE k > 1
    BY <1>1, <2>2
  <2> QED BY <1>1, <2>1, <2>2
<1>3. /\ b \in Seq(S) /\ Len(b) = n - k /\ \A i \in 1 .. n - k : b[i] = s[k + i]
  BY <1>1
<1>4. RemoveAt(s, k) = a \o b
  BY DEF RemoveAt
<1> HIDE DEF a, b, n
<1>5. /\ a \o b \in Seq(S) /\ Len(a \o b) = n - 1
      /\ \A i \in 1 .. n - 1 : (a \o b)[i] = IF i <= k - 1 THEN a[i] ELSE b[i - (k - 1)]
  BY <1>1, <1>2, <1>3, ConcatProperties
<1>6. \A i \in 1 .. n - 1 : (a \o b)[i] = IF i < k THEN s[i] ELSE s[i + 1]
  <2>1. ASSUME NEW i \in 1 .. n - 1, i < k PROVE (a \o b)[i] = s[i]
    BY <1>1, <1>2, <1>5, <2>1
  <2>2. ASSUME NEW i \in 1 .. n - 1, ~(i < k) PROVE (a \o b)[i] = s[i + 1]
    <3>1. i - (k - 1) \in 1 .. n - k /\ k + (i - (k - 1)) = i + 1
      BY <1>1, <2>2
    <3>2. (a \o b)[i] = b[i - (k - 1)]
      BY <1>1, <1>5, <2>2
    <3> QED BY <1>3, <3>1, <3>2
  <2> QED BY <2>1, <2>2
<1>7. a \o b = [i \in 1 .. n - 1 |-> (a \o b)[i]]
  <2>1. a \o b \in [1 .. n - 1 -> S]
    BY <1>5, LenProperties
  <2> QED BY <2>1
<1> QED BY <1>4, <1>6, <1>7 DEF n

(* The row of a leaving consumer is gone and the others close up.            *)
LEMMA RemoveGood ==
    ASSUME NEW z, Good(z), NEW c, Known(z, c), NEW y, y = RemoveConsumer(z, c)
    PROVE  /\ Good(y) /\ ~Known(y, c)
           /\ y.head = z.head /\ y.count = z.count /\ y.nparts = z.nparts
           /\ y.ring = z.ring /\ y.part = z.part
           /\ \A i \in DOMAIN z.cons : z.cons[i].name # c =>
                 \E j \in DOMAIN y.cons : y.cons[j] = z.cons[i]
           /\ \A j \in DOMAIN y.cons : \E i \in DOMAIN z.cons : y.cons[j] = z.cons[i]
<1>1. PICK k \in DOMAIN z.cons : Rows(z, c) = {k} /\ z.cons[k].name = c
  BY OneRow
<1> DEFINE n == Len(z.cons)
           t == [i \in 1 .. n - 1 |-> IF i < k THEN z.cons[i] ELSE z.cons[i + 1]]
<1>2. n \in Nat /\ DOMAIN z.cons = 1 .. n /\ z.cons \in Seq(RowSet) /\ k \in 1 .. n
  BY <1>1, Table, Basics
<1>3. Min(Rows(z, c)) = k
  BY <1>1, <1>2 DEF Min
<1>4. RemoveAt(z.cons, k) = t
  BY <1>2, RowGone
<1>5. y = [z EXCEPT !.cons = t]
  BY <1>3, <1>4 DEF RemoveConsumer
<1> HIDE DEF n
<1>6. \A i \in 1 .. n : z.cons[i] \in RowSet
  BY <1>2, Table
<1>7. /\ t \in Seq(RowSet) /\ DOMAIN t = 1 .. n - 1
      /\ \A i \in 1 .. n - 1 : t[i] = IF i < k THEN z.cons[i] ELSE z.cons[i + 1]
  <2>1. \A i \in 1 .. n - 1 : t[i] \in RowSet
    BY <1>2, <1>6
  <2>2. t \in [1 .. n - 1 -> RowSet] /\ n - 1 \in Nat
    BY <1>2, <2>1
  <2> HIDE DEF t
  <2>3. t \in Seq(RowSet)
    BY <2>2, SeqDef
  <2>4. DOMAIN t = 1 .. n - 1
    BY <2>2
  <2> QED BY <2>3, <2>4 DEF t
<1> HIDE DEF t
<1>8. y.cons = t /\ y.head = z.head
  BY <1>5 DEF Good, Streams
<1> DEFINE g(i) == IF i < k THEN i ELSE i + 1
<1>9. ASSUME NEW i \in 1 .. n - 1
      PROVE  g(i) \in 1 .. n /\ g(i) # k /\ t[i] = z.cons[g(i)]
  BY <1>2, <1>7
<1>10. NameInv(y)
  <2>1. ASSUME NEW i \in 1 .. n - 1, NEW j \in 1 .. n - 1, t[i].name = t[j].name
        PROVE  i = j
    <3>1. g(i) = g(j)
      <4> HIDE DEF g
      <4> QED BY <1>2, <1>9, <2>1, Table
    <3> QED BY <1>2, <3>1
  <2> QED BY <1>7, <1>8, <2>1 DEF NameInv
<1>11. MarkInv(y)
  <2>1. ASSUME NEW i \in 1 .. n - 1 PROVE Behind(t[i], z.head)
    BY <1>2, <1>9, Table
  <2> QED BY <1>7, <1>8, <2>1 DEF MarkInv
<1>12. /\ Good(y)
       /\ y.head = z.head /\ y.count = z.count /\ y.nparts = z.nparts
       /\ y.ring = z.ring /\ y.part = z.part /\ y.cons = t
  BY <1>5, <1>7, <1>10, <1>11, NewTable
<1>13. ASSUME NEW j \in DOMAIN y.cons PROVE \E i \in DOMAIN z.cons : y.cons[j] = z.cons[i]
  BY <1>2, <1>7, <1>8, <1>9
<1>14. ASSUME NEW i \in DOMAIN z.cons, z.cons[i].name # c
       PROVE  \E j \in DOMAIN y.cons : y.cons[j] = z.cons[i]
  <2>1. i \in 1 .. n /\ i # k
    BY <1>1, <1>2, <1>14
  <2>2. CASE i < k
    <3>1. i \in 1 .. n - 1 /\ t[i] = z.cons[i]
      BY <1>2, <1>7, <2>1, <2>2
    <3> QED BY <1>7, <1>8, <3>1
  <2>3. CASE i > k
    <3>1. i - 1 \in 1 .. n - 1 /\ t[i - 1] = z.cons[i]
      BY <1>2, <1>7, <2>1, <2>3
    <3> QED BY <1>7, <1>8, <3>1
  <2> QED BY <1>2, <2>1, <2>2, <2>3
<1>15. ~Known(y, c)
  <2>1. ASSUME NEW j \in DOMAIN y.cons PROVE y.cons[j].name # c
    <3>1. j \in 1 .. n - 1
      BY <1>7, <1>8
    <3>2. g(j) \in DOMAIN z.cons /\ g(j) # k /\ y.cons[j] = z.cons[g(j)]
      BY <1>2, <1>8, <1>9, <3>1
    <3> HIDE DEF g
    <3> QED BY <1>1, <3>2, Table
  <2> QED BY <2>1 DEF Known, Rows
<1> QED BY <1>12, <1>13, <1>14, <1>15

(* The row a consumer is found by.                                           *)
LEMMA RowIs ==
    ASSUME NEW z, Good(z), NEW i \in DOMAIN z.cons
    PROVE  Known(z, z.cons[i].name) /\ Row(z, z.cons[i].name) = z.cons[i]
<1>1. i \in Rows(z, z.cons[i].name)
  BY DEF Rows
<1>2. Known(z, z.cons[i].name)
  BY <1>1 DEF Known
<1>3. PICK j \in DOMAIN z.cons : /\ Rows(z, z.cons[i].name) = {j}
                                /\ Row(z, z.cons[i].name) = z.cons[j]
  BY <1>2, OneRow
<1> QED BY <1>1, <1>2, <1>3

(* A replaced row.                                                           *)
LEMMA ReplaceGood ==
    ASSUME NEW z, Good(z), NEW row \in RowSet, Behind(row, z.head),
           NEW y, y = WithRow(z, row)
    PROVE  /\ Good(y)
           /\ y.head = z.head /\ y.count = z.count /\ y.nparts = z.nparts
           /\ y.ring = z.ring /\ y.part = z.part
           /\ DOMAIN y.cons = DOMAIN z.cons
           /\ \A i \in DOMAIN z.cons :
                 y.cons[i] = IF z.cons[i].name = row.name THEN row ELSE z.cons[i]
<1> DEFINE n == Len(z.cons)
           t == [i \in 1 .. n |-> IF z.cons[i].name = row.name THEN row ELSE z.cons[i]]
<1>1. n \in Nat /\ DOMAIN z.cons = 1 .. n
  BY Table
<1>2. y = [z EXCEPT !.cons = t]
  BY <1>1 DEF WithRow
<1> HIDE DEF n
<1>3. /\ t \in Seq(RowSet) /\ DOMAIN t = 1 .. n
      /\ \A i \in 1 .. n : t[i] = IF z.cons[i].name = row.name THEN row ELSE z.cons[i]
  <2>1. \A i \in 1 .. n : t[i] \in RowSet
    BY <1>1, Table
  <2>2. t \in [1 .. n -> RowSet]
    BY <2>1
  <2> HIDE DEF t
  <2>3. t \in Seq(RowSet)
    BY <1>1, <2>2, SeqDef
  <2> QED BY <2>2, <2>3 DEF t
<1> HIDE DEF t
<1>4. y.cons = t /\ y.head = z.head
  BY <1>2 DEF Good, Streams
<1>5. \A i \in 1 .. n : t[i].name = z.cons[i].name
  BY <1>3
<1>6. NameInv(y)
  <2>1. \A i, j \in 1 .. n : t[i].name = t[j].name => i = j
    BY <1>1, <1>5, Table
  <2>2. DOMAIN t = 1 .. n
    BY <1>3
  <2> QED BY <1>4, <2>1, <2>2 DEF NameInv
<1>7. MarkInv(y)
  <2>1. \A i \in 1 .. n : Behind(t[i], z.head)
    BY <1>1, <1>3, Table
  <2>2. DOMAIN t = 1 .. n
    BY <1>3
  <2> QED BY <1>4, <2>1, <2>2 DEF MarkInv
<1>8. /\ Good(y)
      /\ y.head = z.head /\ y.count = z.count /\ y.nparts = z.nparts
      /\ y.ring = z.ring /\ y.part = z.part
  <2>1. t \in Seq(RowSet)
    BY <1>3
  <2> QED BY <1>2, <1>6, <1>7, <2>1, NewTable
<1> QED BY <1>1, <1>3, <1>4, <1>8

(* The row that an acknowledgement of s in partition p leaves: watermarks    *)
(* rise to s at most, and those of other partitions stay; a partition that   *)
(* the stream has not is left alone.                                         *)
Raised(z, row, new, p, s) ==
    /\ new \in RowSet /\ new.name = row.name /\ Behind(new, z.head)
    /\ IF z.nparts > 1
       THEN \A q \in Parts : new.marks[q] =
                IF q = p /\ p < z.nparts /\ s > row.marks[q] THEN s ELSE row.marks[q]
       ELSE new.acked = IF s > row.acked THEN s ELSE row.acked

(* The rows that stream_consumer_ack_part_impl and stream_consumer_ack_impl  *)
(* write.                                                                    *)
RaiseMark(row, p, s) == [row EXCEPT !.marks[p] = Max({@, s})]
RaiseAcked(row, s)   == [row EXCEPT !.acked = Max({@, s})]
PartRow(z, row, p, s) ==
    IF z.nparts > 1 THEN SyncAcked(RaiseMark(row, p, s), z.nparts) ELSE RaiseAcked(row, s)
AckRow(z, row, p, s) ==
    LET cum == RaiseAcked(row, s)
    IN  IF z.nparts > 1
        THEN SyncAcked(IF p < z.nparts THEN RaiseMark(cum, p, s) ELSE cum, z.nparts)
        ELSE cum

(* The cumulative watermark is one of the watermarks in use.                 *)
LEMMA Synced ==
    ASSUME NEW z, Good(z), z.nparts > 1, NEW row \in RowSet,
           \A q \in Parts : row.marks[q] < z.head,
           NEW new, new = SyncAcked(row, z.nparts)
    PROVE  /\ new \in RowSet /\ new.name = row.name /\ new.marks = row.marks
           /\ Behind(new, z.head)
<1> DEFINE F == {row.marks[p] : p \in 0 .. z.nparts - 1}
           m == Min(F)
<1>1. z.nparts \in 1 .. MaxParts /\ MaxParts \in Nat
  BY Basics, StreamAssumption
<1>2. \A p \in 0 .. z.nparts - 1 : p \in Parts
  BY <1>1 DEF Parts
<1>3. \A p \in 0 .. z.nparts - 1 : row.marks[p] \in Nat /\ row.marks[p] < z.head
  BY <1>2 DEF RowSet
<1>4. F \subseteq Nat /\ row.marks[0] \in F /\ \A x \in F : x < z.head
  BY <1>1, <1>3
<1>5. new = [row EXCEPT !.acked = m]
  BY <1>1 DEF SyncAcked, LeastMark
<1>6. m \in F
  <2> HIDE DEF F
  <2> QED BY <1>4, Least
<1>7. m \in Nat /\ m < z.head
  <2> HIDE DEF m, F
  <2> QED BY <1>4, <1>6
<1> HIDE DEF m
<1>8. new \in RowSet /\ new.name = row.name /\ new.marks = row.marks /\ new.acked = m
  BY <1>5, <1>7 DEF RowSet
<1> QED BY <1>7, <1>8 DEF Behind

(* A row with one watermark raised.                                          *)
LEMMA RaisedMark ==
    ASSUME NEW z, Good(z), NEW row \in RowSet, Behind(row, z.head),
           NEW s \in Nat, s < z.head, NEW p \in Parts,
           NEW new, new = RaiseMark(row, p, s)
    PROVE  /\ new \in RowSet /\ new.name = row.name
           /\ \A q \in Parts : new.marks[q] < z.head
           /\ \A q \in Parts : new.marks[q] =
                IF q = p /\ s > row.marks[q] THEN s ELSE row.marks[q]
<1> DEFINE m == Max({row.marks[p], s})
<1>1. row.marks \in [Parts -> Nat] /\ row.marks[p] \in Nat
  BY DEF RowSet
<1>2. m = IF row.marks[p] >= s THEN row.marks[p] ELSE s
  <2>1. row.marks[p] \in Int /\ s \in Int
    BY <1>1
  <2> QED BY <2>1, Pairs
<1>3. new = [row EXCEPT !.marks = [row.marks EXCEPT ![p] = m]]
  BY DEF RowSet, RaiseMark
<1> HIDE DEF m
<1>4. m \in Nat
  BY <1>1, <1>2
<1>5. [row.marks EXCEPT ![p] = m] \in [Parts -> Nat]
  BY <1>1, <1>4
<1>6. new \in RowSet /\ new.name = row.name /\ new.marks = [row.marks EXCEPT ![p] = m]
  BY <1>3, <1>5 DEF RowSet
<1>7. \A q \in Parts : new.marks[q] = IF q = p /\ s > row.marks[q] THEN s ELSE row.marks[q]
  <2>1. ASSUME NEW q \in Parts, q # p PROVE new.marks[q] = row.marks[q]
    BY <1>1, <1>6, <2>1
  <2>2. new.marks[p] = m
    BY <1>1, <1>6
  <2> QED BY <1>1, <1>2, <2>1, <2>2
<1>8. \A q \in Parts : row.marks[q] < z.head
  BY DEF Behind
<1> QED BY <1>6, <1>7, <1>8

(* A row with its only watermark raised.                                     *)
LEMMA RaisedAcked ==
    ASSUME NEW z, Good(z), NEW row \in RowSet, Behind(row, z.head),
           NEW s \in Nat, s < z.head,
           NEW new, new = RaiseAcked(row, s)
    PROVE  /\ new \in RowSet /\ new.name = row.name /\ new.marks = row.marks
           /\ Behind(new, z.head)
           /\ new.acked = IF s > row.acked THEN s ELSE row.acked
<1> DEFINE m == Max({row.acked, s})
<1>1. row.acked \in Nat
  BY DEF RowSet
<1>2. m = IF row.acked >= s THEN row.acked ELSE s
  <2>1. row.acked \in Int /\ s \in Int
    BY <1>1
  <2> QED BY <2>1, Pairs
<1>3. new = [row EXCEPT !.acked = m]
  BY DEF RowSet, RaiseAcked
<1> HIDE DEF m
<1>4. m \in Nat
  BY <1>1, <1>2
<1>5. new \in RowSet /\ new.name = row.name /\ new.marks = row.marks /\ new.acked = m
  BY <1>3, <1>4 DEF RowSet
<1>6. row.acked < z.head /\ \A q \in Parts : row.marks[q] < z.head
  BY DEF Behind
<1>7. Behind(new, z.head)
  BY <1>2, <1>5, <1>6 DEF Behind
<1> QED BY <1>1, <1>2, <1>5, <1>7

(* Both acknowledgements write such a row.                                   *)
LEMMA RaisedRows ==
    ASSUME NEW z, Good(z), NEW row \in RowSet, Behind(row, z.head),
           NEW s \in Nat, s < z.head, NEW p \in Parts
    PROVE  /\ p < z.nparts => Raised(z, row, PartRow(z, row, p, s), p, s)
           /\ Raised(z, row, AckRow(z, row, p, s), p, s)
<1> DEFINE cum == RaiseAcked(row, s)
           par == RaiseMark(row, p, s)
           per == RaiseMark(cum, p, s)
           via == IF p < z.nparts THEN per ELSE cum
<1>1. /\ cum \in RowSet /\ cum.name = row.name /\ cum.marks = row.marks
      /\ Behind(cum, z.head)
      /\ cum.acked = IF s > row.acked THEN s ELSE row.acked
  BY RaisedAcked
<1>2. /\ par \in RowSet /\ par.name = row.name
      /\ \A q \in Parts : par.marks[q] < z.head
      /\ \A q \in Parts : par.marks[q] = IF q = p /\ s > row.marks[q] THEN s ELSE row.marks[q]
  BY RaisedMark
<1>3. /\ per \in RowSet /\ per.name = row.name
      /\ \A q \in Parts : per.marks[q] < z.head
      /\ \A q \in Parts : per.marks[q] = IF q = p /\ s > row.marks[q] THEN s ELSE row.marks[q]
  <2> HIDE DEF cum
  <2>1. /\ per \in RowSet /\ per.name = cum.name
        /\ \A q \in Parts : per.marks[q] < z.head
        /\ \A q \in Parts : per.marks[q] = IF q = p /\ s > cum.marks[q] THEN s ELSE cum.marks[q]
    BY <1>1, RaisedMark
  <2> HIDE DEF per
  <2> QED BY <1>1, <2>1
<1>4. CASE z.nparts > 1
  <2>1. PartRow(z, row, p, s) = SyncAcked(par, z.nparts)
    BY <1>4 DEF PartRow
  <2>2. AckRow(z, row, p, s) = SyncAcked(via, z.nparts)
    BY <1>4 DEF AckRow
  <2>4. via = IF p < z.nparts THEN per ELSE cum
    OBVIOUS
  <2> HIDE DEF par, per, cum, via
  <2>5. /\ via \in RowSet /\ via.name = row.name /\ \A q \in Parts : via.marks[q] < z.head
        /\ \A q \in Parts : via.marks[q] =
               IF q = p /\ p < z.nparts /\ s > row.marks[q] THEN s ELSE row.marks[q]
    <3>1. CASE p < z.nparts
      BY <1>3, <2>4, <3>1
    <3>2. CASE ~(p < z.nparts)
      BY <1>1, <2>4, <3>2 DEF Behind
    <3> QED BY <3>1, <3>2
  <2>3. ASSUME NEW r \in RowSet, r.name = row.name, \A q \in Parts : r.marks[q] < z.head,
               \A q \in Parts : r.marks[q] =
                  IF q = p /\ p < z.nparts /\ s > row.marks[q] THEN s ELSE row.marks[q],
               NEW new, new = SyncAcked(r, z.nparts)
        PROVE  Raised(z, row, new, p, s)
    <3>1. new \in RowSet /\ new.name = r.name /\ new.marks = r.marks /\ Behind(new, z.head)
      BY <1>4, <2>3, Synced
    <3> QED BY <1>4, <2>3, <3>1 DEF Raised
  <2> QED BY <1>2, <2>1, <2>2, <2>3, <2>5
<1>5. CASE ~(z.nparts > 1)
  <2>1. PartRow(z, row, p, s) = cum /\ AckRow(z, row, p, s) = cum
    BY <1>5 DEF PartRow, AckRow
  <2> HIDE DEF cum
  <2> QED BY <1>1, <1>5, <2>1 DEF Raised
<1> QED BY <1>4, <1>5

(* New partitions on an empty stream: every watermark starts at acked.       *)
LEMMA PartitionsGood ==
    ASSUME NEW z, Good(z), NEW n \in 1 .. MaxParts, z.nparts # n, z.count = 0,
           NEW y, y = SetPartitions(z, n)
    PROVE  /\ Good(y) /\ y.head = z.head /\ y.count = 0
           /\ DOMAIN y.cons = DOMAIN z.cons
           /\ \A i \in DOMAIN z.cons : y.cons[i].name = z.cons[i].name
<1> DEFINE k == Len(z.cons)
           t == [i \in 1 .. k |-> InitParts(z.cons[i].name, z.cons[i].acked)]
           g == [i \in Slots |-> 0]
<1>1. k \in Nat /\ DOMAIN z.cons = 1 .. k /\ DOMAIN z.part = Slots
  BY Table, Basics
<1>2. y = [z EXCEPT !.nparts = n, !.part = g, !.cons = t]
  BY <1>1 DEF SetPartitions, AllocParts, Good, Streams
<1> HIDE DEF k
<1>3. ASSUME NEW i \in 1 .. k
      PROVE  /\ t[i] \in RowSet /\ t[i].name = z.cons[i].name /\ Behind(t[i], z.head)
  <2>1. z.cons[i] \in RowSet /\ Behind(z.cons[i], z.head)
    BY <1>1, Table
  <2>2. z.cons[i].acked \in Nat /\ z.cons[i].acked < z.head /\ z.cons[i].name \in Consumers
    BY <2>1 DEF RowSet, Behind
  <2> DEFINE a == z.cons[i].acked
             c == z.cons[i].name
  <2>3. t[i] = [name |-> c, acked |-> a, marks |-> [p \in Parts |-> a]]
    BY DEF InitParts
  <2> HIDE DEF t, a, c
  <2>4. a \in Nat /\ a < z.head /\ c \in Consumers
    BY <2>2 DEF a, c
  <2> QED BY <2>3, <2>4 DEF RowSet, Behind, c
<1>4. t \in Seq(RowSet) /\ DOMAIN t = 1 .. k
  <2>1. t \in [1 .. k -> RowSet]
    BY <1>3
  <2> HIDE DEF t
  <2> QED BY <1>1, <2>1, SeqDef
<1> HIDE DEF t
<1>5. g \in [Slots -> Nat] /\ \A i \in Slots : g[i] = 0
  OBVIOUS
<1> HIDE DEF g
<1>6. /\ y \in Streams /\ y.head = z.head /\ y.count = 0 /\ y.nparts = n /\ y.part = g
      /\ y.cons = t /\ y.ring = z.ring /\ y.bytes = z.bytes
  BY <1>2, <1>4, <1>5 DEF Good, Streams
<1>7. Oldest(y) = Oldest(z)
  BY <1>6 DEF Oldest
<1>8. RingInv(y)
  BY <1>6, <1>7 DEF Good, RingInv
<1>9. PartInv(y)
  BY <1>5, <1>6, StreamAssumption DEF PartInv, Parts
<1>10. NameInv(y)
  <2>1. \A i, j \in 1 .. k : t[i].name = t[j].name => i = j
    BY <1>1, <1>3, Table
  <2> QED BY <1>4, <1>6, <2>1 DEF NameInv
<1>11. MarkInv(y)
  BY <1>3, <1>4, <1>6 DEF MarkInv
<1>12. ByteInv(y)
  <2> DEFINE C == Oldest(z) .. z.head - 1
  <2>1. C = {}
    BY Basics DEF Oldest
  <2>2. IsFiniteSet(C) /\ Sized(z, C) /\ Sized(y, C)
    BY <2>1, FS_EmptySet DEF Sized
  <2>3. z.bytes = BytesOf(z, C) /\ (MaxBytes > 0 => z.bytes <= MaxBytes)
    BY DEF Good, ByteInv
  <2> HIDE DEF C
  <2>4. BytesOf(y, C) = 0 /\ BytesOf(z, C) = 0
    BY <2>1, <2>2, Sums3
  <2> QED BY <1>6, <1>7, <2>3, <2>4 DEF ByteInv, C
<1> QED BY <1>1, <1>3, <1>4, <1>6, <1>8, <1>9, <1>10, <1>11, <1>12 DEF Good

-----------------------------------------------------------------------------
(* What the calls do to the log: its window and what it owes.                *)

(* What is owed to a consumer, by the row of its name.                       *)
Ledger(z) ==
    /\ DOMAIN Window(z) = Retained(z)
    /\ DOMAIN Pending(z) = {c \in Consumers : Known(z, c)}
    /\ Pending(z) = [c \in DOMAIN Pending(z) |-> Pending(z)[c]]
    /\ \A c \in DOMAIN Pending(z) : Pending(z)[c] = Unacked(z, c)
    /\ \A c : Known(z, c) <=> \E i \in DOMAIN z.cons : z.cons[i].name = c
    /\ \A i \in DOMAIN z.cons : z.cons[i].name \in DOMAIN Pending(z)
    /\ \A i \in DOMAIN z.cons : Unacked(z, z.cons[i].name) =
          {s \in Retained(z) : s > Mark(z, z.cons[i], s)}

(* The invariant makes the table a ledger.                                   *)
LEMMA Owes ==
    ASSUME NEW z, Good(z)
    PROVE  Ledger(z)
<1>1. /\ DOMAIN Window(z) = Retained(z)
      /\ DOMAIN Pending(z) = {c \in Consumers : Known(z, c)}
      /\ \A c \in DOMAIN Pending(z) : Pending(z)[c] = Unacked(z, c)
      /\ Pending(z) = [c \in DOMAIN Pending(z) |-> Pending(z)[c]]
  BY DEF Window, Pending
<1>2. \A c : Known(z, c) <=> \E i \in DOMAIN z.cons : z.cons[i].name = c
  BY DEF Known, Rows
<1>3. \A i \in DOMAIN z.cons : z.cons[i].name \in Consumers
  BY Table DEF RowSet
<1>4. ASSUME NEW i \in DOMAIN z.cons
      PROVE  Unacked(z, z.cons[i].name) = {s \in Retained(z) : s > Mark(z, z.cons[i], s)}
  BY RowIs DEF Unacked
<1> QED BY <1>1, <1>2, <1>3, <1>4 DEF Ledger

(* Streams with the same messages and partitions have the same window.       *)
LEMMA SameWindow ==
    ASSUME NEW z, NEW y, y.head = z.head, y.count = z.count, y.nparts = z.nparts,
           y.ring = z.ring, y.part = z.part
    PROVE  /\ Window(y) = Window(z) /\ Retained(y) = Retained(z)
           /\ \A row, s : Mark(y, row, s) = Mark(z, row, s)
  BY DEF Window, Retained, FirstSeq, LastSeq, Mark, PartAt

(* A join owes the new consumer the window.                                  *)
LEMMA JoinRefines ==
    ASSUME NEW z, Good(z), NEW c \in Consumers, NEW y, y = AddConsumer(z, c)
    PROVE  /\ Good(y) /\ Window(y) = Window(z) /\ y.head = z.head
           /\ \/ Pending(y) = Pending(z)
              \/ /\ c \notin DOMAIN Pending(z)
                 /\ Pending(y) = [d \in DOMAIN Pending(z) \cup {c} |->
                                    IF d = c THEN DOMAIN Window(z) ELSE Pending(z)[d]]
<1>1. CASE Known(z, c) \/ Len(z.cons) >= ConsMax
  BY <1>1 DEF AddConsumer
<1>2. CASE ~Known(z, c) /\ ~(Len(z.cons) >= ConsMax)
  <2> DEFINE f == NewRow(z, c)
             n == Len(z.cons)
  <2>1. f \in RowSet /\ f.name = c /\ Behind(f, z.head) /\ Owed(z, f)
    BY RowOwed
  <2>2. y = Joining(z, f)
    BY <1>2 DEF AddConsumer, Joining, NewRow
  <2> HIDE DEF f
  <2>3. /\ Good(y)
        /\ y.head = z.head /\ y.count = z.count /\ y.nparts = z.nparts
        /\ y.ring = z.ring /\ y.part = z.part /\ y.cons = Append(z.cons, f)
    BY <1>2, <2>1, <2>2, AddGood
  <2>0. Good(y) /\ Ledger(y) /\ Ledger(z)
    BY <2>3, Owes
  <2>4. /\ Window(y) = Window(z) /\ Retained(y) = Retained(z)
        /\ \A row, s : Mark(y, row, s) = Mark(z, row, s)
    BY <2>3, SameWindow
  <2>5. n \in Nat /\ DOMAIN z.cons = 1 .. n /\ z.cons \in Seq(RowSet)
    BY Table, Basics
  <2>6. /\ DOMAIN y.cons = 1 .. n + 1 /\ y.cons[n + 1] = f
        /\ \A i \in 1 .. n : y.cons[i] = z.cons[i]
    <3> DEFINE t == Append(z.cons, f)
    <3>1. /\ t \in Seq(RowSet) /\ Len(t) = n + 1 /\ t[n + 1] = f
          /\ \A i \in 1 .. n : t[i] = z.cons[i]
      BY <2>1, <2>5, AppendProperties
    <3> HIDE DEF t
    <3>2. DOMAIN t = 1 .. n + 1
      BY <3>1, LenProperties
    <3>3. y.cons = t
      BY <2>3 DEF t
    <3> QED BY <3>1, <3>2, <3>3
  <2> HIDE DEF n
  <2>7. ASSUME NEW d PROVE Known(y, d) <=> Known(z, d) \/ d = c
    <3>1. Known(z, d) <=> \E i \in 1 .. n : z.cons[i].name = d
      BY <2>0, <2>5 DEF Ledger
    <3>2. Known(y, d) <=> \E i \in 1 .. n + 1 : y.cons[i].name = d
      BY <2>0, <2>6 DEF Ledger
    <3>3. n + 1 \in 1 .. n + 1 /\ \A i \in 1 .. n : i \in 1 .. n + 1
      BY <2>5
    <3>4. \A i \in 1 .. n + 1 : i = n + 1 \/ i \in 1 .. n
      BY <2>5
    <3> QED BY <2>1, <2>6, <3>1, <3>2, <3>3, <3>4
  <2>8. DOMAIN Pending(y) = DOMAIN Pending(z) \cup {c} /\ c \notin DOMAIN Pending(z)
    BY <1>2, <2>0, <2>7 DEF Ledger
  <2>9. ASSUME NEW d \in DOMAIN Pending(z) PROVE Pending(y)[d] = Pending(z)[d]
    <3>1. PICK i \in 1 .. n : z.cons[i].name = d
      BY <2>0, <2>5 DEF Ledger
    <3>2. i \in 1 .. n + 1 /\ y.cons[i] = z.cons[i]
      BY <2>5, <2>6
    <3>3. Unacked(z, d) = {s \in Retained(z) : s > Mark(z, z.cons[i], s)}
      BY <2>0, <2>5, <3>1 DEF Ledger
    <3>4. Unacked(y, d) = {s \in Retained(y) : s > Mark(y, y.cons[i], s)}
      BY <2>0, <2>6, <3>1, <3>2 DEF Ledger
    <3>5. Unacked(y, d) = Unacked(z, d)
      BY <2>4, <3>2, <3>3, <3>4
    <3>6. d \in DOMAIN Pending(y)
      BY <2>8
    <3> QED BY <2>0, <3>5, <3>6 DEF Ledger
  <2>10. Pending(y)[c] = DOMAIN Window(z)
    <3>1. n + 1 \in DOMAIN y.cons
      BY <2>5, <2>6
    <3>2. Unacked(y, c) = {s \in Retained(y) : s > Mark(y, f, s)}
      BY <2>0, <2>1, <2>6, <3>1 DEF Ledger
    <3>3. ASSUME NEW s \in Retained(z) PROVE s > Mark(z, f, s)
      <4>1. CASE z.nparts <= 1
        BY <2>1, <4>1, MarkIs DEF Owed
      <4>2. CASE z.nparts > 1
        <5>1. PICK q \in 0 .. z.nparts - 1 : Mark(z, f, s) = f.marks[q]
          BY <2>1, <4>2, MarkIs
        <5>2. q \in Parts
          BY <2>1, LeastOf
        <5> QED BY <2>1, <5>1, <5>2 DEF Owed
      <4>3. z.nparts \in Nat
        BY Basics
      <4> QED BY <4>1, <4>2, <4>3
    <3>4. Unacked(y, c) = Retained(z)
      BY <2>4, <3>2, <3>3
    <3> QED BY <2>0, <2>8, <3>4 DEF Ledger
  <2>11. Pending(y) = [d \in DOMAIN Pending(y) |-> Pending(y)[d]]
    BY <2>0 DEF Ledger
  <2>12. Pending(y) = [d \in DOMAIN Pending(z) \cup {c} |->
                         IF d = c THEN DOMAIN Window(z) ELSE Pending(z)[d]]
    BY <2>8, <2>9, <2>10, <2>11
  <2> QED BY <2>3, <2>4, <2>8, <2>12
<1> QED BY <1>1, <1>2

(* Leaving takes one consumer off the ledger.                                *)
LEMMA LeaveRefines ==
    ASSUME NEW z, Good(z), NEW c \in Consumers, Known(z, c), NEW y, y = RemoveConsumer(z, c)
    PROVE  /\ Good(y) /\ Window(y) = Window(z) /\ y.head = z.head
           /\ Pending(y) = [d \in DOMAIN Pending(z) \ {c} |-> Pending(z)[d]]
<1>1. /\ Good(y) /\ ~Known(y, c)
      /\ y.head = z.head /\ y.count = z.count /\ y.nparts = z.nparts
      /\ y.ring = z.ring /\ y.part = z.part
  BY RemoveGood
<1>2. /\ \A i \in DOMAIN z.cons : z.cons[i].name # c =>
            \E j \in DOMAIN y.cons : y.cons[j] = z.cons[i]
      /\ \A j \in DOMAIN y.cons : \E i \in DOMAIN z.cons : y.cons[j] = z.cons[i]
  BY RemoveGood
<1>3. Ledger(y) /\ Ledger(z)
  BY <1>1, Owes
<1>4. /\ Window(y) = Window(z) /\ Retained(y) = Retained(z)
      /\ \A row, s : Mark(y, row, s) = Mark(z, row, s)
  BY <1>1, SameWindow
<1>5. ASSUME NEW d PROVE Known(y, d) <=> Known(z, d) /\ d # c
  BY <1>1, <1>2, <1>3 DEF Ledger
<1>6. DOMAIN Pending(y) = DOMAIN Pending(z) \ {c}
  BY <1>3, <1>5 DEF Ledger
<1>7. ASSUME NEW d \in DOMAIN Pending(y) PROVE Pending(y)[d] = Pending(z)[d]
  <2>1. PICK j \in DOMAIN y.cons : y.cons[j].name = d
    BY <1>3 DEF Ledger
  <2>2. PICK i \in DOMAIN z.cons : y.cons[j] = z.cons[i]
    BY <1>2
  <2>3. Unacked(z, d) = {s \in Retained(z) : s > Mark(z, z.cons[i], s)}
    BY <1>3, <2>1, <2>2 DEF Ledger
  <2>4. Unacked(y, d) = {s \in Retained(y) : s > Mark(y, y.cons[j], s)}
    BY <1>3, <2>1 DEF Ledger
  <2>5. Unacked(y, d) = Unacked(z, d)
    BY <1>4, <2>2, <2>3, <2>4
  <2>6. d \in DOMAIN Pending(z)
    BY <1>6
  <2> QED BY <1>3, <2>5, <2>6 DEF Ledger
<1>8. Pending(y) = [d \in DOMAIN Pending(y) |-> Pending(y)[d]]
  BY <1>3 DEF Ledger
<1> QED BY <1>1, <1>4, <1>6, <1>7, <1>8

(* Raising watermarks of one row settles s and perhaps older messages, and   *)
(* nothing when s is in a partition that the stream has not.                 *)
LEMMA SettleRefines ==
    ASSUME NEW z, Good(z), NEW c \in Consumers, Known(z, c), NEW s \in Retained(z),
           NEW p \in Parts, z.nparts > 1 => p = PartAt(z, s),
           NEW row, row = Row(z, c), NEW new, Raised(z, row, new, p, s),
           NEW y, y = WithRow(z, new)
    PROVE  /\ Good(y) /\ Window(y) = Window(z) /\ y.head = z.head
           /\ c \in DOMAIN Pending(z) /\ s \in DOMAIN Window(z)
           /\ \E rest \in SUBSET Pending(z)[c] :
                 /\ z.nparts <= 1 \/ p < z.nparts => s \notin rest
                 /\ ~(z.nparts <= 1 \/ p < z.nparts) => rest = Pending(z)[c]
                 /\ \A t \in Pending(z)[c] : t > s => t \in rest
                 /\ Pending(y) = [Pending(z) EXCEPT ![c] = rest]
<1>1. PICK k \in DOMAIN z.cons : row = z.cons[k] /\ z.cons[k].name = c /\ row \in RowSet
  BY OneRow
<1>2. new \in RowSet /\ new.name = c /\ Behind(new, z.head)
  BY <1>1 DEF Raised
<1>3. /\ Good(y)
      /\ y.head = z.head /\ y.count = z.count /\ y.nparts = z.nparts
      /\ y.ring = z.ring /\ y.part = z.part
  BY <1>2, ReplaceGood
<1>4. /\ DOMAIN y.cons = DOMAIN z.cons
      /\ \A i \in DOMAIN z.cons : y.cons[i] = IF z.cons[i].name = c THEN new ELSE z.cons[i]
  BY <1>2, ReplaceGood
<1>5. Ledger(y) /\ Ledger(z)
  BY <1>3, Owes
<1>6. /\ Window(y) = Window(z) /\ Retained(y) = Retained(z)
      /\ \A r, t : Mark(y, r, t) = Mark(z, r, t)
  BY <1>3, SameWindow
<1>7. ASSUME NEW i \in DOMAIN z.cons PROVE y.cons[i].name = z.cons[i].name
  BY <1>2, <1>4
<1>8. \A d : Known(y, d) <=> Known(z, d)
  BY <1>4, <1>5, <1>7 DEF Ledger
<1>9. DOMAIN Pending(y) = DOMAIN Pending(z) /\ c \in DOMAIN Pending(z)
  BY <1>5, <1>8 DEF Ledger
<1>10. ASSUME NEW d \in DOMAIN Pending(z), d # c PROVE Pending(y)[d] = Pending(z)[d]
  <2>1. PICK i \in DOMAIN z.cons : z.cons[i].name = d
    BY <1>5 DEF Ledger
  <2>2. y.cons[i] = z.cons[i]
    BY <1>4, <1>10, <2>1
  <2>3. Unacked(z, d) = {t \in Retained(z) : t > Mark(z, z.cons[i], t)}
    BY <1>5, <2>1 DEF Ledger
  <2>4. Unacked(y, d) = {t \in Retained(y) : t > Mark(y, y.cons[i], t)}
    BY <1>4, <1>5, <2>1, <2>2 DEF Ledger
  <2>5. Unacked(y, d) = Unacked(z, d)
    BY <1>6, <2>2, <2>3, <2>4
  <2>6. d \in DOMAIN Pending(y)
    BY <1>9
  <2>7. Pending(y)[d] = Unacked(y, d)
    BY <1>5, <2>6 DEF Ledger
  <2>8. Pending(z)[d] = Unacked(z, d)
    BY <1>5 DEF Ledger
  <2> QED BY <2>5, <2>7, <2>8
<1> DEFINE rest == Pending(y)[c]
<1>11. /\ Pending(z)[c] = {t \in Retained(z) : t > Mark(z, row, t)}
       /\ rest = {t \in Retained(z) : t > Mark(z, new, t)}
  <2>1. Unacked(z, c) = {t \in Retained(z) : t > Mark(z, row, t)}
    BY <1>1, <1>5 DEF Ledger
  <2>2. y.cons[k] = new /\ k \in DOMAIN y.cons
    BY <1>1, <1>4
  <2>3. Unacked(y, c) = {t \in Retained(y) : t > Mark(y, new, t)}
    BY <1>2, <1>5, <2>2 DEF Ledger
  <2>4. Unacked(y, c) = {t \in Retained(z) : t > Mark(z, new, t)}
    BY <1>6, <2>3
  <2> QED BY <1>5, <1>9, <2>1, <2>4 DEF Ledger
<1> DEFINE used == z.nparts <= 1 \/ p < z.nparts
<1>12. ASSUME NEW t \in Retained(z)
       PROVE  /\ t \in Nat /\ s \in Nat /\ Mark(z, row, t) \in Nat /\ Mark(z, new, t) \in Nat
              /\ Mark(z, new, t) >= Mark(z, row, t)
              /\ Mark(z, new, t) <= s \/ Mark(z, new, t) <= Mark(z, row, t)
              /\ used /\ t = s => Mark(z, new, t) >= s
              /\ ~used => Mark(z, new, t) = Mark(z, row, t)
  <2>1. /\ PartAt(z, t) \in Parts /\ PartAt(z, t) \in Nat /\ t \in Nat /\ s \in Nat
        /\ z.nparts \in Nat /\ p \in Nat
    <3>1. p \in Nat
      BY StreamAssumption DEF Parts
    <3> QED BY <3>1, PartUsed, Basics
  <2>2. Mark(z, row, t) \in Nat /\ Mark(z, new, t) \in Nat
    BY <1>1, <1>2, MarkIs
  <2>3. CASE z.nparts <= 1
    <3>1. Mark(z, row, t) = row.acked /\ Mark(z, new, t) = new.acked
      BY <1>1, <1>2, <2>3, MarkIs
    <3>2. new.acked = IF s > row.acked THEN s ELSE row.acked
      BY <2>1, <2>3 DEF Raised
    <3> QED BY <2>1, <2>2, <2>3, <3>1, <3>2
  <2>4. ASSUME z.nparts > 1, NEW q \in 0 .. z.nparts - 1
        PROVE  /\ row.marks[q] \in Nat
               /\ new.marks[q] = IF q = p /\ p < z.nparts /\ s > row.marks[q] THEN s
                                 ELSE row.marks[q]
    <3>1. q \in Parts /\ row.marks[q] \in Nat
      BY <1>1, LeastOf
    <3> QED BY <2>4, <3>1 DEF Raised
  <2>5. CASE z.nparts > 1 /\ PartAt(z, t) < z.nparts
    <3> DEFINE a == PartAt(z, t)
    <3>1. Mark(z, row, t) = row.marks[a] /\ Mark(z, new, t) = new.marks[a]
      BY <1>1, <1>2, <2>5, MarkIs
    <3>2. a \in 0 .. z.nparts - 1
      BY <2>1, <2>5
    <3>3. t = s => a = p
      BY <2>5
    <3> HIDE DEF a
    <3>4. /\ row.marks[a] \in Nat
          /\ new.marks[a] = IF a = p /\ p < z.nparts /\ s > row.marks[a] THEN s ELSE row.marks[a]
      BY <2>4, <2>5, <3>2
    <3> QED BY <2>1, <2>5, <3>1, <3>3, <3>4
  <2>6. CASE z.nparts > 1 /\ ~(PartAt(z, t) < z.nparts)
    <3>1. Mark(z, row, t) = LeastMark(row, z.nparts) /\ Mark(z, new, t) = LeastMark(new, z.nparts)
      BY <1>1, <1>2, <2>6, MarkIs
    <3>2. PICK a \in 0 .. z.nparts - 1 : LeastMark(row, z.nparts) = row.marks[a]
      BY <1>1, LeastOf
    <3>3. PICK b \in 0 .. z.nparts - 1 : LeastMark(new, z.nparts) = new.marks[b]
      BY <1>2, LeastOf
    <3>4. LeastMark(row, z.nparts) <= row.marks[b] /\ LeastMark(new, z.nparts) <= new.marks[a]
      BY <1>1, <1>2, LeastOf
    <3>5. /\ row.marks[a] \in Nat /\ row.marks[b] \in Nat
          /\ new.marks[a] = IF a = p /\ p < z.nparts /\ s > row.marks[a] THEN s ELSE row.marks[a]
          /\ new.marks[b] = IF b = p /\ p < z.nparts /\ s > row.marks[b] THEN s ELSE row.marks[b]
      BY <2>4, <2>6
    <3>6. t = s => ~used
      BY <2>1, <2>6
    <3>7. /\ new.marks[b] >= row.marks[a]
          /\ new.marks[b] <= s \/ new.marks[b] <= row.marks[a]
          /\ ~(p < z.nparts) => new.marks[b] = row.marks[a]
      BY <2>1, <3>2, <3>3, <3>4, <3>5
    <3>8. ~used => ~(p < z.nparts)
      OBVIOUS
    <3> HIDE DEF used
    <3> QED BY <2>1, <2>2, <3>1, <3>2, <3>3, <3>6, <3>7, <3>8
  <2> QED BY <2>1, <2>3, <2>5, <2>6
<1> HIDE DEF rest, used
<1>13. s \in Nat
  BY <1>12
<1>14. rest \in SUBSET Pending(z)[c]
  <2>1. ASSUME NEW t \in rest PROVE t \in Pending(z)[c]
    <3>1. t \in Retained(z) /\ t > Mark(z, new, t)
      BY <1>11
    <3>2. t > Mark(z, row, t)
      BY <1>12, <3>1
    <3> QED BY <1>11, <3>1, <3>2
  <2> QED BY <2>1
<1>15. /\ used => s \notin rest
       /\ ~used => rest = Pending(z)[c]
  BY <1>11, <1>12
<1>16. ASSUME NEW t \in Pending(z)[c], t > s PROVE t \in rest
  <2>1. t \in Retained(z) /\ t > Mark(z, row, t)
    BY <1>11
  <2>2. t > Mark(z, new, t)
    BY <1>12, <1>16, <2>1
  <2> QED BY <1>11, <2>1, <2>2
<1>17. Pending(y) = [Pending(z) EXCEPT ![c] = rest]
  <2>1. /\ Pending(y) = [d \in DOMAIN Pending(z) |-> Pending(y)[d]]
        /\ Pending(z) = [d \in DOMAIN Pending(z) |-> Pending(z)[d]]
    BY <1>5, <1>9 DEF Ledger
  <2>2. \A d \in DOMAIN Pending(z) : Pending(y)[d] = IF d = c THEN rest ELSE Pending(z)[d]
    BY <1>10 DEF rest
  <2> QED BY <1>9, <2>1, <2>2
<1>18. s \in DOMAIN Window(z)
  BY <1>5 DEF Ledger
<1> QED BY <1>3, <1>6, <1>9, <1>14, <1>15, <1>16, <1>17, <1>18 DEF used

(* New partitions on an empty stream owe nothing.                            *)
LEMMA PartitionsRefine ==
    ASSUME NEW z, Good(z), NEW n \in 1 .. MaxParts, CanSetPartitions(z, n),
           NEW y, y = SetPartitions(z, n)
    PROVE  Good(y) /\ Window(y) = Window(z) /\ y.head = z.head /\ Pending(y) = Pending(z)
<1>1. CASE z.nparts = n
  BY <1>1 DEF SetPartitions
<1>2. CASE z.nparts # n
  <2>1. z.count = 0
    <3>1. LastSeq(z) = 0
      BY <1>2 DEF CanSetPartitions
    <3>2. z.head \in Nat /\ z.count \in Nat /\ z.count < z.head
      BY Basics DEF Good, RingInv
    <3> QED BY <3>1, <3>2 DEF LastSeq
  <2>2. /\ Good(y) /\ y.head = z.head /\ y.count = 0
        /\ DOMAIN y.cons = DOMAIN z.cons
        /\ \A i \in DOMAIN z.cons : y.cons[i].name = z.cons[i].name
    BY <1>2, <2>1, PartitionsGood
  <2>3. Retained(y) = {} /\ Retained(z) = {}
    BY <2>1, <2>2 DEF Retained
  <2>4. Window(y) = Window(z)
    BY <2>3 DEF Window
  <2>5. Ledger(y) /\ Ledger(z)
    BY <2>2, Owes
  <2>6. DOMAIN Pending(y) = DOMAIN Pending(z)
    BY <2>2, <2>5 DEF Ledger
  <2>7. \A c : Unacked(y, c) = {} /\ Unacked(z, c) = {}
    BY <2>3 DEF Unacked
  <2>8. ASSUME NEW c \in DOMAIN Pending(z) PROVE Pending(y)[c] = Pending(z)[c]
    <3>1. c \in DOMAIN Pending(y)
      BY <2>6
    <3>2. Pending(y)[c] = Unacked(y, c)
      BY <2>5, <3>1 DEF Ledger
    <3>3. Pending(z)[c] = Unacked(z, c)
      BY <2>5 DEF Ledger
    <3> QED BY <2>7, <3>2, <3>3
  <2>9. /\ Pending(y) = [c \in DOMAIN Pending(y) |-> Pending(y)[c]]
        /\ Pending(z) = [c \in DOMAIN Pending(z) |-> Pending(z)[c]]
    BY <2>5 DEF Ledger
  <2> QED BY <2>2, <2>4, <2>6, <2>8, <2>9
<1> QED BY <1>1, <1>2

(* What an append drops is settled, and what it stores is owed to everyone.  *)
LEMMA AppendRefines ==
    ASSUME NEW z, Good(z), NEW v \in Values, NEW y, Good(y), Appended(z, v, y)
    PROVE  \E keep \in SUBSET DOMAIN Window(z) :
              /\ \A s \in keep, t \in DOMAIN Window(z) : t > s => t \in keep
              /\ \A s \in DOMAIN Window(z) \ keep :
                    \A c \in DOMAIN Pending(z) : s \notin Pending(z)[c]
              /\ \/ /\ Window(y) = [s \in keep |-> Window(z)[s]]
                    /\ y.head = z.head /\ Pending(y) = Pending(z)
                 \/ /\ Window(y) = [s \in keep \cup {z.head} |->
                                      IF s = z.head THEN v ELSE Window(z)[s]]
                    /\ Pending(y) = [c \in DOMAIN Pending(z) |-> Pending(z)[c] \cup {z.head}]
                    /\ y.head = z.head + 1
<1> DEFINE keep == Oldest(y) .. z.head - 1
<1>1. /\ y.cons = z.cons /\ y.nparts = z.nparts
      /\ Oldest(z) <= Oldest(y) /\ Oldest(y) <= z.head
      /\ y.head = z.head \/ (y.head = z.head + 1 /\ y.ring[SlotOf(z.head)].val = v)
  BY DEF Appended
<1>2. /\ z.head \in Nat \ {0} /\ Oldest(z) \in Nat \ {0} /\ Oldest(y) \in Nat \ {0}
      /\ Retained(z) = Oldest(z) .. z.head - 1 /\ Retained(y) = Oldest(y) .. y.head - 1
  BY Basics
<1>3. Ledger(y) /\ Ledger(z)
  BY Owes
<1>4. DOMAIN Window(z) = Oldest(z) .. z.head - 1
  BY <1>2, <1>3 DEF Ledger
<1>5. keep \in SUBSET DOMAIN Window(z)
  BY <1>1, <1>2, <1>4
<1>6. \A s \in keep, t \in DOMAIN Window(z) : t > s => t \in keep
  BY <1>1, <1>2, <1>4
<1>7. ASSUME NEW s \in DOMAIN Window(z) \ keep, NEW c \in DOMAIN Pending(z)
      PROVE  s \notin Pending(z)[c]
  <2>1. s \in Oldest(z) .. Oldest(y) - 1 /\ s \in Retained(z)
    BY <1>1, <1>2, <1>4
  <2>2. s < RetainFloor(z)
    BY <2>1 DEF Appended
  <2>3. c \in Consumers /\ Known(z, c) /\ Pending(z)[c] = Unacked(z, c)
    BY <1>3 DEF Ledger
  <2> QED BY <2>1, <2>2, <2>3, FloorSettles
<1>8. ASSUME NEW s \in keep
      PROVE  /\ y.ring[SlotOf(s)] = z.ring[SlotOf(s)] /\ y.part[SlotOf(s)] = z.part[SlotOf(s)]
             /\ s \in Retained(z) /\ Window(z)[s] = z.ring[SlotOf(s)].val
             /\ \A row : Mark(y, row, s) = Mark(z, row, s)
  <2>1. y.ring[SlotOf(s)] = z.ring[SlotOf(s)] /\ y.part[SlotOf(s)] = z.part[SlotOf(s)]
    BY DEF Appended, SameAt
  <2>2. s \in Retained(z)
    BY <1>1, <1>2
  <2>3. PartAt(y, s) = PartAt(z, s)
    BY <1>1, <2>1 DEF PartAt
  <2>4. Window(z)[s] = z.ring[SlotOf(s)].val
    BY <2>2 DEF Window
  <2> QED BY <1>1, <2>1, <2>2, <2>3, <2>4 DEF Mark
<1>9. DOMAIN Pending(y) = DOMAIN Pending(z)
  BY <1>1, <1>3 DEF Ledger
<1>10. ASSUME NEW c \in DOMAIN Pending(z)
       PROVE  /\ Pending(y)[c] \cap keep = Pending(z)[c]
              /\ y.head = z.head + 1 => z.head \in Pending(y)[c]
              /\ Pending(y)[c] \subseteq Retained(y)
  <2>1. PICK i \in DOMAIN z.cons : z.cons[i].name = c
    BY <1>3 DEF Ledger
  <2> DEFINE row == z.cons[i]
  <2>2. Pending(z)[c] = {s \in Retained(z) : s > Mark(z, row, s)}
    BY <1>3, <2>1 DEF Ledger
  <2>3. Pending(y)[c] = {s \in Retained(y) : s > Mark(y, row, s)}
    <3>1. i \in DOMAIN y.cons /\ y.cons[i] = row /\ y.cons[i].name = c
      BY <1>1, <2>1
    <3>2. Unacked(y, c) = {s \in Retained(y) : s > Mark(y, row, s)}
      BY <1>3, <3>1 DEF Ledger
    <3>3. c \in DOMAIN Pending(y)
      BY <1>9
    <3>4. Pending(y)[c] = Unacked(y, c)
      BY <1>3, <3>3 DEF Ledger
    <3> QED BY <3>2, <3>4
  <2>4. \A s \in keep : s \in Retained(y)
    BY <1>1, <1>2
  <2>5. \A s \in Retained(z) : s \notin keep => s \notin Pending(z)[c]
    BY <1>2, <1>4, <1>7
  <2>6. row \in RowSet /\ Behind(row, z.head)
    BY Table
  <2> HIDE DEF row, keep
  <2>7. Pending(y)[c] \cap keep = Pending(z)[c]
    BY <1>8, <2>2, <2>3, <2>4, <2>5
  <2>8. ASSUME y.head = z.head + 1 PROVE z.head \in Pending(y)[c]
    <3>1. z.head \in Retained(y)
      BY <1>1, <1>2, <2>8
    <3>2. y.nparts \in Nat
      BY Basics
    <3>3. Mark(y, row, z.head) < z.head /\ Mark(y, row, z.head) \in Nat
      <4>1. CASE y.nparts <= 1
        BY <2>6, <3>1, <4>1, MarkIs DEF Behind
      <4>2. CASE y.nparts > 1
        <5>1. PICK q \in 0 .. y.nparts - 1 : Mark(y, row, z.head) = row.marks[q]
          BY <2>6, <3>1, <4>2, MarkIs
        <5>2. q \in Parts /\ row.marks[q] \in Nat
          BY <2>6, LeastOf
        <5> QED BY <2>6, <5>1, <5>2 DEF Behind
      <4> QED BY <3>2, <4>1, <4>2
    <3> QED BY <1>2, <2>3, <3>1, <3>3
  <2> QED BY <2>3, <2>7, <2>8
<1>11. \A s \in keep : s \in Retained(y) /\ Window(y)[s] = Window(z)[s]
  <2>1. \A s \in keep : s \in Retained(y)
    BY <1>1, <1>2
  <2> HIDE DEF keep
  <2> QED BY <1>8, <2>1 DEF Window
<1>12. /\ Pending(y) = [c \in DOMAIN Pending(z) |-> Pending(y)[c]]
       /\ Pending(z) = [c \in DOMAIN Pending(z) |-> Pending(z)[c]]
       /\ Window(y) = [s \in Retained(y) |-> Window(y)[s]]
  BY <1>3, <1>9 DEF Ledger, Window
<1>13. CASE y.head = z.head
  <2>1. Retained(y) = keep
    BY <1>2, <1>13
  <2>2. \A c \in DOMAIN Pending(z) : Pending(y)[c] = Pending(z)[c]
    <3> HIDE DEF keep
    <3> QED BY <1>10, <2>1
  <2> HIDE DEF keep
  <2>3. Pending(y) = Pending(z)
    BY <1>12, <2>2
  <2>4. Window(y) = [s \in keep |-> Window(z)[s]]
    BY <1>11, <1>12, <2>1
  <2> QED BY <1>5, <1>6, <1>7, <1>13, <2>3, <2>4
<1>14. CASE y.head = z.head + 1 /\ y.ring[SlotOf(z.head)].val = v
  <2>1. Retained(y) = keep \cup {z.head} /\ z.head \notin keep
    BY <1>1, <1>2, <1>14
  <2> HIDE DEF keep
  <2>2. ASSUME NEW c \in DOMAIN Pending(z) PROVE Pending(y)[c] = Pending(z)[c] \cup {z.head}
    <3>1. z.head \in Pending(y)[c]
      BY <1>10, <1>14
    <3> QED BY <1>10, <2>1, <3>1
  <2>3. Pending(y) = [c \in DOMAIN Pending(z) |-> Pending(z)[c] \cup {z.head}]
    BY <1>12, <2>2
  <2>4. Window(y)[z.head] = v
    BY <1>14, <2>1 DEF Window
  <2>5. Window(y) = [s \in keep \cup {z.head} |-> IF s = z.head THEN v ELSE Window(z)[s]]
    BY <1>11, <1>12, <2>1, <2>4
  <2> QED BY <1>5, <1>6, <1>7, <1>14, <2>3, <2>5
<1> QED BY <1>1, <1>13, <1>14

-----------------------------------------------------------------------------
(* The inductive invariant of the specification, and its steps.              *)

ReaderSet == [pc : {"idle", "checked", "in", "half"}, seq : Nat, len : Nat]
WriterSet == [pc : {"idle", "keyed"}, val : Values \cup {NoVal}, part : Parts]
Writing == /\ wr \in [Writers -> WriterSet]
           /\ \A w \in Writers : wr[w].pc = "keyed" => wr[w].val \in Values
IInv == Good(st) /\ rd \in [Readers -> ReaderSet] /\ Writing

Logged == Log!Next \/ UNCHANGED Log!vars

(* Nothing of the log changes when the stream and the last answer stay.      *)
LEMMA SilentStep ==
    ASSUME st' = st, got' = got
    PROVE  Logged
  BY DEF Logged, Log!vars

(* A read that misses.                                                       *)
LEMMA MissStep ==
    ASSUME Good(st), st' = st, got' = Miss
    PROVE  Logged
<1>1. 1 \in 1 .. st.head
  BY Basics
<1>2. Log!Read(1)
  BY DEF Log!Read
<1> QED BY <1>1, <1>2 DEF Logged, Log!Next

(* Nothing is retained at first.                                             *)
LEMMA InitGood == Init => IInv /\ Log!Init
<1> SUFFICES ASSUME Init PROVE IInv /\ Log!Init
  OBVIOUS
<1> USE DEF Init
<1>1. /\ Cap \in Nat \ {0} /\ MaxParts \in Nat \ {0} /\ MaxBytes \in Nat
  BY StreamAssumption
<1>2. /\ st.head = 1 /\ st.count = 0 /\ st.bytes = 0 /\ st.nparts = 1 /\ st.cons = <<>>
      /\ \A i \in Slots : ~st.ring[i].valid /\ st.part[i] = 0
  BY DEF NewStream, Slots
<1>3. st \in Streams
  BY <1>1 DEF NewStream, Streams, Slots, Cell
<1>4. Oldest(st) = 1 /\ Oldest(st) .. st.head - 1 = {} /\ Retained(st) = {}
  BY <1>2 DEF Oldest, Retained
<1>5. RingInv(st)
  BY <1>1, <1>2, <1>4 DEF RingInv
<1>6. PartInv(st) /\ NameInv(st) /\ MarkInv(st)
  BY <1>1, <1>2 DEF PartInv, NameInv, MarkInv, Parts
<1>7. ByteInv(st)
  <2>1. IsFiniteSet({}) /\ Sized(st, {})
    BY FS_EmptySet DEF Sized
  <2>2. BytesOf(st, {}) = 0
    BY <2>1, Sums3
  <2> QED BY <1>1, <1>2, <1>4, <2>2 DEF ByteInv
<1>8. rd \in [Readers -> ReaderSet] /\ Writing
  <2>1. 0 \in Parts
    BY <1>1 DEF Parts
  <2> QED BY <2>1 DEF Idle, ReaderSet, Rest, WriterSet, Writing
<1>9. Window(st) = [s \in {} |-> Miss]
  BY <1>4 DEF Window
<1>10. Pending(st) = [c \in {} |-> {}]
  <2>1. \A c \in Consumers : ~Known(st, c)
    BY <1>2 DEF Known, Rows
  <2>2. {c \in Consumers : Known(st, c)} = {}
    BY <2>1
  <2> QED BY <2>2 DEF Pending
<1>11. Log!Init
  BY <1>2, <1>9, <1>10 DEF Log!Init
<1> QED BY <1>3, <1>5, <1>6, <1>7, <1>8, <1>11 DEF IInv, Good

(* An append of v to partition p, in use or not.                             *)
LEMMA AppendStep ==
    ASSUME Good(st), NEW v \in Values, NEW p \in Parts, st' = AppendImpl(st, v, p).st,
           got' = got
    PROVE  Good(st') /\ Logged
<1>1. PICK y : y = st'
  OBVIOUS
<1>2. y = AppendImpl(st, v, p).st
  BY <1>1
<1>3. Good(y) /\ Appended(st, v, y)
  BY <1>2, AppendGood
<1>4. Good(st')
  BY <1>1, <1>3
<1>5. PICK keep \in SUBSET DOMAIN Window(st) :
              /\ \A s \in keep, t \in DOMAIN Window(st) : t > s => t \in keep
              /\ \A s \in DOMAIN Window(st) \ keep :
                    \A c \in DOMAIN Pending(st) : s \notin Pending(st)[c]
              /\ \/ /\ Window(st') = [s \in keep |-> Window(st)[s]]
                    /\ st'.head = st.head /\ Pending(st') = Pending(st)
                 \/ /\ Window(st') = [s \in keep \cup {st.head} |->
                                      IF s = st.head THEN v ELSE Window(st)[s]]
                    /\ Pending(st') = [c \in DOMAIN Pending(st) |-> Pending(st)[c] \cup {st.head}]
                    /\ st'.head = st.head + 1
  <2>1. PICK keep \in SUBSET DOMAIN Window(st) :
              /\ \A s \in keep, t \in DOMAIN Window(st) : t > s => t \in keep
              /\ \A s \in DOMAIN Window(st) \ keep :
                    \A c \in DOMAIN Pending(st) : s \notin Pending(st)[c]
              /\ \/ /\ Window(y) = [s \in keep |-> Window(st)[s]]
                    /\ y.head = st.head /\ Pending(y) = Pending(st)
                 \/ /\ Window(y) = [s \in keep \cup {st.head} |->
                                      IF s = st.head THEN v ELSE Window(st)[s]]
                    /\ Pending(y) = [c \in DOMAIN Pending(st) |-> Pending(st)[c] \cup {st.head}]
                    /\ y.head = st.head + 1
    BY <1>3, AppendRefines
  <2> QED BY <1>1, <2>1
<1>6. Log!Kept(keep)
  BY <1>5 DEF Log!Kept, Log!Settled
<1>7. Log!Refuse \/ Log!Accept(v)
  BY <1>5, <1>6 DEF Log!Refuse, Log!Accept
<1> QED BY <1>4, <1>7 DEF Logged, Log!Next

(* An append without a key, and the sections of one with a key.              *)
LEMMA WriteStep ==
    ASSUME IInv,
           \/ \E v \in Values : DoAppend(v)
           \/ \E w \in Writers : KeyAppend(w) \/ KeyNoMemory(w) \/ \E v \in Values : KeyHash(w, v)
    PROVE  IInv' /\ Logged
<1>1. /\ Good(st) /\ rd \in [Readers -> ReaderSet] /\ wr \in [Writers -> WriterSet]
      /\ \A w \in Writers : wr[w].pc = "keyed" => wr[w].val \in Values
  BY DEF IInv, Writing
<1>2. 0 \in Parts /\ MaxParts \in Nat
  BY StreamAssumption DEF Parts
<1>3. Rest \in WriterSet /\ Rest.pc = "idle"
  BY <1>2 DEF Rest, WriterSet
<1>4. ASSUME NEW v \in Values, DoAppend(v) PROVE IInv' /\ Logged
  <2>1. st' = AppendImpl(st, v, 0).st /\ wr' = wr /\ rd' = rd /\ got' = got
    BY <1>4 DEF DoAppend
  <2>2. Good(st') /\ Logged
    BY <1>1, <1>2, <2>1, AppendStep
  <2> QED BY <2>1, <2>2 DEF IInv, Writing
<1>5. ASSUME NEW w \in Writers, wr' = [wr EXCEPT ![w] = Rest] PROVE Writing'
  <2>1. wr' \in [Writers -> WriterSet]
    BY <1>1, <1>3, <1>5
  <2>2. \A x \in Writers : wr'[x] = IF x = w THEN Rest ELSE wr[x]
    BY <1>1, <1>5
  <2> QED BY <1>1, <1>3, <2>1, <2>2 DEF Writing
<1>6. ASSUME NEW w \in Writers, KeyAppend(w) PROVE IInv' /\ Logged
  <2>1. /\ st' = AppendImpl(st, wr[w].val, wr[w].part).st /\ rd' = rd /\ got' = got
        /\ wr' = [wr EXCEPT ![w] = Rest] /\ wr[w].pc = "keyed"
    BY <1>6 DEF KeyAppend
  <2>2. wr[w].val \in Values /\ wr[w].part \in Parts
    BY <1>1, <2>1 DEF WriterSet
  <2>3. Good(st') /\ Logged
    BY <1>1, <2>1, <2>2, AppendStep
  <2> QED BY <1>1, <1>5, <2>1, <2>3 DEF IInv
<1>7. ASSUME NEW w \in Writers, KeyNoMemory(w) PROVE IInv' /\ Logged
  <2>1. st' = st /\ rd' = rd /\ got' = got /\ wr' = [wr EXCEPT ![w] = Rest]
    BY <1>7 DEF KeyNoMemory
  <2> QED BY <1>1, <1>5, <2>1, SilentStep DEF IInv
<1>8. ASSUME NEW w \in Writers, NEW v \in Values, KeyHash(w, v) PROVE IInv' /\ Logged
  <2> DEFINE k == KeyPart(st, v)
             u == [pc |-> "keyed", val |-> v, part |-> k]
  <2>1. st' = st /\ rd' = rd /\ got' = got /\ wr' = [wr EXCEPT ![w] = u]
    BY <1>8 DEF KeyHash
  <2>2. k \in Parts
    <3>1. st.nparts \in 1 .. MaxParts
      BY <1>1, Basics
    <3>2. PartOf[<<v, st.nparts>>] \in 0 .. st.nparts - 1
      BY <3>1, StreamAssumption
    <3> QED BY <1>2, <3>1, <3>2 DEF KeyPart, Parts
  <2> HIDE DEF k
  <2>3. u \in WriterSet /\ u.val \in Values
    BY <2>2 DEF WriterSet
  <2> HIDE DEF u
  <2>4. wr' \in [Writers -> WriterSet] /\ \A x \in Writers : wr'[x] = IF x = w THEN u ELSE wr[x]
    BY <1>1, <2>1, <2>3
  <2>5. Writing'
    BY <1>1, <2>3, <2>4 DEF Writing
  <2> QED BY <1>1, <2>1, <2>5, SilentStep DEF IInv
<1> QED BY <1>4, <1>6, <1>7, <1>8

(* Joining and leaving.                                                      *)
LEMMA TableStep ==
    ASSUME IInv, NEW c \in Consumers, DoAdd(c) \/ DoRemove(c)
    PROVE  IInv' /\ Logged
<1>1. Good(st) /\ rd \in [Readers -> ReaderSet] /\ Writing
  BY DEF IInv
<1>2. CASE DoAdd(c)
  <2>1. st' = AddConsumer(st, c) /\ rd' = rd /\ got' = got /\ wr' = wr
    BY <1>2 DEF DoAdd
  <2>2. /\ Good(st') /\ Window(st') = Window(st) /\ st'.head = st.head
        /\ \/ Pending(st') = Pending(st)
           \/ /\ c \notin DOMAIN Pending(st)
              /\ Pending(st') = [d \in DOMAIN Pending(st) \cup {c} |->
                                 IF d = c THEN DOMAIN Window(st) ELSE Pending(st)[d]]
    BY <1>1, <2>1, JoinRefines
  <2>3. Log!Join(c) \/ UNCHANGED Log!vars
    BY <2>1, <2>2 DEF Log!Join, Log!vars
  <2> QED BY <1>1, <2>1, <2>2, <2>3 DEF IInv, Writing, Logged, Log!Next
<1>3. CASE DoRemove(c)
  <2>1. st' = RemoveConsumer(st, c) /\ Known(st, c) /\ rd' = rd /\ got' = got /\ wr' = wr
    BY <1>3 DEF DoRemove
  <2>2. /\ Good(st') /\ Window(st') = Window(st) /\ st'.head = st.head
        /\ Pending(st') = [d \in DOMAIN Pending(st) \ {c} |-> Pending(st)[d]]
    BY <1>1, <2>1, LeaveRefines
  <2>3. Log!Leave(c)
    BY <2>1, <2>2 DEF Log!Leave
  <2> QED BY <1>1, <2>1, <2>2, <2>3 DEF IInv, Writing, Logged, Log!Next
<1> QED BY <1>2, <1>3

(* The two acknowledgements.                                                 *)
LEMMA AckStep ==
    ASSUME IInv, NEW c \in Consumers, NEW s \in 1 .. MaxSeq, NEW p \in Parts,
           DoAck(c, s) \/ DoAckPart(c, p, s)
    PROVE  IInv' /\ Logged
<1> DEFINE row == Row(st, c)
           q == IF DoAck(c, s) THEN PartAt(st, s) ELSE p
           new == IF DoAck(c, s) THEN AckRow(st, row, q, s) ELSE PartRow(st, row, q, s)
<1>1. Good(st) /\ rd \in [Readers -> ReaderSet] /\ Writing
  BY DEF IInv
<1>2. rd' = rd /\ got' = got /\ wr' = wr /\ Known(st, c) /\ InWindow(st, s)
  BY DEF DoAck, DoAckPart
<1>3. s \in Retained(st) /\ s \in Nat /\ s < st.head
  <2>1. s \in Nat \ {0}
    BY MaxSeqAssumption
  <2>2. /\ st.head \in Nat \ {0} /\ st.count \in Nat /\ Oldest(st) \in Nat \ {0}
        /\ Retained(st) = Oldest(st) .. st.head - 1
        /\ FirstSeq(st) = IF st.count > 0 THEN Oldest(st) ELSE 0
        /\ LastSeq(st) = IF st.count > 0 THEN st.head - 1 ELSE 0
    BY <1>1, Basics
  <2> QED BY <1>2, <2>1, <2>2 DEF InWindow
<1>4. q \in Parts /\ (st.nparts > 1 => q = PartAt(st, s))
  <2>1. PartAt(st, s) \in Parts
    BY <1>1, <1>3, PartUsed
  <2>2. ~DoAck(c, s) => (st.nparts > 1 => PartAt(st, s) = p)
    BY DEF DoAckPart
  <2> QED BY <2>1, <2>2
<1>5. st' = WithRow(st, new)
  BY DEF DoAck, DoAckPart, Ack, AckPart, AckRow, PartRow, RaiseMark, RaiseAcked
<1>6. row \in RowSet /\ Behind(row, st.head)
  <2>1. PICK i \in DOMAIN st.cons : row = st.cons[i]
    BY <1>1, <1>2, OneRow
  <2> HIDE DEF row
  <2> QED BY <1>1, <2>1, Table
<1> HIDE DEF q
<1>7. Raised(st, row, new, q, s)
  <2>1. /\ q < st.nparts => Raised(st, row, PartRow(st, row, q, s), q, s)
        /\ Raised(st, row, AckRow(st, row, q, s), q, s)
    <3> HIDE DEF row
    <3> QED BY <1>1, <1>3, <1>4, <1>6, RaisedRows
  <2>2. ~DoAck(c, s) => q < st.nparts
    BY DEF DoAckPart, q
  <2> QED BY <2>1, <2>2
<1> HIDE DEF new
<1>8. /\ Good(st') /\ Window(st') = Window(st) /\ st'.head = st.head
      /\ c \in DOMAIN Pending(st) /\ s \in DOMAIN Window(st)
      /\ \E rest \in SUBSET Pending(st)[c] :
            /\ st.nparts <= 1 \/ q < st.nparts => s \notin rest
            /\ ~(st.nparts <= 1 \/ q < st.nparts) => rest = Pending(st)[c]
            /\ \A t \in Pending(st)[c] : t > s => t \in rest
            /\ Pending(st') = [Pending(st) EXCEPT ![c] = rest]
  BY <1>1, <1>2, <1>3, <1>4, <1>5, <1>7, SettleRefines
<1>9. CASE st.nparts <= 1 \/ q < st.nparts
  <2>1. Log!Settle(c, s)
    BY <1>2, <1>8, <1>9 DEF Log!Settle
  <2> QED BY <1>1, <1>2, <1>8, <2>1 DEF IInv, Writing, Logged, Log!Next
<1>10. CASE ~(st.nparts <= 1 \/ q < st.nparts)
  <2>1. Pending(st') = [Pending(st) EXCEPT ![c] = Pending(st)[c]]
    BY <1>8, <1>10
  <2>2. Pending(st) = [d \in DOMAIN Pending(st) |-> Pending(st)[d]]
    BY <1>1, Owes DEF Ledger
  <2>3. Pending(st') = Pending(st)
    <3> DEFINE f == Pending(st)
    <3>1. f = [d \in DOMAIN f |-> f[d]]
      BY <2>2
    <3> HIDE DEF f
    <3>2. [f EXCEPT ![c] = f[c]] = f
      BY <3>1
    <3> QED BY <2>1, <3>2 DEF f
  <2>4. UNCHANGED Log!vars
    BY <1>2, <1>8, <2>3 DEF Log!vars
  <2> QED BY <1>1, <1>2, <1>8, <2>4 DEF IInv, Writing, Logged
<1> QED BY <1>9, <1>10

(* Partitions.                                                               *)
LEMMA PartitionStep ==
    ASSUME IInv, NEW n \in 1 .. MaxParts, DoSetPartitions(n)
    PROVE  IInv' /\ Logged
<1>1. Good(st) /\ rd \in [Readers -> ReaderSet] /\ Writing
  BY DEF IInv
<1>2. st' = SetPartitions(st, n) /\ CanSetPartitions(st, n) /\ rd' = rd /\ got' = got /\ wr' = wr
  BY DEF DoSetPartitions
<1>3. Good(st') /\ Window(st') = Window(st) /\ st'.head = st.head /\ Pending(st') = Pending(st)
  BY <1>1, <1>2, PartitionsRefine
<1>4. UNCHANGED Log!vars
  BY <1>2, <1>3 DEF Log!vars
<1> QED BY <1>1, <1>2, <1>3, <1>4 DEF IInv, Writing, Logged

(* A reader's steps.  What it copies is in the window of that moment.        *)
LEMMA ReadStep ==
    ASSUME IInv, NEW r \in Readers,
           \/ \E s \in 1 .. MaxSeq : ReadCheck(r, s)
           \/ ReadEnter(r) \/ ReadMeasure(r) \/ ReadCopy(r) \/ ReadNoMemory(r)
    PROVE  IInv' /\ Logged
<1>1. Good(st) /\ rd \in [Readers -> ReaderSet] /\ Writing
  BY DEF IInv
<1>2. st' = st /\ Writing'
  BY <1>1 DEF ReadCheck, ReadEnter, ReadMeasure, ReadCopy, ReadNoMemory, Writing
<1>3. ASSUME NEW s \in Nat, Has(st, s)
      PROVE  s \in Retained(st) /\ SizeAt(st, s) \in Nat
  <2>1. s \in Nat \ {0}
    BY <1>3 DEF Has
  <2>2. SlotOf(s) \in Slots
    BY <2>1, Slot DEF Slots
  <2>3. s \in Oldest(st) .. st.head - 1
    BY <1>1, <1>3, <2>2 DEF Has, Good, RingInv
  <2> QED BY <1>1, <2>3, Basics, RetainedSlot
<1>4. rd[r] \in ReaderSet
  BY <1>1
<1>5. Idle \in ReaderSet
  BY DEF Idle, ReaderSet
<1>6. CASE \E s \in 1 .. MaxSeq : ReadCheck(r, s)
  <2>1. PICK s \in 1 .. MaxSeq : ReadCheck(r, s)
    BY <1>6
  <2>2. [pc |-> "checked", seq |-> s, len |-> 0] \in ReaderSet
    BY MaxSeqAssumption DEF ReaderSet
  <2>3. rd' \in [Readers -> ReaderSet] /\ got' = got
    BY <1>1, <2>1, <2>2 DEF ReadCheck
  <2> QED BY <1>1, <1>2, <2>3, SilentStep DEF IInv
<1>7. CASE ReadEnter(r)
  <2>1. [rd[r] EXCEPT !.pc = "in"] \in ReaderSet
    BY <1>4 DEF ReaderSet
  <2>2. rd' \in [Readers -> ReaderSet] /\ (got' = got \/ got' = Miss)
    BY <1>1, <1>5, <1>7, <2>1 DEF ReadEnter
  <2> QED BY <1>1, <1>2, <2>2, SilentStep, MissStep DEF IInv
<1>8. CASE ReadMeasure(r)
  <2> DEFINE n == SizeAt(st, rd[r].seq)
  <2>1. Has(st, rd[r].seq) => n \in Nat
    BY <1>3, <1>4 DEF ReaderSet
  <2> HIDE DEF n
  <2>2. n \in Nat => [rd[r] EXCEPT !.pc = "half", !.len = n] \in ReaderSet
    BY <1>4 DEF ReaderSet
  <2>3. rd' \in [Readers -> ReaderSet] /\ (got' = got \/ got' = Miss)
    <3>1. CASE Has(st, rd[r].seq)
      <4>1. rd' = [rd EXCEPT ![r] = [rd[r] EXCEPT !.pc = "half", !.len = n]] /\ got' = got
        BY <1>1, <1>8, <3>1 DEF ReadMeasure, n
      <4> QED BY <1>1, <2>1, <2>2, <3>1, <4>1
    <3>2. CASE ~Has(st, rd[r].seq)
      BY <1>1, <1>5, <1>8, <3>2 DEF ReadMeasure, Leave
    <3> QED BY <3>1, <3>2
  <2> QED BY <1>1, <1>2, <2>3, SilentStep, MissStep DEF IInv
<1>9. CASE ReadCopy(r)
  <2> DEFINE s == rd[r].seq
  <2>1. s \in Nat
    BY <1>4 DEF ReaderSet
  <2>2. rd' = [rd EXCEPT ![r] = Idle]
        /\ (got' = Miss \/ (Has(st, s) /\ got' = <<s, st.ring[SlotOf(s)].val>>))
    BY <1>9 DEF ReadCopy, Leave
  <2>3. rd' \in [Readers -> ReaderSet]
    BY <1>1, <1>5, <2>2
  <2> HIDE DEF s
  <2>4. ASSUME Has(st, s), got' = <<s, st.ring[SlotOf(s)].val>> PROVE Logged
    <3>1. s \in Retained(st)
      BY <1>3, <2>1, <2>4
    <3>2. s \in DOMAIN Window(st) /\ Window(st)[s] = st.ring[SlotOf(s)].val
      BY <3>1 DEF Window
    <3>3. s \in 1 .. st.head
      BY <1>1, <3>1, Basics
    <3>4. Log!Read(s)
      BY <1>2, <2>4, <3>2 DEF Log!Read
    <3> QED BY <3>3, <3>4 DEF Logged, Log!Next
  <2> QED BY <1>1, <1>2, <2>2, <2>3, <2>4, MissStep DEF IInv
<1>10. CASE ReadNoMemory(r)
  <2>1. rd' \in [Readers -> ReaderSet] /\ got' = Miss
    BY <1>1, <1>5, <1>10 DEF ReadNoMemory, Leave
  <2> QED BY <1>1, <1>2, <2>1, MissStep DEF IInv
<1> QED BY <1>6, <1>7, <1>8, <1>9, <1>10

(* Every step keeps the invariant and is a step of the log or none.          *)
LEMMA Step == IInv /\ [Next]_vars => IInv' /\ Logged
<1> SUFFICES ASSUME IInv, [Next]_vars PROVE IInv' /\ Logged
  OBVIOUS
<1>1. ASSUME \/ \E v \in Values : DoAppend(v)
             \/ \E w \in Writers : \/ KeyAppend(w) \/ KeyNoMemory(w)
                                   \/ \E v \in Values : KeyHash(w, v)
      PROVE  IInv' /\ Logged
  BY <1>1, WriteStep
<1>2. ASSUME NEW c \in Consumers, DoAdd(c) \/ DoRemove(c) PROVE IInv' /\ Logged
  BY <1>2, TableStep
<1>3. ASSUME NEW c \in Consumers, NEW s \in 1 .. MaxSeq, DoAck(c, s) PROVE IInv' /\ Logged
  <2>1. 0 \in Parts
    BY StreamAssumption DEF Parts
  <2> QED BY <1>3, <2>1, AckStep
<1>4. ASSUME NEW c \in Consumers, NEW p \in Parts, NEW s \in 1 .. MaxSeq, DoAckPart(c, p, s)
      PROVE  IInv' /\ Logged
  BY <1>4, AckStep
<1>5. ASSUME NEW n \in 1 .. MaxParts, DoSetPartitions(n) PROVE IInv' /\ Logged
  BY <1>5, PartitionStep
<1>6. ASSUME NEW r \in Readers,
             \/ \E s \in 1 .. MaxSeq : ReadCheck(r, s)
             \/ ReadEnter(r) \/ ReadMeasure(r) \/ ReadCopy(r) \/ ReadNoMemory(r)
      PROVE  IInv' /\ Logged
  BY <1>6, ReadStep
<1>7. ASSUME DestroyBegin \/ DestroyEnd \/ UNCHANGED vars PROVE IInv' /\ Logged
  <2>1. st' = st /\ rd' = rd /\ got' = got /\ wr' = wr
    BY <1>7 DEF DestroyBegin, DestroyEnd, vars
  <2> QED BY <2>1, SilentStep DEF IInv, Writing
<1> QED BY <1>1, <1>2, <1>3, <1>4, <1>5, <1>6, <1>7 DEF Next

(* total_bytes is the size of what the ring retains and within max_bytes,    *)
(* for every ring, limit, set of consumers and number of partitions          *)
(* (stream_append_impl with its eviction, wrap and refusal).                 *)
THEOREM BytesAreExact == Spec => []BytesExact
<1>1. IInv => BytesExact
  <2> SUFFICES ASSUME IInv PROVE BytesExact
    OBVIOUS
  <2>1. Good(st)
    BY DEF IInv
  <2>2. Retained(st) = Oldest(st) .. st.head - 1
    BY <2>1, Basics
  <2> QED BY <2>1, <2>2 DEF Good, ByteInv, BytesExact
<1> QED BY <1>1, InitGood, Step, PTL DEF Spec

(* The stream implements the retained log, for every ring, limit, set of     *)
(* consumers, writers, readers and partitions, and for partitions that change *)
(* between the two sections of an append by key: no message is dropped while *)
(* a consumer is owed it, and a read returns the message of its number.      *)
THEOREM StreamImplementsLog == Spec => ImplementsLog
<1>1. Logged => [Log!Next]_(Log!vars)
  BY DEF Logged
<1> QED BY <1>1, InitGood, Step, PTL DEF Spec, ImplementsLog, Log!Spec

=============================================================================
