--------------------------- MODULE PublishProofs ----------------------------
(***************************************************************************)
(* Proofs about the handlers of PUBLISH, BATCH, REQUEST and RESPONSE, for    *)
(* any number of connections, any sizes and limits, any producers and any    *)
(* number of frames and epochs: a producer's message is fanned out once, the *)
(* answers are honest, and the budget of bytes in flight is exact.           *)
(***************************************************************************)
EXTENDS Publish, SequenceTheorems, FiniteSetTheorems, WellFoundedInduction, TLAPS

-----------------------------------------------------------------------------
(* Sums.  A part of n bytes stands for n pairs of the part and a byte, so    *)
(* that a sum over a set is a cardinality.                                   *)

Part(f, x) == {<<x, b>> : b \in 1 .. f[x]}
AllParts(f, S) == UNION {Part(f, x) : x \in S}
Total(f, S) == Cardinality(AllParts(f, S))
Sized(f, S) == \A x \in S : f[x] \in Nat

(* A part has as many bytes as f says.                                       *)
LEMMA PartSize ==
    ASSUME NEW f, NEW x, f[x] \in Nat
    PROVE  IsFiniteSet(Part(f, x)) /\ Cardinality(Part(f, x)) = f[x]
<1> DEFINE n == f[x]
           g == [b \in 1 .. n |-> <<x, b>>]
<1>1. g \in Bijection(1 .. n, Part(f, x))
  BY DEF Bijection, Injection, IsInjective, Surjection, Part
<1>2. IsFiniteSet(1 .. n) /\ Cardinality(1 .. n) = n
  BY FS_Interval
<1>3. ExistsBijection(1 .. n, Part(f, x))
  BY <1>1 DEF ExistsBijection
<1> QED BY <1>2, <1>3, FS_Bijection

(* A sum over a finite set is a number.                                      *)
LEMMA TotalType ==
    ASSUME NEW f, NEW S, IsFiniteSet(S), Sized(f, S)
    PROVE  IsFiniteSet(AllParts(f, S)) /\ Total(f, S) \in Nat
<1> DEFINE U == {Part(f, x) : x \in S}
           g == [x \in S |-> Part(f, x)]
<1>1. g \in Surjection(S, U)
  BY DEF Surjection
<1>2. IsFiniteSet(U)
  BY <1>1, FS_Surjection
<1>3. \A T \in U : IsFiniteSet(T)
  BY PartSize DEF Sized
<1> HIDE DEF U
<1>4. IsFiniteSet(UNION U)
  BY <1>2, <1>3, FS_UNION
<1> QED BY <1>4, FS_CardinalityType DEF AllParts, Total, U

(* One summand and the others.                                               *)
LEMMA TotalSplit ==
    ASSUME NEW f, NEW S, IsFiniteSet(S), Sized(f, S), NEW x \in S
    PROVE  Total(f, S) = f[x] + Total(f, S \ {x})
<1> DEFINE A == Part(f, x)
           B == AllParts(f, S \ {x})
<1>1. IsFiniteSet(S \ {x}) /\ Sized(f, S \ {x}) /\ f[x] \in Nat
  BY FS_RemoveElement DEF Sized
<1>2. /\ IsFiniteSet(A) /\ Cardinality(A) = f[x]
      /\ IsFiniteSet(B) /\ Cardinality(B) \in Nat
  BY <1>1, PartSize, TotalType DEF Total
<1>3. AllParts(f, S) = A \cup B
  BY DEF AllParts
<1>4. A \cap B = {}
  BY DEF AllParts, Part
<1> HIDE DEF A, B
<1>5. Cardinality(A \cup B) = Cardinality(A) + Cardinality(B) - Cardinality(A \cap B)
  BY <1>2, FS_Union
<1>6. Cardinality(A \cap B) = 0
  BY <1>4, FS_EmptySet, Zenon
<1>7. Cardinality(A \cup B) = f[x] + Cardinality(B)
  BY <1>1, <1>2, <1>5, <1>6
<1> QED BY <1>3, <1>7 DEF Total, B

(* A sum of nothing, and one of the same summands.                           *)
LEMMA TotalSame ==
    ASSUME NEW f, NEW g, NEW S
    PROVE  /\ Total(f, {}) = 0
           /\ (\A x \in S : f[x] = g[x]) => Total(f, S) = Total(g, S)
<1>1. Total(f, {}) = 0
  <2>1. AllParts(f, {}) = {}
    BY DEF AllParts
  <2> QED BY <2>1, FS_EmptySet DEF Total
<1>2. ASSUME \A x \in S : f[x] = g[x] PROVE Total(f, S) = Total(g, S)
  <2>1. AllParts(f, S) = AllParts(g, S)
    BY <1>2 DEF AllParts, Part
  <2> QED BY <2>1 DEF Total
<1> QED BY <1>1, <1>2

(* One summand changes.                                                      *)
LEMMA TotalChange ==
    ASSUME NEW f, NEW g, NEW S, IsFiniteSet(S), Sized(f, S), Sized(g, S), NEW x \in S,
           \A y \in S \ {x} : f[y] = g[y]
    PROVE  Total(g, S) + f[x] = Total(f, S) + g[x]
<1>1. Total(f, S) = f[x] + Total(f, S \ {x}) /\ Total(g, S) = g[x] + Total(g, S \ {x})
  BY TotalSplit
<1>2. Total(f, S \ {x}) = Total(g, S \ {x})
  BY TotalSame
<1>3. f[x] \in Nat /\ g[x] \in Nat
  BY DEF Sized
<1>4. Total(f, S \ {x}) \in Nat
  BY FS_RemoveElement, TotalType DEF Sized
<1> QED BY <1>1, <1>2, <1>3, <1>4

(* The recursion that MapThenSumSet stands for.                              *)
Pick(T) == CHOOSE x \in T : TRUE
Sums(f, S, h) ==
    h = [T \in SUBSET S |-> IF T = {} THEN 0 ELSE f[Pick(T)] + h[T \ {Pick(T)}]]

(* Total fulfils it.                                                         *)
LEMMA SumExists ==
    ASSUME NEW f, NEW S, IsFiniteSet(S), Sized(f, S)
    PROVE  Sums(f, S, [T \in SUBSET S |-> Total(f, T)])
<1> DEFINE h == [T \in SUBSET S |-> Total(f, T)]
<1>1. ASSUME NEW T \in SUBSET S
      PROVE  Total(f, T) = IF T = {} THEN 0 ELSE f[Pick(T)] + h[T \ {Pick(T)}]
  <2>1. CASE T = {}
    BY <2>1, TotalSame
  <2>2. CASE T # {}
    <3>1. Pick(T) \in T
      BY <2>2 DEF Pick
    <3>2. IsFiniteSet(T) /\ Sized(f, T)
      BY FS_Subset DEF Sized
    <3>3. Total(f, T) = f[Pick(T)] + Total(f, T \ {Pick(T)})
      BY <3>1, <3>2, TotalSplit
    <3>4. h[T \ {Pick(T)}] = Total(f, T \ {Pick(T)})
      OBVIOUS
    <3> QED BY <2>2, <3>3, <3>4
  <2> QED BY <2>1, <2>2
<1> QED BY <1>1 DEF Sums

(* Nothing else does.                                                        *)
LEMMA SumUnique ==
    ASSUME NEW f, NEW S, IsFiniteSet(S), Sized(f, S), NEW g, Sums(f, S, g)
    PROVE  g[S] = Total(f, S)
<1> DEFINE Wrong(T) == g[T] # Total(f, T)
           D == {n \in Nat : \E T \in SUBSET S : Cardinality(T) = n /\ Wrong(T)}
<1>1. \A T \in SUBSET S : g[T] = IF T = {} THEN 0 ELSE f[Pick(T)] + g[T \ {Pick(T)}]
  BY DEF Sums
<1>2. \A T \in SUBSET S : IsFiniteSet(T) /\ Cardinality(T) \in Nat /\ Sized(f, T)
  BY FS_Subset, FS_CardinalityType DEF Sized
<1>3. SUFFICES ASSUME D # {} PROVE FALSE
  <2>1. ASSUME Wrong(S) PROVE Cardinality(S) \in D
    BY <1>2, <2>1
  <2> QED BY <2>1
<1>4. PICK n \in D : \A m \in D : ~(<<m, n>> \in OpToRel(<, Nat))
  BY <1>3, NatLessThanWellFounded, WFMin
<1>5. \A m \in D : ~(m < n)
  BY <1>4, Zenon DEF OpToRel
<1>6. PICK T \in SUBSET S : Cardinality(T) = n /\ Wrong(T)
  OBVIOUS
<1>7. T # {}
  BY <1>1, <1>6, TotalSame
<1> DEFINE R == T \ {Pick(T)}
<1>8. Pick(T) \in T
  BY <1>7 DEF Pick
<1>9. R \in SUBSET S /\ Cardinality(R) = n - 1
  BY <1>2, <1>6, <1>8, FS_RemoveElement
<1>10. Cardinality(R) \in Nat /\ Cardinality(R) < n
  BY <1>2, <1>9
<1>11. g[R] = Total(f, R)
  BY <1>5, <1>9, <1>10
<1>12. Total(f, T) = f[Pick(T)] + Total(f, R)
  BY <1>2, <1>8, TotalSplit
<1> QED BY <1>1, <1>6, <1>7, <1>11, <1>12

-----------------------------------------------------------------------------
(* Types.                                                                    *)

Calls == {"request", "response"}
Reaches == {"no", "queued", "sent"}
Answers == {"none", "ok", "failed", "refused", "stored", "silent", "inactive"}
Early == {"admit", "load", "cas", "recheck", "undo", "match"}
Ended == {"drop", "debit", "done"}
Pcs == {"idle", "forward", "local", "reply"} \cup Early \cup Ended

ItemSet == [n : Nat, tgts : {"none", "few", "many"}, held : BOOLEAN, cl : Reaches,
            local : BOOLEAN]
Job == [pc : Pcs, op : Ops \cup {"none"}, route : BOOLEAN, ep : Nat,
        id : Ids \cup {NoId}, items : Seq(ItemSet), k : Nat \ {0}, g0 : Nat, cur : Nat,
        fail : BOOLEAN, amb : BOOLEAN, answer : Answers]
Coro == [ep : Nat, gen : Nat, left : Int, any : BOOLEAN, cl : Reaches]

(* The types of the variables.                                               *)
HandlerTypes ==
    /\ plan \in Plans
    /\ acct \in [active : BOOLEAN, epoch : Nat \ {0}, gen : Nat, live : Nat]
    /\ admin \in {"idle", "gen", "zero", "flip"}
    /\ torn \in BOOLEAN
    /\ session \in [Conns -> [ep : Nat, gen : Nat]]
    /\ task \in [Conns -> Job]
ServerTypes ==
    /\ coros \in [Conns -> Seq(Coro)]
    /\ fanned \in [Ids -> Nat]
    /\ \A p \in DOMAIN window : window[p] \in [last : Nat, bits : SUBSET Nat]
TypeOK == HandlerTypes /\ ServerTypes

-----------------------------------------------------------------------------
(* What a handler knows of its items at each place.                          *)

Entries(j) == 1 .. Len(j.items)

(* What a handler holds of the budget of epoch e.                            *)
Sizes(j) == [k \in Entries(j) |-> j.items[k].n]
Weight(j) ==
    Total(Sizes(j), HeldItems(j)) + IF j.pc \in {"recheck", "undo"} THEN EntrySize(j) ELSE 0
Hold(j, e) == IF j.ep # e THEN 0 ELSE Weight(j)
Holds(t, e) == [c \in Conns |-> Hold(t[c], e)]

(* A handler at work has an item in hand, and only a batch has several.      *)
ShapeOk(j) ==
    /\ j.pc \notin {"idle", "done"} => j.k \in Entries(j)
    /\ j.op # "none" => Len(j.items) >= 1
    /\ j.op \in Ops \ {"batch"} => Len(j.items) = 1 /\ j.k = 1
    /\ j.pc = "admit" => j.op = "publish"
    /\ j.pc = "reply" => j.op \in Calls
    /\ j.pc \notin {"idle", "done"} => j.op # "none"
    /\ j.id # NoId => j.op = "publish"

(* What has been reached when, and what the answer then says.                *)
ReachOk(j) ==
    /\ j.pc \notin Ended => j.answer = "none"
    /\ j.pc \in Early => \A k \in Entries(j) : ~Reached(j.items[k]) /\ j.items[k].cl = "no"
    /\ j.pc = "forward" =>
         /\ \A k \in Entries(j) : ~j.items[k].local
         /\ \A k \in Entries(j) : k >= j.k => j.items[k].cl = "no"
    /\ j.pc = "local" /\ j.op \in Calls => j.items[1].cl = "no" /\ ~NoLocal(j)
    /\ j.pc \in Early \cup {"forward", "local"} => ~j.amb
    /\ j.pc = "reply" =>
         IF NoLocal(j) THEN ~j.items[1].local /\ ~j.amb ELSE j.items[1].cl = "no"

(* The answer of one handler, as AnswersHonest has it.                       *)
HonestOk(j) ==
    /\ j.answer = "failed" => ~AnyReached(j)
    /\ j.op \in Calls
         => /\ j.answer = "ok" => AnyReached(j)
            /\ j.items[1].cl # "no" => ~j.items[1].local /\ ~j.amb

(* What is held of the budget when.                                          *)
HeldOk(j) ==
    /\ j.pc \in {"admit", "load", "cas", "recheck", "undo"}
         => \A k \in Entries(j) : k >= j.k => ~j.items[k].held
    /\ j.pc = "match" => \A k \in Entries(j) : k > j.k => ~j.items[k].held
    /\ j.pc \in {"drop", "debit"} => j.items[j.k].held
    /\ j.pc \in {"idle", "done"} => HeldItems(j) = {}
    /\ j.pc = "cas" => j.cur + EntrySize(j) <= LiveMax

JobOk(j) == ShapeOk(j) /\ ReachOk(j) /\ HonestOk(j) /\ HeldOk(j)
JobsOk == \A c \in Conns : JobOk(task[c])

-----------------------------------------------------------------------------
(* Producers.                                                                *)

(* The window would refuse message i.                                        *)
Seen(w, i) == i[1] \in DOMAIN w /\ Duplicate(w[i[1]], i[2])

(* A handler that is past the window and before the fan-out of a message.    *)
Bound(j) == j.id # NoId /\ j.pc \in (Early \ {"admit"}) \cup {"forward"}

(* A message is at one place at most, and only once the window has it.       *)
WindowInv ==
    /\ \A i \in Ids : fanned[i] <= 1 /\ (fanned[i] # 0 => Seen(window, i))
    /\ \A c \in Conns : Bound(task[c]) => Seen(window, task[c].id) /\ fanned[task[c].id] = 0
    /\ \A c, d \in Conns : Bound(task[c]) /\ Bound(task[d]) /\ task[c].id = task[d].id => c = d

(* No coroutine sends an ERROR for what it delivered.                        *)
LateInv == TRUE \notin late

-----------------------------------------------------------------------------
(* The budget.                                                               *)

Swaps == {"cas", "recheck", "undo", "debit"}

(* Nobody is ahead of the account, and while it is created nobody is of its  *)
(* new epoch nor, once the generation is new, of that.                       *)
EpochInv ==
    /\ \A c \in Conns : session[c].ep <= acct.epoch /\ task[c].ep <= acct.epoch
                          /\ task[c].g0 <= acct.gen
    /\ ~acct.active /\ admin # "idle" =>
         \A c \in Conns : session[c].ep < acct.epoch /\ task[c].ep < acct.epoch
    /\ ~acct.active /\ admin \in {"zero", "flip"} =>
         \A c \in Conns : task[c].pc \in Swaps => task[c].g0 < acct.gen

(* From the clear of a creation that met no swap to the next deletion.       *)
Settled ==
    /\ ~torn
    /\ \/ acct.active /\ admin = "idle"
       \/ ~acct.active /\ admin = "flip"

(* Then every swap is of this epoch and generation, and the counter is the   *)
(* sum of what the handlers hold.                                            *)
SwapOk(j) ==
    /\ j.pc \in {"cas", "debit"} => j.ep = acct.epoch /\ j.g0 = acct.gen
    /\ j.pc # "undo"
    /\ j.pc = "recheck" => (j.g0 = acct.gen <=> j.ep = acct.epoch)
SwapInv == Settled => \A c \in Conns : SwapOk(task[c])
SumInv ==
    acct.live <= LiveMax /\ (Settled => acct.live = Total(Holds(task, acct.epoch), Conns))

Budget == HandlerTypes /\ JobsOk /\ EpochInv /\ SwapInv /\ SumInv
Server == ServerTypes /\ WindowInv /\ LateInv
IInv == Budget /\ Server

-----------------------------------------------------------------------------
(* The sums of the model.                                                    *)

HeldSum(j) == MapThenSumSet(LAMBDA k : j.items[k].n, HeldItems(j))

(* The sum over the held items.                                              *)
LEMMA HeldTotal ==
    ASSUME NEW j, IsFiniteSet(HeldItems(j)), Sized(Sizes(j), HeldItems(j))
    PROVE  HeldSum(j) = Total(Sizes(j), HeldItems(j))
<1> DEFINE S == HeldItems(j)
           f == Sizes(j)
           Is(h) == h = [T \in SUBSET S |-> IF T = {} THEN 0
                                            ELSE j.items[Pick(T)].n + h[T \ {Pick(T)}]]
           g == CHOOSE h : Is(h)
<1>1. \A k \in S : f[k] = j.items[k].n
  BY DEF Sizes, HeldItems, Entries
<1>2. \A T \in SUBSET S : T # {} => Pick(T) \in S
  BY DEF Pick
<1>3. \A h : Is(h) <=> Sums(f, S, h)
  <2> HIDE DEF f, S
  <2> TAKE h
  <2>1. \A T \in SUBSET S : (IF T = {} THEN 0 ELSE j.items[Pick(T)].n + h[T \ {Pick(T)}])
                           = IF T = {} THEN 0 ELSE f[Pick(T)] + h[T \ {Pick(T)}]
    BY <1>1, <1>2
  <2> QED BY <2>1 DEF Sums
<1>4. Is(g)
  <2>1. \E h : Is(h)
    BY <1>3, SumExists
  <2> HIDE DEF Is
  <2> QED BY <2>1
<1>5. HeldSum(j) = g[S]
  BY DEF HeldSum, MapThenSumSet, MapThenFoldSet, Pick
<1> HIDE DEF g, Is
<1> QED BY <1>3, <1>4, <1>5, SumUnique

(* What a handler of the model's type holds is a number.                     *)
LEMMA WeightType ==
    ASSUME NEW j \in Job, ShapeOk(j)
    PROVE  /\ IsFiniteSet(HeldItems(j)) /\ Sized(Sizes(j), HeldItems(j))
           /\ Total(Sizes(j), HeldItems(j)) \in Nat
           /\ \A k \in Entries(j) : Sizes(j)[k] = j.items[k].n /\ j.items[k].n \in Nat
           /\ Weight(j) \in Nat
<1>1. j.items \in Seq(ItemSet) /\ Len(j.items) \in Nat
  BY DEF Job
<1>2. ASSUME NEW k \in Entries(j)
      PROVE  Sizes(j)[k] = j.items[k].n /\ j.items[k].n \in Nat
  <2>1. j.items[k] \in ItemSet
    BY <1>1, ElementOfSeq DEF Entries
  <2> QED BY <2>1 DEF Sizes, ItemSet
<1>3. IsFiniteSet(Entries(j))
  BY <1>1, FS_Interval DEF Entries
<1>4. HeldItems(j) \subseteq Entries(j)
  BY DEF HeldItems, Entries
<1>5. IsFiniteSet(HeldItems(j)) /\ Sized(Sizes(j), HeldItems(j))
  BY <1>2, <1>3, <1>4, FS_Subset DEF Sized
<1>6. Total(Sizes(j), HeldItems(j)) \in Nat
  BY <1>5, TotalType
<1>7. j.pc \in {"recheck", "undo"} => EntrySize(j) \in Nat
  BY <1>2 DEF ShapeOk, EntrySize
<1> QED BY <1>2, <1>5, <1>6, <1>7 DEF Weight

(* The sum that LiveExact speaks of.                                         *)
LEMMA HoldingTotal ==
    ASSUME TypeOK, JobsOk
    PROVE  MapThenSumSet(Holding, Conns) = Total(Holds(task, acct.epoch), Conns)
<1> DEFINE S == Conns
           f == Holds(task, acct.epoch)
           Is(h) == h = [T \in SUBSET S |-> IF T = {} THEN 0
                                            ELSE Holding(Pick(T)) + h[T \ {Pick(T)}]]
           g == CHOOSE h : Is(h)
<1>1. ASSUME NEW c \in S
      PROVE  f[c] = Holding(c) /\ f[c] \in Nat
  <2>1. task[c] \in Job /\ ShapeOk(task[c])
    BY DEF TypeOK, HandlerTypes, JobsOk, JobOk
  <2>2. /\ HeldSum(task[c]) = Total(Sizes(task[c]), HeldItems(task[c]))
        /\ Weight(task[c]) \in Nat
    BY <2>1, WeightType, HeldTotal
  <2>3. f[c] = Hold(task[c], acct.epoch)
    BY DEF Holds
  <2>4. Holding(c) = Hold(task[c], acct.epoch)
    BY <2>2 DEF Holding, Hold, HeldSum, Weight
  <2> QED BY <2>2, <2>3, <2>4 DEF Hold
<1>2. \A T \in SUBSET S : T # {} => Pick(T) \in S
  BY DEF Pick
<1>3. \A h : Is(h) <=> Sums(f, S, h)
  <2> HIDE DEF f, S
  <2> TAKE h
  <2>1. \A T \in SUBSET S : (IF T = {} THEN 0 ELSE Holding(Pick(T)) + h[T \ {Pick(T)}])
                           = IF T = {} THEN 0 ELSE f[Pick(T)] + h[T \ {Pick(T)}]
    BY <1>1, <1>2
  <2> QED BY <2>1 DEF Sums
<1>4. Sized(f, S) /\ IsFiniteSet(S)
  BY <1>1, PublishAssumption DEF Sized
<1>5. Is(g)
  <2>1. \E h : Is(h)
    BY <1>3, <1>4, SumExists
  <2> HIDE DEF Is
  <2> QED BY <2>1
<1>6. MapThenSumSet(Holding, Conns) = g[S]
  BY DEF MapThenSumSet, MapThenFoldSet, Pick
<1> HIDE DEF g, Is
<1> QED BY <1>3, <1>4, <1>5, <1>6, SumUnique

-----------------------------------------------------------------------------
(* The value of a handler.  Each lemma is about one way in which a handler   *)
(* goes on, without the rest of the state.                                   *)

(* What the frame fixed once and for all.                                    *)
SameFrame(y, j) == y.op = j.op /\ y.route = j.route /\ y.ep = j.ep /\ y.id = j.id

(* y is j at another place.                                                  *)
Later(y, j) ==
    y = [pc |-> y.pc, op |-> j.op, route |-> j.route, ep |-> j.ep, id |-> j.id,
         items |-> y.items, k |-> y.k, g0 |-> y.g0, cur |-> y.cur, fail |-> y.fail,
         amb |-> y.amb, answer |-> y.answer]

(* It is a value of the right type if what changed is.                       *)
LEMMA JobMade ==
    ASSUME NEW j \in Job, NEW y, Later(y, j),
           y.pc \in Pcs, y.items \in Seq(ItemSet), y.k \in Nat \ {0}, y.g0 \in Nat,
           y.cur \in Nat, y.fail \in BOOLEAN, y.amb \in BOOLEAN, y.answer \in Answers
    PROVE  y \in Job /\ SameFrame(y, j)
<1>1. /\ j.op \in Ops \cup {"none"} /\ j.route \in BOOLEAN /\ j.ep \in Nat
      /\ j.id \in Ids \cup {NoId}
  BY DEF Job
<1>2. y.op = j.op /\ y.route = j.route /\ y.ep = j.ep /\ y.id = j.id
  BY DEF Later
<1>3. y \in Job
  BY <1>1 DEF Job, Later
<1> QED BY <1>2, <1>3 DEF SameFrame

(* The fields of a handler.                                                  *)
LEMMA JobFields ==
    ASSUME NEW j \in Job
    PROVE  /\ j.pc \in Pcs /\ j.op \in Ops \cup {"none"} /\ j.route \in BOOLEAN
           /\ j.ep \in Nat /\ j.id \in Ids \cup {NoId} /\ j.items \in Seq(ItemSet)
           /\ j.k \in Nat \ {0} /\ j.g0 \in Nat /\ j.cur \in Nat /\ j.fail \in BOOLEAN
           /\ j.amb \in BOOLEAN /\ j.answer \in Answers
  BY DEF Job

(* A set of items that is not empty has a first one.                         *)
LEMMA FirstOf ==
    ASSUME NEW S \in SUBSET Nat, S # {}
    PROVE  Min(S) \in S /\ \A x \in S : Min(S) <= x
<1>1. PICK k \in S : \A j \in S : ~(<<j, k>> \in OpToRel(<, Nat))
  BY NatLessThanWellFounded, WFMin
<1>2. \A j \in S : ~(j < k)
  BY <1>1, Zenon DEF OpToRel
<1>3. \A j \in S : k <= j
  BY <1>2
<1> QED BY <1>3 DEF Min

(* The items of a handler.                                                   *)
LEMMA JobItems ==
    ASSUME NEW j \in Job
    PROVE  /\ j.items \in Seq(ItemSet) /\ Len(j.items) \in Nat
           /\ DOMAIN j.items = Entries(j)
           /\ \A k \in Entries(j) : j.items[k] \in ItemSet /\ k \in Nat /\ k >= 1
                                    /\ k <= Len(j.items)
           /\ HeldItems(j) \subseteq Entries(j)
<1>1. j.items \in Seq(ItemSet)
  BY DEF Job
<1>2. \A k \in Entries(j) : j.items[k] \in ItemSet
  BY <1>1, ElementOfSeq DEF Entries
<1> QED BY <1>1, <1>2 DEF Entries, HeldItems

Put(j, e) == [j.items EXCEPT ![j.k] = e]

(* The item in hand is replaced.                                             *)
LEMMA ItemPut ==
    ASSUME NEW j \in Job, j.k \in Entries(j), NEW e \in ItemSet
    PROVE  /\ Put(j, e) \in Seq(ItemSet) /\ Len(Put(j, e)) = Len(j.items)
           /\ Put(j, e)[j.k] = e
           /\ \A i \in Entries(j) : i # j.k => Put(j, e)[i] = j.items[i]
<1> DEFINE k == j.k
           s == Put(j, e)
<1>1. j.items \in Seq(ItemSet) /\ k \in 1 .. Len(j.items)
  BY JobItems DEF Entries
<1>2. s = [j.items EXCEPT ![k] = e]
  BY DEF Put
<1> HIDE DEF k, s
<1>3. /\ s \in Seq(ItemSet) /\ Len(s) = Len(j.items)
      /\ \A i \in 1 .. Len(j.items) : s[i] = IF i = k THEN e ELSE j.items[i]
  BY <1>1, <1>2, ExceptSeq
<1>4. \A i \in Entries(j) : i # k => s[i] = j.items[i]
  BY <1>3 DEF Entries
<1>5. s[k] = e
  BY <1>1, <1>3
<1> QED BY <1>3, <1>4, <1>5 DEF s, k

(* The value of a handler that ends, field by field.                         *)
LEMMA FinishedFields ==
    ASSUME NEW j \in Job, NEW ans \in Answers, NEW y, y = Finished(j, ans)
    PROVE  /\ y \in Job /\ SameFrame(y, j)
           /\ y.answer = ans /\ y.items = j.items /\ y.amb = j.amb /\ y.g0 = 0
           /\ HeldItems(y) = HeldItems(j) /\ Entries(y) = Entries(j)
           /\ HeldItems(j) = {} => y.pc = "done" /\ y.k = 1
           /\ HeldItems(j) # {} => y.pc = "drop" /\ y.k \in HeldItems(j)
<1> DEFINE h == HeldItems(j)
           k == IF h = {} THEN 1 ELSE Min(h)
           pc == IF h = {} THEN "done" ELSE "drop"
<1>1. h \in SUBSET Nat /\ h \subseteq Entries(j)
  BY JobItems
<1>2. h # {} => Min(h) \in h /\ Min(h) \in Nat \ {0}
  <2>1. h # {} => Min(h) \in h
    BY <1>1, FirstOf
  <2> QED BY <1>1, <2>1, JobItems
<1>3. k \in Nat \ {0} /\ pc \in Pcs
  BY <1>2 DEF Pcs, Ended
<1>4. y = [j EXCEPT !.answer = ans, !.k = k, !.pc = pc, !.g0 = 0, !.cur = 0]
  BY DEF Finished
<1> HIDE DEF k, pc
<1>5. /\ y \in Job /\ SameFrame(y, j)
      /\ y.answer = ans /\ y.items = j.items /\ y.amb = j.amb /\ y.g0 = 0
      /\ y.k = k /\ y.pc = pc
  <2>1. Later(y, j)
    BY <1>4 DEF Job, Later
  <2>2. /\ y.pc = pc /\ y.items = j.items /\ y.k = k /\ y.g0 = 0 /\ y.cur = 0
        /\ y.fail = j.fail /\ y.amb = j.amb /\ y.answer = ans
    BY <1>4 DEF Job
  <2> QED BY <1>3, <2>1, <2>2, JobFields, JobMade
<1>6. HeldItems(y) = HeldItems(j) /\ Entries(y) = Entries(j)
  BY <1>5 DEF HeldItems, Entries
<1> QED BY <1>2, <1>5, <1>6 DEF k, pc

(* What a handler weighs depends on its items and on its place.              *)
LEMMA SameWeight ==
    ASSUME NEW j, NEW y, Entries(y) = Entries(j), HeldItems(y) = HeldItems(j),
           \A k \in Entries(j) : y.items[k].n = j.items[k].n
    PROVE  /\ Total(Sizes(y), HeldItems(y)) = Total(Sizes(j), HeldItems(j))
           /\ j.pc \notin {"recheck", "undo"} /\ y.pc \notin {"recheck", "undo"}
                => Weight(y) = Weight(j)
<1>1. Sizes(y) = Sizes(j)
  BY DEF Sizes
<1> QED BY <1>1 DEF Weight

(* The frame is well formed, whatever the handler does next.                 *)
FrameOk(j) ==
    /\ j.op # "none" /\ Len(j.items) >= 1
    /\ j.op \in Ops \ {"batch"} => Len(j.items) = 1
    /\ j.id # NoId => j.op = "publish"

(* The answer is honest.                                                     *)
AnswerOk(j, ans) ==
    /\ ans = "failed" => ~AnyReached(j)
    /\ j.op \in Calls
         => /\ ans = "ok" => AnyReached(j)
            /\ j.items[1].cl # "no" => ~j.items[1].local /\ ~j.amb

(* A handler that ends with an honest answer.                                *)
LEMMA FinishedOk ==
    ASSUME NEW j \in Job, NEW ans \in Answers, FrameOk(j), AnswerOk(j, ans),
           NEW y, y = Finished(j, ans)
    PROVE  /\ y \in Job /\ JobOk(y) /\ SameFrame(y, j) /\ ~Bound(y)
           /\ y.g0 = 0 /\ y.pc \in {"drop", "done"}
           /\ Weight(y) = Total(Sizes(j), HeldItems(j))
<1>1. /\ y \in Job /\ SameFrame(y, j)
      /\ y.answer = ans /\ y.items = j.items /\ y.amb = j.amb /\ y.g0 = 0
      /\ HeldItems(y) = HeldItems(j) /\ Entries(y) = Entries(j)
      /\ HeldItems(j) = {} => y.pc = "done" /\ y.k = 1
      /\ HeldItems(j) # {} => y.pc = "drop" /\ y.k \in HeldItems(j)
  BY FinishedFields
<1>2. y.pc \in {"drop", "done"}
  BY <1>1
<1>3. ShapeOk(y)
  <2>1. y.pc = "drop" => y.k \in Entries(y)
    BY <1>1, JobItems
  <2>2. y.op \in Ops \ {"batch"} => Len(y.items) = 1 /\ y.k = 1
    <3>1. Len(j.items) = 1 => Entries(j) = {1}
      BY DEF Entries
    <3> QED BY <1>1, <2>1, <3>1 DEF FrameOk, SameFrame
  <2> QED BY <1>1, <1>2, <2>1, <2>2 DEF ShapeOk, FrameOk, SameFrame
<1>4. ReachOk(y)
  BY <1>2 DEF ReachOk, Ended, Early
<1>5. HonestOk(y)
  BY <1>1 DEF HonestOk, AnswerOk, AnyReached, SameFrame
<1>6. HeldOk(y)
  BY <1>1, <1>2 DEF HeldOk, HeldItems
<1>7. ~Bound(y)
  BY <1>2 DEF Bound, Early
<1>8. Weight(y) = Total(Sizes(j), HeldItems(j))
  <2>1. Total(Sizes(y), HeldItems(y)) = Total(Sizes(j), HeldItems(j))
    BY <1>1, SameWeight
  <2>2. Total(Sizes(y), HeldItems(y)) \in Nat
    BY <1>1, <1>3, WeightType
  <2> QED BY <1>2, <2>1, <2>2 DEF Weight
<1> QED BY <1>1, <1>2, <1>3, <1>4, <1>5, <1>6, <1>7, <1>8 DEF JobOk

(* The places of account_live_hold before and after an item is held.         *)
Holding5 == {"admit", "load", "cas", "recheck", "undo"}

(* A handler that works on its item without touching it.                     *)
LEMMA MoveOk ==
    ASSUME NEW j \in Job, JobOk(j), NEW y \in Job, SameFrame(y, j),
           y.items = j.items, y.k = j.k, y.amb = j.amb, y.answer = j.answer,
           j.pc \in Holding5, y.pc \in {"load", "cas", "recheck", "undo", "match"},
           y.pc = "cas" => y.cur + EntrySize(j) <= LiveMax
    PROVE  /\ JobOk(y) /\ FrameOk(j) /\ AnswerOk(j, "refused")
           /\ Total(Sizes(y), HeldItems(y)) = Total(Sizes(j), HeldItems(j))
           /\ EntrySize(y) = EntrySize(j) /\ EntrySize(j) \in Nat
           /\ j.k \in Entries(j) /\ ~j.items[j.k].held
<1>1. ShapeOk(j) /\ ReachOk(j) /\ HonestOk(j) /\ HeldOk(j)
  BY DEF JobOk
<1>2. Entries(y) = Entries(j) /\ HeldItems(y) = HeldItems(j) /\ EntrySize(y) = EntrySize(j)
  BY DEF Entries, HeldItems, EntrySize
<1>3. /\ j.k \in Entries(j) /\ j.op # "none" /\ j.pc \in Early /\ j.pc \notin Ended
      /\ j.k \in Nat
  BY <1>1, JobItems DEF ShapeOk, Holding5, Early, Ended
<1>4. ShapeOk(y)
  BY <1>1, <1>2, <1>3 DEF ShapeOk, SameFrame, Holding5
<1>5. ReachOk(y)
  BY <1>1, <1>2, <1>3 DEF ReachOk, Early, Ended, Holding5
<1>6. HonestOk(y)
  BY <1>1 DEF HonestOk, SameFrame, AnyReached
<1>7. /\ \A k \in Entries(j) : k >= j.k => ~j.items[k].held
      /\ \A k \in Entries(j) : k > j.k => k >= j.k
  BY <1>1, <1>3, JobItems DEF HeldOk, Holding5
<1>8. HeldOk(y)
  BY <1>2, <1>7 DEF HeldOk
<1>9. Total(Sizes(y), HeldItems(y)) = Total(Sizes(j), HeldItems(j))
  BY <1>2, SameWeight
<1>10. FrameOk(j)
  <2>1. j.op \in Ops \cup {"none"}
    BY JobFields
  <2> QED BY <1>1, <1>3, <2>1 DEF ShapeOk, FrameOk
<1>11. AnswerOk(j, "refused")
  BY <1>1 DEF AnswerOk, HonestOk
<1>12. EntrySize(j) \in Nat /\ ~j.items[j.k].held
  <2>1. j.items[j.k] \in ItemSet /\ j.k >= j.k
    BY <1>3, JobItems
  <2> QED BY <1>3, <1>7, <2>1 DEF EntrySize, ItemSet
<1> QED BY <1>2, <1>3, <1>4, <1>5, <1>6, <1>8, <1>9, <1>10, <1>11, <1>12 DEF JobOk

Taken(j) == [j EXCEPT !.pc = "match", !.items[j.k].held = TRUE, !.g0 = 0, !.cur = 0]

(* The item is held.                                                         *)
LEMMA HeldStep ==
    ASSUME NEW j \in Job, JobOk(j), j.pc = "recheck", NEW y, y = Taken(j)
    PROVE  /\ y \in Job /\ JobOk(y) /\ SameFrame(y, j) /\ y.pc = "match" /\ y.g0 = 0
           /\ Weight(y) = Weight(j)
<1> DEFINE e == [j.items[j.k] EXCEPT !.held = TRUE]
           s == Put(j, e)
<1>1. ShapeOk(j) /\ ReachOk(j) /\ HonestOk(j) /\ HeldOk(j)
  BY DEF JobOk
<1>2. /\ j.k \in Entries(j) /\ j.op # "none" /\ j.pc \in Early /\ j.pc \notin Ended
      /\ j.k \in Nat
  BY <1>1, JobItems DEF ShapeOk, Early, Ended
<1>3. j.items[j.k] \in ItemSet
  BY <1>2, JobItems
<1>4. /\ e \in ItemSet /\ e.held /\ e.n = j.items[j.k].n /\ e.cl = j.items[j.k].cl
      /\ e.local = j.items[j.k].local /\ e.tgts = j.items[j.k].tgts
  BY <1>3 DEF ItemSet
<1>5. y = [j EXCEPT !.pc = "match", !.items = s, !.g0 = 0, !.cur = 0]
  BY DEF Job, Taken, Put
<1> HIDE DEF e
<1>6. /\ s \in Seq(ItemSet) /\ Len(s) = Len(j.items) /\ s[j.k] = e
      /\ \A i \in Entries(j) : i # j.k => s[i] = j.items[i]
  BY <1>2, <1>4, ItemPut
<1> HIDE DEF s
<1>7. /\ y.pc = "match" /\ y.items = s /\ y.k = j.k /\ y.g0 = 0 /\ y.cur = 0
      /\ y.fail = j.fail /\ y.amb = j.amb /\ y.answer = j.answer
  BY <1>5 DEF Job
<1>8. y \in Job /\ SameFrame(y, j)
  <2>1. Later(y, j)
    BY <1>5 DEF Job, Later
  <2>2. /\ y.pc \in Pcs /\ y.items \in Seq(ItemSet) /\ y.k \in Nat \ {0} /\ y.g0 \in Nat
        /\ y.cur \in Nat /\ y.fail \in BOOLEAN /\ y.amb \in BOOLEAN /\ y.answer \in Answers
    <3>1. /\ j.k \in Nat \ {0} /\ j.fail \in BOOLEAN /\ j.amb \in BOOLEAN
          /\ j.answer \in Answers
      BY JobFields
    <3> QED BY <1>6, <1>7, <3>1 DEF Pcs, Early
  <2> QED BY <2>1, <2>2, JobMade
<1>9. /\ Entries(y) = Entries(j)
      /\ \A i \in Entries(j) : /\ y.items[i].n = j.items[i].n
                               /\ y.items[i].cl = j.items[i].cl
                               /\ y.items[i].local = j.items[i].local
                               /\ y.items[i].tgts = j.items[i].tgts
                               /\ i # j.k => y.items[i].held = j.items[i].held
      /\ y.items[j.k].held
  BY <1>2, <1>4, <1>6, <1>7 DEF Entries
<1>10. \A k \in Entries(j) : k > j.k => k >= j.k /\ k # j.k
  BY <1>2, JobItems
<1>11. j.k >= j.k
  BY <1>2
<1>12. ShapeOk(y)
  BY <1>1, <1>6, <1>7, <1>8, <1>9, <1>2 DEF ShapeOk, SameFrame
<1>13. ReachOk(y)
  BY <1>1, <1>7, <1>9, <1>2 DEF ReachOk, Early, Ended, Reached, Sent
<1>14. HonestOk(y)
  <2>1. y.answer = "none"
    BY <1>1, <1>2, <1>7 DEF ReachOk
  <2>2. j.op \in Calls => 1 \in Entries(j)
    BY <1>1, <1>2 DEF ShapeOk, Calls, Ops
  <2> QED BY <1>1, <1>7, <1>8, <1>9, <2>1, <2>2 DEF HonestOk, SameFrame
<1>15. HeldOk(y)
  BY <1>1, <1>7, <1>9, <1>10 DEF HeldOk
<1>16. Weight(y) = Weight(j)
  <2>1. HeldItems(y) = HeldItems(j) \cup {j.k} /\ j.k \notin HeldItems(j)
    BY <1>1, <1>2, <1>9, <1>11 DEF HeldItems, HeldOk, Entries
  <2>2. Sizes(y) = Sizes(j)
    BY <1>9 DEF Sizes
  <2>3. /\ IsFiniteSet(HeldItems(y)) /\ Sized(Sizes(y), HeldItems(y))
        /\ \A k \in Entries(y) : Sizes(y)[k] = y.items[k].n /\ y.items[k].n \in Nat
    BY <1>8, <1>12, WeightType
  <2>4. HeldItems(y) \ {j.k} = HeldItems(j) /\ j.k \in HeldItems(y)
    BY <2>1
  <2>5. Total(Sizes(y), HeldItems(y)) = Sizes(y)[j.k] + Total(Sizes(y), HeldItems(j))
    <3>1. Total(Sizes(y), HeldItems(y))
            = Sizes(y)[j.k] + Total(Sizes(y), HeldItems(y) \ {j.k})
      BY <2>3, <2>4, TotalSplit
    <3> QED BY <2>4, <3>1
  <2>6. Sizes(y)[j.k] = EntrySize(j) /\ EntrySize(j) \in Nat
    BY <1>2, <1>9, <2>3 DEF EntrySize
  <2>7. Total(Sizes(j), HeldItems(j)) \in Nat
    BY <1>1, WeightType
  <2>8. Weight(j) = Total(Sizes(j), HeldItems(j)) + EntrySize(j)
    BY DEF Weight
  <2>9. Weight(y) = Total(Sizes(y), HeldItems(y)) + 0
    BY <1>7 DEF Weight
  <2> QED BY <2>2, <2>5, <2>6, <2>7, <2>8, <2>9
<1> QED BY <1>7, <1>8, <1>12, <1>13, <1>14, <1>15, <1>16 DEF JobOk

-----------------------------------------------------------------------------
(* Handlers whose item in hand changes.                                      *)

(* x is j with another item in hand of the same size.                        *)
Edited(x, j) ==
    /\ x \in Job /\ SameFrame(x, j)
    /\ x.pc = j.pc /\ x.k = j.k /\ x.g0 = j.g0 /\ x.cur = j.cur /\ x.fail = j.fail
    /\ x.answer = j.answer
    /\ Len(x.items) = Len(j.items) /\ Entries(x) = Entries(j)
    /\ \A i \in Entries(j) : x.items[i].n = j.items[i].n
    /\ \A i \in Entries(j) : i # j.k => x.items[i] = j.items[i]

Edit(j, e, amb) == [j EXCEPT !.items = Put(j, e), !.amb = amb]

(* Such a handler.                                                           *)
LEMMA EditMade ==
    ASSUME NEW j \in Job, j.k \in Entries(j), NEW e \in ItemSet, e.n = j.items[j.k].n,
           NEW amb \in BOOLEAN, NEW x, x = Edit(j, e, amb)
    PROVE  Edited(x, j) /\ x.items[j.k] = e /\ x.amb = amb
<1> DEFINE s == Put(j, e)
<1>1. /\ s \in Seq(ItemSet) /\ Len(s) = Len(j.items) /\ s[j.k] = e
      /\ \A i \in Entries(j) : i # j.k => s[i] = j.items[i]
  BY ItemPut
<1>2. x = [j EXCEPT !.items = s, !.amb = amb]
  BY DEF Edit
<1> HIDE DEF s
<1>3. /\ x.pc = j.pc /\ x.items = s /\ x.k = j.k /\ x.g0 = j.g0 /\ x.cur = j.cur
      /\ x.fail = j.fail /\ x.amb = amb /\ x.answer = j.answer
  BY <1>2 DEF Job
<1>4. Later(x, j)
  BY <1>2 DEF Job, Later
<1>5. x \in Job /\ SameFrame(x, j)
  <2>1. /\ x.pc \in Pcs /\ x.items \in Seq(ItemSet) /\ x.k \in Nat \ {0} /\ x.g0 \in Nat
        /\ x.cur \in Nat /\ x.fail \in BOOLEAN /\ x.amb \in BOOLEAN /\ x.answer \in Answers
    BY <1>1, <1>3, JobFields
  <2> QED BY <1>4, <2>1, JobMade
<1>6. Entries(x) = Entries(j)
  BY <1>1, <1>3 DEF Entries
<1>7. \A i \in Entries(j) : x.items[i].n = j.items[i].n
  BY <1>1, <1>3
<1> QED BY <1>1, <1>3, <1>5, <1>6, <1>7 DEF Edited

At(x, pc, k, fail) == [x EXCEPT !.pc = pc, !.k = k, !.fail = fail]

(* A handler that goes to another place or another item.                     *)
LEMMA AtMade ==
    ASSUME NEW x \in Job, NEW pc \in Pcs, NEW k \in Nat \ {0}, NEW fail \in BOOLEAN,
           NEW y, y = At(x, pc, k, fail)
    PROVE  /\ y \in Job /\ SameFrame(y, x) /\ y.items = x.items /\ y.pc = pc /\ y.k = k
           /\ y.g0 = x.g0 /\ y.cur = x.cur /\ y.amb = x.amb /\ y.answer = x.answer
           /\ y.fail = fail
           /\ Entries(y) = Entries(x) /\ HeldItems(y) = HeldItems(x)
<1>1. /\ y.pc = pc /\ y.items = x.items /\ y.k = k /\ y.g0 = x.g0 /\ y.cur = x.cur
      /\ y.fail = fail /\ y.amb = x.amb /\ y.answer = x.answer
  BY DEF Job, At
<1>2. Later(y, x)
  BY DEF Job, Later, At
<1>3. y \in Job /\ SameFrame(y, x)
  <2>1. /\ y.pc \in Pcs /\ y.items \in Seq(ItemSet) /\ y.k \in Nat \ {0} /\ y.g0 \in Nat
        /\ y.cur \in Nat /\ y.fail \in BOOLEAN /\ y.amb \in BOOLEAN /\ y.answer \in Answers
    BY <1>1, JobFields
  <2> QED BY <1>2, <2>1, JobMade
<1>4. Entries(y) = Entries(x) /\ HeldItems(y) = HeldItems(x)
  BY <1>1 DEF Entries, HeldItems
<1> QED BY <1>1, <1>3, <1>4

(* A drop that is about to swap.                                             *)
LEMMA DebitOk ==
    ASSUME NEW j \in Job, JobOk(j), NEW y \in Job, SameFrame(y, j),
           y.items = j.items, y.k = j.k, y.amb = j.amb, y.answer = j.answer,
           j.pc \in {"drop", "debit"}, y.pc = "debit"
    PROVE  JobOk(y) /\ Weight(y) = Weight(j)
<1>1. ShapeOk(j) /\ ReachOk(j) /\ HonestOk(j) /\ HeldOk(j)
  BY DEF JobOk
<1>2. Entries(y) = Entries(j) /\ HeldItems(y) = HeldItems(j)
  BY DEF Entries, HeldItems
<1>3. ShapeOk(y)
  BY <1>1, <1>2 DEF ShapeOk, SameFrame
<1>4. ReachOk(y)
  BY DEF ReachOk, Early, Ended
<1>5. HonestOk(y)
  BY <1>1 DEF HonestOk, SameFrame, AnyReached
<1>6. HeldOk(y)
  BY <1>1 DEF HeldOk
<1>7. Weight(y) = Weight(j)
  BY <1>2, SameWeight
<1> QED BY <1>3, <1>4, <1>5, <1>6, <1>7 DEF JobOk

Released(j) == [j EXCEPT !.items[j.k].held = FALSE]

(* A drop that is done.                                                      *)
LEMMA DroppedOk ==
    ASSUME NEW j \in Job, JobOk(j), j.pc \in {"drop", "debit"}, NEW y, y = Dropped(j)
    PROVE  /\ y \in Job /\ JobOk(y) /\ SameFrame(y, j) /\ ~Bound(y)
           /\ y.g0 = 0 /\ y.pc \in {"drop", "done"}
           /\ EntrySize(j) \in Nat /\ Weight(y) \in Nat
           /\ Weight(j) = EntrySize(j) + Weight(y)
<1> DEFINE e == [j.items[j.k] EXCEPT !.held = FALSE]
           x == Released(j)
<1>1. ShapeOk(j) /\ ReachOk(j) /\ HonestOk(j) /\ HeldOk(j)
  BY DEF JobOk
<1>2. /\ j.k \in Entries(j) /\ j.op # "none" /\ j.items[j.k].held
      /\ j.amb \in BOOLEAN /\ j.answer \in Answers /\ j.op \in Ops \cup {"none"}
  BY <1>1, JobFields DEF ShapeOk, HeldOk
<1>3. j.items[j.k] \in ItemSet
  BY <1>2, JobItems
<1>4. /\ e \in ItemSet /\ ~e.held /\ e.n = j.items[j.k].n /\ e.cl = j.items[j.k].cl
      /\ e.local = j.items[j.k].local
  BY <1>3 DEF ItemSet
<1>5. x = Edit(j, e, j.amb)
  BY DEF Job, Released, Edit, Put
<1> HIDE DEF e
<1>6. Edited(x, j) /\ x.items[j.k] = e /\ x.amb = j.amb
  BY <1>2, <1>4, <1>5, EditMade
<1>7. y = Finished(x, j.answer)
  BY DEF Dropped, Released
<1> HIDE DEF x
<1>8. /\ x \in Job /\ x.op = j.op /\ x.id = j.id /\ Len(x.items) = Len(j.items)
      /\ Entries(x) = Entries(j) /\ x.pc = j.pc /\ x.k = j.k
  BY <1>6 DEF Edited, SameFrame
<1>9. FrameOk(x)
  BY <1>1, <1>2, <1>8 DEF FrameOk, ShapeOk
<1>10. \A i \in Entries(j) : x.items[i].cl = j.items[i].cl /\ x.items[i].local = j.items[i].local
  BY <1>4, <1>6 DEF Edited
<1>11. AnyReached(x) <=> AnyReached(j)
  BY <1>8, <1>10 DEF AnyReached, Reached, Sent, Entries
<1>12. j.op \in Calls => 1 \in Entries(j)
  BY <1>1, <1>2 DEF ShapeOk, Calls, Ops
<1>13. AnswerOk(x, j.answer)
  BY <1>1, <1>6, <1>8, <1>10, <1>11, <1>12 DEF AnswerOk, HonestOk
<1>14. /\ y \in Job /\ JobOk(y) /\ SameFrame(y, x) /\ ~Bound(y)
       /\ y.g0 = 0 /\ y.pc \in {"drop", "done"}
       /\ Weight(y) = Total(Sizes(x), HeldItems(x))
  BY <1>2, <1>7, <1>8, <1>9, <1>13, FinishedOk
<1>15. SameFrame(y, j)
  BY <1>6, <1>14 DEF Edited, SameFrame
<1>16. HeldItems(x) = HeldItems(j) \ {j.k} /\ j.k \in HeldItems(j)
  BY <1>2, <1>4, <1>6, <1>8 DEF Edited, HeldItems, Entries
<1>17. Sizes(x) = Sizes(j)
  BY <1>6 DEF Edited, Sizes
<1>18. /\ IsFiniteSet(HeldItems(j)) /\ Sized(Sizes(j), HeldItems(j))
       /\ Sizes(j)[j.k] = EntrySize(j) /\ EntrySize(j) \in Nat
  BY <1>1, <1>2, WeightType DEF EntrySize
<1>19. Total(Sizes(j), HeldItems(j)) = Sizes(j)[j.k] + Total(Sizes(j), HeldItems(j) \ {j.k})
  BY <1>16, <1>18, TotalSplit
<1>20. Weight(y) \in Nat
  BY <1>14, WeightType DEF JobOk
<1>21. Weight(j) = EntrySize(j) + Weight(y)
  <2>1. Weight(j) = Total(Sizes(j), HeldItems(j)) + 0
    BY DEF Weight
  <2>2. Total(Sizes(j), HeldItems(j)) = EntrySize(j) + Weight(y)
    BY <1>14, <1>16, <1>17, <1>18, <1>19
  <2> QED BY <1>18, <1>20, <2>1, <2>2
<1> QED BY <1>14, <1>15, <1>18, <1>20, <1>21

-----------------------------------------------------------------------------
(* Steps outside the loops on the counter.                                   *)

(* The handler goes on without touching the budget.                          *)
Quiet(y, j) ==
    /\ y \in Job /\ JobOk(y) /\ SameFrame(y, j) /\ y.pc \notin Swaps
    /\ y.g0 \in {0, j.g0} /\ Weight(y) = Weight(j)
    /\ Bound(y) => Bound(j)

(* What every handler at work knows.                                         *)
LEMMA AtWork ==
    ASSUME NEW j \in Job, JobOk(j), j.pc \notin {"idle", "done"}
    PROVE  /\ FrameOk(j) /\ j.k \in Entries(j) /\ 1 \in Entries(j)
           /\ j.op \in Ops \ {"batch"} => Len(j.items) = 1 /\ j.k = 1
           /\ j.items[j.k] \in ItemSet
           /\ \A ans \in Answers \ {"ok", "failed"} : AnswerOk(j, ans)
<1>1. ShapeOk(j) /\ HonestOk(j)
  BY DEF JobOk
<1>2. j.op \in Ops \cup {"none"} /\ Len(j.items) \in Nat
  BY JobFields, JobItems
<1>3. FrameOk(j)
  BY <1>1, <1>2 DEF ShapeOk, FrameOk
<1>4. j.k \in Entries(j) /\ j.items[j.k] \in ItemSet
  BY <1>1, JobItems DEF ShapeOk
<1>5. 1 \in Entries(j)
  BY <1>2, <1>3 DEF FrameOk, Entries
<1>6. \A ans \in Answers \ {"ok", "failed"} : AnswerOk(j, ans)
  BY <1>1 DEF AnswerOk, HonestOk
<1>7. j.op \in Ops \ {"batch"} => Len(j.items) = 1 /\ j.k = 1
  BY <1>1 DEF ShapeOk
<1> QED BY <1>3, <1>4, <1>5, <1>6, <1>7

(* The end of a handler at work.                                             *)
LEMMA FinishQuiet ==
    ASSUME NEW j \in Job, JobOk(j), j.pc \notin {"idle", "done", "recheck", "undo"},
           NEW x \in Job, SameFrame(x, j), Len(x.items) = Len(j.items),
           HeldItems(x) = HeldItems(j), \A k \in Entries(j) : x.items[k].n = j.items[k].n,
           NEW ans \in Answers, AnswerOk(x, ans), NEW y, y = Finished(x, ans)
    PROVE  Quiet(y, j)
<1>1. FrameOk(x)
  BY AtWork DEF FrameOk, SameFrame
<1>2. /\ y \in Job /\ JobOk(y) /\ SameFrame(y, x) /\ ~Bound(y)
      /\ y.g0 = 0 /\ y.pc \in {"drop", "done"}
      /\ Weight(y) = Total(Sizes(x), HeldItems(x))
  BY <1>1, FinishedOk
<1>3. Entries(x) = Entries(j)
  BY DEF Entries
<1>4. Total(Sizes(x), HeldItems(x)) = Total(Sizes(j), HeldItems(j))
  BY <1>3, SameWeight
<1>5. Weight(j) = Total(Sizes(j), HeldItems(j))
  <2>1. Total(Sizes(j), HeldItems(j)) \in Nat
    BY WeightType DEF JobOk
  <2> QED BY <2>1 DEF Weight
<1>6. SameFrame(y, j)
  BY <1>2 DEF SameFrame
<1> QED BY <1>2, <1>4, <1>5, <1>6 DEF Quiet, Swaps

(* The end of a handler at work as it is.                                    *)
LEMMA StopQuiet ==
    ASSUME NEW j \in Job, JobOk(j), j.pc \notin {"idle", "done", "recheck", "undo"},
           NEW ans \in Answers, AnswerOk(j, ans), NEW y, y = Finished(j, ans)
    PROVE  Quiet(y, j)
  BY FinishQuiet DEF SameFrame

(* A change of the item in hand that leaves it held or not, and a move.      *)
LEMMA EditWeight ==
    ASSUME NEW j \in Job, JobOk(j), j.pc \notin {"idle", "done", "recheck", "undo"},
           NEW x, Edited(x, j), x.items[j.k].held = j.items[j.k].held
    PROVE  /\ x \in Job /\ SameFrame(x, j) /\ Len(x.items) = Len(j.items)
           /\ Entries(x) = Entries(j)
           /\ \A k \in Entries(j) : x.items[k].n = j.items[k].n
           /\ HeldItems(x) = HeldItems(j)
           /\ \A y : y.items = x.items /\ y.pc \notin {"recheck", "undo"}
                       => Weight(y) = Weight(j)
<1>1. /\ x \in Job /\ SameFrame(x, j) /\ Len(x.items) = Len(j.items)
      /\ Entries(x) = Entries(j)
      /\ \A k \in Entries(j) : x.items[k].n = j.items[k].n
      /\ \A k \in Entries(j) : k # j.k => x.items[k] = j.items[k]
  BY DEF Edited
<1>2. HeldItems(x) = HeldItems(j)
  BY <1>1 DEF HeldItems, Entries
<1>3. ASSUME NEW y, y.items = x.items, y.pc \notin {"recheck", "undo"}
      PROVE  Weight(y) = Weight(j)
  <2>1. Entries(y) = Entries(j) /\ HeldItems(y) = HeldItems(j)
    BY <1>1, <1>2, <1>3 DEF Entries, HeldItems
  <2>2. \A k \in Entries(j) : y.items[k].n = j.items[k].n
    BY <1>1, <1>3
  <2> QED BY <1>3, <2>1, <2>2, SameWeight
<1> QED BY <1>1, <1>2, <1>3

WithTgts(j, t) == [j EXCEPT !.items[j.k].tgts = t]

(* The targets of an item are found.                                         *)
LEMMA MatchOk ==
    ASSUME NEW j \in Job, JobOk(j), j.pc = "match", NEW t \in {"none", "few", "many"},
           NEW y, y = IF j.k < Len(j.items) THEN At(WithTgts(j, t), "load", j.k + 1, j.fail)
                                            ELSE At(WithTgts(j, t), "forward", 1, j.fail)
    PROVE  Quiet(y, j)
<1> DEFINE e == [j.items[j.k] EXCEPT !.tgts = t]
           x == WithTgts(j, t)
           pc == IF j.k < Len(j.items) THEN "load" ELSE "forward"
           k == IF j.k < Len(j.items) THEN j.k + 1 ELSE 1
<1>1. ShapeOk(j) /\ ReachOk(j) /\ HonestOk(j) /\ HeldOk(j)
  BY DEF JobOk
<1>2. /\ j.k \in Entries(j) /\ j.op # "none" /\ j.amb \in BOOLEAN /\ j.fail \in BOOLEAN
      /\ j.op \in Ops \cup {"none"} /\ j.k \in Nat \ {0} /\ Len(j.items) \in Nat
  BY <1>1, JobFields, JobItems DEF ShapeOk
<1>3. j.items[j.k] \in ItemSet
  BY <1>2, JobItems
<1>4. /\ e \in ItemSet /\ e.n = j.items[j.k].n /\ e.cl = j.items[j.k].cl
      /\ e.local = j.items[j.k].local /\ e.held = j.items[j.k].held
  BY <1>3 DEF ItemSet
<1>5. x = Edit(j, e, j.amb)
  BY DEF Job, WithTgts, Edit, Put
<1> HIDE DEF e
<1>6. Edited(x, j) /\ x.items[j.k] = e /\ x.amb = j.amb
  BY <1>2, <1>4, <1>5, EditMade
<1>7. y = At(x, pc, k, j.fail)
  OBVIOUS
<1>8. pc \in Pcs /\ k \in Nat \ {0}
  BY <1>2 DEF Pcs, Early
<1>9. /\ k \in Entries(j) /\ pc \in {"load", "forward"}
      /\ Len(j.items) = 1 => k = 1
      /\ pc = "load" => \A i \in Entries(j) : i >= k => i > j.k
      /\ pc = "load" => j.op = "batch"
  <2>1. ASSUME j.op \in Ops \ {"batch"} PROVE ~(j.k < Len(j.items))
    <3>1. Len(j.items) = 1 /\ j.k = 1
      BY <2>1, AtWork
    <3>2. ~(1 < 1)
      OBVIOUS
    <3> QED BY <3>1, <3>2, Zenon
  <2> QED BY <1>1, <1>2, <2>1, JobItems DEF Entries
<1> HIDE DEF x, pc, k
<1>10. /\ x \in Job /\ SameFrame(x, j) /\ Len(x.items) = Len(j.items)
       /\ Entries(x) = Entries(j) /\ x.g0 = j.g0 /\ x.answer = j.answer
       /\ \A i \in Entries(j) : x.items[i].cl = j.items[i].cl
                               /\ x.items[i].local = j.items[i].local
                               /\ x.items[i].held = j.items[i].held
  BY <1>4, <1>6 DEF Edited
<1>11. /\ y \in Job /\ SameFrame(y, x) /\ y.items = x.items /\ y.pc = pc /\ y.k = k
       /\ y.g0 = x.g0 /\ y.amb = x.amb /\ y.answer = x.answer
       /\ Entries(y) = Entries(x)
  BY <1>2, <1>7, <1>8, <1>10, AtMade
<1>12. SameFrame(y, j)
  BY <1>10, <1>11 DEF SameFrame
<1>13. ShapeOk(y)
  BY <1>1, <1>2, <1>9, <1>10, <1>11, <1>12 DEF ShapeOk, SameFrame
<1>14. ReachOk(y)
  BY <1>1, <1>6, <1>9, <1>10, <1>11 DEF ReachOk, Early, Ended, Reached, Sent
<1>15. HonestOk(y)
  <2>1. y.answer = "none"
    BY <1>1, <1>10, <1>11 DEF ReachOk, Ended
  <2>2. j.op \in Calls => 1 \in Entries(j)
    BY <1>1, <1>2 DEF ShapeOk, Calls, Ops, Entries
  <2>3. j.op \in Calls => y.items[1].cl = "no"
    BY <1>1, <1>10, <1>11, <2>2 DEF ReachOk, Early
  <2> QED BY <1>12, <2>1, <2>3 DEF HonestOk, SameFrame
<1>16. HeldOk(y)
  BY <1>1, <1>9, <1>10, <1>11 DEF HeldOk
<1>17. Weight(y) = Weight(j)
  BY <1>4, <1>6, <1>9, <1>11, EditWeight
<1>18. Bound(y) => Bound(j)
  BY <1>12 DEF Bound, SameFrame, Early
<1> QED BY <1>9, <1>10, <1>11, <1>12, <1>13, <1>14, <1>15, <1>16, <1>17, <1>18
        DEF Quiet, JobOk, Swaps

WithCl(j, r) == [j EXCEPT !.items[j.k].cl = r]

(* An item whose forward ended with r.                                       *)
LEMMA ClMade ==
    ASSUME NEW j \in Job, j.k \in Entries(j), NEW r \in Reaches, NEW x, x = WithCl(j, r)
    PROVE  /\ Edited(x, j) /\ x.amb = j.amb /\ x.items[j.k].cl = r
           /\ \A i \in Entries(j) : x.items[i].tgts = j.items[i].tgts
                                   /\ x.items[i].local = j.items[i].local
                                   /\ x.items[i].held = j.items[i].held
<1> DEFINE e == [j.items[j.k] EXCEPT !.cl = r]
<1>1. j.items[j.k] \in ItemSet
  BY JobItems
<1>2. /\ e \in ItemSet /\ e.n = j.items[j.k].n /\ e.cl = r
      /\ e.local = j.items[j.k].local /\ e.held = j.items[j.k].held
      /\ e.tgts = j.items[j.k].tgts
  BY <1>1 DEF ItemSet
<1>3. x = Edit(j, e, j.amb)
  BY DEF Job, WithCl, Edit, Put
<1>4. j.amb \in BOOLEAN
  BY JobFields
<1> HIDE DEF e
<1>5. Edited(x, j) /\ x.items[j.k] = e /\ x.amb = j.amb
  BY <1>2, <1>3, <1>4, EditMade
<1> QED BY <1>2, <1>5 DEF Edited

(* A PUBLISH or BATCH that goes on from the forward.                         *)
LEMMA ForwardOk ==
    ASSUME NEW j \in Job, JobOk(j), j.pc = "forward", j.op \notin Calls,
           NEW r \in Reaches, NEW pc \in {"forward", "local"}, NEW k \in Entries(j),
           pc = "forward" => k > j.k, NEW fail \in BOOLEAN,
           NEW y, y = At(WithCl(j, r), pc, k, fail)
    PROVE  Quiet(y, j)
<1> DEFINE x == WithCl(j, r)
<1>1. ShapeOk(j) /\ ReachOk(j) /\ HonestOk(j) /\ HeldOk(j)
  BY DEF JobOk
<1>2. j.k \in Entries(j) /\ j.op # "none" /\ k \in Nat \ {0} /\ pc \in Pcs /\ j.k \in Nat
  BY <1>1, JobItems DEF ShapeOk, Pcs
<1>3. /\ Edited(x, j) /\ x.amb = j.amb /\ x.items[j.k].cl = r
      /\ \A i \in Entries(j) : x.items[i].tgts = j.items[i].tgts
                               /\ x.items[i].local = j.items[i].local
                               /\ x.items[i].held = j.items[i].held
  BY <1>2, ClMade
<1> HIDE DEF x
<1>4. /\ x \in Job /\ SameFrame(x, j) /\ Len(x.items) = Len(j.items)
      /\ Entries(x) = Entries(j) /\ x.g0 = j.g0 /\ x.answer = j.answer
      /\ \A i \in Entries(j) : i # j.k => x.items[i] = j.items[i]
  BY <1>3 DEF Edited
<1>5. /\ y \in Job /\ SameFrame(y, x) /\ y.items = x.items /\ y.pc = pc /\ y.k = k
      /\ y.g0 = x.g0 /\ y.amb = x.amb /\ y.answer = x.answer
      /\ Entries(y) = Entries(x)
  BY <1>2, <1>4, AtMade DEF x
<1>6. SameFrame(y, j)
  BY <1>4, <1>5 DEF SameFrame
<1>7. Len(j.items) = 1 => k = 1
  BY DEF Entries
<1>8. ShapeOk(y)
  BY <1>1, <1>2, <1>4, <1>5, <1>6, <1>7 DEF ShapeOk, SameFrame
<1>9. ReachOk(y)
  <2>1. \A i \in Entries(j) : pc = "forward" /\ i >= k => i # j.k /\ i >= j.k
    BY <1>2, JobItems
  <2>2. pc = "forward" => \A i \in Entries(j) : i >= k => x.items[i].cl = "no"
    BY <1>1, <1>4, <2>1 DEF ReachOk
  <2>3. \A i \in Entries(j) : ~x.items[i].local
    BY <1>1, <1>3 DEF ReachOk
  <2>4. ~j.amb /\ j.answer = "none"
    BY <1>1 DEF ReachOk, Early, Ended
  <2> QED BY <1>3, <1>4, <1>5, <1>6, <2>2, <2>3, <2>4 DEF ReachOk, Early, Ended, SameFrame
<1>10. HonestOk(y)
  BY <1>1, <1>4, <1>5, <1>6 DEF HonestOk, ReachOk, SameFrame, Ended
<1>11. HeldOk(y)
  BY <1>5 DEF HeldOk
<1>12. Weight(y) = Weight(j)
  BY <1>2, <1>3, <1>5, EditWeight
<1>13. Bound(y) => Bound(j)
  BY <1>6 DEF Bound, SameFrame, Early
<1> QED BY <1>4, <1>5, <1>6, <1>8, <1>9, <1>10, <1>11, <1>12, <1>13 DEF Quiet, JobOk, Swaps

(* A PUBLISH that ends there.                                                *)
LEMMA ForwardEnds ==
    ASSUME NEW j \in Job, JobOk(j), j.pc = "forward", j.op = "publish",
           NEW r \in Reaches, NEW ans \in {"ok", "failed"}, ans = "failed" => r # "sent",
           NEW y, y = Finished(WithCl(j, r), ans)
    PROVE  Quiet(y, j) /\ ~Bound(y)
<1> DEFINE x == WithCl(j, r)
<1>1. ReachOk(j) /\ ans \in Answers
  BY DEF JobOk, Answers
<1>2. j.k \in Entries(j) /\ Len(j.items) = 1 /\ j.k = 1
  BY AtWork DEF Ops
<1>3. /\ Edited(x, j) /\ x.items[j.k].cl = r
      /\ \A i \in Entries(j) : x.items[i].local = j.items[i].local
                               /\ x.items[i].held = j.items[i].held
  BY <1>2, ClMade
<1> HIDE DEF x
<1>4. /\ x \in Job /\ SameFrame(x, j) /\ Len(x.items) = Len(j.items)
      /\ HeldItems(x) = HeldItems(j) /\ \A k \in Entries(j) : x.items[k].n = j.items[k].n
  BY <1>2, <1>3, EditWeight
<1>5. AnswerOk(x, ans)
  <2>1. Entries(j) = {1} /\ \A i \in 1 .. Len(x.items) : i = 1
    BY <1>2, <1>4 DEF Entries
  <2>2. ~x.items[1].local
    BY <1>1, <1>3, <2>1 DEF ReachOk
  <2> QED BY <1>2, <1>3, <1>4, <2>1, <2>2
          DEF AnswerOk, AnyReached, Reached, Sent, SameFrame, Calls
<1>6. y = Finished(x, ans)
  BY DEF x
<1>7. Quiet(y, j)
  BY <1>1, <1>4, <1>5, <1>6, FinishQuiet
<1>8. y.pc \in {"drop", "done"}
  <2>1. FrameOk(x)
    BY <1>4, AtWork DEF FrameOk, SameFrame
  <2> QED BY <1>1, <1>4, <1>5, <1>6, <2>1, FinishedOk
<1> QED BY <1>7, <1>8 DEF Bound, Early

(* A REQUEST or RESPONSE that goes on from the forward.                      *)
LEMMA ForwardCallOk ==
    ASSUME NEW j \in Job, JobOk(j), j.pc = "forward", j.op \in Calls,
           NEW r \in Reaches, ~NoLocal(WithCl(j, r)) => r = "no",
           NEW pc, pc = IF NoLocal(WithCl(j, r)) THEN "reply" ELSE "local",
           NEW y, y = At(WithCl(j, r), pc, j.k, j.fail)
    PROVE  Quiet(y, j)
<1> DEFINE x == WithCl(j, r)
           k == j.k
<1>1. ShapeOk(j) /\ ReachOk(j) /\ HonestOk(j) /\ HeldOk(j)
  BY DEF JobOk
<1>2. /\ j.k \in Entries(j) /\ j.op # "none" /\ k \in Nat \ {0} /\ pc \in Pcs
      /\ pc \in {"reply", "local"} /\ k = 1 /\ j.k = 1 /\ Len(j.items) = 1
      /\ j.fail \in BOOLEAN
  BY AtWork, JobFields DEF Pcs, Calls, Ops
<1>3. /\ Edited(x, j) /\ x.amb = j.amb /\ x.items[j.k].cl = r
      /\ \A i \in Entries(j) : x.items[i].tgts = j.items[i].tgts
                               /\ x.items[i].local = j.items[i].local
                               /\ x.items[i].held = j.items[i].held
  BY <1>2, ClMade
<1>4. (NoLocal(x) => pc = "reply") /\ (~NoLocal(x) => pc = "local" /\ r = "no")
  OBVIOUS
<1>5. y = At(x, pc, k, j.fail)
  OBVIOUS
<1> HIDE DEF x, k
<1>6. /\ x \in Job /\ SameFrame(x, j) /\ Len(x.items) = Len(j.items)
      /\ Entries(x) = Entries(j) /\ x.g0 = j.g0 /\ x.answer = j.answer
  BY <1>3 DEF Edited
<1>7. /\ y \in Job /\ SameFrame(y, x) /\ y.items = x.items /\ y.pc = pc /\ y.k = k
      /\ y.g0 = x.g0 /\ y.amb = x.amb /\ y.answer = x.answer
      /\ Entries(y) = Entries(x)
  BY <1>2, <1>5, <1>6, AtMade
<1>8. SameFrame(y, j)
  BY <1>6, <1>7 DEF SameFrame
<1>9. ShapeOk(y)
  BY <1>1, <1>2, <1>6, <1>7, <1>8 DEF ShapeOk, SameFrame
<1>10. ~x.items[1].local /\ ~j.amb /\ j.answer = "none" /\ x.items[1].cl = r
  BY <1>1, <1>2, <1>3 DEF ReachOk, Early, Ended
<1>11. NoLocal(y) <=> NoLocal(x)
  BY <1>7 DEF NoLocal
<1>12. ReachOk(y)
  BY <1>2, <1>3, <1>4, <1>6, <1>7, <1>10, <1>11 DEF ReachOk, Early, Ended
<1>13. HonestOk(y)
  BY <1>3, <1>6, <1>7, <1>10 DEF HonestOk
<1>14. HeldOk(y)
  BY <1>2, <1>7 DEF HeldOk
<1>15. Weight(y) = Weight(j)
  BY <1>2, <1>3, <1>7, EditWeight
<1>16. ~Bound(y)
  BY <1>2, <1>7 DEF Bound, Early
<1> QED BY <1>2, <1>6, <1>7, <1>8, <1>9, <1>12, <1>13, <1>14, <1>15, <1>16
        DEF Quiet, JobOk, Swaps

WithLocal(j, got, amb) == [j EXCEPT !.items[j.k].local = got, !.amb = amb]

(* An item whose local delivery ended.                                       *)
LEMMA LocalMade ==
    ASSUME NEW j \in Job, j.k \in Entries(j), NEW got \in BOOLEAN, NEW amb \in BOOLEAN,
           NEW x, x = WithLocal(j, got, amb)
    PROVE  /\ Edited(x, j) /\ x.amb = amb /\ x.items[j.k].local = got
           /\ \A i \in Entries(j) : x.items[i].tgts = j.items[i].tgts
                                   /\ x.items[i].cl = j.items[i].cl
                                   /\ x.items[i].held = j.items[i].held
<1> DEFINE e == [j.items[j.k] EXCEPT !.local = got]
<1>1. j.items[j.k] \in ItemSet
  BY JobItems
<1>2. /\ e \in ItemSet /\ e.n = j.items[j.k].n /\ e.cl = j.items[j.k].cl
      /\ e.local = got /\ e.held = j.items[j.k].held
      /\ e.tgts = j.items[j.k].tgts
  BY <1>1 DEF ItemSet
<1>3. x = Edit(j, e, amb)
  BY DEF Job, WithLocal, Edit, Put
<1> HIDE DEF e
<1>4. Edited(x, j) /\ x.items[j.k] = e /\ x.amb = amb
  BY <1>2, <1>3, EditMade
<1> QED BY <1>2, <1>4 DEF Edited

(* A delivery of an item of a BATCH, of others to come.                      *)
LEMMA LocalNext ==
    ASSUME NEW j \in Job, JobOk(j), j.pc = "local", j.op = "batch",
           NEW got \in BOOLEAN, NEW amb \in BOOLEAN, ~amb,
           NEW fail \in BOOLEAN, j.k < Len(j.items),
           NEW y, y = At(WithLocal(j, got, amb), j.pc, j.k + 1, fail)
    PROVE  Quiet(y, j)
<1> DEFINE x == WithLocal(j, got, amb)
           k == j.k + 1
<1>1. ShapeOk(j) /\ ReachOk(j) /\ HonestOk(j) /\ HeldOk(j)
  BY DEF JobOk
<1>2. j.k \in Entries(j) /\ j.k \in Nat /\ Len(j.items) \in Nat
  BY AtWork, JobItems
<1>3. k \in Entries(j) /\ k \in Nat \ {0} /\ j.pc \in Pcs
  BY <1>2 DEF Entries, Pcs
<1>4. /\ Edited(x, j) /\ x.amb = amb
      /\ \A i \in Entries(j) : x.items[i].held = j.items[i].held
  BY <1>2, LocalMade
<1>5. y = At(x, j.pc, k, fail)
  OBVIOUS
<1> HIDE DEF x, k
<1>6. /\ x \in Job /\ SameFrame(x, j) /\ Len(x.items) = Len(j.items)
      /\ Entries(x) = Entries(j) /\ x.g0 = j.g0 /\ x.answer = j.answer
  BY <1>4 DEF Edited
<1>7. /\ y \in Job /\ SameFrame(y, x) /\ y.items = x.items /\ y.pc = j.pc /\ y.k = k
      /\ y.g0 = x.g0 /\ y.amb = x.amb /\ y.answer = x.answer
      /\ Entries(y) = Entries(x)
  BY <1>3, <1>5, <1>6, AtMade
<1>8. SameFrame(y, j)
  BY <1>6, <1>7 DEF SameFrame
<1>9. ShapeOk(y)
  BY <1>1, <1>3, <1>6, <1>7, <1>8 DEF ShapeOk, SameFrame
<1>10. j.answer = "none" /\ y.op = "batch"
  BY <1>1, <1>8 DEF ReachOk, Ended, SameFrame
<1>11. ReachOk(y)
  BY <1>4, <1>6, <1>7, <1>10 DEF ReachOk, Early, Ended, Calls
<1>12. HonestOk(y)
  BY <1>6, <1>7, <1>10 DEF HonestOk, Calls
<1>13. HeldOk(y)
  BY <1>7 DEF HeldOk
<1>14. Weight(y) = Weight(j)
  BY <1>2, <1>4, <1>7, EditWeight
<1>15. ~Bound(y)
  BY <1>7 DEF Bound, Early
<1> QED BY <1>6, <1>7, <1>8, <1>9, <1>11, <1>12, <1>13, <1>14, <1>15
        DEF Quiet, JobOk, Swaps

(* A delivery after which a PUBLISH or BATCH answers.                        *)
LEMMA LocalEnds ==
    ASSUME NEW j \in Job, JobOk(j), j.pc = "local", j.op \notin Calls,
           NEW got \in BOOLEAN, NEW amb \in BOOLEAN, NEW fail \in BOOLEAN,
           NEW ans \in {"ok", "failed"},
           NEW x, x = At(WithLocal(j, got, amb), j.pc, j.k, fail),
           ans = "failed" => ~AnyReached(x), NEW y, y = Finished(x, ans)
    PROVE  Quiet(y, j)
<1> DEFINE w == WithLocal(j, got, amb)
           k == j.k
<1>1. j.k \in Entries(j) /\ k \in Nat \ {0} /\ j.pc \in Pcs /\ ans \in Answers
  BY AtWork, JobItems, JobFields DEF Answers
<1>2. /\ Edited(w, j)
      /\ \A i \in Entries(j) : w.items[i].held = j.items[i].held
  BY <1>1, LocalMade
<1>3. x = At(w, j.pc, k, fail)
  OBVIOUS
<1> HIDE DEF w, k
<1>4. /\ w \in Job /\ SameFrame(w, j) /\ Len(w.items) = Len(j.items)
      /\ HeldItems(w) = HeldItems(j) /\ \A i \in Entries(j) : w.items[i].n = j.items[i].n
  BY <1>1, <1>2, EditWeight
<1>5. x \in Job /\ SameFrame(x, w) /\ x.items = w.items /\ HeldItems(x) = HeldItems(w)
  BY <1>1, <1>3, <1>4, AtMade
<1>6. SameFrame(x, j)
  BY <1>4, <1>5 DEF SameFrame
<1>7. AnswerOk(x, ans)
  BY <1>6 DEF AnswerOk, SameFrame
<1> QED BY <1>1, <1>4, <1>5, <1>6, <1>7, FinishQuiet

(* A delivery of a REQUEST or RESPONSE.                                      *)
LEMMA LocalCallOk ==
    ASSUME NEW j \in Job, JobOk(j), j.pc = "local", j.op \in Calls,
           NEW got \in BOOLEAN, NEW amb \in BOOLEAN, got => j.items[j.k].tgts # "none",
           NEW pc, pc = "reply",
           NEW y, y = At(WithLocal(j, got, amb), pc, j.k, j.fail)
    PROVE  Quiet(y, j)
<1> DEFINE x == WithLocal(j, got, amb)
           k == j.k
<1>1. ShapeOk(j) /\ ReachOk(j) /\ HonestOk(j) /\ HeldOk(j)
  BY DEF JobOk
<1>2. /\ j.k \in Entries(j) /\ j.op # "none" /\ k \in Nat \ {0} /\ pc \in Pcs
      /\ k = 1 /\ j.k = 1 /\ Len(j.items) = 1 /\ j.fail \in BOOLEAN
  BY AtWork, JobFields DEF Pcs, Calls, Ops
<1>3. /\ Edited(x, j) /\ x.amb = amb /\ x.items[j.k].local = got
      /\ \A i \in Entries(j) : x.items[i].tgts = j.items[i].tgts
                               /\ x.items[i].cl = j.items[i].cl
                               /\ x.items[i].held = j.items[i].held
  BY <1>2, LocalMade
<1>4. y = At(x, pc, k, j.fail)
  OBVIOUS
<1> HIDE DEF x, k
<1>5. /\ x \in Job /\ SameFrame(x, j) /\ Len(x.items) = Len(j.items)
      /\ Entries(x) = Entries(j) /\ x.g0 = j.g0 /\ x.answer = j.answer
  BY <1>3 DEF Edited
<1>6. /\ y \in Job /\ SameFrame(y, x) /\ y.items = x.items /\ y.pc = pc /\ y.k = k
      /\ y.g0 = x.g0 /\ y.amb = x.amb /\ y.answer = x.answer
      /\ Entries(y) = Entries(x)
  BY <1>2, <1>4, <1>5, AtMade
<1>7. SameFrame(y, j)
  BY <1>5, <1>6 DEF SameFrame
<1>8. ShapeOk(y)
  BY <1>1, <1>2, <1>5, <1>6, <1>7 DEF ShapeOk, SameFrame
<1>9. j.answer = "none" /\ x.items[1].cl = "no" /\ ~NoLocal(j)
  BY <1>1, <1>2, <1>3 DEF ReachOk, Ended
<1>10. ~NoLocal(y)
  BY <1>3, <1>5, <1>6, <1>9 DEF NoLocal, Entries
<1>11. ReachOk(y)
  BY <1>5, <1>6, <1>9, <1>10 DEF ReachOk, Early, Ended
<1>12. HonestOk(y)
  BY <1>5, <1>6, <1>9 DEF HonestOk
<1>13. HeldOk(y)
  BY <1>6 DEF HeldOk
<1>14. Weight(y) = Weight(j)
  BY <1>2, <1>3, <1>6, EditWeight
<1>15. ~Bound(y)
  BY <1>6 DEF Bound, Early
<1> QED BY <1>5, <1>6, <1>7, <1>8, <1>11, <1>12, <1>13, <1>14, <1>15
        DEF Quiet, JobOk, Swaps

(* The answer of a REQUEST or RESPONSE.                                      *)
LEMMA ReplyOk ==
    ASSUME NEW j \in Job, JobOk(j), j.pc = "reply", NEW r \in Reaches,
           r # "no" => ~j.items[1].local /\ ~j.amb,
           NEW y, y = Finished(WithCl(j, r), PublishAnswer(WithCl(j, r)))
    PROVE  Quiet(y, j)
<1> DEFINE x == WithCl(j, r)
           ans == PublishAnswer(x)
<1>1. j.k \in Entries(j) /\ j.op \in Calls
  BY AtWork DEF JobOk, ShapeOk
<1>2. j.k = 1
  BY <1>1, AtWork DEF Calls, Ops
<1>3. /\ Edited(x, j) /\ x.amb = j.amb /\ x.items[j.k].cl = r
      /\ \A i \in Entries(j) : x.items[i].local = j.items[i].local
                               /\ x.items[i].held = j.items[i].held
  BY <1>1, ClMade
<1>4. ans \in Answers
  BY DEF PublishAnswer, Answers
<1>5. (ans = "failed" => ~AnyReached(x)) /\ (ans = "ok" => AnyReached(x))
  BY DEF PublishAnswer
<1>6. y = Finished(x, ans)
  OBVIOUS
<1> HIDE DEF x, ans
<1>7. /\ x \in Job /\ SameFrame(x, j) /\ Len(x.items) = Len(j.items)
      /\ HeldItems(x) = HeldItems(j) /\ \A i \in Entries(j) : x.items[i].n = j.items[i].n
  BY <1>1, <1>3, EditWeight
<1>8. AnswerOk(x, ans)
  BY <1>1, <1>2, <1>3, <1>5 DEF AnswerOk
<1> QED BY <1>4, <1>6, <1>7, <1>8, FinishQuiet

-----------------------------------------------------------------------------
(* Handlers that begin and that are over.                                    *)

(* A handler that holds nothing.                                             *)
LEMMA NothingHeld ==
    ASSUME NEW j, HeldItems(j) = {}, j.pc \notin {"recheck", "undo"}
    PROVE  Weight(j) = 0
<1>1. Total(Sizes(j), HeldItems(j)) = 0
  BY TotalSame
<1> QED BY <1>1 DEF Weight

(* No handler, and one that is over.                                         *)
LEMMA IdleOk ==
    /\ Idle \in Job /\ JobOk(Idle) /\ Weight(Idle) = 0 /\ ~Bound(Idle)
    /\ Idle.pc = "idle" /\ Idle.g0 = 0 /\ Idle.ep = 0
<1>1. Idle \in Job
  BY DEF Idle, Job, Pcs, Answers, Early
<1>2. /\ Idle.pc = "idle" /\ Idle.g0 = 0 /\ Idle.ep = 0 /\ Idle.op = "none"
      /\ Idle.items = <<>> /\ Idle.id = NoId /\ Idle.answer = "none"
  BY DEF Idle
<1>3. Len(Idle.items) = 0 /\ Entries(Idle) = {} /\ HeldItems(Idle) = {}
  BY <1>2 DEF Entries, HeldItems
<1>4. ShapeOk(Idle)
  BY <1>2 DEF ShapeOk, Ops
<1>5. ReachOk(Idle)
  BY <1>2 DEF ReachOk, Early
<1>6. HonestOk(Idle)
  BY <1>2 DEF HonestOk, Calls
<1>7. HeldOk(Idle)
  BY <1>2, <1>3 DEF HeldOk
<1>8. Weight(Idle) = 0
  BY <1>2, <1>3, NothingHeld
<1>9. ~Bound(Idle)
  BY <1>2 DEF Bound
<1> QED BY <1>1, <1>2, <1>4, <1>5, <1>6, <1>7, <1>8, <1>9 DEF JobOk

(* A handler that has just begun, or ended before it began.                  *)
New(y, ep) ==
    /\ y \in Job /\ JobOk(y) /\ Weight(y) = 0 /\ ~Bound(y)
    /\ y.ep = ep /\ y.g0 = 0 /\ y.pc \notin Swaps

Fresh(op, route, id, ep, ns) ==
    [Idle EXCEPT !.op = op, !.route = route, !.id = id, !.ep = ep, !.pc = FirstPc(op),
                 !.items = [k \in 1 .. Len(ns) |-> Item(ns[k])]]

(* The frame that arrives.                                                   *)
Frame(op, route, id, ep, ns) ==
    /\ op \in Ops /\ route \in BOOLEAN /\ id \in Ids \cup {NoId} /\ ep \in Nat
    /\ Len(ns) \in Nat \ {0} /\ \A k \in 1 .. Len(ns) : ns[k] \in Nat
    /\ op # "batch" => Len(ns) = 1
    /\ id # NoId => op = "publish"

(* Its handler.                                                              *)
LEMMA FreshOk ==
    ASSUME NEW op, NEW route, NEW id, NEW ep, NEW ns, Frame(op, route, id, ep, ns),
           NEW x, x = Fresh(op, route, id, ep, ns)
    PROVE  /\ New(x, ep)
           /\ \A ans \in Answers \ {"ok", "failed"} : New(Finished(x, ans), ep)
<1> DEFINE s == [k \in 1 .. Len(ns) |-> Item(ns[k])]
           pc == FirstPc(op)
<1>1. /\ op \in Ops /\ route \in BOOLEAN /\ id \in Ids \cup {NoId} /\ ep \in Nat
      /\ Len(ns) \in Nat \ {0} /\ \A k \in 1 .. Len(ns) : ns[k] \in Nat
      /\ op # "batch" => Len(ns) = 1
      /\ id # NoId => op = "publish"
  BY DEF Frame
<1>2. \A n \in Nat : Item(n) \in ItemSet /\ ~Item(n).held /\ ~Item(n).local /\ Item(n).cl = "no"
  BY DEF Item, ItemSet, Reaches
<1>3. s \in Seq(ItemSet) /\ Len(s) = Len(ns)
  <2>1. s \in [1 .. Len(ns) -> ItemSet]
    BY <1>1, <1>2
  <2> HIDE DEF s
  <2>2. s \in Seq(ItemSet)
    BY <1>1, <2>1, SeqDef
  <2>3. DOMAIN s = 1 .. Len(ns)
    BY <2>1
  <2>4. Len(s) \in Nat /\ DOMAIN s = 1 .. Len(s)
    BY <2>2
  <2> QED BY <1>1, <2>2, <2>3, <2>4
<1>4. /\ pc \in {"admit", "load", "match"} /\ (pc = "admit" <=> op = "publish")
  BY DEF FirstPc
<1>5. \A k \in 1 .. Len(ns) : ~s[k].held /\ ~s[k].local /\ s[k].cl = "no"
  BY <1>1, <1>2
<1>6. x = [pc |-> pc, op |-> op, route |-> route, ep |-> ep, id |-> id,
           items |-> s, k |-> 1, g0 |-> 0, cur |-> 0, fail |-> FALSE,
           amb |-> FALSE, answer |-> "none"]
  BY DEF Fresh, Idle
<1> HIDE DEF s, pc
<1>7. x \in Job
  BY <1>1, <1>3, <1>4, <1>6 DEF Job, Pcs, Early, Answers
<1>8. /\ x.pc = pc /\ x.op = op /\ x.id = id /\ x.ep = ep /\ x.items = s /\ x.k = 1
      /\ x.g0 = 0 /\ ~x.amb /\ x.answer = "none"
  BY <1>6
<1>9. Entries(x) = 1 .. Len(ns) /\ Len(x.items) = Len(ns) /\ 1 \in Entries(x)
  BY <1>1, <1>3, <1>8 DEF Entries
<1>10. HeldItems(x) = {}
  BY <1>5, <1>8, <1>9 DEF HeldItems, Entries
<1>11. ShapeOk(x)
  BY <1>1, <1>4, <1>8, <1>9 DEF ShapeOk, Ops
<1>12. ReachOk(x)
  BY <1>4, <1>5, <1>8, <1>9 DEF ReachOk, Early, Ended, Reached, Sent
<1>13. HonestOk(x)
  BY <1>5, <1>8, <1>9 DEF HonestOk
<1>14. HeldOk(x)
  BY <1>4, <1>5, <1>8, <1>9 DEF HeldOk
<1>15. Weight(x) = 0
  BY <1>4, <1>8, <1>10, NothingHeld
<1>16. ~Bound(x) /\ x.pc \notin Swaps
  BY <1>1, <1>4, <1>8 DEF Bound, Early, Swaps
<1>17. JobOk(x)
  BY <1>11, <1>12, <1>13, <1>14 DEF JobOk
<1>18. ASSUME NEW ans \in Answers \ {"ok", "failed"}
       PROVE  New(Finished(x, ans), ep)
  <2> DEFINE y == Finished(x, ans)
  <2>1. FrameOk(x) /\ AnswerOk(x, ans)
    BY <1>4, <1>7, <1>8, <1>17, AtWork
  <2>2. y = Finished(x, ans)
    OBVIOUS
  <2> HIDE DEF y
  <2>3. /\ y \in Job /\ JobOk(y) /\ SameFrame(y, x) /\ ~Bound(y)
        /\ y.g0 = 0 /\ y.pc \in {"drop", "done"}
        /\ Weight(y) = Total(Sizes(x), HeldItems(x))
    BY <1>7, <2>1, <2>2, FinishedOk
  <2>4. Weight(y) = 0
    BY <1>10, <2>3, TotalSame
  <2>5. New(y, ep)
    BY <1>8, <2>3, <2>4 DEF New, SameFrame, Swaps
  <2> QED BY <2>5 DEF y
<1> QED BY <1>7, <1>8, <1>15, <1>16, <1>17, <1>18 DEF New

-----------------------------------------------------------------------------
(* Steps of the system.                                                      *)

(* A sum is at least each of its summands, and 0 when they are.              *)
LEMMA TotalBounds ==
    ASSUME NEW f, NEW S, IsFiniteSet(S), Sized(f, S)
    PROVE  /\ \A x \in S : f[x] <= Total(f, S)
           /\ (\A x \in S : f[x] = 0) => Total(f, S) = 0
<1>1. ASSUME NEW x \in S PROVE f[x] <= Total(f, S)
  <2>1. Total(f, S) = f[x] + Total(f, S \ {x})
    BY TotalSplit
  <2>2. Total(f, S \ {x}) \in Nat /\ f[x] \in Nat
    BY FS_RemoveElement, TotalType DEF Sized
  <2> QED BY <2>1, <2>2
<1>2. ASSUME \A x \in S : f[x] = 0 PROVE Total(f, S) = 0
  <2>1. \A x \in S : Part(f, x) = {}
    BY <1>2 DEF Part
  <2>2. AllParts(f, S) = {}
    BY <2>1 DEF AllParts
  <2> QED BY <2>2, FS_EmptySet DEF Total
<1> QED BY <1>1, <1>2

(* What the handlers hold, as a function.                                    *)
LEMMA HoldsType ==
    ASSUME NEW t \in [Conns -> Job], \A c \in Conns : JobOk(t[c]), NEW e
    PROVE  /\ IsFiniteSet(Conns) /\ Sized(Holds(t, e), Conns)
           /\ \A c \in Conns : Holds(t, e)[c] = Hold(t[c], e) /\ Hold(t[c], e) \in Nat
<1>1. ASSUME NEW c \in Conns
      PROVE  Holds(t, e)[c] = Hold(t[c], e) /\ Hold(t[c], e) \in Nat
  <2>1. Weight(t[c]) \in Nat
    BY WeightType DEF JobOk
  <2> QED BY <2>1 DEF Holds, Hold
<1> QED BY <1>1, PublishAssumption DEF Sized

With(t, c, y) == [t EXCEPT ![c] = y]

(* The sum when one handler changes.                                         *)
Moved(t, u, c, y, e) ==
    /\ u \in [Conns -> Job] /\ (\A d \in Conns : JobOk(u[d]))
    /\ u[c] = y /\ (\A d \in Conns : d # c => u[d] = t[d])
    /\ Total(Holds(t, e), Conns) \in Nat /\ Total(Holds(u, e), Conns) \in Nat
    /\ Hold(t[c], e) \in Nat /\ Hold(y, e) \in Nat
    /\ Total(Holds(u, e), Conns) + Hold(t[c], e) = Total(Holds(t, e), Conns) + Hold(y, e)

(* One handler changes, and the sum by its part.                             *)
LEMMA HoldsStep ==
    ASSUME NEW t \in [Conns -> Job], \A d \in Conns : JobOk(t[d]), NEW e,
           NEW c \in Conns, NEW y \in Job, JobOk(y)
    PROVE  Moved(t, With(t, c, y), c, y, e)
<1> DEFINE u == With(t, c, y)
<1> DEFINE f == Holds(t, e)
           g == Holds(u, e)
<1>1. /\ u \in [Conns -> Job] /\ (\A d \in Conns : JobOk(u[d]))
      /\ u[c] = y /\ (\A d \in Conns : d # c => u[d] = t[d])
  BY DEF With
<1> HIDE DEF u
<1>2. /\ IsFiniteSet(Conns) /\ Sized(f, Conns)
      /\ \A d \in Conns : f[d] = Hold(t[d], e) /\ Hold(t[d], e) \in Nat
  BY HoldsType
<1>3. Sized(g, Conns) /\ \A d \in Conns : g[d] = Hold(u[d], e) /\ Hold(u[d], e) \in Nat
  BY <1>1, HoldsType
<1> HIDE DEF f, g
<1>4. \A d \in Conns \ {c} : f[d] = g[d]
  BY <1>1, <1>2, <1>3
<1>5. Total(g, Conns) + f[c] = Total(f, Conns) + g[c]
  BY <1>2, <1>3, <1>4, TotalChange
<1>6. Total(f, Conns) \in Nat /\ Total(g, Conns) \in Nat
  BY <1>2, <1>3, TotalType
<1>7. Moved(t, u, c, y, e)
  BY <1>1, <1>2, <1>3, <1>5, <1>6 DEF f, g, Moved
<1> QED BY <1>7 DEF u

(* The account goes on as it is but for the counter, and a handler changes.  *)
HandlerStep(c, y, m) ==
    /\ task' = [task EXCEPT ![c] = y]
    /\ acct' = [acct EXCEPT !.live = m]
    /\ UNCHANGED <<plan, admin, torn>>
    /\ session' \in [Conns -> [ep : Nat, gen : Nat]]
    /\ \A d \in Conns : session'[d].ep <= session[d].ep

(* The handler is of an epoch and a generation the account had.              *)
Fits(y, c) ==
    /\ y.ep \in {task[c].ep, session[c].ep, 0}
    /\ y.g0 <= acct.gen
    /\ y.pc \in Swaps => acct.active \/ (task[c].pc \in Swaps /\ y.g0 = task[c].g0)
    /\ Settled => SwapOk(y)

(* The invariants of the budget after such a step.                           *)
LEMMA BudgetStep ==
    ASSUME Budget, NEW c \in Conns, NEW y \in Job, JobOk(y), NEW m \in Nat, m <= LiveMax,
           HandlerStep(c, y, m), Fits(y, c),
           Settled => m + Hold(task[c], acct.epoch) = acct.live + Hold(y, acct.epoch)
    PROVE  Budget'
<1>1. HandlerTypes /\ JobsOk /\ EpochInv /\ SwapInv /\ SumInv
  BY DEF Budget
<1>2. /\ task \in [Conns -> Job] /\ acct.epoch \in Nat \ {0} /\ acct.gen \in Nat
      /\ acct.live \in Nat /\ acct.active \in BOOLEAN
      /\ session \in [Conns -> [ep : Nat, gen : Nat]]
  BY <1>1 DEF HandlerTypes
<1>3. /\ task' \in [Conns -> Job] /\ (\A d \in Conns : JobOk(task'[d]))
      /\ task'[c] = y /\ (\A d \in Conns : d # c => task'[d] = task[d])
      /\ Total(Holds(task, acct.epoch), Conns) \in Nat
      /\ Total(Holds(task', acct.epoch), Conns) \in Nat
      /\ Hold(task[c], acct.epoch) \in Nat /\ Hold(y, acct.epoch) \in Nat
      /\ Total(Holds(task', acct.epoch), Conns) + Hold(task[c], acct.epoch)
           = Total(Holds(task, acct.epoch), Conns) + Hold(y, acct.epoch)
  <2>1. task' = With(task, c, y)
    BY DEF HandlerStep, With
  <2>2. Moved(task, With(task, c, y), c, y, acct.epoch)
    BY <1>1, <1>2, HoldsStep DEF JobsOk
  <2> QED BY <2>1, <2>2 DEF Moved
<1>4. /\ acct'.epoch = acct.epoch /\ acct'.gen = acct.gen /\ acct'.active = acct.active
      /\ acct'.live = m /\ admin' = admin /\ torn' = torn /\ plan' = plan
  BY <1>1 DEF HandlerStep, HandlerTypes
<1>5. HandlerTypes'
  BY <1>1, <1>3 DEF HandlerStep, HandlerTypes
<1>6. JobsOk'
  BY <1>3 DEF JobsOk
<1>7. \A d \in Conns : /\ session'[d].ep <= session[d].ep
                       /\ session'[d].ep \in Nat /\ session[d].ep \in Nat
                       /\ task[d].ep \in Nat /\ task[d].g0 \in Nat
                       /\ task'[d].ep \in Nat /\ task'[d].g0 \in Nat
  BY <1>2, <1>3, JobFields DEF HandlerStep
<1>8. EpochInv'
  <2>1. \A d \in Conns : session'[d].ep <= acct.epoch /\ task'[d].ep <= acct.epoch
                          /\ task'[d].g0 <= acct.gen
    BY <1>1, <1>2, <1>3, <1>7 DEF EpochInv, Fits
  <2>2. ~acct.active /\ admin # "idle" =>
         \A d \in Conns : session'[d].ep < acct.epoch /\ task'[d].ep < acct.epoch
    BY <1>1, <1>2, <1>3, <1>7 DEF EpochInv, Fits
  <2>3. ~acct.active /\ admin \in {"zero", "flip"} =>
         \A d \in Conns : task'[d].pc \in Swaps => task'[d].g0 < acct.gen
    BY <1>1, <1>3 DEF EpochInv, Fits
  <2> QED BY <1>4, <2>1, <2>2, <2>3 DEF EpochInv
<1>9. Settled' <=> Settled
  BY <1>4 DEF Settled
<1>10. SwapInv'
  <2>1. ASSUME Settled, NEW d \in Conns PROVE SwapOk(task[d])' 
    <3>1. SwapOk(task'[d])
      BY <1>1, <1>3, <2>1 DEF SwapInv, Fits
    <3> QED BY <1>4, <3>1 DEF SwapOk
  <2> QED BY <1>9, <2>1 DEF SwapInv
<1>11. SumInv'
  <2>1. Settled => acct.live = Total(Holds(task, acct.epoch), Conns)
    BY <1>1 DEF SumInv
  <2>2. Settled => m = Total(Holds(task', acct.epoch), Conns)
    BY <1>2, <1>3, <2>1
  <2> QED BY <1>4, <1>9, <2>2 DEF SumInv
<1> QED BY <1>5, <1>6, <1>8, <1>10, <1>11 DEF Budget

(* Most steps leave the counter alone.                                       *)
LEMMA QuietStep ==
    ASSUME Budget, NEW c \in Conns, NEW y, Quiet(y, task[c]),
           HandlerStep(c, y, acct.live)
    PROVE  Budget'
<1>1. /\ HandlerTypes /\ task[c] \in Job /\ acct.live \in Nat /\ acct.live <= LiveMax
      /\ EpochInv /\ acct.gen \in Nat
  BY DEF Budget, HandlerTypes, SumInv
<1>2. /\ y \in Job /\ JobOk(y) /\ y.ep = task[c].ep /\ y.pc \notin Swaps
      /\ y.g0 \in {0, task[c].g0} /\ Weight(y) = Weight(task[c])
  BY DEF Quiet, SameFrame
<1>3. Fits(y, c)
  <2>1. y.g0 <= acct.gen
    BY <1>1, <1>2 DEF EpochInv
  <2>2. SwapOk(y)
    BY <1>2 DEF SwapOk, Swaps
  <2> QED BY <1>2, <2>1, <2>2 DEF Fits
<1>4. Hold(y, acct.epoch) = Hold(task[c], acct.epoch)
  BY <1>2 DEF Hold
<1> DEFINE m == acct.live
<1>5. /\ m \in Nat /\ m <= LiveMax /\ HandlerStep(c, y, m)
      /\ m + Hold(task[c], acct.epoch) = acct.live + Hold(y, acct.epoch)
  BY <1>1, <1>4
<1> HIDE DEF m
<1> QED BY <1>2, <1>3, <1>5, BudgetStep

(* A frame begins and a client reads its answer.                             *)
LEMMA NewStep ==
    ASSUME Budget, NEW c \in Conns, Weight(task[c]) = 0, NEW y,
           NEW ep \in {0, session[c].ep}, New(y, ep), HandlerStep(c, y, acct.live)
    PROVE  Budget'
<1>1. /\ HandlerTypes /\ acct.live \in Nat /\ acct.live <= LiveMax /\ acct.gen \in Nat
  BY DEF Budget, HandlerTypes, SumInv
<1>2. /\ y \in Job /\ JobOk(y) /\ y.ep = ep /\ y.pc \notin Swaps
      /\ y.g0 = 0 /\ Weight(y) = 0
  BY DEF New
<1>3. Fits(y, c)
  <2>1. y.g0 <= acct.gen
    BY <1>1, <1>2
  <2>2. SwapOk(y)
    BY <1>2 DEF SwapOk, Swaps
  <2> QED BY <1>2, <2>1, <2>2 DEF Fits
<1>4. Hold(y, acct.epoch) = 0 /\ Hold(task[c], acct.epoch) = 0
  BY <1>2 DEF Hold
<1> DEFINE m == acct.live
<1>5. /\ m \in Nat /\ m <= LiveMax /\ HandlerStep(c, y, m)
      /\ m + Hold(task[c], acct.epoch) = acct.live + Hold(y, acct.epoch)
  BY <1>1, <1>4
<1> HIDE DEF m
<1> QED BY <1>2, <1>3, <1>5, BudgetStep

(* A step that leaves the producers' window and the fan-out alone.           *)
LEMMA WindowStep ==
    ASSUME HandlerTypes, WindowInv, NEW c \in Conns, NEW y,
           task' = [task EXCEPT ![c] = y], window' = window, fanned' = fanned,
           Bound(y) => Bound(task[c]) /\ y.id = task[c].id
    PROVE  WindowInv'
<1>1. task \in [Conns -> Job] /\ task'[c] = y /\ \A d \in Conns : d # c => task'[d] = task[d]
  BY DEF HandlerTypes
<1>2. \A d \in Conns : Bound(task'[d]) => Bound(task[d]) /\ task'[d].id = task[d].id
  BY <1>1
<1>3. \A i \in Ids : fanned'[i] <= 1 /\ (fanned'[i] # 0 => Seen(window', i))
  BY DEF WindowInv
<1>4. \A d \in Conns : Bound(task'[d]) => Seen(window', task'[d].id) /\ fanned'[task'[d].id] = 0
  BY <1>2 DEF WindowInv
<1>5. \A a, b \in Conns : Bound(task'[a]) /\ Bound(task'[b]) /\ task'[a].id = task'[b].id
                            => a = b
  BY <1>2 DEF WindowInv
<1> QED BY <1>3, <1>4, <1>5 DEF WindowInv

-----------------------------------------------------------------------------
(* Steps of a handler that leave the producers and the coroutines alone.     *)

(* The connection goes on or is closed.                                      *)
SessionOk(c) == session' = session \/ session' = [session EXCEPT ![c].ep = 0]

Others == UNCHANGED <<plan, admin, torn, window, fanned, coros, late>>

(* What holds of the handler of a connection.                                *)
LEMMA HandlerFacts ==
    ASSUME IInv, NEW c \in Conns
    PROVE  /\ task[c] \in Job /\ JobOk(task[c]) /\ acct.live \in Nat /\ acct.live <= LiveMax
           /\ acct.gen \in Nat /\ acct.epoch \in Nat \ {0} /\ acct.active \in BOOLEAN
           /\ task[c].g0 <= acct.gen /\ session[c].ep \in Nat
           /\ acct = [acct EXCEPT !.live = acct.live]
  BY DEF IInv, Budget, HandlerTypes, JobsOk, EpochInv, SumInv

(* Nothing changes for the producers and the coroutines.                     *)
LEMMA ServerStep ==
    ASSUME IInv, NEW c \in Conns, NEW y, task' = [task EXCEPT ![c] = y], Others,
           Bound(y) => Bound(task[c]) /\ y.id = task[c].id
    PROVE  Server'
<1>1. HandlerTypes /\ ServerTypes /\ WindowInv /\ LateInv
  BY DEF IInv, Budget, Server
<1>2. WindowInv'
  BY <1>1, WindowStep DEF Others
<1>3. ServerTypes' /\ LateInv'
  BY <1>1 DEF ServerTypes, LateInv, Others
<1> QED BY <1>2, <1>3 DEF Server

(* The connections after such a step.                                        *)
LEMMA SessionStep ==
    ASSUME IInv, NEW c \in Conns, SessionOk(c)
    PROVE  /\ session' \in [Conns -> [ep : Nat, gen : Nat]]
           /\ \A d \in Conns : session'[d].ep <= session[d].ep
<1>1. session \in [Conns -> [ep : Nat, gen : Nat]]
  BY DEF IInv, Budget, HandlerTypes
<1>2. CASE session' = session
  BY <1>1, <1>2
<1>3. CASE session' = [session EXCEPT ![c].ep = 0]
  BY <1>1, <1>3
<1> QED BY <1>2, <1>3 DEF SessionOk

(* A step of a loop on the counter.                                          *)
LEMMA LoopStep ==
    ASSUME IInv, NEW c \in Conns, NEW y \in Job, JobOk(y), SameFrame(y, task[c]),
           Bound(y) => Bound(task[c]), NEW m \in Nat, m <= LiveMax,
           task' = [task EXCEPT ![c] = y], acct' = [acct EXCEPT !.live = m],
           SessionOk(c), Others, y.g0 <= acct.gen,
           y.pc \in Swaps => acct.active \/ (task[c].pc \in Swaps /\ y.g0 = task[c].g0),
           Settled => SwapOk(y),
           Settled => m + Hold(task[c], acct.epoch) = acct.live + Hold(y, acct.epoch)
    PROVE  IInv'
<1>1. Budget
  BY DEF IInv
<1>2. HandlerStep(c, y, m)
  BY SessionStep DEF HandlerStep, Others
<1>3. Fits(y, c)
  BY DEF Fits, SameFrame
<1>4. Budget'
  BY <1>1, <1>2, <1>3, BudgetStep
<1>5. Server'
  BY ServerStep DEF SameFrame
<1> QED BY <1>4, <1>5 DEF IInv

(* A step outside them.                                                      *)
LEMMA PlainStep ==
    ASSUME IInv, NEW c \in Conns, NEW y, Quiet(y, task[c]),
           task' = [task EXCEPT ![c] = y], acct' = acct, SessionOk(c), Others
    PROVE  IInv'
<1>1. Budget /\ acct = [acct EXCEPT !.live = acct.live]
  BY HandlerFacts DEF IInv
<1>2. HandlerStep(c, y, acct.live)
  BY <1>1, SessionStep DEF HandlerStep, Others
<1>3. Budget'
  BY <1>1, <1>2, QuietStep
<1>4. Server'
  BY ServerStep DEF Quiet, SameFrame
<1> QED BY <1>3, <1>4 DEF IInv

(* The end of a handler in a step that changes nothing else.                 *)
LEMMA StopStep ==
    ASSUME IInv, NEW c \in Conns, task[c].pc \notin {"idle", "done", "recheck", "undo"},
           NEW ans \in Answers, AnswerOk(task[c], ans),
           task' = [task EXCEPT ![c] = Finished(task[c], ans)], acct' = acct, SessionOk(c), Others
    PROVE  IInv'
<1> DEFINE y == Finished(task[c], ans)
           j == task[c]
<1>1. j \in Job /\ JobOk(j)
  BY HandlerFacts
<1>2. y = Finished(j, ans) /\ task' = [task EXCEPT ![c] = y]
  OBVIOUS
<1>3. j.pc \notin {"idle", "done", "recheck", "undo"} /\ AnswerOk(j, ans)
  OBVIOUS
<1> HIDE DEF y, j
<1>4. Quiet(y, j)
  BY <1>1, <1>2, <1>3, StopQuiet
<1> QED BY <1>2, <1>4, PlainStep DEF j

Go(j, pc, g, cur) == [j EXCEPT !.pc = pc, !.g0 = g, !.cur = cur]

(* The value of a handler in a loop.                                         *)
LEMMA GoMade ==
    ASSUME NEW j \in Job, NEW pc \in Pcs, NEW g \in Nat, NEW cur \in Nat,
           NEW y, y = Go(j, pc, g, cur)
    PROVE  /\ y \in Job /\ SameFrame(y, j) /\ y.items = j.items /\ y.pc = pc /\ y.k = j.k
           /\ y.g0 = g /\ y.cur = cur /\ y.amb = j.amb /\ y.answer = j.answer
<1>1. /\ y.pc = pc /\ y.items = j.items /\ y.k = j.k /\ y.g0 = g /\ y.cur = cur
      /\ y.fail = j.fail /\ y.amb = j.amb /\ y.answer = j.answer
  BY DEF Job, Go
<1>2. Later(y, j)
  BY DEF Job, Later, Go
<1>3. /\ y.pc \in Pcs /\ y.items \in Seq(ItemSet) /\ y.k \in Nat \ {0} /\ y.g0 \in Nat
      /\ y.cur \in Nat /\ y.fail \in BOOLEAN /\ y.amb \in BOOLEAN /\ y.answer \in Answers
  BY <1>1, JobFields
<1> QED BY <1>1, <1>2, <1>3, JobMade

(* The same handler at another place of account_live_hold.                   *)
Gone(y, j, pc, g) ==
    /\ y \in Job /\ JobOk(y) /\ SameFrame(y, j) /\ y.pc = pc /\ y.g0 = g
    /\ EntrySize(j) \in Nat /\ Weight(y) \in Nat /\ Weight(j) \in Nat
    /\ (j.pc \in {"recheck", "undo"} <=> y.pc \in {"recheck", "undo"})
         => Weight(y) = Weight(j)
    /\ j.pc \notin {"recheck", "undo"} /\ y.pc \in {"recheck", "undo"}
         => Weight(y) = Weight(j) + EntrySize(j)
    /\ j.pc # "admit" => (Bound(y) => Bound(j))

(* It is well-formed there and holds what the new place says.                *)
LEMMA GoOk ==
    ASSUME NEW j \in Job, JobOk(j), j.pc \in Holding5,
           NEW pc \in {"load", "cas", "recheck", "undo", "match"}, NEW g \in Nat,
           NEW cur \in Nat, pc = "cas" => cur + EntrySize(j) <= LiveMax,
           NEW y, y = Go(j, pc, g, cur)
    PROVE  Gone(y, j, pc, g)
<1>1. pc \in Pcs
  BY DEF Pcs, Early
<1>2. /\ y \in Job /\ SameFrame(y, j) /\ y.items = j.items /\ y.pc = pc /\ y.k = j.k
      /\ y.g0 = g /\ y.cur = cur /\ y.amb = j.amb /\ y.answer = j.answer
  BY <1>1, GoMade
<1>3. /\ JobOk(y) /\ Total(Sizes(y), HeldItems(y)) = Total(Sizes(j), HeldItems(j))
      /\ EntrySize(y) = EntrySize(j) /\ EntrySize(j) \in Nat
  BY <1>2, MoveOk
<1>4. Total(Sizes(j), HeldItems(j)) \in Nat
  BY WeightType DEF JobOk
<1>5. /\ Weight(j) = Total(Sizes(j), HeldItems(j))
                       + IF j.pc \in {"recheck", "undo"} THEN EntrySize(j) ELSE 0
      /\ Weight(y) = Total(Sizes(j), HeldItems(j))
                       + IF pc \in {"recheck", "undo"} THEN EntrySize(j) ELSE 0
  BY <1>2, <1>3 DEF Weight
<1>6. j.pc # "admit" => (Bound(y) => Bound(j))
  BY <1>2 DEF Bound, SameFrame, Holding5, Early
<1> QED BY <1>2, <1>3, <1>4, <1>5, <1>6 DEF Gone

-----------------------------------------------------------------------------
(* account_live_hold and account_live_drop.                                  *)

(* The test of the fence and the limit before a swap.                        *)
LEMMA RetryStep ==
    ASSUME IInv, NEW c \in Conns, task[c].pc \in {"load", "cas"}, NEW g \in Nat,
           g <= acct.gen, Retry(c, task[c], g), acct' = acct, Others
    PROVE  IInv'
<1> DEFINE j == task[c]
<1>1. /\ j \in Job /\ JobOk(j) /\ acct.live \in Nat /\ acct.live <= LiveMax
      /\ acct = [acct EXCEPT !.live = acct.live]
  BY HandlerFacts
<1>2. CASE Finish(c, j, "refused")
  <2>1. AnswerOk(task[c], "refused") /\ "refused" \in Answers
    BY <1>1, AtWork DEF Answers
  <2> QED BY <1>2, <2>1, StopStep DEF Finish, Step, SessionOk
<1>3. CASE /\ Fenced(j, g) /\ acct.live + EntrySize(j) <= LiveMax
           /\ Step(c, [j EXCEPT !.pc = "cas", !.g0 = g, !.cur = acct.live])
           /\ UNCHANGED session
  <2> DEFINE y == Go(j, "cas", g, acct.live)
             m == acct.live
  <2>1. task' = [task EXCEPT ![c] = y] /\ y = Go(j, "cas", g, acct.live)
    BY <1>3 DEF Step, Go
  <2>2. Fenced(j, g) /\ acct.live + EntrySize(j) <= LiveMax /\ SessionOk(c)
    BY <1>3 DEF SessionOk
  <2>3. j.pc \in {"load", "cas"} /\ j.pc \in Holding5
    BY DEF Holding5
  <2>4. m \in Nat /\ m <= LiveMax /\ acct' = [acct EXCEPT !.live = m] /\ m = acct.live
    BY <1>1
  <2>5. j = task[c]
    OBVIOUS
  <2> HIDE DEF y, j, m
  <2>6. /\ y \in Job /\ JobOk(y) /\ SameFrame(y, j) /\ y.pc = "cas" /\ y.g0 = g
        /\ EntrySize(j) \in Nat /\ Weight(y) \in Nat
        /\ (j.pc \in {"recheck", "undo"} <=> y.pc \in {"recheck", "undo"})
             => Weight(y) = Weight(j)
        /\ j.pc \notin {"recheck", "undo"} /\ y.pc \in {"recheck", "undo"}
             => Weight(y) = Weight(j) + EntrySize(j)
        /\ j.pc # "admit" => (Bound(y) => Bound(j))
    <3>1. Gone(y, j, "cas", g)
      BY <1>1, <2>1, <2>2, <2>3, GoOk
    <3> QED BY <3>1 DEF Gone
  <2>7. Weight(j) \in Nat
    BY <1>1, WeightType DEF JobOk
  <2>8. Weight(y) = Weight(j)
    BY <2>3, <2>6, <2>7
  <2>9. acct.active /\ y.ep = acct.epoch /\ g = acct.gen
    BY <2>2, <2>6 DEF Fenced, Live, SameFrame
  <2>10. Hold(y, acct.epoch) = Hold(j, acct.epoch)
    BY <2>6, <2>8 DEF Hold, SameFrame
  <2>11. SwapOk(y)
    BY <2>6, <2>9 DEF SwapOk
  <2>12. m + Hold(task[c], acct.epoch) = acct.live + Hold(y, acct.epoch)
    BY <2>4, <2>5, <2>10
  <2>13. SameFrame(y, task[c]) /\ (Bound(y) => Bound(task[c])) /\ y.g0 <= acct.gen
    BY <2>3, <2>5, <2>6
  <2> QED BY <2>1, <2>2, <2>4, <2>6, <2>9, <2>11, <2>12, <2>13, LoopStep
<1> QED BY <1>2, <1>3 DEF Retry

(* The rest of the state in these steps.                                     *)
LEMMA RestOthers == Rest => Others
  BY DEF Rest, Others

(* Before the first test.                                                    *)
LEMMA HoldLoadStep ==
    ASSUME IInv, NEW c \in Conns, HoldLoad(c)
    PROVE  IInv'
<1> DEFINE j == task[c]
<1>1. j \in Job /\ JobOk(j) /\ acct.gen \in Nat
  BY HandlerFacts
<1>2. j.pc = "load" /\ acct' = acct /\ Others
  BY RestOthers DEF HoldLoad
<1>3. CASE Step(c, [j EXCEPT !.pc = "match"]) /\ UNCHANGED session
  <2> DEFINE y == Go(j, "match", j.g0, j.cur)
             g == j.g0
             cur == j.cur
             pc == "match"
  <2>1. y = [j EXCEPT !.pc = "match"] /\ g \in Nat /\ cur \in Nat
    BY <1>1 DEF Go, Job
  <2>2. /\ task' = [task EXCEPT ![c] = y] /\ y = Go(j, pc, g, cur)
        /\ pc \in {"load", "cas", "recheck", "undo", "match"} /\ pc # "cas"
        /\ g \in Nat /\ cur \in Nat
        /\ j.pc \in Holding5 /\ SessionOk(c)
    BY <1>2, <1>3, <2>1 DEF Step, Holding5, SessionOk
  <2>3. j = task[c] /\ g = j.g0 /\ pc = "match"
    OBVIOUS
  <2> HIDE DEF y, j, g, cur, pc
  <2>4. /\ y \in Job /\ JobOk(y) /\ SameFrame(y, j) /\ y.pc = pc /\ y.g0 = g
        /\ Weight(y) \in Nat /\ EntrySize(j) \in Nat
        /\ (j.pc \in {"recheck", "undo"} <=> y.pc \in {"recheck", "undo"})
             => Weight(y) = Weight(j)
        /\ j.pc \notin {"recheck", "undo"} /\ y.pc \in {"recheck", "undo"}
             => Weight(y) = Weight(j) + EntrySize(j)
        /\ j.pc # "admit" => (Bound(y) => Bound(j))
    <3>1. Gone(y, j, pc, g)
      BY <1>1, <2>2, GoOk
    <3> QED BY <3>1 DEF Gone
  <2>5. Weight(j) \in Nat
    BY <1>1, WeightType DEF JobOk
  <2>6. Weight(y) = Weight(j)
    BY <1>2, <2>3, <2>4, <2>5
  <2>7. Quiet(y, task[c])
    BY <1>2, <2>3, <2>4, <2>6 DEF Quiet, Swaps
  <2> QED BY <1>2, <2>2, <2>7, PlainStep
<1>4. CASE Retry(c, j, acct.gen)
  <2>1. acct.gen <= acct.gen /\ task[c].pc \in {"load", "cas"}
    BY <1>1, <1>2
  <2> QED BY <1>1, <1>2, <1>4, <2>1, RetryStep
<1> QED BY <1>3, <1>4 DEF HoldLoad

(* The swap that holds.                                                      *)
LEMMA HoldSwapStep ==
    ASSUME IInv, NEW c \in Conns, HoldSwap(c)
    PROVE  IInv'
<1> DEFINE j == task[c]
<1>1. /\ j \in Job /\ JobOk(j) /\ acct.gen \in Nat /\ j.g0 <= acct.gen /\ j.g0 \in Nat
      /\ j.cur \in Nat
  BY HandlerFacts, JobFields
<1>2. j.pc = "cas" /\ Others
  BY RestOthers DEF HoldSwap
<1>3. CASE Retry(c, j, j.g0) /\ UNCHANGED acct
  <2>1. task[c].pc \in {"load", "cas"}
    BY <1>2
  <2> QED BY <1>1, <1>2, <1>3, <2>1, RetryStep
<1>4. CASE /\ acct.live = j.cur
           /\ acct' = [acct EXCEPT !.live = j.cur + EntrySize(j)]
           /\ Step(c, [j EXCEPT !.pc = "recheck"]) /\ UNCHANGED session
  <2> DEFINE y == Go(j, "recheck", j.g0, j.cur)
             m == j.cur + EntrySize(j)
             g == j.g0
             cur == j.cur
  <2>1. y = [j EXCEPT !.pc = "recheck"] /\ g \in Nat /\ cur \in Nat
    BY <1>1 DEF Go, Job
  <2>2. /\ task' = [task EXCEPT ![c] = y] /\ y = Go(j, "recheck", g, cur)
        /\ g \in Nat /\ cur \in Nat
        /\ j.pc \in Holding5 /\ SessionOk(c) /\ acct' = [acct EXCEPT !.live = m]
    BY <1>2, <1>4, <2>1 DEF Step, Holding5, SessionOk
  <2>3. /\ j = task[c] /\ g = j.g0 /\ m = acct.live + EntrySize(j)
        /\ m <= LiveMax
    BY <1>1, <1>2, <1>4 DEF JobOk, HeldOk
  <2>4. Settled => SwapOk(j)
    BY DEF IInv, Budget, SwapInv
  <2> HIDE DEF y, j, g, cur, m
  <2>5. /\ y \in Job /\ JobOk(y) /\ SameFrame(y, j) /\ y.pc = "recheck" /\ y.g0 = g
        /\ Weight(y) \in Nat /\ EntrySize(j) \in Nat
        /\ (j.pc \in {"recheck", "undo"} <=> y.pc \in {"recheck", "undo"})
             => Weight(y) = Weight(j)
        /\ j.pc \notin {"recheck", "undo"} /\ y.pc \in {"recheck", "undo"}
             => Weight(y) = Weight(j) + EntrySize(j)
        /\ j.pc # "admit" => (Bound(y) => Bound(j))
    <3>1. Gone(y, j, "recheck", g)
      BY <1>1, <2>2, GoOk
    <3> QED BY <3>1 DEF Gone
  <2>6. Weight(j) \in Nat /\ acct.live \in Nat
    BY <1>1, WeightType, HandlerFacts DEF JobOk
  <2>7. Weight(y) = Weight(j) + EntrySize(j) /\ m \in Nat
    BY <1>2, <2>3, <2>5, <2>6
  <2>8. Settled => y.ep = acct.epoch /\ j.ep = acct.epoch /\ SwapOk(y)
    BY <1>2, <2>3, <2>4, <2>5 DEF SwapOk, SameFrame
  <2>9. Settled => m + Hold(task[c], acct.epoch) = acct.live + Hold(y, acct.epoch)
    BY <2>3, <2>5, <2>6, <2>7, <2>8 DEF Hold
  <2>10. /\ SameFrame(y, task[c]) /\ (Bound(y) => Bound(task[c])) /\ y.g0 <= acct.gen
         /\ y.pc \in Swaps => acct.active \/ (task[c].pc \in Swaps /\ y.g0 = task[c].g0)
    BY <1>1, <1>2, <2>3, <2>5 DEF Swaps
  <2> QED BY <1>2, <2>2, <2>3, <2>5, <2>7, <2>8, <2>9, <2>10, LoopStep
<1> QED BY <1>3, <1>4 DEF HoldSwap

(* While the counter is settled, a handler that the fence stops is of an     *)
(* earlier epoch.                                                            *)
LEMMA StoppedEarlier ==
    ASSUME IInv, Settled, NEW c \in Conns, ~Live(task[c].ep)
    PROVE  task[c].ep # acct.epoch
<1>1. CASE acct.active
  BY <1>1 DEF Live
<1>2. CASE ~acct.active
  <2>1. task[c].ep < acct.epoch /\ task[c].ep \in Nat /\ acct.epoch \in Nat
    BY <1>2, HandlerFacts, JobFields DEF Settled, IInv, Budget, EpochInv
  <2> QED BY <2>1
<1> QED BY <1>1, <1>2

(* The end of a handler that still counts what it did not hold.              *)
LEMMA AbandonStep ==
    ASSUME IInv, NEW c \in Conns, task[c].pc \in {"recheck", "undo"},
           Settled => task[c].ep # acct.epoch, NEW m \in Nat, m <= LiveMax,
           Settled => m = acct.live, acct' = [acct EXCEPT !.live = m],
           Finish(c, task[c], "refused"), Others
    PROVE  IInv'
<1> DEFINE j == task[c]
           y == Finished(task[c], "refused")
           ans == "refused"
<1>1. j \in Job /\ JobOk(j) /\ acct.live \in Nat /\ acct.gen \in Nat
  BY HandlerFacts
<1>2. /\ task' = [task EXCEPT ![c] = y] /\ SessionOk(c)
  BY DEF Finish, Step, SessionOk
<1>3. y = Finished(j, ans) /\ j = task[c] /\ ans \in Answers /\ j.pc \in {"recheck", "undo"}
  BY DEF Answers
<1>4. FrameOk(j) /\ AnswerOk(j, ans)
  BY <1>1, AtWork DEF Answers
<1> HIDE DEF j, y, ans
<1>5. /\ y \in Job /\ JobOk(y) /\ SameFrame(y, j) /\ ~Bound(y)
      /\ y.g0 = 0 /\ y.pc \in {"drop", "done"}
  BY <1>1, <1>3, <1>4, FinishedOk
<1>6. SwapOk(y) /\ y.pc \notin Swaps
  BY <1>5 DEF SwapOk, Swaps
<1>7. SameFrame(y, task[c]) /\ y.g0 <= acct.gen /\ y.ep = task[c].ep
  BY <1>1, <1>3, <1>5 DEF SameFrame
<1>8. Settled => m + Hold(task[c], acct.epoch) = acct.live + Hold(y, acct.epoch)
  BY <1>1, <1>7 DEF Hold
<1> QED BY <1>2, <1>5, <1>6, <1>7, <1>8, LoopStep

(* The second test.                                                          *)
LEMMA HoldCheckStep ==
    ASSUME IInv, NEW c \in Conns, HoldCheck(c)
    PROVE  IInv'
<1> DEFINE j == task[c]
<1>1. /\ j \in Job /\ JobOk(j) /\ acct.gen \in Nat /\ j.g0 <= acct.gen /\ j.g0 \in Nat
      /\ j.cur \in Nat /\ acct.live \in Nat /\ acct.live <= LiveMax
      /\ acct = [acct EXCEPT !.live = acct.live]
  BY HandlerFacts, JobFields
<1>2. j.pc = "recheck" /\ acct' = acct /\ Others
  BY RestOthers DEF HoldCheck
<1>3. Settled => SwapOk(j)
  BY DEF IInv, Budget, SwapInv
<1>4. CASE /\ Step(c, [j EXCEPT !.pc = "match", !.items[j.k].held = TRUE,
                                !.g0 = 0, !.cur = 0])
           /\ UNCHANGED session
  <2> DEFINE y == Taken(j)
  <2>1. task' = [task EXCEPT ![c] = y] /\ SessionOk(c) /\ y = Taken(j) /\ j = task[c]
    BY <1>4 DEF Step, SessionOk, Taken
  <2> HIDE DEF y, j
  <2>2. /\ y \in Job /\ JobOk(y) /\ SameFrame(y, j) /\ y.pc = "match" /\ y.g0 = 0
        /\ Weight(y) = Weight(j)
    BY <1>1, <1>2, <2>1, HeldStep
  <2>3. Bound(y) => Bound(j)
    BY <1>2, <2>2 DEF Bound, SameFrame, Early
  <2>4. Quiet(y, task[c])
    BY <2>1, <2>2, <2>3 DEF Quiet, Swaps
  <2> QED BY <1>2, <2>1, <2>4, PlainStep
<1>5. CASE /\ ~Fenced(j, j.g0) /\ acct.gen = j.g0
           /\ Step(c, [j EXCEPT !.pc = "undo", !.cur = acct.live])
           /\ UNCHANGED session
  <2> DEFINE g == j.g0
             m == acct.live
             y == Go(j, "undo", g, m)
  <2>1. y = [j EXCEPT !.pc = "undo", !.cur = acct.live]
    BY <1>1 DEF Go, Job
  <2>2. task' = [task EXCEPT ![c] = y] /\ SessionOk(c) /\ y = Go(j, "undo", g, m)
    BY <1>5, <2>1 DEF Step, SessionOk
  <2>3. ~Settled
    <3>1. ASSUME Settled PROVE FALSE
      <4>1. j.ep = acct.epoch /\ ~Live(j.ep)
        BY <1>2, <1>3, <1>5, <3>1 DEF SwapOk, Fenced
      <4> QED BY <3>1, <4>1, StoppedEarlier
    <3> QED BY <3>1
  <2>4. /\ j = task[c] /\ g = j.g0 /\ m = acct.live /\ j.pc \in Holding5
        /\ acct' = [acct EXCEPT !.live = m]
    BY <1>1, <1>2 DEF Holding5
  <2> HIDE DEF y, j, g, m
  <2>5. Gone(y, j, "undo", g)
    BY <1>1, <2>2, <2>4, GoOk
  <2>6. /\ y \in Job /\ JobOk(y) /\ SameFrame(y, task[c]) /\ (Bound(y) => Bound(task[c]))
        /\ y.g0 <= acct.gen /\ y.g0 = task[c].g0
    BY <1>1, <1>2, <2>4, <2>5 DEF Gone
  <2>7. task[c].pc \in Swaps
    BY <1>2, <2>4 DEF Swaps
  <2> QED BY <1>1, <1>2, <2>2, <2>3, <2>4, <2>6, <2>7, LoopStep
<1>6. CASE /\ acct.gen # j.g0 /\ Finish(c, j, "refused")
  <2> DEFINE m == acct.live
  <2>1. Settled => task[c].ep # acct.epoch
    BY <1>2, <1>3, <1>6 DEF SwapOk
  <2>2. m \in Nat /\ m <= LiveMax /\ m = acct.live /\ acct' = [acct EXCEPT !.live = m]
    BY <1>1, <1>2
  <2>3. task[c].pc \in {"recheck", "undo"} /\ Finish(c, task[c], "refused") /\ Others
    BY <1>2, <1>6
  <2> HIDE DEF m
  <2> QED BY <2>1, <2>2, <2>3, AbandonStep
<1> QED BY <1>4, <1>5, <1>6 DEF HoldCheck

(* account_undo_stale_inc.                                                   *)
LEMMA HoldUndoStep ==
    ASSUME IInv, NEW c \in Conns, HoldUndo(c)
    PROVE  IInv'
<1> DEFINE j == task[c]
<1>1. /\ j \in Job /\ JobOk(j) /\ acct.gen \in Nat /\ j.g0 <= acct.gen /\ j.g0 \in Nat
      /\ j.cur \in Nat /\ acct.live \in Nat /\ acct.live <= LiveMax
      /\ acct = [acct EXCEPT !.live = acct.live]
  BY HandlerFacts, JobFields
<1>2. j.pc = "undo" /\ Others
  BY RestOthers DEF HoldUndo
<1>3. ~Settled
  BY <1>2 DEF IInv, Budget, SwapInv, SwapOk
<1>4. j.items[j.k] \in ItemSet
  BY <1>1, <1>2, AtWork
<1>5. EntrySize(j) \in Nat
  BY <1>4 DEF EntrySize, ItemSet
<1>6. LiveMax \in Nat
  BY PublishAssumption
<1>7. CASE /\ acct' = [acct EXCEPT !.live = Less(@, EntrySize(j))]
           /\ Finish(c, j, "refused")
  <2> DEFINE m == Less(acct.live, EntrySize(j))
  <2>1. m \in Nat /\ m <= LiveMax
    BY <1>1, <1>5, <1>6 DEF Less
  <2>2. acct' = [acct EXCEPT !.live = m]
    BY <1>7
  <2>3. task[c].pc \in {"recheck", "undo"} /\ Finish(c, task[c], "refused") /\ Others
    BY <1>2, <1>7
  <2> HIDE DEF m
  <2> QED BY <1>3, <2>1, <2>2, <2>3, AbandonStep
<1>8. CASE Finish(c, j, "refused") /\ acct' = acct
  <2> DEFINE m == acct.live
  <2>1. m \in Nat /\ m <= LiveMax /\ acct' = [acct EXCEPT !.live = m]
    BY <1>1, <1>8
  <2>2. task[c].pc \in {"recheck", "undo"} /\ Finish(c, task[c], "refused") /\ Others
    BY <1>2, <1>8
  <2> HIDE DEF m
  <2> QED BY <1>3, <2>1, <2>2, AbandonStep
<1>9. CASE Step(c, [j EXCEPT !.cur = acct.live]) /\ UNCHANGED <<acct, session>>
  <2> DEFINE g == j.g0
             m == acct.live
             y == Go(j, "undo", g, m)
  <2>1. y = [j EXCEPT !.cur = acct.live]
    BY <1>1, <1>2 DEF Go, Job
  <2>2. task' = [task EXCEPT ![c] = y] /\ SessionOk(c) /\ y = Go(j, "undo", g, m)
    BY <1>9, <2>1 DEF Step, SessionOk
  <2>3. /\ j = task[c] /\ g = j.g0 /\ m = acct.live /\ j.pc \in Holding5
        /\ acct' = [acct EXCEPT !.live = m]
    BY <1>1, <1>2, <1>9 DEF Holding5
  <2> HIDE DEF y, j, g, m
  <2>4. Gone(y, j, "undo", g)
    BY <1>1, <2>2, <2>3, GoOk
  <2>5. /\ y \in Job /\ JobOk(y) /\ SameFrame(y, task[c]) /\ (Bound(y) => Bound(task[c]))
        /\ y.g0 <= acct.gen /\ y.g0 = task[c].g0
    BY <1>1, <1>2, <2>3, <2>4 DEF Gone
  <2>6. task[c].pc \in Swaps
    BY <1>2, <2>3 DEF Swaps
  <2> QED BY <1>1, <1>2, <1>3, <2>2, <2>3, <2>5, <2>6, LoopStep
<1> QED BY <1>7, <1>8, <1>9 DEF HoldUndo

(* While the counter is settled it covers what each handler holds.           *)
LEMMA Covered ==
    ASSUME IInv, Settled, NEW c \in Conns, task[c].ep = acct.epoch
    PROVE  Weight(task[c]) <= acct.live
<1> DEFINE f == Holds(task, acct.epoch)
<1>1. task \in [Conns -> Job] /\ \A d \in Conns : JobOk(task[d])
  BY DEF IInv, Budget, HandlerTypes, JobsOk
<1>2. /\ IsFiniteSet(Conns) /\ Sized(f, Conns)
      /\ \A d \in Conns : f[d] = Hold(task[d], acct.epoch) /\ Hold(task[d], acct.epoch) \in Nat
  BY <1>1, HoldsType
<1>3. f[c] = Weight(task[c])
  BY <1>2 DEF Hold
<1>4. acct.live = Total(f, Conns)
  BY DEF IInv, Budget, SumInv
<1> HIDE DEF f
<1>5. f[c] <= Total(f, Conns)
  BY <1>2, TotalBounds
<1> QED BY <1>3, <1>4, <1>5

(* An item is dropped.                                                       *)
LEMMA DroppedStep ==
    ASSUME IInv, NEW c \in Conns, task[c].pc \in {"drop", "debit"},
           NEW m \in Nat, m <= LiveMax, acct' = [acct EXCEPT !.live = m],
           Settled => IF task[c].ep = acct.epoch THEN m + EntrySize(task[c]) = acct.live
                                                 ELSE m = acct.live,
           task' = [task EXCEPT ![c] = Dropped(task[c])], session' = session, Others
    PROVE  IInv'
<1> DEFINE j == task[c]
           y == Dropped(task[c])
<1>1. j \in Job /\ JobOk(j) /\ acct.live \in Nat /\ acct.gen \in Nat
  BY HandlerFacts
<1>2. task' = [task EXCEPT ![c] = y] /\ SessionOk(c)
  BY DEF SessionOk
<1>3. y = Dropped(j) /\ j = task[c] /\ j.pc \in {"drop", "debit"}
  OBVIOUS
<1>4. Settled => IF j.ep = acct.epoch THEN m + EntrySize(j) = acct.live ELSE m = acct.live
  OBVIOUS
<1> HIDE DEF j, y
<1>5. /\ y \in Job /\ JobOk(y) /\ SameFrame(y, j) /\ ~Bound(y)
      /\ y.g0 = 0 /\ y.pc \in {"drop", "done"}
      /\ EntrySize(j) \in Nat /\ Weight(y) \in Nat
      /\ Weight(j) = EntrySize(j) + Weight(y)
  BY <1>1, <1>3, DroppedOk
<1>6. SwapOk(y) /\ y.pc \notin Swaps
  BY <1>5 DEF SwapOk, Swaps
<1>7. SameFrame(y, task[c]) /\ y.g0 <= acct.gen /\ y.ep = j.ep
  BY <1>1, <1>3, <1>5 DEF SameFrame
<1>8. Settled => m + Hold(j, acct.epoch) = acct.live + Hold(y, acct.epoch)
  <2>1. CASE j.ep = acct.epoch
    <3>1. Hold(j, acct.epoch) = EntrySize(j) + Weight(y) /\ Hold(y, acct.epoch) = Weight(y)
      BY <1>5, <1>7, <2>1 DEF Hold
    <3> QED BY <1>1, <1>4, <1>5, <2>1, <3>1
  <2>2. CASE j.ep # acct.epoch
    BY <1>1, <1>4, <1>7, <2>2 DEF Hold
  <2> QED BY <2>1, <2>2
<1>9. Settled => m + Hold(task[c], acct.epoch) = acct.live + Hold(y, acct.epoch)
  BY <1>3, <1>8
<1> QED BY <1>2, <1>5, <1>6, <1>7, <1>9, LoopStep

(* An item is dropped that the counter does not count any more.              *)
LEMMA ForgottenStep ==
    ASSUME IInv, NEW c \in Conns, task[c].pc \in {"drop", "debit"},
           Settled => ~DebitFenced(task[c]), acct' = acct,
           task' = [task EXCEPT ![c] = Dropped(task[c])], session' = session, Others
    PROVE  IInv'
<1> DEFINE m == acct.live
           j == task[c]
           y == Dropped(task[c])
<1>1. /\ m \in Nat /\ m <= LiveMax /\ acct' = [acct EXCEPT !.live = m]
      /\ j \in Job /\ JobOk(j)
  BY HandlerFacts
<1>2. y = Dropped(j) /\ j.pc \in {"drop", "debit"} /\ j = task[c] /\ m = acct.live
  OBVIOUS
<1>3. ASSUME Settled, j.ep = acct.epoch PROVE Weight(j) = 0 \/ Weight(j) <= 0
  <2>1. Live(j.ep)
    BY <1>3, StoppedEarlier
  <2>2. ~(m > 0)
    BY <1>3, <2>1 DEF DebitFenced
  <2>3. Weight(j) <= m
    BY <1>3, Covered
  <2>4. Weight(j) \in Nat
    BY <1>1, WeightType DEF JobOk
  <2> QED BY <1>1, <2>2, <2>3, <2>4
<1> HIDE DEF m, j, y
<1>4. EntrySize(j) \in Nat /\ Weight(y) \in Nat /\ Weight(j) = EntrySize(j) + Weight(y)
  BY <1>1, <1>2, DroppedOk
<1>5. Settled => IF task[c].ep = acct.epoch THEN m + EntrySize(task[c]) = acct.live
                                            ELSE m = acct.live
  BY <1>1, <1>2, <1>3, <1>4
<1> QED BY <1>1, <1>5, DroppedStep

(* A drop that is about to swap, or to swap again.                           *)
LEMMA DebitStep ==
    ASSUME IInv, NEW c \in Conns, task[c].pc \in {"drop", "debit"},
           NEW g \in Nat, g <= acct.gen,
           task[c].pc = "drop" => Live(task[c].ep) /\ g = acct.gen,
           task[c].pc = "debit" => g = task[c].g0,
           task' = [task EXCEPT ![c] = Go(task[c], "debit", g, acct.live)],
           acct' = acct, session' = session, Others
    PROVE  IInv'
<1> DEFINE j == task[c]
           m == acct.live
           pc == "debit"
           y == Go(j, pc, g, m)
<1>1. /\ j \in Job /\ JobOk(j) /\ m \in Nat /\ m <= LiveMax
      /\ acct' = [acct EXCEPT !.live = m]
  BY HandlerFacts
<1>2. task' = [task EXCEPT ![c] = y] /\ SessionOk(c)
  BY DEF SessionOk
<1>3. /\ y = Go(j, pc, g, m) /\ j = task[c] /\ m = acct.live /\ pc = "debit" /\ pc \in Pcs
      /\ j.pc \in {"drop", "debit"}
  BY DEF Pcs, Ended
<1>4. Settled => SwapOk(j)
  BY DEF IInv, Budget, SwapInv
<1> HIDE DEF j, m, pc, y
<1>5. /\ y \in Job /\ SameFrame(y, j) /\ y.items = j.items /\ y.pc = pc /\ y.k = j.k
      /\ y.g0 = g /\ y.amb = j.amb /\ y.answer = j.answer
  BY <1>1, <1>3, GoMade
<1>6. JobOk(y) /\ Weight(y) = Weight(j)
  BY <1>1, <1>3, <1>5, DebitOk
<1>7. ~Bound(y) /\ SameFrame(y, task[c])
  BY <1>3, <1>5 DEF Bound, Early
<1>8. Settled => SwapOk(y)
  BY <1>3, <1>4, <1>5 DEF SwapOk, SameFrame, Live
<1>9. y.pc \in Swaps => acct.active \/ (task[c].pc \in Swaps /\ y.g0 = task[c].g0)
  BY <1>3, <1>5 DEF Swaps, Live
<1>10. m + Hold(task[c], acct.epoch) = acct.live + Hold(y, acct.epoch)
  BY <1>3, <1>5, <1>6 DEF Hold, SameFrame
<1>11. y.g0 <= acct.gen
  BY <1>5
<1> QED BY <1>1, <1>2, <1>5, <1>6, <1>7, <1>8, <1>9, <1>10, <1>11, LoopStep

(* Before the first test of a drop.                                          *)
LEMMA DropLoadStep ==
    ASSUME IInv, NEW c \in Conns, DropLoad(c)
    PROVE  IInv'
<1> DEFINE j == task[c]
<1>1. j \in Job /\ acct.gen \in Nat /\ acct.gen <= acct.gen
  BY HandlerFacts
<1>2. j.pc = "drop" /\ acct' = acct /\ session' = session /\ Others
  BY RestOthers DEF DropLoad
<1>3. CASE DebitFenced(j)
  <2>1. task' = [task EXCEPT ![c] = Go(task[c], "debit", acct.gen, acct.live)]
    BY <1>3 DEF DropLoad, Step, Go
  <2>2. Live(task[c].ep)
    BY <1>3 DEF DebitFenced
  <2> DEFINE g == acct.gen
  <2>3. /\ g \in Nat /\ g <= acct.gen /\ g = acct.gen
        /\ task' = [task EXCEPT ![c] = Go(task[c], "debit", g, acct.live)]
    BY <1>1, <2>1
  <2> HIDE DEF g
  <2> QED BY <1>2, <2>2, <2>3, DebitStep
<1>4. CASE ~DebitFenced(j)
  <2>1. task' = [task EXCEPT ![c] = Dropped(task[c])]
    BY <1>4 DEF DropLoad, Step
  <2> QED BY <1>2, <1>4, <2>1, ForgottenStep
<1> QED BY <1>3, <1>4

(* The swap that drops.                                                      *)
LEMMA DropSwapStep ==
    ASSUME IInv, NEW c \in Conns, DropSwap(c)
    PROVE  IInv'
<1> DEFINE j == task[c]
<1>1. /\ j \in Job /\ JobOk(j) /\ acct.gen \in Nat /\ j.g0 <= acct.gen /\ j.g0 \in Nat
      /\ acct.live \in Nat /\ acct.live <= LiveMax /\ j.cur \in Nat
  BY HandlerFacts, JobFields
<1>2. j.pc = "debit" /\ session' = session /\ Others
  BY RestOthers DEF DropSwap
<1>3. Settled => j.ep = acct.epoch /\ j.g0 = acct.gen
  BY <1>2 DEF IInv, Budget, SwapInv, SwapOk
<1>4. CASE /\ acct' = [acct EXCEPT !.live = Less(@, EntrySize(j))]
           /\ Step(c, Dropped(j))
  <2> DEFINE m == Less(acct.live, EntrySize(j))
             y == Dropped(j)
  <2>1. acct' = [acct EXCEPT !.live = m] /\ task' = [task EXCEPT ![c] = Dropped(task[c])]
    BY <1>4 DEF Step
  <2>2. j = task[c] /\ y = Dropped(j) /\ j.pc \in {"drop", "debit"}
    BY <1>2
  <2>3. Settled => Weight(j) <= acct.live
    BY <1>3, Covered
  <2> HIDE DEF j, y
  <2>4. EntrySize(j) \in Nat /\ Weight(y) \in Nat /\ Weight(j) = EntrySize(j) + Weight(y)
    BY <1>1, <2>2, DroppedOk
  <2>5. m \in Nat /\ m <= acct.live
    BY <1>1, <2>4 DEF Less
  <2>6. m <= LiveMax
    BY <1>1, <2>5, PublishAssumption
  <2>7. Settled => m + EntrySize(j) = acct.live
    BY <1>1, <2>3, <2>4 DEF Less
  <2>8. Settled => IF task[c].ep = acct.epoch THEN m + EntrySize(task[c]) = acct.live
                                              ELSE m = acct.live
    BY <1>3, <2>2, <2>7
  <2>9. task[c].pc \in {"drop", "debit"}
    BY <2>2
  <2> HIDE DEF m
  <2> QED BY <1>2, <2>1, <2>5, <2>6, <2>8, <2>9, DroppedStep
<1>5. CASE /\ acct' = acct /\ DebitFenced(j) /\ acct.gen = j.g0
           /\ Step(c, [j EXCEPT !.cur = acct.live])
  <2>1. task' = [task EXCEPT ![c] = Go(task[c], "debit", j.g0, acct.live)]
    <3>1. [j EXCEPT !.cur = acct.live] = Go(j, "debit", j.g0, acct.live)
      BY <1>1, <1>2 DEF Go, Job
    <3> QED BY <1>5, <3>1 DEF Step
  <2> DEFINE g == j.g0
  <2>2. /\ g \in Nat /\ g <= acct.gen /\ g = task[c].g0
        /\ task' = [task EXCEPT ![c] = Go(task[c], "debit", g, acct.live)]
    BY <1>1, <2>1
  <2> HIDE DEF g
  <2> QED BY <1>2, <1>5, <2>2, DebitStep
<1>6. CASE /\ acct' = acct /\ ~(DebitFenced(j) /\ acct.gen = j.g0)
           /\ Step(c, Dropped(j))
  <2>1. Settled => ~DebitFenced(task[c])
    BY <1>3, <1>6
  <2>2. task' = [task EXCEPT ![c] = Dropped(task[c])]
    BY <1>6 DEF Step
  <2> QED BY <1>2, <1>6, <2>1, <2>2, ForgottenStep
<1> QED BY <1>4, <1>5, <1>6 DEF DropSwap

-----------------------------------------------------------------------------
(* Match, forward, local delivery and reply.                                 *)

(* "account inactive": the handler ends and the connection is closed.        *)
LEMMA InactiveStep ==
    ASSUME IInv, NEW c \in Conns, task[c].pc \in {"forward", "local", "reply"},
           Inactive(c, task[c]), acct' = acct, Others
    PROVE  IInv'
<1>1. AnswerOk(task[c], "inactive") /\ "inactive" \in Answers
  BY HandlerFacts, AtWork DEF Answers
<1> QED BY <1>1, StopStep DEF Inactive, Step, SessionOk

(* Match and snapshot.                                                       *)
LEMMA MatchStep ==
    ASSUME IInv, NEW c \in Conns, Match(c)
    PROVE  IInv'
<1> DEFINE j == task[c]
<1>1. j \in Job /\ JobOk(j)
  BY HandlerFacts
<1>2. j.pc = "match" /\ acct' = acct /\ Others
  BY RestOthers DEF Match
<1>3. CASE Finish(c, j, "failed")
  <2>1. AnswerOk(j, "failed")
    <3>1. ~AnyReached(j)
      BY <1>1, <1>2 DEF JobOk, ReachOk, Early, AnyReached, Entries
    <3> QED BY <1>1, <3>1 DEF AnswerOk, JobOk, HonestOk
  <2> QED BY <1>2, <1>3, <2>1, StopStep DEF Finish, Step, SessionOk, Answers
<1>4. ASSUME NEW t \in Found(j.op), session' = session,
             LET found == [j EXCEPT !.items[j.k].tgts = t]
             IN Step(c, IF j.k < Len(j.items)
                        THEN [found EXCEPT !.k = @ + 1, !.pc = "load"]
                        ELSE [found EXCEPT !.k = 1, !.pc = "forward"])
      PROVE  IInv'
  <2> DEFINE y == IF j.k < Len(j.items) THEN At(WithTgts(j, t), "load", j.k + 1, j.fail)
                                        ELSE At(WithTgts(j, t), "forward", 1, j.fail)
             found == [j EXCEPT !.items[j.k].tgts = t]
  <2>1. t \in {"none", "few", "many"}
    <3>1. plan \in Plans
      BY DEF IInv, Budget, HandlerTypes
    <3>2. plan.finds \subseteq {"none", "few", "many"}
      BY <3>1, PublishAssumption
    <3> QED BY <1>4, <3>2 DEF Found
  <2>2. /\ [found EXCEPT !.k = @ + 1, !.pc = "load"] = At(WithTgts(j, t), "load", j.k + 1, j.fail)
        /\ [found EXCEPT !.k = 1, !.pc = "forward"] = At(WithTgts(j, t), "forward", 1, j.fail)
    BY <1>1 DEF Job, At, WithTgts
  <2>3. task' = [task EXCEPT ![c] = y] /\ SessionOk(c)
    BY <1>4, <2>2 DEF Step, SessionOk
  <2>4. Quiet(y, j)
    BY <1>1, <1>2, <2>1, MatchOk
  <2> HIDE DEF y
  <2> QED BY <1>2, <2>3, <2>4, PlainStep
<1> QED BY <1>3, <1>4 DEF Match

(* A PUBLISH goes to the cluster: its message is fanned out.                 *)
LEMMA FannedStep ==
    ASSUME IInv, NEW c \in Conns, task[c].pc = "forward", NEW y, ~Bound(y),
           task' = [task EXCEPT ![c] = y], NEW i, i = task[c].id,
           fanned' = IF i = NoId THEN fanned ELSE [fanned EXCEPT ![i] = @ + 1],
           UNCHANGED <<window, coros, late>>
    PROVE  Server'
<1>1. HandlerTypes /\ ServerTypes /\ WindowInv /\ LateInv
  BY DEF IInv, Budget, Server
<1>2. /\ task \in [Conns -> Job] /\ fanned \in [Ids -> Nat]
      /\ task'[c] = y /\ \A d \in Conns : d # c => task'[d] = task[d]
      /\ task[c].id \in Ids \cup {NoId}
  BY <1>1, JobFields DEF HandlerTypes, ServerTypes
<1>3. CASE i = NoId
  <2>1. WindowInv'
    BY <1>1, <1>3, WindowStep
  <2>2. ServerTypes' /\ LateInv'
    BY <1>1, <1>3 DEF ServerTypes, LateInv
  <2> QED BY <2>1, <2>2 DEF Server
<1>4. CASE i # NoId
  <2>1. i \in Ids /\ Bound(task[c])
    BY <1>2, <1>4 DEF Bound
  <2>2. /\ Seen(window, i) /\ fanned[i] = 0
        /\ \A d \in Conns : Bound(task[d]) /\ task[d].id = i => d = c
    BY <1>1, <2>1 DEF WindowInv
  <2>3. /\ fanned' \in [Ids -> Nat] /\ fanned'[i] = 1
        /\ \A k \in Ids : k # i => fanned'[k] = fanned[k]
    BY <1>2, <1>4, <2>1, <2>2
  <2>4. \A k \in Ids : fanned'[k] <= 1 /\ (fanned'[k] # 0 => Seen(window', k))
    BY <1>1, <2>2, <2>3 DEF WindowInv
  <2>5. \A d \in Conns : Bound(task'[d]) => d # c /\ Bound(task[d]) /\ task'[d] = task[d]
    BY <1>2
  <2>6. \A d \in Conns : Bound(task[d]) => task[d].id \in Ids
    BY <1>2, JobFields DEF Bound
  <2>7. \A d \in Conns : Bound(task'[d]) => Seen(window', task'[d].id)
                                            /\ fanned'[task'[d].id] = 0
    BY <1>1, <2>2, <2>3, <2>5, <2>6 DEF WindowInv
  <2>8. \A a, b \in Conns : Bound(task'[a]) /\ Bound(task'[b]) /\ task'[a].id = task'[b].id
                              => a = b
    BY <1>1, <2>5 DEF WindowInv
  <2>9. WindowInv'
    BY <2>4, <2>7, <2>8 DEF WindowInv
  <2>10. ServerTypes' /\ LateInv'
    BY <1>1, <2>3 DEF ServerTypes, LateInv
  <2> QED BY <2>9, <2>10 DEF Server
<1> QED BY <1>3, <1>4

(* The budget in a step that touches neither counter nor connection.         *)
LEMMA PlainBudget ==
    ASSUME IInv, NEW c \in Conns, NEW y, Quiet(y, task[c]),
           task' = [task EXCEPT ![c] = y], acct' = acct, SessionOk(c),
           UNCHANGED <<plan, admin, torn>>
    PROVE  Budget'
<1>1. Budget /\ acct = [acct EXCEPT !.live = acct.live]
  BY HandlerFacts DEF IInv
<1>2. HandlerStep(c, y, acct.live)
  BY <1>1, SessionStep DEF HandlerStep
<1> QED BY <1>1, <1>2, QuietStep

(* What can become of a forward.                                             *)
LEMMA ForwardsType ==
    ASSUME NEW j
    PROVE  Forwards(j) \subseteq Reaches
  BY DEF Forwards, Reaches

(* The forward of a PUBLISH.                                                 *)
LEMMA ForwardPublishStep ==
    ASSUME IInv, NEW c \in Conns, task[c].pc = "forward", task[c].op = "publish",
           NEW r \in Reaches, ForwardPublish(c, WithCl(task[c], r), r), acct' = acct,
           UNCHANGED <<plan, admin, torn, window, coros, late>>
    PROVE  IInv'
<1> DEFINE j == task[c]
           x == WithCl(j, r)
<1>1. j \in Job /\ JobOk(j) /\ j.k \in Entries(j) /\ 1 \in Entries(j)
  BY HandlerFacts, AtWork
<1>2. x.id = j.id /\ x.k = j.k /\ x.fail = j.fail /\ x.route = j.route
  BY <1>1, ClMade DEF Edited, SameFrame
<1>3. fanned' = IF j.id = NoId THEN fanned ELSE [fanned EXCEPT ![j.id] = @ + 1]
  BY <1>2 DEF ForwardPublish
<1>4. ASSUME NEW ans \in {"ok", "failed"}, ans = "failed" => r # "sent",
             Finish(c, x, ans)
      PROVE  IInv'
  <2> DEFINE y == Finished(x, ans)
  <2>1. task' = [task EXCEPT ![c] = y] /\ SessionOk(c)
    BY <1>4 DEF Finish, Step, SessionOk
  <2>2. Quiet(y, j) /\ ~Bound(y)
    BY <1>1, <1>4, ForwardEnds
  <2> HIDE DEF y, x
  <2>3. Budget'
    BY <2>1, <2>2, PlainBudget
  <2>4. Server'
    BY <1>3, <2>1, <2>2, FannedStep
  <2> QED BY <2>3, <2>4 DEF IInv
<1>5. CASE ~NoLocal(x) /\ Step(c, [x EXCEPT !.pc = "local"]) /\ UNCHANGED session
  <2> DEFINE y == At(x, "local", j.k, j.fail)
             k == j.k
             pc == "local"
             fail == j.fail
  <2>1. y = [x EXCEPT !.pc = "local"]
    <3>1. x \in Job
      BY <1>1, ClMade DEF Edited
    <3> QED BY <1>2, <3>1 DEF At, Job
  <2>2. task' = [task EXCEPT ![c] = y] /\ SessionOk(c)
    BY <1>5, <2>1 DEF Step, SessionOk
  <2>3. /\ y = At(WithCl(j, r), pc, k, fail) /\ pc \in {"forward", "local"} /\ pc # "forward"
        /\ k \in Entries(j) /\ fail \in BOOLEAN /\ j.op \notin Calls
    BY <1>1, JobFields DEF Calls
  <2> HIDE DEF y, k, pc, fail, x
  <2>4. Quiet(y, j)
    BY <1>1, <2>3, ForwardOk
  <2>5. ~Bound(y)
    <3>1. WithCl(j, r) \in Job /\ k \in Nat \ {0} /\ pc \in Pcs
      BY <1>1, <2>3, ClMade, JobItems DEF Edited, Pcs
    <3>2. y.pc = pc
      BY <2>3, <3>1, AtMade
    <3> QED BY <2>3, <3>2 DEF Bound, Early
  <2>6. Budget'
    BY <2>2, <2>4, PlainBudget
  <2>7. Server'
    BY <1>3, <2>2, <2>5, FannedStep
  <2> QED BY <2>6, <2>7 DEF IInv
<1>6. CASE Finish(c, x, IF Missed(x, r) THEN "failed" ELSE "ok")
  <2> DEFINE ans == IF Missed(x, r) THEN "failed" ELSE "ok"
  <2>1. ans \in {"ok", "failed"} /\ (ans = "failed" => r # "sent") /\ Finish(c, x, ans)
    BY <1>6 DEF Missed
  <2> HIDE DEF ans, x
  <2> QED BY <1>4, <2>1
<1> QED BY <1>5, <1>6 DEF ForwardPublish

(* The forward of an item of a BATCH.                                        *)
LEMMA ForwardBatchStep ==
    ASSUME IInv, NEW c \in Conns, task[c].pc = "forward", task[c].op = "batch",
           NEW r \in Reaches, NEW oom \in BOOLEAN,
           ForwardBatch(c, WithCl(task[c], r), r, oom), acct' = acct, Others
    PROVE  IInv'
<1> DEFINE j == task[c]
           x == WithCl(j, r)
           fail == x.fail \/ (oom \/ (x.items[x.k].tgts = "none" /\ Missed(x, r)))
           more == j.k < Len(j.items)
           pc == IF more THEN "forward" ELSE "local"
           k == IF more THEN j.k + 1 ELSE 1
           y == At(x, pc, k, fail)
<1>1. j \in Job /\ JobOk(j) /\ j.k \in Entries(j) /\ 1 \in Entries(j) /\ j.pc = "forward"
  BY HandlerFacts, AtWork
<1>2. /\ x \in Job /\ x.k = j.k /\ Len(x.items) = Len(j.items) /\ x.pc = "forward"
  BY <1>1, ClMade DEF Edited
<1>3. j.k \in Nat /\ Len(j.items) \in Nat /\ j.k >= 1
  BY <1>1, JobItems
<1>4. /\ k \in Entries(j) /\ pc \in {"forward", "local"} /\ (pc = "forward" => k > j.k)
  BY <1>1, <1>3 DEF Entries
<1>5. fail \in BOOLEAN /\ x.fail \in BOOLEAN
  <2>1. x.fail \in BOOLEAN
    BY <1>2, JobFields
  <2> QED BY <2>1
<1> HIDE DEF x
<1>6. task' = [task EXCEPT ![c] = y] /\ SessionOk(c)
  <2> DEFINE tried == [x EXCEPT !.fail = @ \/ (oom \/ (x.items[x.k].tgts = "none" /\ Missed(x, r)))]
  <2>1. tried = [x EXCEPT !.fail = fail]
    OBVIOUS
  <2>2. task' = [task EXCEPT ![c] = IF x.k < Len(x.items) THEN [tried EXCEPT !.k = @ + 1]
                                    ELSE [tried EXCEPT !.k = 1, !.pc = "local"]]
    BY DEF ForwardBatch, Step, x
  <2> HIDE DEF fail, tried
  <2>3. more => [tried EXCEPT !.k = @ + 1] = y
    BY <1>2, <2>1 DEF At, Job
  <2>4. ~more => [tried EXCEPT !.k = 1, !.pc = "local"] = y
    BY <1>2, <2>1 DEF At, Job
  <2>5. task' = [task EXCEPT ![c] = y]
    BY <1>2, <2>2, <2>3, <2>4
  <2> QED BY <2>5 DEF ForwardBatch, SessionOk
<1>7. y = At(WithCl(j, r), pc, k, fail) /\ j.op \notin Calls
  BY DEF x, Calls
<1> HIDE DEF y, k, pc, fail
<1>8. Quiet(y, j)
  BY <1>1, <1>4, <1>5, <1>7, ForwardOk
<1> QED BY <1>6, <1>8, PlainStep

(* The forward of a REQUEST or RESPONSE.                                     *)
LEMMA ForwardCallStep ==
    ASSUME IInv, NEW c \in Conns, task[c].pc = "forward", task[c].op \in Calls,
           NEW r \in Reaches, ForwardCall(c, WithCl(task[c], r), r), acct' = acct,
           UNCHANGED <<plan, admin, torn, window, coros, late>>
    PROVE  IInv'
<1> DEFINE j == task[c]
           x == WithCl(j, r)
           pc == IF NoLocal(x) THEN "reply" ELSE "local"
           y == At(x, pc, j.k, j.fail)
<1>1. j \in Job /\ JobOk(j) /\ j.k \in Entries(j) /\ j.pc = "forward"
  BY HandlerFacts, AtWork
<1>2. x \in Job /\ x.k = j.k /\ x.fail = j.fail
  BY <1>1, ClMade DEF Edited
<1>3. (~NoLocal(x) => r = "no") /\ SessionOk(c) /\ Others
  BY DEF ForwardCall, SessionOk, Others
<1>4. task' = [task EXCEPT ![c] = y]
  <2>1. task' = [task EXCEPT ![c] = [x EXCEPT !.pc = pc]]
    BY DEF ForwardCall, Step
  <2> HIDE DEF x, pc
  <2>2. [x EXCEPT !.pc = pc] = y
    BY <1>2 DEF At, Job
  <2> QED BY <2>1, <2>2
<1>5. Quiet(y, j)
  <2>1. y = At(WithCl(j, r), pc, j.k, j.fail) /\ pc = IF NoLocal(WithCl(j, r)) THEN "reply" ELSE "local"
    OBVIOUS
  <2> HIDE DEF y, pc
  <2> QED BY <1>1, <1>3, <2>1, ForwardCallOk
<1> HIDE DEF y
<1> QED BY <1>3, <1>4, <1>5, PlainStep

(* Cluster forward.                                                          *)
LEMMA ForwardStep ==
    ASSUME IInv, NEW c \in Conns, Forward(c)
    PROVE  IInv'
<1> DEFINE j == task[c]
<1>1. j \in Job /\ JobOk(j) /\ j.k \in Entries(j)
  BY HandlerFacts, AtWork DEF Forward
<1>2. j.pc = "forward" /\ acct' = acct /\ UNCHANGED <<plan, admin, torn, window, coros, late>>
  BY DEF Forward
<1>3. CASE j.k = 1 /\ Finish(c, j, "failed") /\ j.op = "batch" /\ UNCHANGED fanned
  <2>1. ~AnyReached(j)
    BY <1>1, <1>2, <1>3 DEF JobOk, ReachOk, AnyReached, Reached, Sent, Entries
  <2>2. AnswerOk(j, "failed")
    BY <1>3, <2>1 DEF AnswerOk, Calls
  <2> QED BY <1>2, <1>3, <2>2, StopStep DEF Finish, Step, SessionOk, Answers, Others
<1>4. CASE Inactive(c, j) /\ UNCHANGED fanned
  BY <1>2, <1>4, InactiveStep DEF Others
<1>5. ASSUME NEW r \in Forwards(j),
             LET f == [j EXCEPT !.items[j.k].cl = r]
             IN \/ j.op = "publish" /\ ForwardPublish(c, f, r)
                \/ j.op = "batch" /\ \E oom \in BOOLEAN : ForwardBatch(c, f, r, oom)
                \/ j.op \in {"request", "response"} /\ ForwardCall(c, f, r)
      PROVE  IInv'
  <2>1. r \in Reaches /\ [j EXCEPT !.items[j.k].cl = r] = WithCl(task[c], r)
    BY ForwardsType DEF WithCl
  <2>2. CASE j.op = "publish" /\ ForwardPublish(c, WithCl(task[c], r), r)
    BY <1>2, <2>1, <2>2, ForwardPublishStep
  <2>3. ASSUME j.op = "batch", NEW oom \in BOOLEAN, ForwardBatch(c, WithCl(task[c], r), r, oom)
        PROVE  IInv'
    <3>1. Others
      BY <1>2, <2>3 DEF Others, ForwardBatch
    <3> QED BY <1>2, <2>1, <2>3, <3>1, ForwardBatchStep
  <2>4. CASE j.op \in {"request", "response"} /\ ForwardCall(c, WithCl(task[c], r), r)
    BY <1>2, <2>1, <2>4, ForwardCallStep DEF Calls
  <2> QED BY <1>5, <2>1, <2>2, <2>3, <2>4
<1> QED BY <1>3, <1>4, <1>5 DEF Forward

(* A coroutine takes over.                                                   *)
LEMMA SpawnStep ==
    ASSUME IInv, NEW c \in Conns, task[c].pc = "local", task[c].op = "publish",
           Spawn(c, task[c]), acct' = acct,
           UNCHANGED <<plan, admin, torn, window, fanned, late>>
    PROVE  IInv'
<1> DEFINE j == task[c]
           y == Finished(j, "ok")
           ans == "ok"
           co == [ep |-> j.ep, gen |-> session[c].gen, left |-> 2, any |-> FALSE,
                  cl |-> j.items[1].cl]
<1>1. j \in Job /\ JobOk(j) /\ 1 \in Entries(j) /\ j.pc = "local"
  BY HandlerFacts, AtWork
<1>2. task' = [task EXCEPT ![c] = y] /\ SessionOk(c) /\ coros' = [coros EXCEPT ![c] = Append(@, co)]
  BY DEF Spawn, Finish, Step, SessionOk
<1>3. AnswerOk(j, "ok")
  BY DEF AnswerOk, Calls
<1>4. /\ HandlerTypes /\ ServerTypes /\ WindowInv /\ LateInv
      /\ session[c].gen \in Nat /\ coros[c] \in Seq(Coro)
  BY DEF IInv, Budget, Server, HandlerTypes, ServerTypes
<1>5. Quiet(y, j)
  <2>1. y = Finished(j, ans) /\ ans \in Answers /\ AnswerOk(j, ans)
    BY <1>3 DEF Answers
  <2> HIDE DEF y, j, ans
  <2> QED BY <1>1, <2>1, StopQuiet
<1>6. co \in Coro
  <2>1. j.items[1] \in ItemSet /\ j.ep \in Nat
    BY <1>1, JobItems, JobFields
  <2> QED BY <1>4, <2>1 DEF Coro, ItemSet
<1> HIDE DEF y, co
<1>7. Budget'
  BY <1>2, <1>5, PlainBudget
<1>8. WindowInv'
  BY <1>2, <1>4, <1>5, WindowStep DEF Quiet, SameFrame
<1>9. ServerTypes'
  <2>1. Append(coros[c], co) \in Seq(Coro)
    BY <1>4, <1>6, AppendProperties
  <2> QED BY <1>2, <1>4, <2>1 DEF ServerTypes
<1>10. LateInv'
  BY <1>4 DEF LateInv
<1> QED BY <1>7, <1>8, <1>9, <1>10 DEF IInv, Server

(* The end of a PUBLISH or BATCH after its delivery.                         *)
LEMMA DeliveredStep ==
    ASSUME IInv, NEW c \in Conns, task[c].pc = "local", task[c].op \notin Calls,
           NEW got \in BOOLEAN, NEW amb \in BOOLEAN, NEW fail \in BOOLEAN,
           NEW x, x = At(WithLocal(task[c], got, amb), "local", task[c].k, fail),
           NEW ans \in {"ok", "failed"}, ans = "failed" => ~AnyReached(x),
           Finish(c, x, ans), acct' = acct, Others
    PROVE  IInv'
<1> DEFINE j == task[c]
           y == Finished(x, ans)
<1>1. j \in Job /\ JobOk(j)
  BY HandlerFacts
<1>2. task' = [task EXCEPT ![c] = y] /\ SessionOk(c) /\ y = Finished(x, ans)
  BY DEF Finish, Step, SessionOk
<1>3. /\ x = At(WithLocal(j, got, amb), j.pc, j.k, fail) /\ j.pc = "local"
      /\ j.op \notin Calls /\ j = task[c]
  OBVIOUS
<1> HIDE DEF y, j
<1>4. Quiet(y, j)
  BY <1>1, <1>2, <1>3, LocalEnds
<1> QED BY <1>2, <1>3, <1>4, PlainStep

(* Local delivery.                                                           *)
LEMMA LocalStep ==
    ASSUME IInv, NEW c \in Conns, Local(c)
    PROVE  IInv'
<1> DEFINE j == task[c]
<1>1. /\ j \in Job /\ JobOk(j) /\ j.k \in Entries(j) /\ j.fail \in BOOLEAN
      /\ j.k \in Nat /\ Len(j.items) \in Nat /\ j.k <= Len(j.items)
  <2>1. j \in Job /\ JobOk(j) /\ j.k \in Entries(j)
    BY HandlerFacts, AtWork DEF Local
  <2> QED BY <2>1, JobFields, JobItems
<1>2. j.pc = "local" /\ acct' = acct /\ UNCHANGED <<plan, admin, torn, window, fanned, late>>
  BY DEF Local
<1>3. CASE Inactive(c, j) /\ UNCHANGED coros
  BY <1>2, <1>3, InactiveStep DEF Others
<1>4. ASSUME NEW got \in BOOLEAN, NEW amb \in BOOLEAN,
             got => j.items[j.k].tgts # "none", amb => j.op = "request",
             LET d == [j EXCEPT !.items[j.k].local = got, !.amb = amb]
             IN \/ j.op = "publish" /\ LocalPublish(c, j, d)
                \/ j.op = "batch" /\ LocalBatch(c, j, d)
                \/ /\ j.op \in {"request", "response"}
                   /\ Step(c, [d EXCEPT !.pc = "reply"])
                   /\ UNCHANGED <<session, coros>>
      PROVE  IInv'
  <2> DEFINE d == WithLocal(j, got, amb)
             k == j.k
  <2>1. /\ \/ j.op = "publish" /\ LocalPublish(c, j, d)
           \/ j.op = "batch" /\ LocalBatch(c, j, d)
           \/ /\ j.op \in {"request", "response"}
              /\ Step(c, [d EXCEPT !.pc = "reply"])
              /\ UNCHANGED <<session, coros>>
    BY <1>4 DEF WithLocal
  <2>2. d \in Job /\ d.pc = "local" /\ d.k = j.k /\ d.fail = j.fail /\ Len(d.items) = Len(j.items)
    BY <1>1, <1>2, LocalMade DEF Edited
  <2>3. d = At(d, "local", j.k, j.fail)
    <3> HIDE DEF d, j
    <3> QED BY <2>2 DEF At, Job
  <2>4. CASE j.op = "publish" /\ Finish(c, d, PublishAnswer(d)) /\ UNCHANGED coros
    <3> DEFINE ans == PublishAnswer(d)
               fail == j.fail
               x == d
    <3>1. ans \in {"ok", "failed"} /\ (ans = "failed" => ~AnyReached(x))
      BY DEF PublishAnswer
    <3>2. /\ Finish(c, x, ans) /\ fail \in BOOLEAN /\ Others /\ j.op \notin Calls
          /\ x = At(WithLocal(task[c], got, amb), "local", task[c].k, fail)
      BY <1>1, <1>2, <2>3, <2>4 DEF Others, Calls
    <3> HIDE DEF ans, fail, x, d
    <3> QED BY <1>2, <3>1, <3>2, DeliveredStep
  <2>5. CASE j.op = "publish" /\ Spawn(c, j)
    BY <1>2, <2>5, SpawnStep
  <2>6. CASE j.op = "batch" /\ LocalBatch(c, j, d)
    <3> DEFINE i == d.items[j.k]
               fail == d.fail \/ (i.tgts # "none" /\ ~i.local)
               next == [d EXCEPT !.fail = @ \/ (i.tgts # "none" /\ ~i.local)]
               x == At(d, "local", k, fail)
    <3>1. fail \in BOOLEAN
      <4>1. d.fail \in BOOLEAN
        BY <1>1, <2>2
      <4> QED BY <4>1
    <3>2. next = [d EXCEPT !.fail = fail]
      OBVIOUS
    <3>3. /\ coros' = coros
          /\ \/ /\ j.k < Len(j.items)
                /\ Step(c, [next EXCEPT !.k = @ + 1]) /\ UNCHANGED session
             \/ /\ j.k = Len(j.items)
                /\ Finish(c, next, BatchAnswer(next))
      BY <2>6 DEF LocalBatch
    <3> HIDE DEF next, fail, d
    <3>4. next = x
      BY <2>2, <3>2 DEF At, Job
    <3>5. CASE j.k < Len(j.items) /\ Step(c, [next EXCEPT !.k = @ + 1]) /\ UNCHANGED session
      <4> DEFINE y == At(d, j.pc, j.k + 1, fail)
      <4>1. [next EXCEPT !.k = @ + 1] = y
        BY <1>2, <2>2, <3>2 DEF At, Job
      <4>2. task' = [task EXCEPT ![c] = y] /\ SessionOk(c) /\ Others
        BY <1>2, <3>3, <3>5, <4>1 DEF Step, SessionOk, Others
      <4>3. y = At(WithLocal(j, got, amb), j.pc, j.k + 1, fail) /\ ~amb
        BY <1>4, <2>6 DEF d
      <4> HIDE DEF y
      <4>4. Quiet(y, j)
        BY <1>1, <1>2, <1>4, <2>6, <3>1, <3>5, <4>3, LocalNext
      <4> QED BY <1>2, <4>2, <4>4, PlainStep
    <3>6. CASE Finish(c, next, BatchAnswer(next))
      <4> DEFINE ans == BatchAnswer(next)
      <4>1. ans \in {"ok", "failed"} /\ (ans = "failed" => ~AnyReached(next))
        BY DEF BatchAnswer
      <4>2. /\ Finish(c, next, ans) /\ Others /\ j.op \notin Calls
            /\ next = At(WithLocal(task[c], got, amb), "local", task[c].k, fail)
        BY <1>2, <2>6, <3>3, <3>4, <3>6 DEF Others, Calls, d
      <4> HIDE DEF ans
      <4> QED BY <1>2, <3>1, <4>1, <4>2, DeliveredStep
    <3> QED BY <3>3, <3>5, <3>6
  <2>7. CASE /\ j.op \in {"request", "response"}
             /\ Step(c, [d EXCEPT !.pc = "reply"])
             /\ UNCHANGED <<session, coros>>
    <3> DEFINE pc == "reply"
               y == At(d, pc, j.k, j.fail)
    <3>1. /\ task' = [task EXCEPT ![c] = y] /\ SessionOk(c) /\ Others /\ j.op \in Calls
      <4>1. [d EXCEPT !.pc = "reply"] = y
        <5> HIDE DEF d
        <5> QED BY <2>2 DEF At, Job
      <4> QED BY <1>2, <2>7, <4>1 DEF Step, SessionOk, Others, Calls
    <3>2. y = At(WithLocal(j, got, amb), pc, j.k, j.fail) /\ pc = "reply"
      OBVIOUS
    <3> HIDE DEF y, d, pc
    <3>3. Quiet(y, j)
      BY <1>1, <1>2, <1>4, <3>1, <3>2, LocalCallOk
    <3> QED BY <1>2, <3>1, <3>3, PlainStep
  <2> QED BY <2>1, <2>4, <2>5, <2>6, <2>7 DEF LocalPublish
<1> QED BY <1>3, <1>4 DEF Local

(* The end of a REQUEST or RESPONSE.                                         *)
LEMMA ReplyStep ==
    ASSUME IInv, NEW c \in Conns, Reply(c)
    PROVE  IInv'
<1> DEFINE j == task[c]
           again == ~NoLocal(j) /\ ~AnyReached(j) /\ ~j.amb /\ ~j.route
<1>1. /\ j \in Job /\ JobOk(j) /\ 1 \in Entries(j)
  BY HandlerFacts, AtWork DEF Reply
<1>2. j.pc = "reply" /\ acct' = acct /\ Others
  BY RestOthers DEF Reply
<1>3. j.k = 1 /\ j.op \in Calls
  <2>1. j.op \in Calls
    BY <1>1, <1>2 DEF JobOk, ShapeOk
  <2> QED BY <1>1, <1>2, <2>1, AtWork DEF Calls, Ops
<1>4. CASE Inactive(c, j)
  BY <1>2, <1>4, InactiveStep
<1>5. ASSUME NEW r \in IF again THEN Forwards(j) ELSE {j.items[1].cl},
             LET f == [j EXCEPT !.items[1].cl = r] IN Finish(c, f, PublishAnswer(f))
      PROVE  IInv'
  <2> DEFINE f == WithCl(j, r)
             y == Finished(f, PublishAnswer(f))
  <2>1. [j EXCEPT !.items[1].cl = r] = f
    BY <1>3 DEF WithCl
  <2>2. task' = [task EXCEPT ![c] = y] /\ SessionOk(c)
    BY <1>5, <2>1 DEF Finish, Step, SessionOk
  <2>3. j.items[1] \in ItemSet
    BY <1>1, JobItems
  <2>4. r \in Reaches
    BY <1>5, <2>3, ForwardsType DEF ItemSet
  <2>5. r # "no" => ~j.items[1].local /\ ~j.amb
    <3>1. CASE again
      BY <1>1, <3>1 DEF AnyReached, Reached, Entries
    <3>2. CASE ~again
      <4>1. r = j.items[1].cl
        BY <1>5, <3>2
      <4> QED BY <1>1, <1>3, <4>1 DEF JobOk, HonestOk
    <3> QED BY <3>1, <3>2
  <2>6. Quiet(y, j)
    <3>1. y = Finished(WithCl(j, r), PublishAnswer(WithCl(j, r)))
      OBVIOUS
    <3> HIDE DEF y
    <3> QED BY <1>1, <1>2, <2>4, <2>5, <3>1, ReplyOk
  <2> HIDE DEF y
  <2> QED BY <1>2, <2>2, <2>6, PlainStep
<1> QED BY <1>4, <1>5 DEF Reply

-----------------------------------------------------------------------------
(* cmq_idempo_check.                                                         *)

Slot == [last : Nat, bits : SUBSET Nat]

(* What the window has seen it does not forget.                              *)
LEMMA MarkedKeeps ==
    ASSUME NEW w \in Slot, NEW s \in Nat
    PROVE  /\ Marked(w, s) \in Slot /\ Duplicate(Marked(w, s), s)
           /\ \A t \in Nat : Duplicate(w, t) => Duplicate(Marked(w, s), t)
<1> DEFINE m == Marked(w, s)
<1>1. w.last \in Nat /\ w.bits \in SUBSET Nat /\ Window \in Nat
  BY PublishAssumption DEF Slot
<1>2. CASE s > w.last
  <2> DEFINE B == {0} \cup {d \in {b + (s - w.last) : b \in w.bits} : d < Window}
  <2>1. m = [last |-> s, bits |-> B]
    BY <1>2 DEF Marked
  <2>2. m.last = s /\ m.bits = B /\ m \in Slot
    <3>1. B \in SUBSET Nat
      BY <1>1, <1>2
    <3> HIDE DEF B
    <3> QED BY <2>1, <3>1 DEF Slot
  <2>3. Duplicate(m, s)
    BY <2>2 DEF Duplicate
  <2>4. ASSUME NEW t \in Nat, Duplicate(w, t) PROVE Duplicate(m, t)
    <3>1. t <= w.last /\ (w.last - t >= Window \/ w.last - t \in w.bits)
      BY <2>4 DEF Duplicate
    <3>2. t <= s /\ s - t = (w.last - t) + (s - w.last)
      BY <1>1, <1>2, <3>1
    <3>3. CASE s - t >= Window
      BY <2>2, <3>2, <3>3 DEF Duplicate
    <3>4. CASE ~(s - t >= Window)
      <4>1. s - t < Window /\ ~(w.last - t >= Window)
        BY <1>1, <1>2, <3>1, <3>2, <3>4
      <4>2. w.last - t \in w.bits
        BY <3>1, <4>1
      <4>3. s - t \in B
        BY <3>2, <4>1, <4>2
      <4> HIDE DEF B
      <4> QED BY <2>2, <3>2, <4>3 DEF Duplicate
    <3> QED BY <3>3, <3>4
  <2> QED BY <2>2, <2>3, <2>4
<1>3. CASE ~(s > w.last)
  <2>1. m = [w EXCEPT !.bits = @ \cup {w.last - s}]
    BY <1>3 DEF Marked
  <2>2. w.last - s \in Nat /\ s <= w.last
    BY <1>1, <1>3
  <2>3. m.last = w.last /\ m.bits = w.bits \cup {w.last - s} /\ m \in Slot
    BY <1>1, <2>1, <2>2 DEF Slot
  <2>4. Duplicate(m, s)
    BY <2>2, <2>3 DEF Duplicate
  <2>5. \A t \in Nat : Duplicate(w, t) => Duplicate(m, t)
    BY <2>3 DEF Duplicate
  <2> QED BY <2>3, <2>4, <2>5
<1> QED BY <1>2, <1>3

(* A message passes the window.                                              *)
LEMMA PassedStep ==
    ASSUME IInv, NEW c \in Conns, NEW i \in Ids, NEW y, task' = [task EXCEPT ![c] = y],
           Bound(y) => y.id = i, ~Seen(window, i), Seen(window', i),
           \A k \in Ids : Seen(window, k) => Seen(window', k),
           \A p \in DOMAIN window' : window'[p] \in Slot,
           UNCHANGED <<coros, fanned, late>>
    PROVE  Server'
<1>1. HandlerTypes /\ ServerTypes /\ WindowInv /\ LateInv
  BY DEF IInv, Budget, Server
<1>2. task \in [Conns -> Job] /\ task'[c] = y /\ \A d \in Conns : d # c => task'[d] = task[d]
  BY <1>1 DEF HandlerTypes
<1>3. \A d \in Conns : Bound(task[d]) => task[d].id \in Ids /\ Seen(window, task[d].id)
  BY <1>1, <1>2, JobFields DEF WindowInv, Bound
<1>4. fanned[i] = 0
  BY <1>1 DEF WindowInv
<1>5. \A k \in Ids : fanned'[k] <= 1 /\ (fanned'[k] # 0 => Seen(window', k))
  BY <1>1 DEF WindowInv
<1>6. \A d \in Conns : Bound(task'[d]) => Seen(window', task'[d].id) /\ fanned'[task'[d].id] = 0
  BY <1>1, <1>2, <1>3, <1>4 DEF WindowInv
<1>7. \A d \in Conns : d # c /\ Bound(task[d]) => task[d].id # i
  BY <1>3
<1>8. \A a, b \in Conns : Bound(task'[a]) /\ Bound(task'[b]) /\ task'[a].id = task'[b].id
                            => a = b
  BY <1>1, <1>2, <1>7 DEF WindowInv
<1>9. WindowInv'
  BY <1>5, <1>6, <1>8 DEF WindowInv
<1>10. ServerTypes' /\ LateInv'
  BY <1>1 DEF ServerTypes, LateInv, Slot
<1> QED BY <1>9, <1>10 DEF Server

(* The window after a message passed.                                        *)
LEMMA WindowGrows ==
    ASSUME ServerTypes, NEW i \in Ids, ~Seen(window, i),
           \/ /\ i[1] \in DOMAIN window
              /\ window' = [window EXCEPT ![i[1]] = Marked(@, i[2])]
           \/ /\ i[1] \notin DOMAIN window
              /\ window' = [q \in DOMAIN window \cup {i[1]} |->
                   IF q = i[1] THEN [last |-> i[2], bits |-> {0}] ELSE window[q]]
    PROVE  /\ Seen(window', i)
           /\ \A k \in Ids : Seen(window, k) => Seen(window', k)
           /\ \A p \in DOMAIN window' : window'[p] \in Slot
<1> DEFINE p == i[1]
           s == i[2]
<1>1. s \in Nat /\ \A k \in Ids : k[2] \in Nat
  BY PublishAssumption
<1>2. \A q \in DOMAIN window : window[q] \in Slot
  BY DEF ServerTypes, Slot
<1>3. CASE p \in DOMAIN window /\ window' = [window EXCEPT ![p] = Marked(@, s)]
  <2> DEFINE w == window[p]
             m == Marked(w, s)
  <2>1. /\ m \in Slot /\ Duplicate(m, s)
        /\ \A t \in Nat : Duplicate(w, t) => Duplicate(m, t)
    BY <1>1, <1>2, <1>3, MarkedKeeps
  <2>2. /\ DOMAIN window' = DOMAIN window /\ window'[p] = m
        /\ \A q \in DOMAIN window : q # p => window'[q] = window[q]
    BY <1>3
  <2> HIDE DEF m
  <2>3. Seen(window', i)
    BY <1>3, <2>1, <2>2 DEF Seen
  <2>4. \A k \in Ids : Seen(window, k) => Seen(window', k)
    BY <1>1, <2>1, <2>2 DEF Seen
  <2> QED BY <1>2, <2>1, <2>2, <2>3, <2>4
<1>4. CASE /\ p \notin DOMAIN window
           /\ window' = [q \in DOMAIN window \cup {p} |->
                IF q = p THEN [last |-> s, bits |-> {0}] ELSE window[q]]
  <2> DEFINE m == [last |-> s, bits |-> {0}]
  <2>1. m \in Slot /\ Duplicate(m, s)
    BY <1>1 DEF Slot, Duplicate
  <2>2. /\ DOMAIN window' = DOMAIN window \cup {p} /\ window'[p] = m
        /\ \A q \in DOMAIN window : window'[q] = window[q]
    BY <1>4
  <2> HIDE DEF m
  <2>3. Seen(window', i)
    BY <2>1, <2>2 DEF Seen
  <2>4. \A k \in Ids : Seen(window, k) => Seen(window', k)
    BY <2>2 DEF Seen
  <2> QED BY <1>2, <2>1, <2>2, <2>3, <2>4
<1> QED BY <1>3, <1>4

(* PUBLISH before the budget.                                                *)
LEMMA AdmitStep ==
    ASSUME IInv, NEW c \in Conns, Admit(c)
    PROVE  IInv'
<1> DEFINE j == task[c]
<1>1. /\ j \in Job /\ JobOk(j) /\ j.g0 \in Nat /\ j.cur \in Nat
      /\ j.id \in Ids \cup {NoId}
  BY HandlerFacts, JobFields
<1>2. /\ j.pc = "admit" /\ acct' = acct /\ UNCHANGED <<plan, admin, torn, coros, fanned, late>>
  BY DEF Admit
<1>3. "refused" \in Answers /\ "silent" \in Answers
      /\ AnswerOk(j, "refused") /\ AnswerOk(j, "silent")
  BY <1>1, <1>2, AtWork DEF Answers
<1>4. ASSUME NEW ans \in {"refused", "silent"}, Finish(c, j, ans), window' = window
      PROVE  IInv'
  <2>1. task' = [task EXCEPT ![c] = Finished(task[c], ans)] /\ SessionOk(c) /\ Others
    BY <1>2, <1>4 DEF Finish, Step, SessionOk, Others
  <2> QED BY <1>2, <1>3, <2>1, StopStep
<1> DEFINE y == Go(j, "load", j.g0, j.cur)
           z == Finished(j, "refused")
<1>5. Admitted(c) => task' = [task EXCEPT ![c] = y] /\ SessionOk(c)
  <2>1. [j EXCEPT !.pc = "load"] = y
    BY <1>1 DEF Go, Job
  <2> QED BY <2>1 DEF Admitted, Step, SessionOk
<1>6. Finish(c, j, "refused") => task' = [task EXCEPT ![c] = z] /\ SessionOk(c)
  BY DEF Finish, Step, SessionOk
<1>7. /\ y \in Job /\ JobOk(y) /\ SameFrame(y, j) /\ y.pc = "load" /\ y.g0 = j.g0
      /\ Weight(y) = Weight(j)
  <2> DEFINE g == j.g0
             cur == j.cur
  <2>1. y = Go(j, "load", g, cur) /\ g = j.g0 /\ g \in Nat /\ cur \in Nat /\ j.pc \in Holding5
    BY <1>1, <1>2 DEF Holding5
  <2> HIDE DEF y, g, cur
  <2>2. Gone(y, j, "load", g)
    BY <1>1, <2>1, GoOk
  <2> QED BY <1>2, <2>1, <2>2 DEF Gone
<1>8. Quiet(z, j) /\ ~Bound(z)
  <2> DEFINE ans == "refused"
  <2>1. z = Finished(j, ans) /\ ans \in Answers /\ AnswerOk(j, ans)
    BY <1>3
  <2>2. FrameOk(j)
    BY <1>1, <1>2, AtWork
  <2> HIDE DEF z, ans
  <2>3. Quiet(z, j)
    BY <1>1, <1>2, <2>1, StopQuiet
  <2>4. ~Bound(z)
    BY <1>1, <2>1, <2>2, FinishedOk
  <2> QED BY <2>3, <2>4
<1> HIDE DEF y, z
<1>9. CASE j.id = NoId /\ Admitted(c) /\ window' = window
  <2>1. ~Bound(y)
    BY <1>7, <1>9 DEF Bound, SameFrame
  <2>2. Quiet(y, task[c])
    BY <1>7, <2>1 DEF Quiet, Swaps
  <2> QED BY <1>2, <1>5, <1>9, <2>2, PlainStep DEF Others
<1>10. ASSUME NEW i \in Ids, i = j.id, ~Seen(window, i),
             \/ /\ i[1] \in DOMAIN window
                /\ window' = [window EXCEPT ![i[1]] = Marked(@, i[2])]
             \/ /\ i[1] \notin DOMAIN window
                /\ window' = [q \in DOMAIN window \cup {i[1]} |->
                     IF q = i[1] THEN [last |-> i[2], bits |-> {0}] ELSE window[q]],
             Admitted(c) \/ Finish(c, j, "refused")
       PROVE  IInv'
  <2>1. ServerTypes
    BY DEF IInv, Server
  <2>2. /\ Seen(window', i)
        /\ \A k \in Ids : Seen(window, k) => Seen(window', k)
        /\ \A p \in DOMAIN window' : window'[p] \in Slot
    BY <1>10, <2>1, WindowGrows
  <2>3. CASE Admitted(c)
    <3>1. Server'
      BY <1>2, <1>5, <1>7, <1>10, <2>2, <2>3, PassedStep DEF SameFrame
    <3>2. Budget'
      <4> DEFINE m == acct.live
      <4>1. /\ m \in Nat /\ m <= LiveMax /\ acct' = [acct EXCEPT !.live = m] /\ m = acct.live
            /\ Budget /\ y.g0 <= acct.gen
        BY <1>2, <1>7, HandlerFacts DEF IInv
      <4> HIDE DEF m
      <4>2. HandlerStep(c, y, m)
        BY <1>2, <1>5, <2>3, <4>1, SessionStep DEF HandlerStep
      <4>3. SwapOk(y)
        BY <1>7 DEF SwapOk
      <4>4. Fits(y, c)
        BY <1>7, <4>1, <4>3 DEF Fits, SameFrame, Swaps
      <4>5. m + Hold(task[c], acct.epoch) = acct.live + Hold(y, acct.epoch)
        BY <1>7, <4>1 DEF Hold, SameFrame
      <4> QED BY <1>7, <4>1, <4>2, <4>4, <4>5, BudgetStep
    <3> QED BY <3>1, <3>2 DEF IInv
  <2>4. CASE Finish(c, j, "refused")
    <3>1. Server'
      BY <1>2, <1>6, <1>8, <1>10, <2>2, <2>4, PassedStep
    <3>2. Budget'
      BY <1>2, <1>6, <1>8, <2>4, PlainBudget
    <3> QED BY <3>1, <3>2 DEF IInv
  <2> QED BY <1>10, <2>3, <2>4
<1>11. CASE j.id = NoId
  BY <1>4, <1>9, <1>11 DEF Admit
<1>12. CASE j.id # NoId
  <2> DEFINE i == j.id
  <2>1. i \in Ids /\ i = j.id
    BY <1>1, <1>12
  <2> HIDE DEF i
  <2>2. CASE \E ans \in {"refused", "silent"} : Finish(c, j, ans) /\ window' = window
    BY <1>4, <2>2
  <2>3. CASE /\ \/ /\ Known(i[1]) /\ ~Duplicate(window[i[1]], i[2])
                   /\ window' = [window EXCEPT ![i[1]] = Marked(@, i[2])]
                \/ /\ ~Known(i[1])
                   /\ window' = [q \in DOMAIN window \cup {i[1]} |->
                        IF q = i[1] THEN [last |-> i[2], bits |-> {0}] ELSE window[q]]
             /\ Admitted(c) \/ Finish(c, j, "refused")
    <3>1. ~Seen(window, i)
      BY <2>3 DEF Seen, Known
    <3> QED BY <1>10, <2>1, <2>3, <3>1 DEF Known
  <2> QED BY <1>12, <2>1, <2>2, <2>3 DEF Admit
<1> QED BY <1>11, <1>12

-----------------------------------------------------------------------------
(* Arrival, answer, connection and coroutines.                               *)

(* A handler begins or ends before it began, or its client reads the answer. *)
LEMMA FreshStep ==
    ASSUME IInv, NEW c \in Conns, Weight(task[c]) = 0, NEW ep \in {0, session[c].ep},
           NEW y, New(y, ep), task' = [task EXCEPT ![c] = y], acct' = acct,
           SessionOk(c), Others
    PROVE  IInv'
<1>1. Budget /\ acct = [acct EXCEPT !.live = acct.live]
  BY HandlerFacts DEF IInv
<1>2. HandlerStep(c, y, acct.live)
  BY <1>1, SessionStep DEF HandlerStep, Others
<1>3. Budget'
  BY <1>1, <1>2, NewStep
<1>4. Server'
  BY ServerStep DEF New
<1> QED BY <1>3, <1>4 DEF IInv

(* The client reads its answer.                                              *)
LEMMA ReadStep ==
    ASSUME IInv, NEW c \in Conns, Read(c)
    PROVE  IInv'
<1> DEFINE y == Idle
           ep == 0
<1>1. Weight(task[c]) = 0
  BY HandlerFacts, NothingHeld DEF Read, JobOk, HeldOk
<1>2. New(y, ep) /\ ep \in {0, session[c].ep}
  BY IdleOk DEF New, Swaps
<1>3. task' = [task EXCEPT ![c] = y] /\ acct' = acct /\ SessionOk(c) /\ Others
  BY DEF Read, Step, SessionOk, Others
<1> HIDE DEF y, ep
<1> QED BY <1>1, <1>2, <1>3, FreshStep

(* The sizes of a frame.                                                     *)
LEMMA BatchType ==
    ASSUME NEW p \in Plans, NEW n \in 1 .. BatchMax, NEW ns \in [1 .. n -> p.sizes]
    PROVE  Len(ns) \in Nat \ {0} /\ \A k \in 1 .. Len(ns) : ns[k] \in Nat
<1>1. BatchMax \in Nat /\ p.sizes \subseteq Nat
  BY PublishAssumption
<1>2. n \in Nat /\ n >= 1
  BY <1>1
<1>3. ns \in Seq(p.sizes)
  BY <1>2, SeqDef
<1>4. Len(ns) \in Nat /\ DOMAIN ns = 1 .. Len(ns) /\ DOMAIN ns = 1 .. n
  BY <1>3
<1>5. Len(ns) # 0
  BY <1>2, <1>4
<1> QED BY <1>1, <1>4, <1>5

(* A frame arrives.                                                          *)
LEMMA BeginStep ==
    ASSUME IInv, NEW c \in Conns, NEW op \in plan.ops, NEW ns \in Batches,
           NEW id \in plan.ids, NEW route \in BOOLEAN, Begin(c, op, ns, id, route)
    PROVE  IInv'
<1> DEFINE ep == session[c].ep
           j == Fresh(op, route, id, ep, ns)
<1>1. plan \in Plans /\ ep \in Nat /\ task[c] = Idle
  BY HandlerFacts DEF IInv, Budget, HandlerTypes, Begin
<1>2. Frame(op, route, id, ep, ns)
  <2>1. plan.ops \subseteq Ops /\ plan.ids \subseteq Ids \cup {NoId} /\ BatchMax \in Nat
    BY <1>1, PublishAssumption DEF NoId
  <2>2. Len(ns) \in Nat \ {0} /\ \A k \in 1 .. Len(ns) : ns[k] \in Nat
    <3>1. PICK n \in 1 .. BatchMax : ns \in [1 .. n -> plan.sizes]
      BY DEF Batches
    <3> QED BY <1>1, <3>1, BatchType
  <2>3. (op # "batch" => Len(ns) = 1) /\ (id # NoId => op = "publish")
    BY DEF Begin, Shape
  <2> QED BY <1>1, <2>1, <2>2, <2>3 DEF Frame
<1>3. j = [Idle EXCEPT !.op = op, !.route = route, !.id = id,
                       !.ep = session[c].ep, !.pc = FirstPc(op),
                       !.items = [k \in 1 .. Len(ns) |-> Item(ns[k])]]
  BY DEF Fresh
<1>4. /\ acct' = acct /\ Others
      /\ \/ Inactive(c, j) \/ Finish(c, j, "refused") \/ Finish(c, j, "stored")
         \/ Step(c, j) /\ UNCHANGED session
  <2> HIDE DEF j
  <2> QED BY <1>3 DEF Begin, Others
<1>5. j = Fresh(op, route, id, ep, ns) /\ ep = session[c].ep /\ ep \in {0, session[c].ep}
  OBVIOUS
<1> HIDE DEF j, ep
<1>6. /\ New(j, ep)
      /\ \A ans \in Answers \ {"ok", "failed"} : New(Finished(j, ans), ep)
  BY <1>2, <1>5, FreshOk
<1>7. Weight(task[c]) = 0
  BY <1>1, IdleOk
<1>8. ASSUME NEW ans \in Answers \ {"ok", "failed"},
             task' = [task EXCEPT ![c] = Finished(j, ans)], SessionOk(c)
      PROVE  IInv'
  <2> DEFINE y == Finished(j, ans)
  <2>1. New(y, ep) /\ task' = [task EXCEPT ![c] = y]
    BY <1>6, <1>8
  <2> HIDE DEF y
  <2> QED BY <1>4, <1>5, <1>7, <1>8, <2>1, FreshStep
<1>9. {"inactive", "refused", "stored"} \subseteq Answers \ {"ok", "failed"}
  BY DEF Answers
<1>10. CASE Inactive(c, j)
  BY <1>8, <1>9, <1>10 DEF Inactive, Step, SessionOk
<1>11. CASE Finish(c, j, "refused") \/ Finish(c, j, "stored")
  BY <1>8, <1>9, <1>11 DEF Finish, Step, SessionOk
<1>12. CASE Step(c, j) /\ UNCHANGED session
  BY <1>4, <1>5, <1>6, <1>7, <1>12, FreshStep DEF Step, SessionOk
<1> QED BY <1>4, <1>10, <1>11, <1>12

(* Nothing changes for the handlers.                                         *)
LEMMA TasksSame ==
    ASSUME IInv, task' = task, UNCHANGED <<window, fanned, coros, late>>
    PROVE  Server'
  BY DEF IInv, Server, ServerTypes, WindowInv, LateInv

(* A client connects.                                                        *)
LEMMA ConnectStep ==
    ASSUME IInv, NEW c \in Conns, Connect(c)
    PROVE  IInv'
<1>1. /\ HandlerTypes /\ JobsOk /\ EpochInv /\ SwapInv /\ SumInv
      /\ session \in [Conns -> [ep : Nat, gen : Nat]] /\ acct.epoch \in Nat /\ acct.active
      /\ session[c].gen \in Nat
  BY DEF IInv, Budget, HandlerTypes, Connect
<1>2. /\ session' = [session EXCEPT ![c] = [ep |-> acct.epoch, gen |-> @.gen + 1]]
      /\ UNCHANGED <<plan, acct, admin, torn, task, window, coros, fanned, late>>
  BY DEF Connect
<1>3. /\ session' \in [Conns -> [ep : Nat, gen : Nat]]
      /\ \A d \in Conns : session'[d].ep \in {session[d].ep, acct.epoch}
  BY <1>1, <1>2
<1>4. HandlerTypes'
  BY <1>1, <1>2, <1>3 DEF HandlerTypes
<1>5. JobsOk' /\ SwapInv' /\ SumInv'
  BY <1>1, <1>2 DEF JobsOk, SwapInv, SumInv, Settled, SwapOk
<1>6. EpochInv'
  <2>1. \A d \in Conns : session'[d].ep <= acct.epoch
    BY <1>1, <1>3 DEF EpochInv
  <2> QED BY <1>1, <1>2, <2>1 DEF EpochInv
<1>7. Server'
  BY <1>2, TasksSame
<1> QED BY <1>4, <1>5, <1>6, <1>7 DEF IInv, Budget

(* A coroutine is resumed.                                                   *)
LEMMA CoroTickStep ==
    ASSUME IInv, NEW c \in Conns, CoroTick(c)
    PROVE  IInv'
<1> DEFINE s == coros[c]
           co == Head(s)
<1>1. Budget /\ ServerTypes /\ WindowInv /\ LateInv
  BY DEF IInv, Server
<1>2. UNCHANGED <<plan, acct, admin, torn, session, task, window, fanned>>
  BY DEF CoroTick
<1>3. s \in Seq(Coro) /\ s # <<>>
  BY <1>1 DEF ServerTypes, CoroTick
<1>4. co \in Coro /\ Tail(s) \in Seq(Coro)
  BY <1>3
<1>5. \A got \in BOOLEAN : /\ Resumed(co, got) \in Coro
                           /\ Resumed(co, got).any = (co.any \/ got)
                           /\ Resumed(co, got).cl = co.cl
  <2> TAKE got \in BOOLEAN
  <2> DEFINE a == co.any \/ got
             l == co.left - 1
  <2>1. a \in BOOLEAN /\ l \in Int
    BY <1>4 DEF Coro
  <2>2. Resumed(co, got) = [co EXCEPT !.left = l, !.any = a]
    BY DEF Resumed
  <2>3. a = (co.any \/ got)
    OBVIOUS
  <2> HIDE DEF a, l, co
  <2>4. Resumed(co, got).any = a /\ Resumed(co, got).cl = co.cl /\ Resumed(co, got) \in Coro
    BY <1>4, <2>1, <2>2 DEF Coro
  <2> QED BY <2>3, <2>4
<1>6. \/ coros' = [coros EXCEPT ![c] = Tail(s)]
      \/ \E got \in BOOLEAN : coros' = [coros EXCEPT ![c] = Append(Tail(s), Resumed(co, got))]
  BY DEF CoroTick
<1> HIDE DEF s, co
<1>7. \A got \in BOOLEAN : Append(Tail(s), Resumed(co, got)) \in Seq(Coro)
  BY <1>4, <1>5, AppendProperties
<1>8. ServerTypes'
  BY <1>1, <1>2, <1>4, <1>6, <1>7 DEF ServerTypes
<1>9. LateInv'
  <2>1. \/ late' = late
        \/ \E got \in BOOLEAN : /\ ~(Resumed(co, got).any \/ Sent(Resumed(co, got)))
                                /\ late' = late \cup {co.any \/ got \/ Sent(co)}
    BY DEF CoroTick, co, s
  <2>2. ASSUME NEW got \in BOOLEAN, ~(Resumed(co, got).any \/ Sent(Resumed(co, got)))
        PROVE  (co.any \/ got \/ Sent(co)) = FALSE
    BY <1>5, <2>2 DEF Sent
  <2> QED BY <1>1, <2>1, <2>2 DEF LateInv
<1>10. WindowInv'
  BY <1>1, <1>2 DEF WindowInv
<1>11. Budget'
  BY <1>1, <1>2 DEF Budget, HandlerTypes, JobsOk, EpochInv, SwapInv, SumInv, Settled, SwapOk
<1> QED BY <1>8, <1>9, <1>10, <1>11 DEF IInv, Server

-----------------------------------------------------------------------------
(* The administrator.                                                        *)

(* account_delete_impl and account_create_impl.                              *)
LEMMA AdminStep ==
    ASSUME IInv, Admin
    PROVE  IInv'
<1>1. /\ HandlerTypes /\ JobsOk /\ EpochInv /\ SwapInv /\ SumInv
      /\ task \in [Conns -> Job] /\ session \in [Conns -> [ep : Nat, gen : Nat]]
      /\ acct.epoch \in Nat \ {0} /\ acct.gen \in Nat /\ acct.live \in Nat
      /\ acct.active \in BOOLEAN
      /\ acct \in [active : BOOLEAN, epoch : Nat \ {0}, gen : Nat, live : Nat]
  BY DEF IInv, Budget, HandlerTypes
<1>2. UNCHANGED <<plan, session, task, window, coros, fanned, late>>
  BY DEF Admin
<1>3. Server'
  BY <1>2, TasksSame
<1>4. JobsOk'
  BY <1>1, <1>2 DEF JobsOk
<1>5. \A c \in Conns : /\ session[c].ep \in Nat /\ task[c].ep \in Nat /\ task[c].g0 \in Nat
                       /\ session[c].ep <= acct.epoch /\ task[c].ep <= acct.epoch
                       /\ task[c].g0 <= acct.gen
  BY <1>1, JobFields DEF EpochInv
<1>6. CASE AdminBegin
  <2>1. /\ acct'.epoch = acct.epoch + 1 /\ acct'.gen = acct.gen /\ acct'.live = acct.live
        /\ acct'.active = acct.active /\ admin' = "gen" /\ torn' = torn
    BY <1>1, <1>6 DEF AdminBegin
  <2>2. HandlerTypes'
    BY <1>1, <1>2, <1>6 DEF HandlerTypes, AdminBegin
  <2>3. \A c \in Conns : session[c].ep < acct'.epoch /\ task[c].ep < acct'.epoch
    BY <1>1, <1>5, <2>1
  <2>4. EpochInv'
    BY <1>1, <1>2, <1>5, <2>1, <2>3 DEF EpochInv
  <2>5. ~Settled'
    BY <2>1 DEF Settled
  <2>6. SwapInv' /\ SumInv'
    BY <1>1, <2>1, <2>5 DEF SwapInv, SumInv
  <2> QED BY <1>3, <1>4, <2>2, <2>4, <2>6 DEF IInv, Budget
<1>7. CASE AdminGen
  <2>1. /\ acct'.epoch = acct.epoch /\ acct'.gen = acct.gen + 1 /\ acct'.live = acct.live
        /\ acct'.active = acct.active /\ admin' = "zero" /\ admin = "gen" /\ torn' = torn
    BY <1>1, <1>7 DEF AdminGen
  <2>2. HandlerTypes'
    BY <1>1, <1>2, <1>7 DEF HandlerTypes, AdminGen
  <2>3. \A c \in Conns : task[c].g0 < acct'.gen
    BY <1>1, <1>5, <2>1
  <2>4. EpochInv'
    BY <1>1, <1>2, <1>5, <2>1, <2>3 DEF EpochInv
  <2>5. ~Settled'
    BY <2>1 DEF Settled
  <2>6. SwapInv' /\ SumInv'
    BY <1>1, <2>1, <2>5 DEF SwapInv, SumInv
  <2> QED BY <1>3, <1>4, <2>2, <2>4, <2>6 DEF IInv, Budget
<1>8. CASE AdminZero
  <2>1. /\ acct'.epoch = acct.epoch /\ acct'.gen = acct.gen /\ acct'.live = 0
        /\ acct'.active = acct.active /\ admin' = "flip" /\ admin = "zero"
        /\ torn' = Swapping
    BY <1>1, <1>8 DEF AdminZero
  <2>2. HandlerTypes'
    BY <1>1, <1>2, <1>8 DEF HandlerTypes, AdminZero, Swapping
  <2>3. EpochInv'
    BY <1>1, <1>2, <1>5, <2>1 DEF EpochInv
  <2>4. ASSUME Settled'
        PROVE  \A c \in Conns : /\ task[c].pc \notin {"cas", "undo", "debit"}
                                /\ task[c].ep < acct.epoch
                                /\ task[c].pc = "recheck" => task[c].g0 < acct.gen
    BY <1>1, <2>1, <2>4 DEF Settled, Swapping, EpochInv, Swaps
  <2>5. SwapInv'
    <3>1. ASSUME Settled', NEW c \in Conns PROVE SwapOk(task[c])'
      <4>1. task[c].ep # acct.epoch /\ (task[c].pc = "recheck" => task[c].g0 # acct.gen)
        BY <1>1, <1>5, <2>4, <3>1
      <4> QED BY <1>2, <2>1, <2>4, <3>1, <4>1 DEF SwapOk
    <3> QED BY <3>1 DEF SwapInv
  <2>6. SumInv'
    <3> DEFINE e == acct.epoch
               f == Holds(task, e)
    <3>1. LiveMax \in Nat
      BY PublishAssumption
    <3>2. ASSUME Settled' PROVE Total(f, Conns) = 0
      <4>1. /\ IsFiniteSet(Conns) /\ Sized(f, Conns)
            /\ \A c \in Conns : f[c] = Hold(task[c], e)
        BY <1>1, HoldsType DEF JobsOk
      <4>2. \A c \in Conns : task[c].ep # e
        BY <1>1, <1>5, <2>4, <3>2
      <4>3. \A c \in Conns : f[c] = 0
        BY <4>1, <4>2 DEF Hold
      <4> HIDE DEF f
      <4> QED BY <4>1, <4>3, TotalBounds
    <3> QED BY <1>2, <2>1, <3>1, <3>2 DEF SumInv
  <2> QED BY <1>3, <1>4, <2>2, <2>3, <2>5, <2>6 DEF IInv, Budget
<1>9. CASE AdminFlip
  <2>1. /\ acct'.epoch = acct.epoch /\ acct'.gen = acct.gen /\ acct'.live = acct.live
        /\ acct'.active = ~acct.active /\ admin' = "idle" /\ admin = "flip" /\ torn' = torn
    BY <1>1, <1>9 DEF AdminFlip
  <2>2. HandlerTypes'
    BY <1>1, <1>2, <1>9 DEF HandlerTypes, AdminFlip
  <2>3. EpochInv'
    BY <1>1, <1>2, <1>5, <2>1 DEF EpochInv
  <2>4. Settled' => Settled
    BY <2>1 DEF Settled
  <2>5. SwapInv'
    BY <1>1, <1>2, <2>1, <2>4 DEF SwapInv, SwapOk
  <2>6. SumInv'
    BY <1>1, <1>2, <2>1, <2>4 DEF SumInv
  <2> QED BY <1>3, <1>4, <2>2, <2>3, <2>5, <2>6 DEF IInv, Budget
<1> QED BY <1>6, <1>7, <1>8, <1>9 DEF Admin

-----------------------------------------------------------------------------
(* The theorems.                                                             *)

(* The invariant holds at the start.                                         *)
LEMMA InitInv == Init => IInv
<1> SUFFICES ASSUME Init PROVE IInv
  OBVIOUS
<1>1. /\ task = [c \in Conns |-> Idle] /\ session = [c \in Conns |-> [ep |-> 0, gen |-> 0]]
      /\ acct = [active |-> TRUE, epoch |-> 1, gen |-> 1, live |-> 0]
      /\ coros = [c \in Conns |-> <<>>] /\ fanned = [i \in Ids |-> 0] /\ window = <<>>
      /\ late = {} /\ admin = "idle" /\ torn = FALSE /\ plan \in Plans
  BY DEF Init
<1>2. \A c \in Conns : task[c] = Idle
  BY <1>1
<1>3. HandlerTypes
  <2>1. task \in [Conns -> Job]
    BY <1>1, IdleOk
  <2>2. session \in [Conns -> [ep : Nat, gen : Nat]]
    BY <1>1
  <2>3. acct \in [active : BOOLEAN, epoch : Nat \ {0}, gen : Nat, live : Nat]
    BY <1>1
  <2>4. torn \in BOOLEAN
    BY <1>1, Zenon
  <2> QED BY <1>1, <2>1, <2>2, <2>3, <2>4 DEF HandlerTypes
<1>4. ServerTypes
  BY <1>1 DEF ServerTypes
<1>5. JobsOk
  BY <1>2, IdleOk DEF JobsOk
<1>6. WindowInv
  BY <1>1, <1>2, IdleOk DEF WindowInv
<1>7. LateInv
  BY <1>1 DEF LateInv
<1>8. EpochInv
  BY <1>1, <1>2, IdleOk DEF EpochInv
<1>9. SwapInv
  BY <1>2, IdleOk DEF SwapInv, SwapOk
<1>10. SumInv
  <2> DEFINE e == acct.epoch
             f == Holds(task, e)
  <2>1. /\ IsFiniteSet(Conns) /\ Sized(f, Conns)
        /\ \A c \in Conns : f[c] = Hold(task[c], e)
    BY <1>3, <1>5, HoldsType DEF HandlerTypes, JobsOk
  <2>2. \A c \in Conns : f[c] = 0
    BY <1>2, <2>1, IdleOk DEF Hold
  <2> HIDE DEF f
  <2>3. Total(f, Conns) = 0
    BY <2>1, <2>2, TotalBounds
  <2> QED BY <1>1, <2>3, PublishAssumption DEF SumInv, f
<1> QED BY <1>3, <1>4, <1>5, <1>6, <1>7, <1>8, <1>9, <1>10 DEF IInv, Budget, Server

(* Every step keeps it.                                                      *)
LEMMA NextInv == IInv /\ [Next]_vars => IInv'
<1> SUFFICES ASSUME IInv, [Next]_vars PROVE IInv'
  OBVIOUS
<1>1. CASE UNCHANGED vars
  BY <1>1 DEF vars, IInv, Budget, Server, HandlerTypes, ServerTypes, JobsOk, WindowInv,
              LateInv, EpochInv, SwapInv, SumInv, Settled, SwapOk
<1>2. plan.conns \subseteq Conns
  BY PublishAssumption DEF IInv, Budget, HandlerTypes
<1>3. ASSUME NEW c \in plan.conns, NEW op \in plan.ops, NEW ns \in Batches,
             NEW id \in plan.ids, NEW route \in BOOLEAN, Begin(c, op, ns, id, route)
      PROVE  IInv'
  <2>1. c \in Conns
    BY <1>2
  <2> QED BY <1>3, <2>1, BeginStep
<1>4. ASSUME NEW c \in plan.conns,
             \/ Connect(c) \/ Read(c) \/ Admit(c)
             \/ HoldLoad(c) \/ HoldSwap(c) \/ HoldCheck(c) \/ HoldUndo(c)
             \/ DropLoad(c) \/ DropSwap(c)
             \/ Match(c) \/ Forward(c) \/ Local(c) \/ Reply(c) \/ CoroTick(c)
      PROVE  IInv'
  <2>1. c \in Conns
    BY <1>2
  <2> QED BY <1>4, <2>1, ConnectStep, ReadStep, AdmitStep, HoldLoadStep, HoldSwapStep,
             HoldCheckStep, HoldUndoStep, DropLoadStep, DropSwapStep, MatchStep,
             ForwardStep, LocalStep, ReplyStep, CoroTickStep
<1> QED BY <1>1, <1>3, <1>4, AdminStep DEF Next

(* The invariant holds throughout.                                           *)
LEMMA PublishInv == Spec => []IInv
  BY InitInv, NextInv, PTL DEF Spec

(* The types of what the handlers and the coroutines work on, for any        *)
(* number of connections and any inputs.                                     *)
THEOREM TypesKept == Spec => []TypeOK
<1>1. IInv => TypeOK
  BY DEF IInv, Budget, Server, TypeOK
<1> QED BY <1>1, PublishInv, PTL

(* A producer's message is fanned out at most once, however its copies       *)
(* arrive on however many connections (cmq_idempo_check); an ERROR that      *)
(* invites a retry is only sent when nobody got the message; a REQUEST or    *)
(* RESPONSE never goes both to a local taker and to the cluster.             *)
THEOREM FanoutKept == Spec => []FanoutHonest
<1>1. IInv => FanoutHonest
  <2> SUFFICES ASSUME IInv PROVE FanoutHonest
    OBVIOUS
  <2>1. OnceEach
    BY DEF IInv, Server, WindowInv, OnceEach
  <2>2. AnswersHonest
    BY DEF IInv, Server, Budget, LateInv, JobsOk, JobOk, HonestOk, AnswersHonest, Calls
  <2> QED BY <2>1, <2>2 DEF FanoutHonest
<1> QED BY <1>1, PublishInv, PTL

(* bytes_live counts what the handlers of the current epoch hold, whatever   *)
(* compare-and-swap loses to whom and wherever the account is deleted and    *)
(* created again, unless a clear fell between a check and its swap, and it   *)
(* never exceeds the limit.                                                  *)
THEOREM BudgetExact == Spec => []LiveExact
<1>1. IInv => LiveExact
  <2> SUFFICES ASSUME IInv PROVE LiveExact
    OBVIOUS
  <2>1. MapThenSumSet(Holding, Conns) = Total(Holds(task, acct.epoch), Conns)
    BY HoldingTotal DEF IInv, Budget, Server, TypeOK
  <2>2. acct.live <= LiveMax
    BY DEF IInv, Budget, SumInv
  <2>3. admin = "idle" /\ acct.active /\ ~torn
          => acct.live = Total(Holds(task, acct.epoch), Conns)
    BY DEF IInv, Budget, SumInv, Settled
  <2> QED BY <2>1, <2>2, <2>3 DEF LiveExact
<1> QED BY <1>1, PublishInv, PTL

=============================================================================
