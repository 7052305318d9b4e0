------------------------ MODULE SubscriptionsProofs ------------------------
(***************************************************************************)
(* Proofs about Subscriptions: the trie, the lists of the clients and the    *)
(* handlers of the workers agree.                                            *)
(*                                                                           *)
(* Every client has one owner, so its part of the state is changed by one    *)
(* handler at a time.  The invariant is therefore stated client by client:   *)
(* ClientOk relates the handler that works for c, the state of its           *)
(* connection, its list, its count and its references in the trie.           *)
(***************************************************************************)
EXTENDS Subscriptions, SequenceTheorems, FiniteSetTheorems, WellFoundedInduction, TLAPS

-----------------------------------------------------------------------------
(* The trie.  Insert and remove change the set of references by exactly one, *)
(* leave no node without use, and a match finds exactly the references whose *)
(* pattern SubjectMatch accepts.                                             *)

(* Every node is the prefix of a pattern in use, and every reference is at   *)
(* the node of its pattern.                                                  *)
Shape(t) ==
    /\ t = [subs |-> t.subs, count |-> t.count]
    /\ t.subs = [n \in Nodes(t) |-> t.subs[n]]
    /\ Nodes(t) \subseteq Seq(STRING)

Placed(t) == \A n \in Nodes(t) : \A r \in t.subs[n] : r.pat = n

Used(t) == Nodes(t) = {<<>>} \cup UNION {Path(r.pat) : r \in Registered(t)}

Counted(t) == IsFiniteSet(Registered(t)) /\ t.count = Cardinality(Registered(t))

TrieOk(t) == Shape(t) /\ Placed(t) /\ Used(t) /\ Counted(t)

-----------------------------------------------------------------------------
(* Prefixes.                                                                 *)

(* The path to a node is the set of its prefixes.                            *)
LEMMA PathIs ==
    ASSUME NEW m \in Seq(STRING), NEW n
    PROVE  n \in Path(m) <=> /\ n \in Seq(STRING) /\ Len(n) <= Len(m)
                             /\ SubSeq(m, 1, Len(n)) = n
<1>1. ASSUME NEW k \in 0 .. Len(m), n = SubSeq(m, 1, k)
      PROVE  n \in Seq(STRING) /\ Len(n) = k
  BY <1>1
<1>2. ASSUME n \in Path(m)
      PROVE  n \in Seq(STRING) /\ Len(n) <= Len(m) /\ SubSeq(m, 1, Len(n)) = n
  BY <1>1, <1>2 DEF Path
<1>3. ASSUME n \in Seq(STRING), Len(n) <= Len(m), SubSeq(m, 1, Len(n)) = n
      PROVE  n \in Path(m)
  BY <1>3, Len(n) \in 0 .. Len(m) DEF Path
<1> QED BY <1>2, <1>3

(* Token by token.                                                           *)
LEMMA PathTokens ==
    ASSUME NEW m \in Seq(STRING), NEW n \in Seq(STRING)
    PROVE  n \in Path(m) <=> /\ Len(n) <= Len(m)
                             /\ \A i \in 1 .. Len(n) : n[i] = m[i]
<1>1. ASSUME Len(n) <= Len(m)
      PROVE  /\ SubSeq(m, 1, Len(n)) \in Seq(STRING)
             /\ Len(SubSeq(m, 1, Len(n))) = Len(n)
             /\ \A i \in 1 .. Len(n) : SubSeq(m, 1, Len(n))[i] = m[i]
  BY <1>1
<1>2. ASSUME Len(n) <= Len(m), \A i \in 1 .. Len(n) : n[i] = m[i]
      PROVE  SubSeq(m, 1, Len(n)) = n
  BY <1>1, <1>2, SeqEqual
<1>3. ASSUME n \in Path(m)
      PROVE  Len(n) <= Len(m) /\ \A i \in 1 .. Len(n) : n[i] = m[i]
  <2>1. Len(n) <= Len(m) /\ SubSeq(m, 1, Len(n)) = n
    BY <1>3, PathIs
  <2> QED BY <1>1, <2>1
<1>4. ASSUME Len(n) <= Len(m), \A i \in 1 .. Len(n) : n[i] = m[i]
      PROVE  n \in Path(m)
  BY <1>2, <1>4, PathIs
<1> QED BY <1>3, <1>4

(* The root and the node itself are on the path.                             *)
LEMMA PathEnds ==
    ASSUME NEW m \in Seq(STRING)
    PROVE  <<>> \in Path(m) /\ m \in Path(m) /\ Path(m) \subseteq Seq(STRING)
<1>1. <<>> \in Seq(STRING) /\ Len(<<>>) = 0
  OBVIOUS
<1>2. <<>> \in Path(m)
  <2>1. SubSeq(m, 1, 0) = <<>> /\ 0 \in 0 .. Len(m)
    OBVIOUS
  <2> QED BY <2>1 DEF Path
<1>3. m \in Path(m)
  BY PathTokens
<1> QED BY <1>2, <1>3, PathIs

(* A prefix of a prefix is a prefix.                                         *)
LEMMA PathTrans ==
    ASSUME NEW p \in Seq(STRING), NEW m \in Path(p), NEW n \in Path(m)
    PROVE  n \in Path(p)
<1>1. m \in Seq(STRING) /\ n \in Seq(STRING)
  BY PathIs
<1>2. /\ Len(m) <= Len(p) /\ \A i \in 1 .. Len(m) : m[i] = p[i]
      /\ Len(n) <= Len(m) /\ \A i \in 1 .. Len(n) : n[i] = m[i]
  BY <1>1, PathTokens
<1>3. Len(n) <= Len(p) /\ \A i \in 1 .. Len(n) : n[i] = p[i]
  BY <1>1, <1>2
<1> QED BY <1>1, <1>3, PathTokens

(* The nodes below n are those with n on their path.                         *)
LEMMA BelowIs ==
    ASSUME NEW t, Shape(t), NEW n \in Seq(STRING), NEW m \in Nodes(t)
    PROVE  m \in Below(t, n) <=> n \in Path(m)
  BY PathIs DEF Below, Shape

-----------------------------------------------------------------------------
(* The operations as records.                                                *)

(* The nodes are closed under prefixes.                                      *)
LEMMA PrefixClosed ==
    ASSUME NEW t, Shape(t), Placed(t), Used(t),
           NEW m \in Nodes(t), NEW n \in Path(m)
    PROVE  n \in Nodes(t)
<1>1. m \in Seq(STRING)
  BY DEF Shape
<1>2. CASE m = <<>>
  <2>1. n = <<>>
    <3>1. Len(<<>>) = 0
      OBVIOUS
    <3>2. n \in Seq(STRING) /\ Len(n) <= 0
      BY <1>1, <1>2, <3>1, PathIs
    <3> QED BY <3>2
  <2> QED BY <2>1 DEF Used
<1>3. CASE m # <<>>
  <2>1. PICK r \in Registered(t) : m \in Path(r.pat)
    BY <1>3 DEF Used
  <2>2. r.pat \in Seq(STRING)
    BY DEF Registered, Placed, Shape
  <2>3. n \in Path(r.pat)
    BY <2>1, <2>2, PathTrans
  <2> QED BY <2>3 DEF Used
<1> QED BY <1>2, <1>3

(* A reference is at one node, that of its pattern.                          *)
LEMMA Home ==
    ASSUME NEW t, Shape(t), Placed(t), Used(t), NEW r \in Registered(t)
    PROVE  /\ r.pat \in Nodes(t) /\ r.pat \in Seq(STRING) /\ r \in t.subs[r.pat]
           /\ \A n \in Nodes(t) : r \in t.subs[n] <=> r.pat = n
  BY DEF Registered, Placed, Shape

(* Growing adds the nodes of the path, without references.                   *)
LEMMA GrowIs ==
    ASSUME NEW t, Shape(t), NEW p \in Seq(STRING)
    PROVE  /\ Nodes(Grow(t, p)) = Nodes(t) \cup Path(p)
           /\ Grow(t, p).count = t.count
           /\ \A n \in Nodes(t) : Grow(t, p).subs[n] = t.subs[n]
           /\ \A n \in Path(p) \ Nodes(t) : Grow(t, p).subs[n] = {}
           /\ Shape(Grow(t, p))
<1> DEFINE f == [n \in Nodes(t) \cup Path(p) |-> IF n \in Nodes(t) THEN t.subs[n] ELSE {}]
<1>1. Grow(t, p) = [subs |-> f, count |-> t.count]
  <2>1. Grow(t, p) = [t EXCEPT !.subs = f]
    BY DEF Grow
  <2>2. t = [subs |-> t.subs, count |-> t.count]
    BY DEF Shape
  <2> HIDE DEF f
  <2>3. \A S, c, g : [[subs |-> S, count |-> c] EXCEPT !.subs = g] = [subs |-> g, count |-> c]
    OBVIOUS
  <2> QED BY <2>1, <2>2, <2>3
<1>2. DOMAIN f = Nodes(t) \cup Path(p) /\ f = [n \in DOMAIN f |-> f[n]]
  OBVIOUS
<1>3. Path(p) \subseteq Seq(STRING)
  BY PathEnds
<1> HIDE DEF f
<1>4. Nodes(Grow(t, p)) = Nodes(t) \cup Path(p) /\ Grow(t, p).subs = f
  BY <1>1, <1>2 DEF Nodes
<1>5. Shape(Grow(t, p))
  BY <1>1, <1>2, <1>3, <1>4 DEF Shape
<1>6. /\ \A n \in Nodes(t) : Grow(t, p).subs[n] = t.subs[n]
      /\ \A n \in Path(p) \ Nodes(t) : Grow(t, p).subs[n] = {}
  BY <1>4 DEF f
<1>7. Grow(t, p).count = t.count
  BY <1>1
<1> QED BY <1>7, <1>1, <1>4, <1>5, <1>6 DEF f

(* Insert in full.                                                           *)
LEMMA InsertIs ==
    ASSUME NEW t, Shape(t), Placed(t), Used(t), NEW p \in Seq(STRING), NEW r
    PROVE  /\ Nodes(Insert(t, p, r)) = Nodes(t) \cup Path(p)
           /\ Shape(Insert(t, p, r))
           /\ Insert(t, p, r).count = t.count + 1
           /\ p \in Nodes(t) => Insert(t, p, r).subs[p] = t.subs[p] \cup {r}
           /\ p \notin Nodes(t) => Insert(t, p, r).subs[p] = {r}
           /\ \A n \in Nodes(t) \ {p} : Insert(t, p, r).subs[n] = t.subs[n]
           /\ \A n \in Path(p) \ (Nodes(t) \cup {p}) : Insert(t, p, r).subs[n] = {}
<1> DEFINE g == Grow(t, p)
           f == [g.subs EXCEPT ![p] = @ \cup {r}]
<1>1. /\ Nodes(g) = Nodes(t) \cup Path(p) /\ Shape(g) /\ g.count = t.count
      /\ \A n \in Nodes(t) : g.subs[n] = t.subs[n]
      /\ \A n \in Path(p) \ Nodes(t) : g.subs[n] = {}
  BY GrowIs
<1>2. p \in Nodes(g) /\ Nodes(g) = DOMAIN g.subs /\ Nodes(g) \subseteq Seq(STRING)
  BY <1>1, PathEnds DEF Nodes, Shape
<1>3. Insert(t, p, r) = [subs |-> f, count |-> t.count + 1]
  BY DEF Insert
<1> HIDE DEF g
<1>4. /\ f = [n \in Nodes(g) |-> f[n]] /\ DOMAIN f = Nodes(g)
      /\ f[p] = g.subs[p] \cup {r} /\ \A n \in Nodes(g) \ {p} : f[n] = g.subs[n]
  BY <1>1, <1>2 DEF Shape
<1> HIDE DEF f
<1>6. /\ Insert(t, p, r).subs = f /\ Insert(t, p, r).count = t.count + 1
      /\ Insert(t, p, r) = [subs |-> f, count |-> t.count + 1]
  BY <1>3
<1>7. Nodes(Insert(t, p, r)) = Nodes(g)
  BY <1>4, <1>6 DEF Nodes
<1>8. Shape(Insert(t, p, r))
  BY <1>2, <1>4, <1>6, <1>7 DEF Shape
<1>9. /\ p \in Nodes(t) => g.subs[p] = t.subs[p]
      /\ p \notin Nodes(t) => g.subs[p] = {}
  BY <1>1, PathEnds
<1> QED BY <1>1, <1>4, <1>6, <1>7, <1>8, <1>9

(* Insert adds the reference.                                                *)
LEMMA InsertTrie ==
    ASSUME NEW t, TrieOk(t), NEW r, r.pat \in Seq(STRING), r \notin Registered(t)
    PROVE  /\ TrieOk(Insert(t, r.pat, r))
           /\ Registered(Insert(t, r.pat, r)) = Registered(t) \cup {r}
<1> DEFINE p == r.pat
           u == Insert(t, p, r)
<1>0. Shape(t) /\ Placed(t) /\ Used(t) /\ Counted(t)
  BY DEF TrieOk
<1>1. /\ Nodes(u) = Nodes(t) \cup Path(p) /\ Shape(u) /\ u.count = t.count + 1
      /\ p \in Nodes(t) => u.subs[p] = t.subs[p] \cup {r}
      /\ p \notin Nodes(t) => u.subs[p] = {r}
      /\ \A n \in Nodes(t) \ {p} : u.subs[n] = t.subs[n]
      /\ \A n \in Path(p) \ (Nodes(t) \cup {p}) : u.subs[n] = {}
  BY <1>0, InsertIs
<1>2. p \in Path(p) /\ <<>> \in Path(p)
  BY PathEnds
<1> HIDE DEF u
<1>3. Registered(u) = Registered(t) \cup {r}
  <2>1. ASSUME NEW x \in Registered(u) PROVE x \in Registered(t) \cup {r}
    BY <1>1 DEF Registered
  <2>2. ASSUME NEW x \in Registered(t) PROVE x \in Registered(u)
    BY <1>1 DEF Registered
  <2>3. r \in Registered(u)
    BY <1>1, <1>2 DEF Registered
  <2> QED BY <2>1, <2>2, <2>3
<1>4. Placed(u)
  BY <1>0, <1>1 DEF Placed
<1>5. Used(u)
  BY <1>0, <1>1, <1>2, <1>3 DEF Used
<1>6. Counted(u)
  BY <1>0, <1>1, <1>3, FS_AddElement DEF Counted
<1> QED BY <1>1, <1>3, <1>4, <1>5, <1>6 DEF TrieOk, u

(* Pruning takes the nodes of C on the path of p with nothing below them but *)
(* such nodes, and leaves the others alone.                                  *)
Bare(t, p, C, m) == \A n \in Below(t, m) : n \in Path(p) /\ n \in C /\ t.subs[n] = {}
Cut(t, p, C)     == {m \in C \cap Path(p) : Bare(t, p, C, m)}

(* prune cuts the unused tail of a path and touches nothing else.            *)
LEMMA PruneIs ==
    ASSUME NEW t, Shape(t), NEW p, NEW C
    PROVE  /\ Nodes(Prune(t, p, C)) = Nodes(t) \ Cut(t, p, C)
           /\ Prune(t, p, C).count = t.count
           /\ \A n \in Nodes(t) \ Cut(t, p, C) : Prune(t, p, C).subs[n] = t.subs[n]
           /\ Shape(Prune(t, p, C))
<1> DEFINE f == [n \in Nodes(t) \ Cut(t, p, C) |-> t.subs[n]]
<1>1. Prune(t, p, C) = [subs |-> f, count |-> t.count]
  <2>1. Prune(t, p, C) = [t EXCEPT !.subs = f]
    BY DEF Prune, Cut, Bare
  <2>2. t = [subs |-> t.subs, count |-> t.count]
    BY DEF Shape
  <2> HIDE DEF f
  <2>3. \A S, c, g : [[subs |-> S, count |-> c] EXCEPT !.subs = g] = [subs |-> g, count |-> c]
    OBVIOUS
  <2> QED BY <2>1, <2>2, <2>3
<1>2. DOMAIN f = Nodes(t) \ Cut(t, p, C) /\ f = [n \in DOMAIN f |-> f[n]]
  OBVIOUS
<1>3. \A n \in Nodes(t) \ Cut(t, p, C) : f[n] = t.subs[n]
  OBVIOUS
<1> HIDE DEF f
<1>4. /\ Nodes(Prune(t, p, C)) = Nodes(t) \ Cut(t, p, C) /\ Prune(t, p, C).subs = f
      /\ Prune(t, p, C).count = t.count
  BY <1>1, <1>2 DEF Nodes
<1>5. Shape(Prune(t, p, C))
  BY <1>1, <1>2, <1>4 DEF Shape
<1> QED BY <1>3, <1>4, <1>5

(* An insert that runs out of memory leaves the trie as it was.              *)
LEMMA FailTrie ==
    ASSUME NEW t, TrieOk(t), NEW p \in Seq(STRING), NEW k \in 0 .. Len(p)
    PROVE  InsertFails(t, p, k) = t
<1> DEFINE q == SubSeq(p, 1, k)
           g == Grow(t, q)
           C == Nodes(g) \ Nodes(t)
<1>0. Shape(t) /\ Placed(t) /\ Used(t)
  BY DEF TrieOk
<1>1. q \in Seq(STRING)
  OBVIOUS
<1> HIDE DEF q
<1>2. /\ Nodes(g) = Nodes(t) \cup Path(q) /\ Shape(g) /\ g.count = t.count
      /\ \A n \in Nodes(t) : g.subs[n] = t.subs[n]
      /\ \A n \in Path(q) \ Nodes(t) : g.subs[n] = {}
  BY <1>0, <1>1, GrowIs
<1>3. InsertFails(t, p, k) = Prune(g, q, C)
  BY DEF InsertFails, q
<1> HIDE DEF g
<1>4. ASSUME NEW m \in C, NEW n \in Below(g, m)
      PROVE  n \in Path(q) /\ n \in C /\ g.subs[n] = {}
  <2>1. n \in Nodes(g) /\ m \in Path(n)
    BY <1>2, BelowIs DEF Shape, Below
  <2>2. n \notin Nodes(t)
    BY <1>0, <2>1, PrefixClosed
  <2> QED BY <1>2, <2>1, <2>2
<1>5. Cut(g, q, C) = C
  BY <1>2, <1>4 DEF Cut, Bare
<1>6. Nodes(g) \ C = Nodes(t)
  BY <1>2
<1> DEFINE v == Prune(g, q, C)
<1>7. /\ Nodes(v) = Nodes(t) /\ v.count = t.count /\ Shape(v)
      /\ \A n \in Nodes(t) : v.subs[n] = t.subs[n]
  <2> HIDE DEF C
  <2>1. /\ Nodes(v) = Nodes(g) \ Cut(g, q, C) /\ v.count = g.count /\ Shape(v)
        /\ \A n \in Nodes(g) \ Cut(g, q, C) : v.subs[n] = g.subs[n]
    BY <1>2, PruneIs
  <2> QED BY <1>2, <1>5, <1>6, <2>1
<1> HIDE DEF v
<1>8. v.subs = t.subs
  BY <1>0, <1>7 DEF Shape
<1> QED BY <1>0, <1>3, <1>7, <1>8 DEF Shape, v

(* The trie without r, before the nodes are pruned.                          *)
Taken(t, r) == [subs  |-> [t.subs EXCEPT ![r.pat] = @ \ {r}],
                count |-> IF t.count > 0 THEN t.count - 1 ELSE 0]

(* Taking a reference out of its node takes it out of the trie.              *)
LEMMA TakenIs ==
    ASSUME NEW t, TrieOk(t), NEW r \in Registered(t)
    PROVE  /\ Nodes(Taken(t, r)) = Nodes(t) /\ Shape(Taken(t, r))
           /\ Taken(t, r).count = Cardinality(Registered(t) \ {r})
           /\ \A n \in Nodes(t) : Taken(t, r).subs[n] = t.subs[n] \ {r}
<1> DEFINE f == [t.subs EXCEPT ![r.pat] = @ \ {r}]
<1>0. Shape(t) /\ Placed(t) /\ Used(t) /\ Counted(t)
  BY DEF TrieOk
<1>1. r.pat \in Nodes(t) /\ \A n \in Nodes(t) : r \in t.subs[n] <=> r.pat = n
  BY <1>0, Home
<1>2. /\ DOMAIN f = Nodes(t) /\ f = [n \in Nodes(t) |-> f[n]]
      /\ \A n \in Nodes(t) : f[n] = t.subs[n] \ {r}
  BY <1>0, <1>1 DEF Shape
<1>3. Cardinality(Registered(t) \ {r}) = Cardinality(Registered(t)) - 1
  BY <1>0, FS_RemoveElement DEF Counted
<1>4. Cardinality(Registered(t)) \in Nat /\ Cardinality(Registered(t) \ {r}) \in Nat
  BY <1>0, FS_CardinalityType, FS_RemoveElement DEF Counted
<1>5. (IF t.count > 0 THEN t.count - 1 ELSE 0) = Cardinality(Registered(t) \ {r})
  BY <1>0, <1>3, <1>4 DEF Counted
<1>6. Taken(t, r) = [subs |-> f, count |-> Cardinality(Registered(t) \ {r})]
  BY <1>5 DEF Taken
<1> HIDE DEF f
<1>7. Taken(t, r).subs = f /\ Taken(t, r).count = Cardinality(Registered(t) \ {r})
  BY <1>6
<1>8. Nodes(Taken(t, r)) = Nodes(t)
  BY <1>2, <1>7 DEF Nodes
<1>9. Shape(Taken(t, r))
  BY <1>0, <1>2, <1>6, <1>7, <1>8 DEF Shape
<1> QED BY <1>2, <1>7, <1>8, <1>9

(* Remove takes the reference and the nodes it alone was using.              *)
LEMMA RemoveTrie ==
    ASSUME NEW t, TrieOk(t), NEW r \in Registered(t)
    PROVE  /\ TrieOk(Remove(t, r.pat, r))
           /\ Registered(Remove(t, r.pat, r)) = Registered(t) \ {r}
<1> DEFINE p == r.pat
           u == Taken(t, r)
           C == Nodes(t) \ {<<>>}
           v == Prune(u, p, C)
<1>0. Shape(t) /\ Placed(t) /\ Used(t) /\ Counted(t)
  BY DEF TrieOk
<1>1. /\ p \in Nodes(t) /\ p \in Seq(STRING) /\ r \in t.subs[p]
      /\ Nodes(t) \subseteq Seq(STRING)
  BY <1>0, Home DEF Shape
<1>2. Remove(t, p, r) = v
  BY <1>1 DEF Remove, Holds, Taken
<1>3. /\ Nodes(u) = Nodes(t) /\ Shape(u) /\ u.count = Cardinality(Registered(t) \ {r})
      /\ \A n \in Nodes(t) : u.subs[n] = t.subs[n] \ {r}
  BY TakenIs
<1> HIDE DEF u
<1>4. /\ Nodes(v) = Nodes(t) \ Cut(u, p, C) /\ Shape(v) /\ v.count = u.count
      /\ \A n \in Nodes(t) \ Cut(u, p, C) : v.subs[n] = u.subs[n]
  <2> HIDE DEF C
  <2> QED BY <1>3, PruneIs
<1> HIDE DEF v
<1>5. ASSUME NEW m \in Cut(u, p, C)
      PROVE  /\ m \in Nodes(t) /\ m # <<>>
             /\ \A n \in Nodes(t) : m \in Path(n) => n \in Path(p) /\ u.subs[n] = {}
  BY <1>1, <1>3, BelowIs DEF Cut, Bare
<1>6. ASSUME NEW m \in Nodes(t), m # <<>>, m \in Path(p), m \notin Cut(u, p, C)
      PROVE  \E n \in Nodes(t) : m \in Path(n) /\ (n \notin Path(p) \/ u.subs[n] # {})
  <2>1. PICK n \in Below(u, m) : n \notin Path(p) \/ n \notin C \/ u.subs[n] # {}
    BY <1>6 DEF Cut, Bare
  <2>2. n \in Nodes(t) /\ m \in Path(n)
    BY <1>1, <1>3, BelowIs DEF Below
  <2>3. n # <<>>
    <3>1. m \in Seq(STRING) /\ n \in Seq(STRING) /\ Len(m) <= Len(n)
      BY <1>1, <2>2, PathIs
    <3>2. Len(m) # 0
      BY <1>6, <3>1
    <3>3. Len(n) # 0
      BY <3>1, <3>2
    <3> QED BY <3>3
  <2> QED BY <2>1, <2>2, <2>3
<1>7. Registered(v) = Registered(t) \ {r}
  <2>1. ASSUME NEW x \in Registered(v) PROVE x \in Registered(t) \ {r}
    <3>1. PICK n \in Nodes(v) : x \in v.subs[n]
      BY DEF Registered
    <3>2. n \in Nodes(t) /\ x \in t.subs[n] \ {r}
      BY <1>3, <1>4, <3>1
    <3> QED BY <3>2 DEF Registered
  <2>2. ASSUME NEW x \in Registered(t), x # r PROVE x \in Registered(v)
    <3>1. x.pat \in Nodes(t) /\ x \in u.subs[x.pat] /\ x.pat \in Seq(STRING)
      BY <1>0, <1>3, <2>2, Home
    <3>2. x.pat \in Path(x.pat)
      BY <3>1, PathEnds
    <3>3. x.pat \notin Cut(u, p, C)
      BY <1>5, <3>1, <3>2
    <3> QED BY <1>4, <3>1, <3>3 DEF Registered
  <2> QED BY <2>1, <2>2
<1>8. Placed(v)
  BY <1>0, <1>3, <1>4 DEF Placed
<1>9. Used(v)
  <2>1. <<>> \in Nodes(v)
    BY <1>0, <1>4, <1>5 DEF Used
  <2>2. ASSUME NEW x \in Registered(v), NEW n \in Path(x.pat) PROVE n \in Nodes(v)
    <3>1. x \in Registered(t) /\ x # r
      BY <1>7
    <3>2. x.pat \in Nodes(t) /\ x \in u.subs[x.pat] /\ n \in Nodes(t)
      BY <1>0, <1>3, <3>1, Home DEF Used
    <3>3. n \notin Cut(u, p, C)
      BY <1>5, <3>2
    <3> QED BY <1>4, <3>2, <3>3
  <2>3. ASSUME NEW n \in Nodes(v), n # <<>>
        PROVE  \E x \in Registered(v) : n \in Path(x.pat)
    <3>1. n \in Nodes(t) /\ n \notin Cut(u, p, C) /\ n \in Seq(STRING)
      BY <1>1, <1>4
    <3>2. PICK x \in Registered(t) : n \in Path(x.pat)
      BY <1>0, <2>3, <3>1 DEF Used
    <3>3. CASE x # r
      BY <1>7, <3>2, <3>3
    <3>4. CASE x = r
      <4>1. PICK m \in Nodes(t) : n \in Path(m) /\ (m \notin Path(p) \/ u.subs[m] # {})
        BY <1>6, <2>3, <3>1, <3>2, <3>4
      <4>2. m \in Seq(STRING)
        BY <1>1
      <4>3. CASE m \notin Path(p)
        <5>1. m # <<>>
          BY <1>1, <4>3, PathEnds
        <5>2. PICK y \in Registered(t) : m \in Path(y.pat)
          BY <1>0, <5>1 DEF Used
        <5>3. y.pat \in Seq(STRING) /\ y # r
          BY <1>0, <4>3, <5>2, Home
        <5>4. n \in Path(y.pat)
          BY <4>1, <5>2, <5>3, PathTrans
        <5> QED BY <1>7, <5>3, <5>4
      <4>4. CASE u.subs[m] # {}
        <5>1. PICK y \in u.subs[m] : TRUE
          BY <4>4
        <5>2. y \in t.subs[m] /\ y # r
          BY <1>3, <5>1
        <5>3. y \in Registered(t) /\ y.pat = m
          BY <1>0, <5>2 DEF Registered, Placed
        <5> QED BY <1>7, <4>1, <5>2, <5>3
      <4> QED BY <4>1, <4>3, <4>4
    <3> QED BY <3>3, <3>4
  <2> QED BY <2>1, <2>2, <2>3 DEF Used
<1>10. Counted(v)
  BY <1>0, <1>3, <1>4, <1>7, FS_RemoveElement DEF Counted
<1> QED BY <1>2, <1>4, <1>7, <1>8, <1>9, <1>10 DEF TrieOk

(* Removing what is not there changes nothing.                               *)
LEMMA RemoveAbsent ==
    ASSUME NEW t, NEW r, r \notin Registered(t)
    PROVE  Remove(t, r.pat, r) = t
  BY DEF Remove, Holds, Registered

(* The empty trie.                                                           *)
LEMMA EmptyOk == TrieOk(EmptyTrie) /\ Registered(EmptyTrie) = {}
<1>1. /\ Nodes(EmptyTrie) = {<<>>} /\ EmptyTrie.subs[<<>>] = {} /\ EmptyTrie.count = 0
      /\ EmptyTrie.subs = [n \in {<<>>} |-> {}]
  BY DEF EmptyTrie, Nodes
<1>2. Registered(EmptyTrie) = {}
  BY <1>1 DEF Registered
<1>3. Shape(EmptyTrie)
  <2>1. <<>> \in Seq(STRING)
    OBVIOUS
  <2>2. EmptyTrie = [subs |-> EmptyTrie.subs, count |-> EmptyTrie.count]
    BY <1>1 DEF EmptyTrie
  <2> QED BY <1>1, <2>1, <2>2 DEF Shape
<1>4. Counted(EmptyTrie)
  BY <1>1, <1>2, FS_EmptySet DEF Counted
<1>5. Used(EmptyTrie) /\ Placed(EmptyTrie)
  BY <1>1, <1>2 DEF Used, Placed
<1> QED BY <1>2, <1>3, <1>4, <1>5 DEF TrieOk

-----------------------------------------------------------------------------
(* The match.                                                                *)

(* Pattern p accepts the tokens of s after the d-th.                         *)
Hit(p, s, d) ==
    \/ /\ Len(p) = Len(s) /\ d <= Len(p)
       /\ \A i \in d + 1 .. Len(p) : p[i] \in {"*", s[i]}
    \/ /\ d < Len(p) /\ p[Len(p)] = ">" /\ Len(p) <= Len(s) + 1
       /\ \A i \in d + 1 .. Len(p) - 1 : p[i] \in {"*", s[i]}

Body(t, s, f, n) ==
    IF Len(n) >= Len(s)
    THEN t.subs[n] \cup Rest(t, n)
    ELSE Rest(t, n) \cup UNION {f[m] : m \in
             {k \in Children(t, n) : k[Len(k)] \in {"*", s[Len(k)]}}}

Solves(t, s, f) == f = [n \in Nodes(t) |-> Body(t, s, f, n)]

Sol(t, s) ==
    [n \in Nodes(t) |-> IF Len(n) > Len(s)
                        THEN t.subs[n] \cup Rest(t, n)
                        ELSE {r \in Registered(t) : n \in Path(r.pat) /\ Hit(r.pat, s, Len(n))}]

(* Hit from the first token on is SubjectMatch.                              *)
LEMMA HitAll ==
    ASSUME NEW p \in Seq(STRING), NEW s \in Seq(STRING)
    PROVE  Hit(p, s, 0) <=> SubjectMatch(p, s)
<1>1. p # <<>> <=> Len(p) > 0
  OBVIOUS
<1>2. Len(p) \in Nat /\ Len(s) \in Nat
  OBVIOUS
<1>3. CASE p # <<>> /\ p[Len(p)] = ">"
  <2>1. SubjectMatch(p, s) <=> /\ Len(s) >= Len(p) - 1
                               /\ \A i \in 1 .. Len(p) - 1 : p[i] \in {"*", s[i]}
    BY <1>3 DEF SubjectMatch
  <2>2. Hit(p, s, 0) <=> \/ Len(p) = Len(s) /\ \A i \in 1 .. Len(p) : p[i] \in {"*", s[i]}
                         \/ /\ Len(p) <= Len(s) + 1
                            /\ \A i \in 1 .. Len(p) - 1 : p[i] \in {"*", s[i]}
    BY <1>1, <1>2, <1>3 DEF Hit
  <2>3. Len(s) >= Len(p) - 1 <=> Len(p) <= Len(s) + 1
    BY <1>2
  <2>4. (\A i \in 1 .. Len(p) : p[i] \in {"*", s[i]}) =>
            \A i \in 1 .. Len(p) - 1 : p[i] \in {"*", s[i]}
    BY <1>2
  <2>5. Len(p) = Len(s) => Len(p) <= Len(s) + 1
    BY <1>2
  <2> QED BY <2>1, <2>2, <2>3, <2>4, <2>5
<1>4. CASE ~(p # <<>> /\ p[Len(p)] = ">")
  <2>1. SubjectMatch(p, s) <=> /\ Len(s) = Len(p)
                               /\ \A i \in 1 .. Len(p) : p[i] \in {"*", s[i]}
    BY <1>4 DEF SubjectMatch
  <2>2. Hit(p, s, 0) <=> Len(p) = Len(s) /\ \A i \in 1 .. Len(p) : p[i] \in {"*", s[i]}
    BY <1>1, <1>2, <1>4 DEF Hit
  <2> QED BY <2>1, <2>2
<1> QED BY <1>3, <1>4

(* What the ">" child holds.                                                 *)
LEMMA RestIs ==
    ASSUME NEW t, Shape(t), Placed(t), Used(t), NEW n \in Nodes(t), NEW r
    PROVE  r \in Rest(t, n) <=> /\ r \in Registered(t) /\ n \in Path(r.pat)
                                /\ Len(r.pat) = Len(n) + 1 /\ r.pat[Len(r.pat)] = ">"
<1> DEFINE m == Append(n, ">")
<1>1. /\ n \in Seq(STRING) /\ Len(m) = Len(n) + 1 /\ m[Len(m)] = ">"
      /\ \A i \in 1 .. Len(n) : m[i] = n[i]
  <2>1. n \in Seq(STRING)
    BY DEF Shape
  <2>2. n \in Seq(STRING \cup {">"})
    BY <2>1
  <2> QED BY <2>1, <2>2
<1> HIDE DEF m
<1>2. m \in Nodes(t) => m \in Seq(STRING) /\ n \in Path(m)
  BY <1>1, PathTokens DEF Shape
<1>3. m \in Nodes(t) => m \in Children(t, n)
  BY <1>1, <1>2, PathIs DEF Children
<1>4. r \in Rest(t, n) <=> m \in Nodes(t) /\ r \in t.subs[m]
  BY <1>3 DEF Rest, Children, m
<1>5. ASSUME r \in Rest(t, n)
      PROVE  /\ r \in Registered(t) /\ n \in Path(r.pat)
             /\ Len(r.pat) = Len(n) + 1 /\ r.pat[Len(r.pat)] = ">"
  <2>1. r \in Registered(t) /\ r.pat = m
    BY <1>4, <1>5 DEF Registered, Placed
  <2> QED BY <1>1, <1>2, <1>4, <1>5, <2>1
<1>6. ASSUME r \in Registered(t), n \in Path(r.pat),
             Len(r.pat) = Len(n) + 1, r.pat[Len(r.pat)] = ">"
      PROVE  r \in Rest(t, n)
  <2>1. r.pat \in Nodes(t) /\ r.pat \in Seq(STRING) /\ r \in t.subs[r.pat]
    BY <1>6, Home
  <2>2. \A i \in 1 .. Len(n) : n[i] = r.pat[i]
    BY <1>1, <1>6, <2>1, PathTokens
  <2>3. \A i \in 1 .. Len(m) : r.pat[i] = m[i]
    BY <1>1, <1>6, <2>2
  <2>4. r.pat = m
    <3>1. m \in Seq(STRING \cup {">"}) /\ r.pat \in Seq(STRING \cup {">"})
      BY <1>1, <2>1 DEF m
    <3> QED BY <1>1, <1>6, <2>3, <3>1, SeqEqual
  <2> QED BY <1>4, <2>1, <2>4
<1> QED BY <1>5, <1>6

(* The next node on the way from n to the pattern of a reference.            *)
LEMMA Onward ==
    ASSUME NEW t, Shape(t), Placed(t), Used(t), NEW n \in Nodes(t),
           NEW r \in Registered(t), n \in Path(r.pat), Len(n) < Len(r.pat)
    PROVE  \E k \in Children(t, n) : /\ k \in Path(r.pat) /\ Len(k) = Len(n) + 1
                                     /\ k[Len(k)] = r.pat[Len(k)]
<1>1. r.pat \in Seq(STRING) /\ n \in Seq(STRING) /\ r.pat \in Nodes(t)
  BY Home DEF Shape
<1> DEFINE k == SubSeq(r.pat, 1, Len(n) + 1)
<1>2. /\ k \in Seq(STRING) /\ Len(k) = Len(n) + 1
      /\ \A i \in 1 .. Len(k) : k[i] = r.pat[i]
  BY <1>1
<1> HIDE DEF k
<1>3. k \in Path(r.pat)
  BY <1>1, <1>2, PathTokens
<1>4. k \in Nodes(t)
  BY <1>1, <1>3, PrefixClosed
<1>5. \A i \in 1 .. Len(n) : n[i] = r.pat[i]
  BY <1>1, PathTokens
<1>6. n \in Path(k)
  BY <1>1, <1>2, <1>5, PathTokens
<1>7. k \in Children(t, n)
  BY <1>2, <1>4, <1>6, PathIs DEF Children
<1> QED BY <1>2, <1>3, <1>7

(* The children of n.                                                        *)
LEMMA ChildIs ==
    ASSUME NEW t, Shape(t), NEW n \in Nodes(t), NEW k \in Children(t, n)
    PROVE  k \in Nodes(t) /\ k \in Seq(STRING) /\ Len(k) = Len(n) + 1 /\ n \in Path(k)
  BY PathIs DEF Children, Shape

(* The hits of n beyond its own node are those of its children.              *)
LEMMA HitStep ==
    ASSUME NEW p \in Seq(STRING), NEW s \in Seq(STRING), NEW d \in Nat, d < Len(s)
    PROVE  Hit(p, s, d) <=> \/ d + 1 = Len(p) /\ p[Len(p)] = ">"
                            \/ /\ d < Len(p) /\ p[d + 1] \in {"*", s[d + 1]}
                               /\ Hit(p, s, d + 1)
<1>1. Len(p) \in Nat /\ Len(s) \in Nat
  OBVIOUS
<1> DEFINE Ok(a, b) == \A i \in a .. b : p[i] \in {"*", s[i]}
<1>2. ASSUME NEW b \in Int, d + 1 <= b
      PROVE  Ok(d + 1, b) <=> p[d + 1] \in {"*", s[d + 1]} /\ Ok(d + 1 + 1, b)
  <2>1. \A i : i \in d + 1 .. b <=> i = d + 1 \/ i \in d + 1 + 1 .. b
    BY <1>2
  <2> QED BY <2>1
<1>3. \A a : Hit(p, s, a) <=> \/ Len(p) = Len(s) /\ a <= Len(p) /\ Ok(a + 1, Len(p))
                              \/ /\ a < Len(p) /\ p[Len(p)] = ">" /\ Len(p) <= Len(s) + 1
                                 /\ Ok(a + 1, Len(p) - 1)
  BY DEF Hit
<1>4. d + 1 = Len(p) => Ok(d + 1, Len(p) - 1)
  BY <1>1
<1> HIDE DEF Ok
<1>5. CASE d + 1 = Len(p)
  <2>1. Ok(d + 1, Len(p)) <=> p[d + 1] \in {"*", s[d + 1]} /\ Ok(d + 1 + 1, Len(p))
    BY <1>1, <1>2, <1>5
  <2>2. Hit(p, s, d) <=> \/ Len(p) = Len(s) /\ Ok(d + 1, Len(p))
                         \/ p[Len(p)] = ">"
    BY <1>1, <1>3, <1>4, <1>5
  <2>3. Hit(p, s, d + 1) <=> Len(p) = Len(s) /\ Ok(d + 1 + 1, Len(p))
    BY <1>1, <1>3, <1>5
  <2> QED BY <1>1, <1>5, <2>1, <2>2, <2>3
<1>6. CASE d + 1 < Len(p)
  <2>1. /\ Ok(d + 1, Len(p)) <=> p[d + 1] \in {"*", s[d + 1]} /\ Ok(d + 1 + 1, Len(p))
        /\ Ok(d + 1, Len(p) - 1) <=> p[d + 1] \in {"*", s[d + 1]} /\ Ok(d + 1 + 1, Len(p) - 1)
    BY <1>1, <1>2, <1>6
  <2>2. Hit(p, s, d) <=> \/ Len(p) = Len(s) /\ Ok(d + 1, Len(p))
                         \/ /\ p[Len(p)] = ">" /\ Len(p) <= Len(s) + 1
                            /\ Ok(d + 1, Len(p) - 1)
    BY <1>1, <1>3, <1>6
  <2>3. Hit(p, s, d + 1) <=> \/ Len(p) = Len(s) /\ Ok(d + 1 + 1, Len(p))
                             \/ /\ p[Len(p)] = ">" /\ Len(p) <= Len(s) + 1
                                /\ Ok(d + 1 + 1, Len(p) - 1)
    BY <1>1, <1>3, <1>6
  <2> QED BY <1>1, <1>6, <2>1, <2>2, <2>3
<1>7. CASE d >= Len(p)
  <2>1. ~Hit(p, s, d)
    BY <1>1, <1>3, <1>7
  <2> QED BY <1>1, <1>7, <2>1
<1> QED BY <1>1, <1>5, <1>6, <1>7

(* At the last token.                                                        *)
LEMMA HitLast ==
    ASSUME NEW p \in Seq(STRING), NEW s \in Seq(STRING)
    PROVE  Hit(p, s, Len(s)) <=> \/ Len(p) = Len(s)
                                 \/ Len(p) = Len(s) + 1 /\ p[Len(p)] = ">"
<1>1. Len(p) \in Nat /\ Len(s) \in Nat
  OBVIOUS
<1>2. CASE Len(p) = Len(s)
  BY <1>1, <1>2 DEF Hit
<1>3. CASE Len(p) # Len(s)
  BY <1>1, <1>3 DEF Hit
<1> QED BY <1>2, <1>3

(* The closed form satisfies the equation of the walk.                       *)
LEMMA SolSolves ==
    ASSUME NEW t, TrieOk(t), NEW s \in Seq(STRING)
    PROVE  Solves(t, s, Sol(t, s))
<1>0. Shape(t) /\ Placed(t) /\ Used(t)
  BY DEF TrieOk
<1> DEFINE f == Sol(t, s)
<1>1. f = [n \in Nodes(t) |-> f[n]]
  BY DEF Sol
<1>2. \A n \in Nodes(t) : /\ Len(n) > Len(s) => f[n] = t.subs[n] \cup Rest(t, n)
                          /\ ~(Len(n) > Len(s)) =>
                               f[n] = {r \in Registered(t) : n \in Path(r.pat)
                                                             /\ Hit(r.pat, s, Len(n))}
  BY DEF Sol
<1> HIDE DEF f
<1>3. ASSUME NEW n \in Nodes(t)
      PROVE  f[n] = Body(t, s, f, n)
  <2>1. n \in Seq(STRING) /\ Len(n) \in Nat /\ Len(s) \in Nat
    BY <1>0 DEF Shape
  <2>2. CASE Len(n) > Len(s)
    <3>1. Body(t, s, f, n) = t.subs[n] \cup Rest(t, n)
      BY <2>1, <2>2 DEF Body
    <3> QED BY <1>2, <2>2, <3>1
  <2>3. CASE Len(n) = Len(s)
    <3>1. f[n] = {r \in Registered(t) : n \in Path(r.pat) /\ Hit(r.pat, s, Len(s))}
      BY <1>2, <2>1, <2>3
    <3>2. Body(t, s, f, n) = t.subs[n] \cup Rest(t, n)
      BY <2>1, <2>3 DEF Body
    <3>3. ASSUME NEW r \in Registered(t), n \in Path(r.pat), Hit(r.pat, s, Len(s))
          PROVE  r \in t.subs[n] \cup Rest(t, n)
      <4>1. r.pat \in Seq(STRING) /\ r \in t.subs[r.pat]
        BY <1>0, Home
      <4>2. CASE Len(r.pat) = Len(s)
        <5>1. \A i \in 1 .. Len(n) : n[i] = r.pat[i]
          BY <2>1, <3>3, <4>1, PathTokens
        <5>2. n = r.pat
          BY <2>1, <2>3, <4>1, <4>2, <5>1, SeqEqual
        <5> QED BY <4>1, <5>2
      <4>3. CASE Len(r.pat) = Len(s) + 1 /\ r.pat[Len(r.pat)] = ">"
        BY <1>0, <2>3, <3>3, <4>3, RestIs
      <4> QED BY <3>3, <4>1, <4>2, <4>3, HitLast
    <3>4. ASSUME NEW r \in t.subs[n] \cup Rest(t, n)
          PROVE  r \in Registered(t) /\ n \in Path(r.pat) /\ Hit(r.pat, s, Len(s))
      <4>1. CASE r \in t.subs[n]
        <5>1. r \in Registered(t) /\ r.pat = n
          BY <1>0, <4>1 DEF Registered, Placed
        <5> QED BY <2>1, <2>3, <5>1, PathEnds, HitLast
      <4>2. CASE r \in Rest(t, n)
        <5>1. /\ r \in Registered(t) /\ n \in Path(r.pat)
              /\ Len(r.pat) = Len(n) + 1 /\ r.pat[Len(r.pat)] = ">"
          BY <1>0, <4>2, RestIs
        <5>2. r.pat \in Seq(STRING)
          BY <1>0, <5>1, Home
        <5> QED BY <2>3, <5>1, <5>2, HitLast
      <4> QED BY <4>1, <4>2
    <3> QED BY <3>1, <3>2, <3>3, <3>4
  <2>4. CASE Len(n) < Len(s)
    <3> DEFINE K == {k \in Children(t, n) : k[Len(k)] \in {"*", s[Len(k)]}}
    <3>1. f[n] = {r \in Registered(t) : n \in Path(r.pat) /\ Hit(r.pat, s, Len(n))}
      BY <1>2, <2>1, <2>4
    <3>2. Body(t, s, f, n) = Rest(t, n) \cup UNION {f[k] : k \in K}
      BY <2>1, <2>4 DEF Body
    <3>3. ASSUME NEW k \in K
          PROVE  /\ k \in Nodes(t) /\ k \in Seq(STRING) /\ n \in Path(k)
                 /\ Len(k) = Len(n) + 1 /\ k[Len(k)] \in {"*", s[Len(k)]}
                 /\ f[k] = {r \in Registered(t) : k \in Path(r.pat)
                                                  /\ Hit(r.pat, s, Len(n) + 1)}
      <4>1. /\ k \in Nodes(t) /\ k \in Seq(STRING) /\ n \in Path(k)
            /\ Len(k) = Len(n) + 1 /\ k[Len(k)] \in {"*", s[Len(k)]}
        BY <1>0, ChildIs
      <4>2. ~(Len(k) > Len(s))
        BY <2>1, <2>4, <4>1
      <4> QED BY <1>2, <4>1, <4>2
    <3>4. ASSUME NEW r \in Registered(t), n \in Path(r.pat), Hit(r.pat, s, Len(n))
          PROVE  r \in Rest(t, n) \/ \E k \in K : r \in f[k]
      <4>1. r.pat \in Seq(STRING)
        BY <1>0, Home
      <4>2. CASE Len(n) + 1 = Len(r.pat) /\ r.pat[Len(r.pat)] = ">"
        BY <1>0, <3>4, <4>2, RestIs
      <4>3. CASE /\ Len(n) < Len(r.pat) /\ r.pat[Len(n) + 1] \in {"*", s[Len(n) + 1]}
                 /\ Hit(r.pat, s, Len(n) + 1)
        <5>1. PICK k \in Children(t, n) : /\ k \in Path(r.pat) /\ Len(k) = Len(n) + 1
                                          /\ k[Len(k)] = r.pat[Len(k)]
          BY <1>0, <3>4, <4>3, Onward
        <5>2. k \in K
          BY <4>3, <5>1
        <5> QED BY <3>3, <4>3, <5>1, <5>2
      <4> QED BY <2>1, <2>4, <3>4, <4>1, <4>2, <4>3, HitStep
    <3>5. ASSUME NEW r \in Rest(t, n)
          PROVE  r \in Registered(t) /\ n \in Path(r.pat) /\ Hit(r.pat, s, Len(n))
      <4>1. /\ r \in Registered(t) /\ n \in Path(r.pat)
            /\ Len(r.pat) = Len(n) + 1 /\ r.pat[Len(r.pat)] = ">"
        BY <1>0, RestIs
      <4>2. r.pat \in Seq(STRING)
        BY <1>0, <4>1, Home
      <4> QED BY <2>1, <2>4, <4>1, <4>2, HitStep
    <3>6. ASSUME NEW k \in K, NEW r \in f[k]
          PROVE  r \in Registered(t) /\ n \in Path(r.pat) /\ Hit(r.pat, s, Len(n))
      <4>1. /\ k \in Seq(STRING) /\ n \in Path(k) /\ Len(k) = Len(n) + 1
            /\ k[Len(k)] \in {"*", s[Len(k)]}
            /\ r \in Registered(t) /\ k \in Path(r.pat) /\ Hit(r.pat, s, Len(n) + 1)
        BY <3>3
      <4>2. r.pat \in Seq(STRING)
        BY <1>0, <4>1, Home
      <4>3. n \in Path(r.pat)
        BY <4>1, <4>2, PathTrans
      <4>4. Len(k) <= Len(r.pat) /\ \A i \in 1 .. Len(k) : k[i] = r.pat[i]
        BY <4>1, <4>2, PathTokens
      <4>5. Len(n) < Len(r.pat) /\ r.pat[Len(n) + 1] \in {"*", s[Len(n) + 1]}
        BY <2>1, <4>1, <4>2, <4>4
      <4> QED BY <2>1, <2>4, <4>1, <4>2, <4>3, <4>5, HitStep
    <3> HIDE DEF K
    <3> QED BY <3>1, <3>2, <3>4, <3>5, <3>6
  <2> QED BY <2>1, <2>2, <2>3, <2>4
<1>4. [n \in Nodes(t) |-> f[n]] = [n \in Nodes(t) |-> Body(t, s, f, n)]
  BY <1>3
<1> QED BY <1>1, <1>4 DEF Solves, f

(* The equation has one solution: two of them agree first where no token is  *)
(* left, and so at the node before.                                          *)
LEMMA OneSolution ==
    ASSUME NEW t, Shape(t), NEW s \in Seq(STRING),
           NEW f, Solves(t, s, f), NEW g, Solves(t, s, g)
    PROVE  \A n \in Nodes(t) : f[n] = g[n]
<1>1. \A n \in Nodes(t) : f[n] = Body(t, s, f, n) /\ g[n] = Body(t, s, g, n)
  <2>1. ASSUME NEW h, Solves(t, s, h), NEW n \in Nodes(t)
        PROVE  h[n] = Body(t, s, h, n)
    BY <2>1 DEF Solves
  <2> QED BY <2>1
<1>2. \A n \in Nodes(t) : n \in Seq(STRING) /\ Len(n) \in Nat
  BY DEF Shape
<1>3. \A n \in Nodes(t) : Len(n) >= Len(s) => f[n] = g[n]
  BY <1>1 DEF Body
<1> DEFINE T == {d \in Nat : \E n \in Nodes(t) : d + Len(n) = Len(s) /\ f[n] # g[n]}
<1>4. SUFFICES ASSUME T # {} PROVE FALSE
  <2>1. ASSUME NEW n \in Nodes(t), f[n] # g[n] PROVE Len(s) - Len(n) \in T
    BY <1>2, <1>3, <2>1
  <2> QED BY <2>1
<1>5. PICK d \in T : \A e \in T : ~(<<e, d>> \in OpToRel(<, Nat))
  BY <1>4, NatLessThanWellFounded, WFMin
<1>6. \A e \in T : ~(e < d)
  BY <1>5, Zenon DEF OpToRel
<1>7. PICK n \in Nodes(t) : d + Len(n) = Len(s) /\ f[n] # g[n]
  OBVIOUS
<1>8. Len(n) < Len(s)
  BY <1>2, <1>3, <1>7
<1>9. ASSUME NEW k \in Children(t, n) PROVE f[k] = g[k]
  <2>1. k \in Nodes(t) /\ Len(k) = Len(n) + 1
    BY ChildIs
  <2>2. d - 1 \in Nat /\ d - 1 + Len(k) = Len(s)
    <3>1. d \in Nat /\ Len(s) \in Nat /\ Len(n) \in Nat
      BY <1>2
    <3> QED BY <1>7, <1>8, <2>1, <3>1
  <2>3. d - 1 \notin T
    BY <1>6, <2>2
  <2> QED BY <2>1, <2>2, <2>3
<1> HIDE DEF T
<1>10. ASSUME NEW h
       PROVE  Body(t, s, h, n) = Rest(t, n) \cup UNION {h[m] : m \in
                 {k \in Children(t, n) : k[Len(k)] \in {"*", s[Len(k)]}}}
  BY <1>2, <1>8 DEF Body
<1>11. UNION {f[m] : m \in {k \in Children(t, n) : k[Len(k)] \in {"*", s[Len(k)]}}}
        = UNION {g[m] : m \in {k \in Children(t, n) : k[Len(k)] \in {"*", s[Len(k)]}}}
  BY <1>9
<1>12. f[n] = g[n]
  BY <1>1, <1>10, <1>11
<1> QED BY <1>7, <1>12

(* A match finds exactly the references whose pattern accepts the subject.   *)
THEOREM MatchExact ==
    ASSUME NEW t, TrieOk(t), NEW s \in Seq(STRING)
    PROVE  Match(t, s) = {r \in Registered(t) : SubjectMatch(r.pat, s)}
<1>0. Shape(t) /\ Placed(t) /\ Used(t)
  BY DEF TrieOk
<1>1. Collect(t, s) = CHOOSE f : Solves(t, s, f)
  BY DEF Collect, Solves, Body
<1>2. Solves(t, s, Sol(t, s))
  BY SolSolves
<1>3. Solves(t, s, Collect(t, s))
  BY <1>1, <1>2
<1>4. <<>> \in Nodes(t) /\ <<>> \in Seq(STRING) /\ Len(<<>>) = 0
  BY <1>0 DEF Used
<1>5. Match(t, s) = Sol(t, s)[<<>>]
  BY <1>0, <1>2, <1>3, <1>4, OneSolution DEF Match
<1>6. ~(0 > Len(s))
  OBVIOUS
<1>7. Sol(t, s)[<<>>] = {r \in Registered(t) : <<>> \in Path(r.pat) /\ Hit(r.pat, s, 0)}
  BY <1>4, <1>6 DEF Sol
<1>8. ASSUME NEW r \in Registered(t)
      PROVE  <<>> \in Path(r.pat) /\ (Hit(r.pat, s, 0) <=> SubjectMatch(r.pat, s))
  BY <1>0, Home, PathEnds, HitAll
<1> QED BY <1>5, <1>7, <1>8

-----------------------------------------------------------------------------
(* The connections, their lists and the handlers.                            *)

States == {"none", "init", "connected", "closing", "closed", "gone"}

SubPcs == {"claim", "credit", "recheck", "unlink", "insert", "restore", "nudge",
           "ghost", "confirm", "undo"}

Pcs == {"idle", "conn_credit", "conn_live", "welcome", "snap", "go", "fan", "send",
        "letter", "finish", "teardown", "tear"} \cup SubPcs

Subject == Topics \cup {<<>>}

Jobs == [pc : Pcs, c : Clients \cup {NoClient}, ref : Ref \cup {NoRef},
         old : Ref \cup {NoRef}, refs : SUBSET Ref,
         next : {"idle", "confirm", "ghost"}, n : Nat, t : Subject, ep : Nat]

Sends  == {Send(r, n, t, e) : r \in Ref, n \in Nat, t \in Subject, e \in Nat}
Letter == Sends \cup {Farewell(c) : c \in Clients} \cup {Teardown(c) : c \in Clients}

Msgs == [ref : Ref, n : Nat, t : Subject]

AccOk(a) ==
    a = [active |-> a.active, epoch |-> a.epoch] /\ a.epoch \in Nat

TypeInv ==
    /\ st \in [Clients -> States]
    /\ ep \in [Clients -> Nat]
    /\ AccOk(acc)
    /\ shut \subseteq Clients /\ active \in Int
    /\ ent \in [Clients -> SUBSET Ref]
    /\ sub_count \in [Clients -> Nat]
    /\ job \in [Workers -> Jobs]
    /\ got \subseteq Msgs
    /\ spent \in [DOMAIN Limit -> Nat]

(* A letter is in the mailbox of the worker that owns its client.            *)
BoxOk(ms) == /\ ms \in [Workers -> Seq(Letter)]
             /\ \A w \in Workers : \A k \in DOMAIN ms[w] : Owner[ms[w][k].to] = w

MailInv == BoxOk(mail)

(* A worker is idle or works for a client it owns.                           *)
OwnInv == \A w \in Workers :
    \/ job[w] = Idle
    \/ job[w].pc # "idle" /\ job[w].c \in Clients /\ Owner[job[w].c] = w

TrieInv == TrieOk(trie) /\ Registered(trie) \subseteq Ref

(* The handler that works for c.                                             *)
View(c) == IF job[Owner[c]].c = c THEN job[Owner[c]] ELSE Idle

(* The references of c in the trie.                                          *)
Held(c) == {r \in Registered(trie) : r.c = c}

(* The state of the connection by the place of its handler.                  *)
StateOk(v, s) ==
    /\ v.pc \in {"conn_credit", "conn_live"} => s = "init"
    /\ v.pc \in {"welcome", "snap", "go"} \cup SubPcs => s = "connected"
    /\ v.pc \in {"fan", "send"} => s \in {"connected", "closing"}
    /\ v.pc = "letter" => s \in {"init", "connected"}
    /\ v.pc = "finish" => s = "closing"
    /\ v.pc = "teardown" => s \in {"init", "connected", "closing"}
    /\ v.pc = "tear" => s = "closed"

(* A SUBSCRIBE before it has touched the list, one that replaces and has     *)
(* unlinked the old reference, and one that has been entered.                *)
Before(v) == v.pc \in {"claim", "credit", "recheck", "unlink", "insert"}
Gap(v)    == \/ v.pc \in {"restore", "ghost"} \/ (v.pc = "nudge" /\ v.next = "ghost")
             \/ v.pc = "insert" /\ v.old # NoRef
Enters(v) == v.pc = "confirm" \/ (v.pc = "nudge" /\ v.next = "confirm")
Tears(v)  == v.pc = "tear"

(* The locals of the handler and the list E of its client.                   *)
LocalsOk(c, v, E) ==
    /\ v.pc \in SubPcs => /\ v.ref \in Ref /\ v.ref.c = c
                          /\ v.old = NoRef \/ (v.old.c = c /\ v.old.sid = v.ref.sid)
    /\ v.pc \in {"credit", "recheck"} => v.old = NoRef
    /\ v.pc = "unlink" \/ Gap(v) => v.old # NoRef
    /\ Before(v) \/ Gap(v) =>
           IF v.old = NoRef THEN \A r \in E : r.sid # v.ref.sid ELSE v.old \in E
    /\ Enters(v) \/ v.pc = "undo" => v.ref \in E
    /\ v.pc = "send" => v.ref \in Ref /\ Owner[v.ref.c] = Owner[c]
    /\ v.pc = "letter" => v.ref \in Ref
    /\ Tears(v) => \A r \in v.refs : r.c = c

(* The list E, its length n and the references R in the trie.                *)
ListOk(c, v, s, E, n, R) ==
    /\ \A r \in E : r.c = c
    /\ \A r, q \in E : r.sid = q.sid => r = q
    /\ IsFiniteSet(E)
    /\ s \notin {"connected", "closing"} => E = {}
    /\ \A r \in E : r \in R <=> ~(Gap(v) /\ r = v.old)
    /\ \A r \in R : r \in E \/ (Tears(v) /\ r \in v.refs)
    /\ IF Enters(v) /\ v.old = NoRef THEN Cardinality(E) = n + 1 ELSE Cardinality(E) = n

ClientOk(c, v, s, E, n, R) ==
    StateOk(v, s) /\ LocalsOk(c, v, E) /\ ListOk(c, v, s, E, n, R)

ClientsInv == \A c \in Clients :
    ClientOk(c, View(c), st[c], ent[c], sub_count[c], Held(c))

IInv == TypeInv /\ MailInv /\ OwnInv /\ TrieInv /\ ClientsInv

-----------------------------------------------------------------------------
(* Handlers.                                                                 *)

(* The job of w, and no other, becomes j.                                    *)
Moves(w, j) == job' \in [Workers -> Jobs] /\ job'[w] = j
               /\ \A x \in Workers \ {w} : job'[x] = job[x]

(* The empty job.                                                            *)
LEMMA IdleIs ==
    /\ Idle \in Jobs /\ Idle.pc = "idle" /\ Idle.c = NoClient
    /\ NoClient \notin Clients /\ NoRef \notin Ref
  BY SubscriptionsAssumption DEF Idle, Jobs, Pcs, SubPcs, Subject

(* The job that starts at p.                                                 *)
LEMMA JobIs ==
    ASSUME NEW p \in Pcs, NEW c \in Clients
    PROVE  /\ Job(p, c) \in Jobs /\ Job(p, c).pc = p /\ Job(p, c).c = c
           /\ Job(p, c).refs = {} /\ Job(p, c).ref = NoRef /\ Job(p, c).old = NoRef
           /\ Job(p, c).n = 0 /\ Job(p, c).t = <<>> /\ Job(p, c).next = "idle"
           /\ Job(p, c).ep = 0
  BY DEF Job, Idle, Jobs, Subject

(* The ways a handler moves on.                                              *)
LEMMA GoMoves ==
    ASSUME TypeInv, NEW w \in Workers, NEW p \in Pcs, Go(w, p)
    PROVE  /\ Moves(w, job'[w]) /\ job'[w].pc = p
           /\ job'[w].c = job[w].c /\ job'[w].ref = job[w].ref /\ job'[w].old = job[w].old
           /\ job'[w].refs = job[w].refs /\ job'[w].next = job[w].next
           /\ job'[w].n = job[w].n /\ job'[w].t = job[w].t
           /\ job'[w].ep = job[w].ep
  BY DEF TypeInv, Go, Moves, Jobs

(* A worker takes up job j ...                                               *)
LEMMA PutMoves ==
    ASSUME TypeInv, NEW w \in Workers, NEW j \in Jobs, job' = [job EXCEPT ![w] = j]
    PROVE  Moves(w, j)
  BY DEF TypeInv, Moves

(* ... is done with it ...                                                   *)
LEMMA DoneMoves ==
    ASSUME TypeInv, NEW w \in Workers, Done(w)
    PROVE  Moves(w, Idle)
  BY PutMoves, IdleIs DEF Done

(* ... or goes on to close a connection.                                     *)
LEMMA ClosingMoves ==
    ASSUME TypeInv, NEW w \in Workers, NEW c \in Clients, Closing(w, c)
    PROVE  /\ Moves(w, Job("finish", c)) /\ st' \in [Clients -> States]
           /\ st'[c] = "closing" /\ \A d \in Clients \ {c} : st'[d] = st[d]
<1>1. "finish" \in Pcs
  BY DEF Pcs
<1>2. Moves(w, Job("finish", c))
  BY <1>1, PutMoves, JobIs DEF Closing
<1> QED BY <1>2 DEF Closing, TypeInv, States

(* The handler that is running, and its client.                              *)
LEMMA Actor ==
    ASSUME IInv, NEW w \in Workers, job[w].pc # "idle"
    PROVE  /\ job[w].c \in Clients /\ Owner[job[w].c] = w /\ View(job[w].c) = job[w]
           /\ job[w] \in Jobs
           /\ ClientOk(job[w].c, job[w], st[job[w].c], ent[job[w].c],
                       sub_count[job[w].c], Held(job[w].c))
<1>1. /\ job[w].c \in Clients /\ Owner[job[w].c] = w
  BY IdleIs DEF IInv, OwnInv
<1>2. View(job[w].c) = job[w]
  BY <1>1 DEF View
<1> QED BY <1>1, <1>2 DEF IInv, ClientsInv, TypeInv

(* A client whose worker is idle.                                            *)
LEMMA Rests ==
    ASSUME IInv, NEW c \in Clients, job[Owner[c]] = Idle
    PROVE  /\ View(c) = Idle
           /\ ClientOk(c, Idle, st[c], ent[c], sub_count[c], Held(c))
  BY IdleIs DEF IInv, ClientsInv, View

(* A step of the handler of c leaves the other clients alone.                *)
LEMMA Local ==
    ASSUME IInv, NEW w \in Workers, NEW c \in Clients, Owner[c] = w,
           job[w] = Idle \/ job[w].c = c,
           NEW j, Moves(w, j), j = Idle \/ (j.c = c /\ j.pc # "idle"),
           \A d \in Clients \ {c} : /\ st'[d] = st[d] /\ ent'[d] = ent[d]
                                    /\ sub_count'[d] = sub_count[d]
                                    /\ Held(d)' = Held(d),
           ClientOk(c, j, st'[c], ent'[c], sub_count'[c], Held(c)')
    PROVE  OwnInv' /\ ClientsInv'
<1>0. Owner \in [Clients -> Workers]
  BY SubscriptionsAssumption
<1>1. OwnInv'
  BY DEF IInv, OwnInv, Moves
<1>2. View(c)' = j
  BY IdleIs DEF View, Moves
<1>3. ASSUME NEW d \in Clients, d # c PROVE View(d)' = View(d)
  BY <1>0, <1>3, IdleIs DEF View, Moves
<1>4. ASSUME NEW d \in Clients
      PROVE  ClientOk(d, View(d), st[d], ent[d], sub_count[d], Held(d))'
  <2>1. CASE d = c
    BY <1>2, <2>1
  <2>2. CASE d # c
    <3>1. ClientOk(d, View(d), st[d], ent[d], sub_count[d], Held(d))
      BY DEF IInv, ClientsInv
    <3> QED BY <1>3, <2>2, <3>1
  <2> QED BY <2>1, <2>2
<1> QED BY <1>1, <1>4 DEF ClientsInv

(* The same for a step that leaves the trie and the lists as they are.       *)
LEMMA Quiet ==
    ASSUME IInv, NEW w \in Workers, NEW c \in Clients, Owner[c] = w,
           job[w] = Idle \/ job[w].c = c,
           NEW j, Moves(w, j), j = Idle \/ (j.c = c /\ j.pc # "idle"),
           UNCHANGED <<trie, lists>>,
           \A d \in Clients \ {c} : st'[d] = st[d],
           ClientOk(c, j, st'[c], ent[c], sub_count[c], Held(c))
    PROVE  OwnInv' /\ TrieInv' /\ ClientsInv'
<1>1. trie' = trie /\ ent' = ent /\ sub_count' = sub_count
  BY DEF lists
<1>2. \A d : Held(d)' = Held(d)
  BY <1>1 DEF Held
<1>3. ClientOk(c, j, st'[c], ent'[c], sub_count'[c], Held(c)')
  BY <1>1, <1>2
<1>4. TrieInv'
  BY <1>1 DEF IInv, TrieInv
<1> QED BY <1>1, <1>2, <1>3, <1>4, Local

(* Spending.                                                                 *)
LEMMA SpendType ==
    ASSUME TypeInv, NEW k \in DOMAIN Limit, Spend(k)
    PROVE  spent' \in [DOMAIN Limit -> Nat]
  BY DEF Spend, TypeInv

(* The kinds of bounded inputs.                                              *)
LEMMA LimitIs == DOMAIN Limit = {"pub", "sub", "admin", "doom", "oom"}
  BY DEF Limit

-----------------------------------------------------------------------------
(* Mailboxes.                                                                *)

(* One more letter.                                                          *)
LEMMA AppendBox ==
    ASSUME NEW ms, BoxOk(ms), NEW m \in Letter, m.to \in Clients
    PROVE  BoxOk([ms EXCEPT ![Owner[m.to]] = Append(@, m)])
<1>1. Owner[m.to] \in Workers
  BY SubscriptionsAssumption
<1> DEFINE w == Owner[m.to]
           box == Append(ms[w], m)
           n == [ms EXCEPT ![w] = box]
<1>2. ms \in [Workers -> Seq(Letter)]
  BY DEF BoxOk
<1>3. /\ box \in Seq(Letter) /\ DOMAIN box = 1 .. Len(ms[w]) + 1
      /\ box[Len(ms[w]) + 1] = m
      /\ \A k \in DOMAIN ms[w] : box[k] = ms[w][k]
      /\ DOMAIN ms[w] = 1 .. Len(ms[w]) /\ Len(ms[w]) \in Nat
  BY <1>1, <1>2
<1>4. \A k \in DOMAIN box : Owner[box[k].to] = w
  BY <1>1, <1>3 DEF BoxOk
<1> HIDE DEF box
<1>5. n \in [Workers -> Seq(Letter)]
  BY <1>1, <1>2, <1>3
<1>6. ASSUME NEW x \in Workers PROVE \A k \in DOMAIN n[x] : Owner[n[x][k].to] = x
  BY <1>1, <1>2, <1>4 DEF BoxOk
<1>7. BoxOk(n)
  BY <1>5, <1>6 DEF BoxOk
<1> QED BY <1>7 DEF box

(* The kinds of letters.                                                     *)
LEMMA LetterIs ==
    ASSUME NEW c \in Clients
    PROVE  /\ Teardown(c) \in Letter /\ Teardown(c).to = c /\ Teardown(c).kind = "TEARDOWN"
           /\ Farewell(c) \in Letter /\ Farewell(c).to = c
           /\ Farewell(c).kind = "DISCONNECT"
  BY DEF Letter, Teardown, Farewell

(* The fields of a SEND.                                                     *)
LEMMA SendIs ==
    ASSUME NEW r \in Ref, NEW n \in Nat, NEW t \in Subject, NEW e \in Nat
    PROVE  /\ Send(r, n, t, e) \in Letter /\ Send(r, n, t, e).to = r.c
           /\ Send(r, n, t, e).kind = "SEND" /\ Send(r, n, t, e).ref = r
           /\ Send(r, n, t, e).n = n /\ Send(r, n, t, e).t = t /\ Send(r, n, t, e).ep = e
           /\ r.c \in Clients
  BY DEF Letter, Sends, Send, Ref

(* A letter is one of the three kinds.                                       *)
LEMMA LetterKinds ==
    ASSUME NEW m \in Letter
    PROVE  /\ m.to \in Clients
           /\ m.kind = "SEND" => /\ m.ref \in Ref /\ m.to = m.ref.c /\ m.n \in Nat
                                 /\ m.t \in Subject /\ m.ep \in Nat
           /\ m.kind # "SEND" => \/ m = Farewell(m.to) /\ m.kind = "DISCONNECT"
                                 \/ m = Teardown(m.to) /\ m.kind = "TEARDOWN"
<1>1. CASE m \in Sends
  <2>1. PICK r \in Ref, n \in Nat, t \in Subject, e \in Nat : m = Send(r, n, t, e)
    BY <1>1 DEF Sends
  <2> QED BY <2>1, SendIs
<1>2. CASE \E c \in Clients : m = Farewell(c)
  BY <1>2, LetterIs
<1>3. CASE \E c \in Clients : m = Teardown(c)
  BY <1>3, LetterIs
<1> QED BY <1>1, <1>2, <1>3 DEF Letter

(* TEARDOWN leaves the mailboxes in order.                                   *)
LEMMA PushBox ==
    ASSUME TypeInv, NEW c \in Clients, NEW ms, BoxOk(ms), PushTeardown(c, ms)
    PROVE  BoxOk(mail') /\ shut' \subseteq Clients
<1>1. Teardown(c) \in Letter /\ Teardown(c).to = c
  BY LetterIs
<1>2. BoxOk([ms EXCEPT ![Owner[c]] = Append(@, Teardown(c))])
  BY <1>1, AppendBox
<1>3. shut \subseteq Clients
  BY DEF TypeInv
<1> QED BY <1>2, <1>3 DEF PushTeardown, Hangup

(* mailbox_push_teardown keeps the mailboxes well formed.                    *)
LEMMA TeardownBox ==
    ASSUME TypeInv, NEW c \in Clients, NEW ms, BoxOk(ms), TeardownOrShutdown(c, ms)
    PROVE  BoxOk(mail') /\ shut' \subseteq Clients /\ spent' \in [DOMAIN Limit -> Nat]
<1>1. CASE PushTeardown(c, ms) /\ UNCHANGED spent
  BY <1>1, PushBox DEF TypeInv
<1>2. CASE Spend("oom") /\ mail' = ms /\ Hangup(c)
  <2>1. spent' \in [DOMAIN Limit -> Nat]
    BY <1>2, SpendType, LimitIs
  <2> QED BY <1>2, <2>1 DEF TypeInv, Hangup
<1> QED BY <1>1, <1>2 DEF TeardownOrShutdown

(* The first letter leaves.                                                  *)
LEMMA TailBox ==
    ASSUME BoxOk(mail), NEW w \in Workers, mail[w] # <<>>
    PROVE  /\ BoxOk([mail EXCEPT ![w] = Tail(@)])
           /\ Tail(mail[w]) \in Seq(Letter)
           /\ \A k \in DOMAIN Tail(mail[w]) : /\ k + 1 \in DOMAIN mail[w]
                                              /\ Tail(mail[w])[k] = mail[w][k + 1]
           /\ Head(mail[w]) \in Letter /\ Owner[Head(mail[w]).to] = w
<1>1. mail \in [Workers -> Seq(Letter)] /\ mail[w] \in Seq(Letter)
  BY DEF BoxOk
<1> DEFINE box == Tail(mail[w])
<1>2. /\ box \in Seq(Letter)
      /\ \A k \in DOMAIN box : k + 1 \in DOMAIN mail[w] /\ box[k] = mail[w][k + 1]
      /\ Head(mail[w]) = mail[w][1] /\ 1 \in DOMAIN mail[w] /\ Head(mail[w]) \in Letter
  BY <1>1
<1>3. \A k \in DOMAIN box : Owner[box[k].to] = w
  BY <1>2 DEF BoxOk
<1> HIDE DEF box
<1>4. BoxOk([mail EXCEPT ![w] = box])
  BY <1>1, <1>2, <1>3 DEF BoxOk
<1> QED BY <1>2, <1>4 DEF box, BoxOk

(* The letters a purge leaves.                                               *)
LEMMA PurgeBox ==
    ASSUME BoxOk(mail), NEW w \in Workers, NEW c, NEW box \in Seq(Letter),
           \A k \in DOMAIN box : Owner[box[k].to] = w, Purge(w, c, box)
    PROVE  /\ BoxOk(mail')
           /\ \A x \in Workers \ {w} : mail'[x] = mail[x]
           /\ \A k \in DOMAIN mail'[w] : \E i \in DOMAIN box : mail'[w][k] = box[i]
<1> DEFINE kept == {k \in DOMAIN box : box[k].kind = "TEARDOWN" \/ box[k].to # c}
<1>1. PICK pos \in [1 .. Cardinality(kept) -> kept] :
          mail' = [mail EXCEPT ![w] = [i \in DOMAIN pos |-> box[pos[i]]]]
  BY DEF Purge
<1> DEFINE b == [i \in DOMAIN pos |-> box[pos[i]]]
<1>2. Cardinality(kept) \in Nat
  <2>1. DOMAIN box = 1 .. Len(box) /\ Len(box) \in Nat
    OBVIOUS
  <2>2. IsFiniteSet(DOMAIN box)
    BY <2>1, FS_Interval
  <2>3. IsFiniteSet(kept)
    BY <2>2, FS_Subset
  <2> QED BY <2>3, FS_CardinalityType
<1>3. \A k \in DOMAIN b : pos[k] \in DOMAIN box /\ b[k] = box[pos[k]]
  OBVIOUS
<1>4. b \in Seq(Letter)
  <2>1. DOMAIN b = 1 .. Cardinality(kept) /\ b = [i \in DOMAIN b |-> b[i]]
    OBVIOUS
  <2>2. \A k \in DOMAIN b : b[k] \in Letter
    BY <1>3
  <2> HIDE DEF b, kept
  <2>3. b \in [1 .. Cardinality(kept) -> Letter]
    BY <2>1, <2>2
  <2> QED BY <1>2, <2>3
<1>5. \A k \in DOMAIN b : Owner[b[k].to] = w
  BY <1>3
<1> HIDE DEF b
<1>6. /\ mail' = [mail EXCEPT ![w] = b] /\ mail \in [Workers -> Seq(Letter)]
      /\ mail'[w] = b /\ \A x \in Workers \ {w} : mail'[x] = mail[x]
  BY <1>1 DEF b, BoxOk
<1>7. BoxOk(mail')
  BY <1>4, <1>5, <1>6 DEF BoxOk
<1> QED BY <1>3, <1>6, <1>7

-----------------------------------------------------------------------------
(* Steps that leave the trie and the lists alone.                            *)

(* What a client keeps when its handler ends or closes it.                   *)
LEMMA CanRest ==
    ASSUME NEW c \in Clients, NEW v, NEW s, NEW E, NEW n, NEW R,
           ClientOk(c, v, s, E, n, R), ~Gap(v), ~(Enters(v) /\ v.old = NoRef), ~Tears(v)
    PROVE  /\ ClientOk(c, Idle, s, E, n, R)
           /\ ClientOk(c, Job("finish", c), "closing", E, n, R)
           /\ s \in {"init", "connected", "closing"} =>
                  ClientOk(c, Job("teardown", c), s, E, n, R)
<1>1. /\ Idle.pc = "idle" /\ Job("finish", c).pc = "finish"
      /\ Job("teardown", c).pc = "teardown"
  BY IdleIs, JobIs DEF Pcs
<1>2. ASSUME NEW u, u.pc \in {"idle", "finish", "teardown"}
      PROVE  /\ LocalsOk(c, u, E) /\ ~Gap(u) /\ ~Enters(u) /\ ~Tears(u)
             /\ ListOk(c, u, s, E, n, R) /\ ListOk(c, u, "closing", E, n, R)
  <2>1. ~Gap(u) /\ ~Enters(u) /\ ~Tears(u) /\ ~Before(u)
    BY <1>2 DEF Gap, Enters, Tears, Before
  <2>2. LocalsOk(c, u, E)
    BY <1>2, <2>1 DEF LocalsOk, SubPcs
  <2>3. ListOk(c, u, s, E, n, R) /\ ListOk(c, u, "closing", E, n, R)
    BY <2>1 DEF ClientOk, ListOk
  <2> QED BY <2>1, <2>2, <2>3
<1>3. /\ StateOk(Idle, s) /\ StateOk(Job("finish", c), "closing")
      /\ s \in {"init", "connected", "closing"} => StateOk(Job("teardown", c), s)
  BY <1>1 DEF StateOk, SubPcs
<1> QED BY <1>1, <1>2, <1>3 DEF ClientOk

(* A handler that closes its client.                                         *)
LEMMA ClosingStep ==
    ASSUME IInv, NEW w \in Workers, NEW c \in Clients, Owner[c] = w,
           job[w] = Idle \/ job[w].c = c,
           ~Gap(View(c)), ~(Enters(View(c)) /\ View(c).old = NoRef), ~Tears(View(c)),
           Closing(w, c), UNCHANGED <<trie, lists>>
    PROVE  /\ OwnInv' /\ TrieInv' /\ ClientsInv'
           /\ st' \in [Clients -> States] /\ job' \in [Workers -> Jobs]
<1>1. /\ Moves(w, Job("finish", c)) /\ st' \in [Clients -> States]
      /\ st'[c] = "closing" /\ \A d \in Clients \ {c} : st'[d] = st[d]
  BY ClosingMoves DEF IInv
<1>2. Job("finish", c).c = c /\ Job("finish", c).pc = "finish"
  BY JobIs DEF Pcs
<1>3. ClientOk(c, Job("finish", c), st'[c], ent[c], sub_count[c], Held(c))
  BY <1>1, CanRest DEF IInv, ClientsInv
<1> QED BY <1>1, <1>2, <1>3, Quiet DEF Moves

(* A handler that ends.                                                      *)
LEMMA DoneStep ==
    ASSUME IInv, NEW w \in Workers, job[w].pc # "idle",
           ~Gap(job[w]), ~(Enters(job[w]) /\ job[w].old = NoRef), ~Tears(job[w]),
           Done(w), UNCHANGED <<trie, lists, st>>
    PROVE  OwnInv' /\ TrieInv' /\ ClientsInv' /\ job' \in [Workers -> Jobs]
<1> DEFINE c == job[w].c
<1>1. /\ c \in Clients /\ Owner[c] = w
      /\ ClientOk(c, job[w], st[c], ent[c], sub_count[c], Held(c))
  BY Actor
<1>2. Moves(w, Idle)
  BY DoneMoves DEF IInv
<1>3. ClientOk(c, Idle, st'[c], ent[c], sub_count[c], Held(c))
  BY <1>1, CanRest
<1> QED BY <1>1, <1>2, <1>3, Quiet DEF Moves

(* A handler that goes on.                                                   *)
LEMMA GoStep ==
    ASSUME IInv, NEW w \in Workers, job[w].pc # "idle",
           NEW p, p \in Pcs, p # "idle", Go(w, p),
           UNCHANGED <<trie, lists>>, \A d \in Clients \ {job[w].c} : st'[d] = st[d],
           ClientOk(job[w].c, job'[w], st'[job[w].c], ent[job[w].c],
                    sub_count[job[w].c], Held(job[w].c))
    PROVE  OwnInv' /\ TrieInv' /\ ClientsInv' /\ job' \in [Workers -> Jobs]
<1> DEFINE c == job[w].c
<1>1. c \in Clients /\ Owner[c] = w
  BY Actor
<1>2. Moves(w, job'[w]) /\ job'[w].pc = p /\ job'[w].c = c
  BY GoMoves DEF IInv
<1> QED BY <1>1, <1>2, Quiet DEF Moves

(* CONNECT.                                                                  *)
LEMMA ConnectStep ==
    ASSUME IInv, NEW w \in Workers, NEW c \in Clients, Connect(w, c)
    PROVE  IInv'
<1>1. /\ Owner[c] = w /\ st[c] = "init" /\ job[w] = Idle
      /\ UNCHANGED <<trie, acc, active, lists, mail, shut, got, spent>>
  BY IdleIs DEF Connect, IInv, OwnInv, At
<1>2. View(c) = Idle /\ ClientOk(c, Idle, st[c], ent[c], sub_count[c], Held(c))
  BY <1>1, Rests
<1>3. ~Gap(Idle) /\ ~Enters(Idle) /\ ~Tears(Idle)
  BY IdleIs DEF Gap, Enters, Tears
<1>4. CASE /\ acc.active /\ ep' = [ep EXCEPT ![c] = acc.epoch]
           /\ Start(w, Job("conn_credit", c)) /\ UNCHANGED st
  <2> DEFINE j == Job("conn_credit", c)
  <2>1. j \in Jobs /\ j.c = c /\ j.pc = "conn_credit"
    BY JobIs DEF Pcs
  <2>2. Moves(w, j)
    BY <1>4, <2>1, PutMoves DEF Start, IInv
  <2>3. ClientOk(c, j, "init", ent[c], sub_count[c], Held(c))
    <3> HIDE DEF j
    <3>1. ~Gap(j) /\ ~Enters(j) /\ ~Tears(j) /\ ~Before(j)
      BY <2>1 DEF Gap, Enters, Tears, Before
    <3>2. StateOk(j, "init")
      BY <2>1 DEF StateOk, SubPcs
    <3>3. LocalsOk(c, j, ent[c])
      BY <2>1, <3>1 DEF LocalsOk, SubPcs
    <3>4. ListOk(c, j, "init", ent[c], sub_count[c], Held(c))
      BY <1>1, <1>2, <1>3, <3>1 DEF ClientOk, ListOk
    <3> QED BY <3>2, <3>3, <3>4 DEF ClientOk
  <2>4. OwnInv' /\ TrieInv' /\ ClientsInv'
    BY <1>1, <1>4, <2>1, <2>2, <2>3, Quiet
  <2>5. TypeInv' /\ MailInv'
    BY <1>1, <1>4, <2>2 DEF IInv, TypeInv, AccOk, MailInv, lists, Moves, BoxOk, Limit
  <2> QED BY <2>4, <2>5 DEF IInv
<1>5. CASE ~acc.active /\ Closing(w, c) /\ UNCHANGED ep
  <2>1. /\ OwnInv' /\ TrieInv' /\ ClientsInv'
        /\ st' \in [Clients -> States] /\ job' \in [Workers -> Jobs]
    BY <1>1, <1>2, <1>3, <1>5, ClosingStep
  <2>2. TypeInv' /\ MailInv'
    BY <1>1, <1>5, <2>1 DEF IInv, TypeInv, AccOk, MailInv, lists, BoxOk, Limit
  <2> QED BY <2>1, <2>2 DEF IInv
<1> QED BY <1>4, <1>5 DEF Connect

(* What a client keeps when its handler goes on to a place that asks nothing *)
(* of the list.                                                              *)
LEMMA Calm ==
    ASSUME NEW c \in Clients, NEW v, NEW s, NEW E, NEW n, NEW R,
           ClientOk(c, v, s, E, n, R), ~Gap(v), ~(Enters(v) /\ v.old = NoRef), ~Tears(v),
           NEW u, u.pc \in {"conn_credit", "conn_live", "welcome", "snap", "go", "fan",
                            "send", "letter", "finish", "teardown"},
           u.pc = "send" => u.ref \in Ref /\ Owner[u.ref.c] = Owner[c],
           u.pc = "letter" => u.ref \in Ref,
           NEW z, StateOk(u, z), z = s \/ z \in {"connected", "closing"}
    PROVE  ClientOk(c, u, z, E, n, R)
<1>1. ~Gap(u) /\ ~Enters(u) /\ ~Tears(u) /\ ~Before(u)
  BY DEF Gap, Enters, Tears, Before
<1>2. LocalsOk(c, u, E)
  BY <1>1 DEF LocalsOk, SubPcs
<1>3. ListOk(c, u, z, E, n, R)
  BY <1>1 DEF ClientOk, ListOk
<1> QED BY <1>2, <1>3 DEF ClientOk

(* Places with a complete list.                                              *)
LEMMA Whole ==
    ASSUME NEW v, v.pc \notin {"insert", "restore", "ghost", "nudge", "confirm", "tear"}
    PROVE  ~Gap(v) /\ ~Enters(v) /\ ~Tears(v)
  BY DEF Gap, Enters, Tears

(* CONNECT takes its connection credit with the account.                     *)
LEMMA ConnectCreditStep ==
    ASSUME IInv, NEW w \in Workers, ConnectCredit(w)
    PROVE  IInv'
<1> DEFINE c == job[w].c
<1>1. /\ job[w].pc = "conn_credit"
      /\ UNCHANGED <<trie, acc, active, lists, mail, shut, got, spent>>
  BY DEF ConnectCredit, At
<1>2. /\ c \in Clients /\ Owner[c] = w /\ View(c) = job[w]
      /\ ClientOk(c, job[w], st[c], ent[c], sub_count[c], Held(c))
  BY <1>1, Actor
<1>3. ~Gap(job[w]) /\ ~Enters(job[w]) /\ ~Tears(job[w])
  BY <1>1, Whole
<1>4. CASE Go(w, "conn_live") /\ UNCHANGED <<st, ep>>
  <2>1. st[c] = "init"
    BY <1>1, <1>2 DEF ClientOk, StateOk
  <2>2. ClientOk(c, job'[w], st'[c], ent[c], sub_count[c], Held(c))
    <3>1. job'[w].pc = "conn_live"
      BY <1>4, GoMoves DEF IInv, Pcs
    <3>2. StateOk(job'[w], "init")
      BY <3>1 DEF StateOk, SubPcs
    <3> QED BY <1>2, <1>3, <1>4, <2>1, <3>1, <3>2, Calm
  <2>3. OwnInv' /\ TrieInv' /\ ClientsInv' /\ job' \in [Workers -> Jobs]
    <3>1. "conn_live" \in Pcs
      BY DEF Pcs
    <3>2. \A d \in Clients \ {c} : st'[d] = st[d]
      BY <1>4, <2>1
    <3>3. UNCHANGED <<trie, lists>>
      BY <1>1
    <3>4. Go(w, "conn_live") /\ job[w].pc # "idle"
      BY <1>1, <1>4
    <3> QED BY <2>2, <3>1, <3>2, <3>3, <3>4, GoStep
  <2>4. TypeInv' /\ MailInv'
    BY <1>1, <1>4, <2>3 DEF IInv, TypeInv, MailInv, lists, BoxOk, Limit
  <2> QED BY <2>3, <2>4 DEF IInv
<1>5. CASE ep' = [ep EXCEPT ![c] = 0] /\ Closing(w, c)
  <2>1. /\ OwnInv' /\ TrieInv' /\ ClientsInv'
        /\ st' \in [Clients -> States] /\ job' \in [Workers -> Jobs]
    BY <1>1, <1>2, <1>3, <1>5, ClosingStep
  <2>2. TypeInv' /\ MailInv'
    BY <1>1, <1>2, <1>5, <2>1 DEF IInv, TypeInv, AccOk, MailInv, lists, BoxOk, Limit
  <2> QED BY <2>1, <2>2 DEF IInv
<1> QED BY <1>4, <1>5 DEF ConnectCredit

(* CONNECT checks the epoch again and is connected.                          *)
LEMMA ConnectLiveStep ==
    ASSUME IInv, NEW w \in Workers, ConnectLive(w)
    PROVE  IInv'
<1> DEFINE c == job[w].c
<1>1. /\ job[w].pc = "conn_live"
      /\ UNCHANGED <<trie, acc, active, lists, mail, shut, got, spent>>
  BY DEF ConnectLive, At
<1>2. /\ c \in Clients /\ Owner[c] = w /\ View(c) = job[w]
      /\ ClientOk(c, job[w], st[c], ent[c], sub_count[c], Held(c))
  BY <1>1, Actor
<1>3. ~Gap(job[w]) /\ ~Enters(job[w]) /\ ~Tears(job[w])
  BY <1>1, Whole
<1>4. CASE /\ st' = [st EXCEPT ![c] = "connected"]
           /\ Go(w, "welcome") /\ UNCHANGED ep
  <2>1. /\ st'[c] = "connected" /\ st' \in [Clients -> States]
        /\ \A d \in Clients \ {c} : st'[d] = st[d]
    BY <1>2, <1>4 DEF IInv, TypeInv, States
  <2>2. ClientOk(c, job'[w], st'[c], ent[c], sub_count[c], Held(c))
    <3>1. job'[w].pc = "welcome"
      BY <1>4, GoMoves DEF IInv, Pcs
    <3>2. StateOk(job'[w], "connected")
      BY <3>1 DEF StateOk, SubPcs
    <3> QED BY <1>2, <1>3, <2>1, <3>1, <3>2, Calm
  <2>3. OwnInv' /\ TrieInv' /\ ClientsInv' /\ job' \in [Workers -> Jobs]
    <3>1. "welcome" \in Pcs
      BY DEF Pcs
    <3>2. \A d \in Clients \ {c} : st'[d] = st[d]
      BY <1>4, <2>1
    <3>3. UNCHANGED <<trie, lists>>
      BY <1>1
    <3>4. Go(w, "welcome") /\ job[w].pc # "idle"
      BY <1>1, <1>4
    <3> QED BY <2>2, <3>1, <3>2, <3>3, <3>4, GoStep
  <2>4. TypeInv' /\ MailInv'
    BY <1>1, <1>2, <1>4, <2>1, <2>3 DEF IInv, TypeInv, AccOk, MailInv, lists, BoxOk, Limit
  <2> QED BY <2>3, <2>4 DEF IInv
<1>5. CASE ep' = [ep EXCEPT ![c] = 0] /\ Closing(w, c)
  <2>1. /\ OwnInv' /\ TrieInv' /\ ClientsInv'
        /\ st' \in [Clients -> States] /\ job' \in [Workers -> Jobs]
    BY <1>1, <1>2, <1>3, <1>5, ClosingStep
  <2>2. TypeInv' /\ MailInv'
    BY <1>1, <1>2, <1>5, <2>1 DEF IInv, TypeInv, MailInv, lists, BoxOk, Limit
  <2> QED BY <2>1, <2>2 DEF IInv
<1> QED BY <1>4, <1>5 DEF ConnectLive

(* The last check of CONNECT before its answer.                              *)
LEMMA WelcomeStep ==
    ASSUME IInv, NEW w \in Workers, Welcome(w)
    PROVE  IInv'
<1> DEFINE c == job[w].c
<1>1. /\ job[w].pc = "welcome"
      /\ UNCHANGED <<trie, acc, ep, active, lists, mail, got, spent>>
  BY DEF Welcome, At
<1>2. /\ c \in Clients /\ Owner[c] = w /\ View(c) = job[w]
  BY <1>1, Actor
<1>3. ~Gap(job[w]) /\ ~Enters(job[w]) /\ ~Tears(job[w])
  BY <1>1, Whole
<1>4. CASE Done(w) /\ UNCHANGED <<st, shut>>
  <2>1. OwnInv' /\ TrieInv' /\ ClientsInv' /\ job' \in [Workers -> Jobs]
    BY <1>1, <1>3, <1>4, DoneStep
  <2>2. TypeInv' /\ MailInv'
    BY <1>1, <1>4, <2>1 DEF IInv, TypeInv, AccOk, MailInv, lists, BoxOk, Limit
  <2> QED BY <2>1, <2>2 DEF IInv
<1>5. CASE Closing(w, c) /\ shut' = shut \cup {c}
  <2>1. /\ OwnInv' /\ TrieInv' /\ ClientsInv'
        /\ st' \in [Clients -> States] /\ job' \in [Workers -> Jobs]
    BY <1>1, <1>2, <1>3, <1>5, ClosingStep
  <2>2. TypeInv' /\ MailInv'
    BY <1>1, <1>2, <1>5, <2>1 DEF IInv, TypeInv, AccOk, MailInv, lists, BoxOk, Limit
  <2> QED BY <2>1, <2>2 DEF IInv
<1> QED BY <1>4, <1>5 DEF Welcome

(* A client at rest that is closed: Denied and Disconnect.                   *)
LEMMA RestClosing ==
    ASSUME IInv, NEW w \in Workers, NEW c \in Clients, Owner[c] = w, job[w] = Idle,
           Closing(w, c),
           UNCHANGED <<trie, acc, ep, active, lists, mail, shut, got, spent>>
    PROVE  IInv'
<1>1. View(c) = Idle
  BY Rests
<1>2. ~Gap(Idle) /\ ~Enters(Idle) /\ ~Tears(Idle)
  BY IdleIs, Whole
<1>3. /\ OwnInv' /\ TrieInv' /\ ClientsInv'
      /\ st' \in [Clients -> States] /\ job' \in [Workers -> Jobs]
  BY <1>1, <1>2, ClosingStep
<1>4. TypeInv' /\ MailInv'
  BY <1>3 DEF IInv, TypeInv, AccOk, MailInv, lists, BoxOk, Limit
<1> QED BY <1>3, <1>4 DEF IInv

(* A frame of a dead session closes it.                                      *)
LEMMA DeniedStep ==
    ASSUME IInv, NEW w \in Workers, NEW c \in Clients, Denied(w, c) \/ Disconnect(w, c)
    PROVE  IInv'
  BY RestClosing DEF Denied, Disconnect, Mine

-----------------------------------------------------------------------------
(* SUBSCRIBE, where it leaves the trie and the list alone.                   *)

(* The fields of a reference.                                                *)
LEMMA RefIs ==
    ASSUME NEW r \in Ref
    PROVE  r.c \in Clients /\ r.pat \in Seq(STRING)
  BY SubscriptionsAssumption DEF Ref

(* More ways a handler moves on.                                             *)
LEMMA RefsMoves ==
    ASSUME TypeInv, NEW w \in Workers, NEW p \in Pcs, NEW X \in SUBSET Ref,
           job' = [job EXCEPT ![w].refs = X, ![w].pc = p]
    PROVE  /\ Moves(w, job'[w]) /\ job'[w].pc = p /\ job'[w].refs = X
           /\ job'[w].c = job[w].c /\ job'[w].ref = job[w].ref /\ job'[w].old = job[w].old
           /\ job'[w].next = job[w].next /\ job'[w].n = job[w].n /\ job'[w].t = job[w].t
           /\ job'[w].ep = job[w].ep
  BY DEF TypeInv, Moves, Jobs

(* A worker's reference set changes, the rest of its job stays.              *)
LEMMA DropMoves ==
    ASSUME TypeInv, NEW w \in Workers, NEW X \in SUBSET Ref,
           job' = [job EXCEPT ![w].refs = X]
    PROVE  /\ Moves(w, job'[w]) /\ job'[w].pc = job[w].pc /\ job'[w].refs = X
           /\ job'[w].c = job[w].c /\ job'[w].ref = job[w].ref /\ job'[w].old = job[w].old
           /\ job'[w].next = job[w].next /\ job'[w].n = job[w].n /\ job'[w].t = job[w].t
           /\ job'[w].ep = job[w].ep
  BY DEF TypeInv, Moves, Jobs

(* A worker's place and continuation change, the rest of its job stays.      *)
LEMMA NextMoves ==
    ASSUME TypeInv, NEW w \in Workers, NEW p \in Pcs,
           NEW q \in {"idle", "confirm", "ghost"},
           job' = [job EXCEPT ![w].pc = p, ![w].next = q]
    PROVE  /\ Moves(w, job'[w]) /\ job'[w].pc = p /\ job'[w].next = q
           /\ job'[w].c = job[w].c /\ job'[w].ref = job[w].ref /\ job'[w].old = job[w].old
           /\ job'[w].refs = job[w].refs /\ job'[w].n = job[w].n /\ job'[w].t = job[w].t
           /\ job'[w].ep = job[w].ep
  BY DEF TypeInv, Moves, Jobs

(* A SUBSCRIBE refused by a live holder of its inbox goes on to the dead     *)
(* ones.                                                                     *)
LEMMA RefuseMoves ==
    ASSUME TypeInv, NEW w \in Workers, NEW X \in SUBSET Ref,
           job' = [job EXCEPT ![w].refs = X, ![w].next = "idle", ![w].pc = "nudge"]
    PROVE  /\ Moves(w, job'[w]) /\ job'[w].pc = "nudge" /\ job'[w].next = "idle"
           /\ job'[w].c = job[w].c /\ job'[w].ref = job[w].ref /\ job'[w].old = job[w].old
           /\ job'[w].refs = X /\ job'[w].n = job[w].n /\ job'[w].t = job[w].t
           /\ job'[w].ep = job[w].ep
<1>1. "nudge" \in Pcs
  BY DEF Pcs, SubPcs
<1> QED BY <1>1 DEF TypeInv, Moves, Jobs

(* The list is complete before and after.                                    *)
LEMMA SameList ==
    ASSUME NEW c, NEW v, NEW s, NEW E, NEW n, NEW R, ListOk(c, v, s, E, n, R),
           ~Gap(v), ~(Enters(v) /\ v.old = NoRef), ~Tears(v),
           NEW u, ~Gap(u), ~(Enters(u) /\ u.old = NoRef), ~Tears(u)
    PROVE  ListOk(c, u, s, E, n, R)
  BY DEF ListOk

(* SUBSCRIBE is read.                                                        *)
LEMMA SubscribeStep ==
    ASSUME IInv, NEW w \in Workers, NEW c \in Clients, NEW sid \in Sids,
           NEW i \in Interests, Subscribe(w, c, sid, i)
    PROVE  IInv'
<1> DEFINE ref == [c |-> c, sid |-> sid, pat |-> i.pat, grp |-> i.grp]
           old == IF SidOf(c, sid) = {} THEN NoRef ELSE CHOOSE r \in SidOf(c, sid) : TRUE
           p   == IF i.pat \in Inboxes THEN "claim" ELSE AfterClaim(old)
           j   == [Job(p, c) EXCEPT !.ref = ref, !.old = old]
<1>1. /\ Owner[c] = w /\ st[c] = "connected" /\ job[w] = Idle /\ Start(w, j) /\ Spend("sub")
      /\ UNCHANGED <<trie, acc, sessions, lists, mail, shut, got>>
  BY DEF Subscribe, Mine
<1>2. ref \in Ref /\ ref.c = c /\ ref.sid = sid
  BY DEF Ref
<1>3. IF old = NoRef THEN \A r \in ent[c] : r.sid # sid
                     ELSE old \in ent[c] /\ old.sid = sid /\ old \in Ref
  <2>1. CASE SidOf(c, sid) = {}
    BY <2>1 DEF SidOf
  <2>2. CASE SidOf(c, sid) # {}
    <3>1. old \in SidOf(c, sid)
      BY <2>2
    <3>2. old \in ent[c] /\ old.sid = sid
      BY <3>1 DEF SidOf
    <3>3. old \in Ref
      BY <3>2 DEF IInv, TypeInv
    <3> QED BY <3>2, <3>3, IdleIs
  <2> QED BY <2>1, <2>2
<1>4. /\ p \in {"claim", "credit", "unlink"}
      /\ p = "credit" => old = NoRef
      /\ p = "unlink" => old # NoRef
  BY DEF AfterClaim
<1>5. old \in Ref \cup {NoRef}
  BY <1>3
<1> HIDE DEF ref, old, p
<1>6. /\ j \in Jobs /\ j.pc = p /\ j.c = c /\ j.ref = ref /\ j.old = old
  <2>1. p \in Pcs
    BY <1>4 DEF Pcs, SubPcs
  <2>2. Job(p, c) \in Jobs /\ Job(p, c).pc = p /\ Job(p, c).c = c
    BY <2>1, JobIs
  <2> QED BY <1>2, <1>5, <2>2 DEF Jobs
<1>7. Moves(w, j)
  BY <1>1, <1>6, PutMoves DEF Start, IInv
<1> HIDE DEF j
<1>8. ClientOk(c, Idle, st[c], ent[c], sub_count[c], Held(c))
  BY <1>1, Rests
<1>9. ~Gap(Idle) /\ ~Enters(Idle) /\ ~Tears(Idle)
  BY IdleIs, Whole
<1>10. ~Gap(j) /\ ~Enters(j) /\ ~Tears(j)
  BY <1>4, <1>6 DEF Gap, Enters, Tears
<1>11. ListOk(c, j, st[c], ent[c], sub_count[c], Held(c))
  BY <1>8, <1>9, <1>10, SameList DEF ClientOk
<1>12. \A r \in ent[c] : r.c = c
  BY <1>8 DEF ClientOk, ListOk
<1>13. LocalsOk(c, j, ent[c])
  BY <1>2, <1>3, <1>4, <1>6, <1>10, <1>12 DEF LocalsOk, SubPcs, Before
<1>14. StateOk(j, st[c])
  BY <1>1, <1>4, <1>6 DEF StateOk, SubPcs
<1>15. st' = st
  BY <1>1 DEF sessions
<1>16. OwnInv' /\ TrieInv' /\ ClientsInv'
  <2>1. ClientOk(c, j, st'[c], ent[c], sub_count[c], Held(c))
    BY <1>11, <1>13, <1>14, <1>15 DEF ClientOk
  <2>2. j.c = c /\ j.pc # "idle"
    BY <1>4, <1>6
  <2> QED BY <1>1, <1>7, <1>15, <2>1, <2>2, Quiet
<1>17. spent' \in [DOMAIN Limit -> Nat]
  BY <1>1, SpendType, LimitIs DEF IInv
<1>18. TypeInv' /\ MailInv'
  BY <1>1, <1>7, <1>17 DEF IInv, TypeInv, AccOk, MailInv, lists, sessions, BoxOk, Moves, Limit
<1> QED BY <1>16, <1>18 DEF IInv

(* SUBSCRIBE looks for other holders of its inbox.                           *)
LEMMA SubClaimStep ==
    ASSUME IInv, NEW w \in Workers, SubClaim(w)
    PROVE  IInv'
<1> DEFINE c       == job[w].c
           holders == {r \in Match(trie, job[w].ref.pat) :
                           r.pat = job[w].ref.pat /\ r.c # job[w].c}
           dead    == {r \in holders : ~Live(r.c)}
<1>1. /\ job[w].pc = "claim"
      /\ UNCHANGED <<trie, acc, sessions, lists, mail, shut, got, spent>>
  BY DEF SubClaim, At
<1>2. /\ c \in Clients /\ Owner[c] = w /\ View(c) = job[w] /\ job[w] \in Jobs
      /\ ClientOk(c, job[w], st[c], ent[c], sub_count[c], Held(c))
  BY <1>1, Actor
<1>3. ~Gap(job[w]) /\ ~Enters(job[w]) /\ ~Tears(job[w]) /\ Before(job[w])
  BY <1>1, Whole DEF Before
<1>4. /\ st[c] = "connected" /\ job[w].ref \in Ref /\ job[w].ref.c = c
      /\ job[w].old = NoRef \/ (job[w].old.c = c /\ job[w].old.sid = job[w].ref.sid)
      /\ IF job[w].old = NoRef THEN \A r \in ent[c] : r.sid # job[w].ref.sid
                               ELSE job[w].old \in ent[c]
  BY <1>1, <1>2, <1>3 DEF ClientOk, StateOk, LocalsOk, SubPcs
<1>5. dead \subseteq Ref
  <2>1. job[w].ref.pat \in Seq(STRING)
    BY <1>4, RefIs
  <2>2. Match(trie, job[w].ref.pat) \subseteq Registered(trie)
    BY <2>1, MatchExact DEF IInv, TrieInv
  <2> QED BY <2>2 DEF IInv, TrieInv
<1>6. st' = st
  BY <1>1 DEF sessions
<1> HIDE DEF holders, dead
<1>7. /\ Moves(w, job'[w]) /\ job'[w].c = c /\ job'[w].ref = job[w].ref
      /\ job'[w].old = job[w].old
      /\ \/ job'[w].pc = "credit" /\ job[w].old = NoRef
         \/ job'[w].pc = "unlink" /\ job[w].old # NoRef
         \/ job'[w].pc = "nudge" /\ job'[w].next = "idle"
  <2>1. CASE job' = [job EXCEPT ![w].refs = dead, ![w].pc = AfterClaim(job[w].old)]
    <3>1. AfterClaim(job[w].old) \in Pcs
      BY DEF AfterClaim, Pcs, SubPcs
    <3> QED BY <1>5, <2>1, <3>1, RefsMoves DEF IInv, AfterClaim
  <2>2. CASE \E D \in SUBSET dead :
               job' = [job EXCEPT ![w].refs = D, ![w].next = "idle", ![w].pc = "nudge"]
    <3>1. PICK D \in SUBSET Ref :
               job' = [job EXCEPT ![w].refs = D, ![w].next = "idle", ![w].pc = "nudge"]
      BY <1>5, <2>2
    <3> QED BY <3>1, RefuseMoves DEF IInv
  <2> QED BY <2>1, <2>2 DEF SubClaim, dead, holders
<1>8. ClientOk(c, job'[w], st'[c], ent[c], sub_count[c], Held(c))
  <2>1. /\ ~Gap(job'[w]) /\ ~Enters(job'[w]) /\ ~Tears(job'[w])
    BY <1>7 DEF Gap, Enters, Tears
  <2>2. ListOk(c, job'[w], st[c], ent[c], sub_count[c], Held(c))
    BY <1>2, <1>3, <2>1, SameList DEF ClientOk
  <2>3. LocalsOk(c, job'[w], ent[c])
    BY <1>4, <1>7, <2>1 DEF LocalsOk, SubPcs, Before
  <2>4. StateOk(job'[w], st[c])
    BY <1>4, <1>7 DEF StateOk, SubPcs
  <2> QED BY <1>6, <2>2, <2>3, <2>4 DEF ClientOk
<1>9. OwnInv' /\ TrieInv' /\ ClientsInv'
  BY <1>1, <1>2, <1>6, <1>7, <1>8, Quiet
<1>10. TypeInv' /\ MailInv'
  BY <1>1, <1>7 DEF IInv, TypeInv, AccOk, MailInv, lists, sessions, BoxOk, Moves, Limit
<1> QED BY <1>9, <1>10 DEF IInv

(* SUBSCRIBE takes a credit with the account.                                *)
LEMMA SubCreditStep ==
    ASSUME IInv, NEW w \in Workers, SubCredit(w)
    PROVE  IInv'
<1> DEFINE c == job[w].c
<1>1. /\ job[w].pc = "credit"
      /\ UNCHANGED <<trie, acc, ep, active, lists, mail, shut, got, spent>>
  BY DEF SubCredit, At
<1>2. /\ c \in Clients /\ Owner[c] = w /\ View(c) = job[w]
      /\ ClientOk(c, job[w], st[c], ent[c], sub_count[c], Held(c))
  BY <1>1, Actor
<1>3. ~Gap(job[w]) /\ ~Enters(job[w]) /\ ~Tears(job[w]) /\ Before(job[w])
  BY <1>1, Whole DEF Before
<1>4. CASE Go(w, "recheck") /\ UNCHANGED st
  <2>1. /\ Go(w, "recheck") /\ "recheck" \in Pcs /\ job[w].pc # "idle"
        /\ UNCHANGED <<trie, lists>> /\ \A d \in Clients \ {c} : st'[d] = st[d]
    BY <1>1, <1>4 DEF Pcs, SubPcs
  <2>2. /\ job'[w].pc = "recheck" /\ job'[w].ref = job[w].ref /\ job'[w].old = job[w].old
    BY <2>1, GoMoves DEF IInv
  <2>3. ClientOk(c, job'[w], st'[c], ent[c], sub_count[c], Held(c))
    <3>1. /\ ~Gap(job'[w]) /\ ~Enters(job'[w]) /\ ~Tears(job'[w])
          /\ Before(job'[w])
      BY <2>2 DEF Gap, Enters, Tears, Before
    <3>2. ListOk(c, job'[w], st[c], ent[c], sub_count[c], Held(c))
      BY <1>2, <1>3, <3>1, SameList DEF ClientOk
    <3>3. LocalsOk(c, job'[w], ent[c])
      BY <1>1, <1>2, <1>3, <2>2, <3>1 DEF ClientOk, LocalsOk, SubPcs
    <3>4. StateOk(job'[w], st[c])
      BY <1>1, <1>2, <2>2 DEF ClientOk, StateOk, SubPcs
    <3> QED BY <1>4, <3>2, <3>3, <3>4 DEF ClientOk
  <2>4. OwnInv' /\ TrieInv' /\ ClientsInv' /\ job' \in [Workers -> Jobs]
    BY <2>1, <2>3, GoStep
  <2>5. TypeInv' /\ MailInv'
    BY <1>1, <1>4, <2>4 DEF IInv, TypeInv, MailInv, lists, BoxOk, Limit
  <2> QED BY <2>4, <2>5 DEF IInv
<1>5. CASE Done(w) /\ UNCHANGED st
  <2>1. OwnInv' /\ TrieInv' /\ ClientsInv' /\ job' \in [Workers -> Jobs]
    BY <1>1, <1>3, <1>5, DoneStep
  <2>2. TypeInv' /\ MailInv'
    BY <1>1, <1>5, <2>1 DEF IInv, TypeInv, AccOk, MailInv, lists, BoxOk, Limit
  <2> QED BY <2>1, <2>2 DEF IInv
<1>6. CASE Closing(w, c)
  <2>1. /\ OwnInv' /\ TrieInv' /\ ClientsInv'
        /\ st' \in [Clients -> States] /\ job' \in [Workers -> Jobs]
    BY <1>1, <1>2, <1>3, <1>6, ClosingStep
  <2>2. TypeInv' /\ MailInv'
    BY <1>1, <1>6, <2>1 DEF IInv, TypeInv, AccOk, MailInv, lists, BoxOk, Limit
  <2> QED BY <2>1, <2>2 DEF IInv
<1> QED BY <1>4, <1>5, <1>6 DEF SubCredit

(* SUBSCRIBE checks the epoch again.                                         *)
LEMMA SubRecheckStep ==
    ASSUME IInv, NEW w \in Workers, SubRecheck(w)
    PROVE  IInv'
<1> DEFINE c == job[w].c
<1>1. /\ job[w].pc = "recheck"
      /\ UNCHANGED <<trie, acc, ep, active, lists, mail, shut, got, spent>>
  BY DEF SubRecheck, At
<1>2. /\ c \in Clients /\ Owner[c] = w /\ View(c) = job[w]
      /\ ClientOk(c, job[w], st[c], ent[c], sub_count[c], Held(c))
  BY <1>1, Actor
<1>3. ~Gap(job[w]) /\ ~Enters(job[w]) /\ ~Tears(job[w]) /\ Before(job[w])
  BY <1>1, Whole DEF Before
<1>4. CASE Go(w, "insert") /\ UNCHANGED st
  <2>1. /\ Go(w, "insert") /\ "insert" \in Pcs /\ job[w].pc # "idle"
        /\ UNCHANGED <<trie, lists>> /\ \A d \in Clients \ {c} : st'[d] = st[d]
    BY <1>1, <1>4 DEF Pcs, SubPcs
  <2>2. /\ job'[w].pc = "insert" /\ job'[w].ref = job[w].ref /\ job'[w].old = job[w].old
    BY <2>1, GoMoves DEF IInv
  <2>3. ClientOk(c, job'[w], st'[c], ent[c], sub_count[c], Held(c))
    <3>0. job[w].old = NoRef
      BY <1>1, <1>2 DEF ClientOk, LocalsOk
    <3>1. /\ ~Gap(job'[w]) /\ ~Enters(job'[w]) /\ ~Tears(job'[w])
          /\ Before(job'[w])
      BY <2>2, <3>0 DEF Gap, Enters, Tears, Before
    <3>2. ListOk(c, job'[w], st[c], ent[c], sub_count[c], Held(c))
      BY <1>2, <1>3, <3>1, SameList DEF ClientOk
    <3>3. LocalsOk(c, job'[w], ent[c])
      BY <1>1, <1>2, <1>3, <2>2, <3>1 DEF ClientOk, LocalsOk, SubPcs
    <3>4. StateOk(job'[w], st[c])
      BY <1>1, <1>2, <2>2 DEF ClientOk, StateOk, SubPcs
    <3> QED BY <1>4, <3>2, <3>3, <3>4 DEF ClientOk
  <2>4. OwnInv' /\ TrieInv' /\ ClientsInv' /\ job' \in [Workers -> Jobs]
    BY <2>1, <2>3, GoStep
  <2>5. TypeInv' /\ MailInv'
    BY <1>1, <1>4, <2>4 DEF IInv, TypeInv, AccOk, MailInv, lists, BoxOk, Limit
  <2> QED BY <2>4, <2>5 DEF IInv
<1>5. CASE Closing(w, c)
  <2>1. /\ OwnInv' /\ TrieInv' /\ ClientsInv'
        /\ st' \in [Clients -> States] /\ job' \in [Workers -> Jobs]
    BY <1>1, <1>2, <1>3, <1>5, ClosingStep
  <2>2. TypeInv' /\ MailInv'
    BY <1>1, <2>1 DEF IInv, TypeInv, MailInv, lists, BoxOk, Limit
  <2> QED BY <2>1, <2>2 DEF IInv
<1> QED BY <1>4, <1>5 DEF SubRecheck

(* SUBSCRIBE has a dead holder of its inbox torn down.                       *)
LEMMA SubNudgeStep ==
    ASSUME IInv, NEW w \in Workers, SubNudge(w)
    PROVE  IInv'
<1> DEFINE c == job[w].c
<1>1. /\ job[w].pc = "nudge"
      /\ UNCHANGED <<trie, acc, sessions, lists, got>>
  BY DEF SubNudge, At
<1>2. /\ c \in Clients /\ Owner[c] = w /\ View(c) = job[w] /\ job[w] \in Jobs
      /\ ClientOk(c, job[w], st[c], ent[c], sub_count[c], Held(c))
  BY <1>1, Actor
<1>3. st' = st /\ st[c] = "connected"
  BY <1>1, <1>2 DEF sessions, ClientOk, StateOk, SubPcs
<1>4. CASE job[w].next = "idle" /\ Done(w) /\ UNCHANGED <<mail, shut, spent>>
  <2>1. ~Gap(job[w]) /\ ~Enters(job[w]) /\ ~Tears(job[w])
    BY <1>1, <1>4 DEF Gap, Enters, Tears
  <2>2. OwnInv' /\ TrieInv' /\ ClientsInv' /\ job' \in [Workers -> Jobs]
    BY <1>1, <1>3, <1>4, <2>1, DoneStep
  <2>3. TypeInv' /\ MailInv'
    BY <1>1, <1>4, <2>2 DEF IInv, TypeInv, AccOk, MailInv, lists, sessions, BoxOk, Limit
  <2> QED BY <2>2, <2>3 DEF IInv
<1>5. CASE job[w].next # "idle" /\ Go(w, job[w].next) /\ UNCHANGED <<mail, shut, spent>>
  <2>1. /\ job[w].next \in {"confirm", "ghost"} /\ job[w].next \in Pcs
        /\ UNCHANGED <<trie, lists>> /\ \A d \in Clients \ {c} : st'[d] = st[d]
    BY <1>1, <1>2, <1>3, <1>5 DEF Pcs, SubPcs, Jobs
  <2>2. /\ job'[w].pc = job[w].next /\ job'[w].ref = job[w].ref
        /\ job'[w].old = job[w].old
    BY <1>5, <2>1, GoMoves DEF IInv
  <2>3. ClientOk(c, job'[w], st'[c], ent[c], sub_count[c], Held(c))
    <3>1. /\ Gap(job'[w]) <=> Gap(job[w])
          /\ Enters(job'[w]) <=> Enters(job[w])
          /\ ~Tears(job'[w]) /\ ~Tears(job[w]) /\ ~Before(job'[w]) /\ ~Before(job[w])
      BY <1>1, <2>1, <2>2 DEF Gap, Enters, Tears, Before
    <3>2. ListOk(c, job'[w], st[c], ent[c], sub_count[c], Held(c))
      BY <1>2, <2>2, <3>1 DEF ClientOk, ListOk
    <3>3. LocalsOk(c, job'[w], ent[c])
      BY <1>1, <1>2, <2>1, <2>2, <3>1 DEF ClientOk, LocalsOk, SubPcs
    <3>4. StateOk(job'[w], st[c])
      BY <1>3, <2>1, <2>2 DEF StateOk, SubPcs
    <3> QED BY <1>3, <3>2, <3>3, <3>4 DEF ClientOk
  <2>4. OwnInv' /\ TrieInv' /\ ClientsInv' /\ job' \in [Workers -> Jobs]
    BY <1>1, <1>5, <2>1, <2>3, GoStep
  <2>5. TypeInv' /\ MailInv'
    BY <1>1, <1>5, <2>4 DEF IInv, TypeInv, AccOk, MailInv, lists, sessions, BoxOk, Limit
  <2> QED BY <2>4, <2>5 DEF IInv
<1>6. ASSUME NEW r \in job[w].refs, TeardownOrShutdown(r.c, mail),
             job' = [job EXCEPT ![w].refs = @ \ {r}]
      PROVE  IInv'
  <2>1. r \in Ref /\ r.c \in Clients /\ job[w].refs \ {r} \in SUBSET Ref
    BY <1>2, RefIs DEF Jobs
  <2>2. BoxOk(mail') /\ shut' \subseteq Clients /\ spent' \in [DOMAIN Limit -> Nat]
    BY <1>6, <2>1, TeardownBox DEF IInv, MailInv
  <2>3. /\ Moves(w, job'[w]) /\ job'[w].pc = "nudge" /\ job'[w].c = c
        /\ job'[w].ref = job[w].ref /\ job'[w].old = job[w].old
        /\ job'[w].next = job[w].next
    BY <1>1, <1>6, <2>1, DropMoves DEF IInv
  <2>4. ClientOk(c, job'[w], st'[c], ent[c], sub_count[c], Held(c))
    <3>1. /\ Gap(job'[w]) <=> Gap(job[w])
          /\ Enters(job'[w]) <=> Enters(job[w])
          /\ ~Tears(job'[w]) /\ ~Tears(job[w]) /\ ~Before(job'[w]) /\ ~Before(job[w])
      BY <1>1, <2>3 DEF Gap, Enters, Tears, Before
    <3>2. ListOk(c, job'[w], st[c], ent[c], sub_count[c], Held(c))
      BY <1>2, <2>3, <3>1 DEF ClientOk, ListOk
    <3>3. LocalsOk(c, job'[w], ent[c])
      BY <1>1, <1>2, <2>3, <3>1 DEF ClientOk, LocalsOk, SubPcs
    <3>4. StateOk(job'[w], st[c])
      BY <1>3, <2>3 DEF StateOk, SubPcs
    <3> QED BY <1>3, <3>2, <3>3, <3>4 DEF ClientOk
  <2>5. OwnInv' /\ TrieInv' /\ ClientsInv'
    BY <1>1, <1>2, <1>3, <2>3, <2>4, Quiet
  <2>6. TypeInv' /\ MailInv'
    BY <1>1, <2>2, <2>3 DEF IInv, TypeInv, AccOk, MailInv, lists, sessions, Moves
  <2> QED BY <2>5, <2>6 DEF IInv
<1> QED BY <1>4, <1>5, <1>6 DEF SubNudge

-----------------------------------------------------------------------------
(* PUBLISH.                                                                  *)

(* A handler whose step may also close another client of the worker.         *)
LEMMA QuietTwo ==
    ASSUME IInv, NEW w \in Workers, NEW c \in Clients, Owner[c] = w, job[w].c = c,
           NEW j, Moves(w, j), j.c = c, j.pc # "idle",
           UNCHANGED <<trie, lists>>,
           \A d \in Clients \ {c} :
               st'[d] = st[d] \/ (Owner[d] = w /\ st'[d] = "closing"),
           ClientOk(c, j, st'[c], ent[c], sub_count[c], Held(c))
    PROVE  OwnInv' /\ TrieInv' /\ ClientsInv'
<1>0. Owner \in [Clients -> Workers]
  BY SubscriptionsAssumption
<1>1. trie' = trie /\ ent' = ent /\ sub_count' = sub_count
  BY DEF lists
<1>2. \A d : Held(d)' = Held(d)
  BY <1>1 DEF Held
<1>3. TrieInv'
  BY <1>1 DEF IInv, TrieInv
<1>4. OwnInv'
  BY DEF IInv, OwnInv, Moves
<1>5. View(c)' = j
  BY IdleIs DEF View, Moves
<1>6. ASSUME NEW d \in Clients, d # c PROVE View(d)' = View(d)
  BY <1>0, <1>6, IdleIs DEF View, Moves
<1>7. ASSUME NEW d \in Clients
      PROVE  ClientOk(d, View(d), st[d], ent[d], sub_count[d], Held(d))'
  <2>1. CASE d = c
    BY <1>1, <1>2, <1>5, <2>1
  <2>2. CASE d # c
    <3>1. ClientOk(d, View(d), st[d], ent[d], sub_count[d], Held(d))
      BY DEF IInv, ClientsInv
    <3>2. CASE st'[d] = st[d]
      BY <1>1, <1>2, <1>6, <2>2, <3>1, <3>2
    <3>3. CASE Owner[d] = w /\ st'[d] = "closing"
      <4>1. View(d) = Idle
        BY <2>2, <3>3 DEF View
      <4>2. StateOk(Idle, "closing")
        BY IdleIs DEF StateOk, SubPcs
      <4>3. ListOk(d, Idle, "closing", ent[d], sub_count[d], Held(d))
        BY <3>1, <4>1 DEF ClientOk, ListOk
      <4>4. ClientOk(d, Idle, "closing", ent[d], sub_count[d], Held(d))
        BY <3>1, <4>1, <4>2, <4>3 DEF ClientOk
      <4>5. View(d)' = Idle
        BY <1>6, <2>2, <4>1
      <4> QED BY <1>1, <1>2, <3>3, <4>4, <4>5
    <3> QED BY <2>2, <3>2, <3>3
  <2> QED BY <2>1, <2>2
<1> QED BY <1>3, <1>4, <1>7 DEF ClientsInv

(* PUBLISH is read.                                                          *)
LEMMA PublishStep ==
    ASSUME IInv, NEW w \in Workers, NEW c \in Clients, NEW t \in Topics, Publish(w, c, t)
    PROVE  IInv'
<1> DEFINE R == Match(trie, t)
           n == spent.pub + 1
           j == [Job("snap", c) EXCEPT !.refs = R, !.n = n, !.t = t, !.ep = ep[c]]
<1>1. /\ Owner[c] = w /\ st[c] = "connected" /\ job[w] = Idle /\ Start(w, j) /\ Spend("pub")
      /\ UNCHANGED <<trie, acc, sessions, lists, mail, shut, got>>
  BY DEF Publish, Mine
<1>2. R \in SUBSET Ref
  <2>1. t \in Seq(STRING)
    BY SubscriptionsAssumption
  <2>2. R \subseteq Registered(trie)
    BY <2>1, MatchExact DEF IInv, TrieInv
  <2> QED BY <2>2 DEF IInv, TrieInv
<1>3. n \in Nat /\ ep[c] \in Nat
  BY LimitIs DEF IInv, TypeInv
<1> HIDE DEF R, n
<1>4. j \in Jobs /\ j.pc = "snap" /\ j.c = c
  <2>1. "snap" \in Pcs /\ t \in Subject
    BY DEF Pcs, Subject
  <2>2. Job("snap", c) \in Jobs /\ Job("snap", c).pc = "snap" /\ Job("snap", c).c = c
    BY <2>1, JobIs
  <2> QED BY <1>2, <1>3, <2>1, <2>2 DEF Jobs
<1>5. Moves(w, j)
  BY <1>1, <1>4, PutMoves DEF Start, IInv
<1> HIDE DEF j
<1>6. st' = st
  BY <1>1 DEF sessions
<1>7. ClientOk(c, j, st'[c], ent[c], sub_count[c], Held(c))
  <2>1. ClientOk(c, Idle, st[c], ent[c], sub_count[c], Held(c))
    BY <1>1, Rests
  <2>2. ~Gap(Idle) /\ ~Enters(Idle) /\ ~Tears(Idle)
    BY IdleIs, Whole
  <2>3. StateOk(j, st[c])
    BY <1>1, <1>4 DEF StateOk, SubPcs
  <2> QED BY <1>4, <1>6, <2>1, <2>2, <2>3, Calm
<1>8. OwnInv' /\ TrieInv' /\ ClientsInv'
  BY <1>1, <1>4, <1>5, <1>6, <1>7, Quiet
<1>9. spent' \in [DOMAIN Limit -> Nat]
  BY <1>1, SpendType, LimitIs DEF IInv
<1>10. TypeInv' /\ MailInv'
  BY <1>1, <1>5, <1>9 DEF IInv, TypeInv, AccOk, MailInv, lists, sessions, BoxOk, Moves, Limit
<1> QED BY <1>8, <1>10 DEF IInv

(* PUBLISH takes the matches of its topic.                                   *)
LEMMA PubSnapshotStep ==
    ASSUME IInv, NEW w \in Workers, PubSnapshot(w)
    PROVE  IInv'
<1> DEFINE c == job[w].c
<1>1. /\ job[w].pc = "snap"
      /\ UNCHANGED <<trie, acc, sessions, lists, mail, shut, got, spent>>
  BY DEF PubSnapshot, At
<1>2. /\ c \in Clients /\ Owner[c] = w /\ View(c) = job[w] /\ job[w] \in Jobs
      /\ ClientOk(c, job[w], st[c], ent[c], sub_count[c], Held(c))
  BY <1>1, Actor
<1>3. PICK T \in SUBSET job[w].refs : job' = [job EXCEPT ![w].refs = T, ![w].pc = "go"]
  BY DEF PubSnapshot, Snapshots
<1>4. T \in SUBSET Ref /\ "go" \in Pcs
  BY <1>2 DEF Jobs, Pcs
<1>5. Moves(w, job'[w]) /\ job'[w].pc = "go" /\ job'[w].c = c
  BY <1>3, <1>4, RefsMoves DEF IInv
<1>6. st' = st
  BY <1>1 DEF sessions
<1>7. ClientOk(c, job'[w], st'[c], ent[c], sub_count[c], Held(c))
  <2>1. ~Gap(job[w]) /\ ~Enters(job[w]) /\ ~Tears(job[w])
    BY <1>1, Whole
  <2>2. StateOk(job'[w], st[c])
    BY <1>1, <1>2, <1>5 DEF ClientOk, StateOk, SubPcs
  <2> QED BY <1>2, <1>5, <1>6, <2>1, <2>2, Calm
<1>8. OwnInv' /\ TrieInv' /\ ClientsInv'
  BY <1>1, <1>2, <1>5, <1>6, <1>7, Quiet
<1>9. TypeInv' /\ MailInv'
  BY <1>1, <1>5 DEF IInv, TypeInv, AccOk, MailInv, lists, sessions, BoxOk, Moves, Limit
<1> QED BY <1>8, <1>9 DEF IInv

(* PUBLISH runs out of memory and is given up.                               *)
LEMMA PubNoMemoryStep ==
    ASSUME IInv, NEW w \in Workers, PubNoMemory(w)
    PROVE  IInv'
<1>1. /\ job[w].pc \in {"snap", "go"} /\ Spend("oom") /\ Done(w)
      /\ UNCHANGED <<trie, acc, sessions, lists, mail, shut, got>>
  BY DEF PubNoMemory, At
<1>2. ~Gap(job[w]) /\ ~Enters(job[w]) /\ ~Tears(job[w])
  BY <1>1, Whole
<1>3. OwnInv' /\ TrieInv' /\ ClientsInv' /\ job' \in [Workers -> Jobs]
  BY <1>1, <1>2, DoneStep DEF sessions
<1>4. spent' \in [DOMAIN Limit -> Nat]
  BY <1>1, SpendType, LimitIs DEF IInv
<1>5. TypeInv' /\ MailInv'
  BY <1>1, <1>3, <1>4 DEF IInv, TypeInv, MailInv, lists, sessions, BoxOk, Limit
<1> QED BY <1>3, <1>5 DEF IInv

(* The fan-out starts.                                                       *)
LEMMA PubGoStep ==
    ASSUME IInv, NEW w \in Workers, PubGo(w)
    PROVE  IInv'
<1> DEFINE c == job[w].c
<1>1. /\ job[w].pc = "go"
      /\ UNCHANGED <<trie, acc, ep, active, lists, mail, shut, got, spent>>
  BY DEF PubGo, At
<1>2. /\ c \in Clients /\ Owner[c] = w /\ View(c) = job[w]
      /\ ClientOk(c, job[w], st[c], ent[c], sub_count[c], Held(c))
  BY <1>1, Actor
<1>3. ~Gap(job[w]) /\ ~Enters(job[w]) /\ ~Tears(job[w])
  BY <1>1, Whole
<1>4. CASE Go(w, "fan") /\ UNCHANGED st
  <2>1. /\ Go(w, "fan") /\ "fan" \in Pcs /\ job[w].pc # "idle"
        /\ UNCHANGED <<trie, lists>> /\ \A d \in Clients \ {c} : st'[d] = st[d]
    BY <1>1, <1>4 DEF Pcs
  <2>2. job'[w].pc = "fan"
    BY <2>1, GoMoves DEF IInv
  <2>3. StateOk(job'[w], st[c])
    BY <1>1, <1>2, <2>2 DEF ClientOk, StateOk, SubPcs
  <2>4. ClientOk(c, job'[w], st'[c], ent[c], sub_count[c], Held(c))
    BY <1>2, <1>3, <1>4, <2>2, <2>3, Calm
  <2>5. OwnInv' /\ TrieInv' /\ ClientsInv' /\ job' \in [Workers -> Jobs]
    BY <2>1, <2>4, GoStep
  <2>6. TypeInv' /\ MailInv'
    BY <1>1, <1>4, <2>5 DEF IInv, TypeInv, AccOk, MailInv, lists, BoxOk, Limit
  <2> QED BY <2>5, <2>6 DEF IInv
<1>5. CASE Closing(w, c)
  <2>1. /\ OwnInv' /\ TrieInv' /\ ClientsInv'
        /\ st' \in [Clients -> States] /\ job' \in [Workers -> Jobs]
    BY <1>1, <1>2, <1>3, <1>5, ClosingStep
  <2>2. TypeInv' /\ MailInv'
    BY <1>1, <2>1 DEF IInv, TypeInv, AccOk, MailInv, lists, BoxOk, Limit
  <2> QED BY <2>1, <2>2 DEF IInv
<1> QED BY <1>4, <1>5 DEF PubGo

(* The fan-out ends.                                                         *)
LEMMA PubDoneStep ==
    ASSUME IInv, NEW w \in Workers, PubDone(w)
    PROVE  IInv'
<1> DEFINE c == job[w].c
<1>1. /\ job[w].pc = "fan"
      /\ UNCHANGED <<trie, acc, ep, active, lists, mail, shut, got, spent>>
  BY DEF PubDone, At
<1>2. /\ c \in Clients /\ Owner[c] = w /\ View(c) = job[w]
  BY <1>1, Actor
<1>3. ~Gap(job[w]) /\ ~Enters(job[w]) /\ ~Tears(job[w])
  BY <1>1, Whole
<1>4. CASE Done(w) /\ UNCHANGED st
  <2>1. OwnInv' /\ TrieInv' /\ ClientsInv' /\ job' \in [Workers -> Jobs]
    BY <1>1, <1>3, <1>4, DoneStep
  <2>2. TypeInv' /\ MailInv'
    BY <1>1, <1>4, <2>1 DEF IInv, TypeInv, AccOk, MailInv, lists, BoxOk, Limit
  <2> QED BY <2>1, <2>2 DEF IInv
<1>5. CASE Closing(w, c)
  <2>1. /\ OwnInv' /\ TrieInv' /\ ClientsInv'
        /\ st' \in [Clients -> States] /\ job' \in [Workers -> Jobs]
    BY <1>1, <1>2, <1>3, <1>5, ClosingStep
  <2>2. TypeInv' /\ MailInv'
    BY <1>1, <2>1 DEF IInv, TypeInv, AccOk, MailInv, lists, BoxOk, Limit
  <2> QED BY <2>1, <2>2 DEF IInv
<1> QED BY <1>4, <1>5 DEF PubDone

(* The ways a handler takes a target in hand and lets go of it.              *)
LEMMA TakeMoves ==
    ASSUME TypeInv, NEW w \in Workers, NEW X \in SUBSET Ref, NEW r \in Ref,
           job' = [job EXCEPT ![w].refs = X, ![w].ref = r, ![w].pc = "send"]
    PROVE  /\ Moves(w, job'[w]) /\ job'[w].pc = "send" /\ job'[w].refs = X
           /\ job'[w].ref = r /\ job'[w].c = job[w].c
           /\ job'[w].n = job[w].n /\ job'[w].t = job[w].t /\ job'[w].ep = job[w].ep
<1>1. "send" \in Pcs /\ job \in [Workers -> Jobs]
  BY DEF Pcs, TypeInv
<1>2. /\ job'[w] \in Jobs /\ job'[w].pc = "send" /\ job'[w].refs = X
      /\ job'[w].ref = r /\ job'[w].c = job[w].c
      /\ job'[w].n = job[w].n /\ job'[w].t = job[w].t /\ job'[w].ep = job[w].ep
  BY <1>1 DEF Jobs
<1>3. /\ DOMAIN job' = Workers /\ job' = [x \in Workers |-> job'[x]]
      /\ \A x \in Workers \ {w} : job'[x] = job[x]
  BY <1>1
<1>4. job' \in [Workers -> Jobs]
  BY <1>1, <1>2, <1>3
<1> QED BY <1>2, <1>3, <1>4 DEF Moves

(* ... after the write ...                                                   *)
LEMMA LeaveMoves ==
    ASSUME TypeInv, NEW w \in Workers,
           job' = [job EXCEPT ![w].ref = NoRef, ![w].pc = "fan"]
    PROVE  /\ Moves(w, job'[w]) /\ job'[w].pc = "fan" /\ job'[w].refs = job[w].refs
           /\ job'[w].ref = NoRef /\ job'[w].c = job[w].c
           /\ job'[w].n = job[w].n /\ job'[w].t = job[w].t /\ job'[w].ep = job[w].ep
<1>1. "fan" \in Pcs
  BY DEF Pcs
<1> QED BY <1>1 DEF TypeInv, Moves, Jobs

(* What the checks on the owner of the target may change.                    *)
LEMMA CheckHereDoes ==
    ASSUME IInv, NEW w \in Workers, NEW r \in Ref, NEW t \in Subject, CheckHere(w, r, t)
    PROVE  /\ st' \in [Clients -> States] /\ BoxOk(mail') /\ shut' \subseteq Clients
           /\ spent' \in [DOMAIN Limit -> Nat]
           /\ \A d \in Clients : st'[d] = st[d] \/ (d = r.c /\ st'[d] = "closing")
           /\ \/ job' = [job EXCEPT ![w].refs = @ \ {r}]
              \/ job' = [job EXCEPT ![w].refs = @ \ {r}, ![w].ref = r, ![w].pc = "send"]
<1>1. /\ st \in [Clients -> States] /\ BoxOk(mail) /\ shut \subseteq Clients
      /\ spent \in [DOMAIN Limit -> Nat] /\ TypeInv
  BY DEF IInv, TypeInv, MailInv
<1>2. r.c \in Clients
  BY RefIs
<1>3. CASE /\ st' = [st EXCEPT ![r.c] = "closing"] /\ TeardownOrShutdown(r.c, mail)
           /\ job' = [job EXCEPT ![w].refs = @ \ {r}]
  <2>1. BoxOk(mail') /\ shut' \subseteq Clients /\ spent' \in [DOMAIN Limit -> Nat]
    BY <1>1, <1>2, <1>3, TeardownBox
  <2> QED BY <1>1, <1>2, <1>3, <2>1 DEF States
<1>4. CASE /\ UNCHANGED <<st, mail, shut, spent>>
           /\ \/ job' = [job EXCEPT ![w].refs = @ \ {r}]
              \/ job' = [job EXCEPT ![w].refs = @ \ {r}, ![w].ref = r, ![w].pc = "send"]
  BY <1>1, <1>4
<1> QED BY <1>3, <1>4 DEF CheckHere

(* ... and a delivery to another worker.                                     *)
LEMMA SendThereDoes ==
    ASSUME IInv, NEW r \in Ref, NEW n \in Nat, NEW t \in Subject, NEW e \in Nat,
           SendThere(r, n, t, e)
    PROVE  BoxOk(mail') /\ shut' \subseteq Clients /\ spent' \in [DOMAIN Limit -> Nat]
<1>1. BoxOk(mail) /\ shut \subseteq Clients /\ spent \in [DOMAIN Limit -> Nat] /\ TypeInv
  BY DEF IInv, TypeInv, MailInv
<1>2. r.c \in Clients
  BY RefIs
<1>3. CASE mail' = Mailed(Send(r, n, t, e)) /\ UNCHANGED <<shut, spent>>
  <2>1. Send(r, n, t, e) \in Letter /\ Send(r, n, t, e).to = r.c
    BY SendIs
  <2>2. BoxOk(Mailed(Send(r, n, t, e)))
    BY <1>1, <1>2, <2>1, AppendBox DEF Mailed
  <2> QED BY <1>1, <1>3, <2>2
<1>4. CASE TeardownOrShutdown(r.c, mail)
  BY <1>1, <1>2, <1>4, TeardownBox
<1> QED BY <1>3, <1>4 DEF SendThere

(* The publisher when a step of the fan-out also closes a target.            *)
LEMMA FanQuiet ==
    ASSUME IInv, NEW w \in Workers, job[w].pc \in {"fan", "send"},
           Moves(w, job'[w]), job'[w].c = job[w].c, job'[w].pc \in {"fan", "send"},
           job'[w].pc = "send" => job'[w].ref \in Ref /\ Owner[job'[w].ref.c] = w,
           UNCHANGED <<trie, lists>>,
           \A d \in Clients : st'[d] = st[d] \/ (Owner[d] = w /\ st'[d] = "closing")
    PROVE  OwnInv' /\ TrieInv' /\ ClientsInv'
<1> DEFINE c == job[w].c
<1>1. /\ c \in Clients /\ Owner[c] = w /\ View(c) = job[w] /\ job[w] \in Jobs
      /\ ClientOk(c, job[w], st[c], ent[c], sub_count[c], Held(c))
  BY Actor
<1>2. ClientOk(c, job'[w], st'[c], ent[c], sub_count[c], Held(c))
  <2>1. ~Gap(job[w]) /\ ~Enters(job[w]) /\ ~Tears(job[w])
    BY Whole
  <2>2. st[c] \in {"connected", "closing"}
    BY <1>1 DEF ClientOk, StateOk
  <2>3. st'[c] \in {"connected", "closing"}
    BY <1>1, <2>2
  <2>4. StateOk(job'[w], st'[c])
    BY <2>3 DEF StateOk, SubPcs
  <2> QED BY <1>1, <2>1, <2>3, <2>4, Calm
<1> QED BY <1>1, <1>2, QuietTwo

(* One receiver of the fan-out: the checks.                                  *)
LEMMA PubFanStep ==
    ASSUME IInv, NEW w \in Workers, PubFan(w)
    PROVE  IInv'
<1> DEFINE c == job[w].c
<1>1. PICK r \in job[w].refs :
         /\ job[w].pc = "fan"
         /\ \/ /\ UNCHANGED <<st, mail, shut, spent>>
               /\ job' = [job EXCEPT ![w].refs = @ \ {r}]
            \/ Owner[r.c] = w /\ CheckHere(w, r, job[w].t)
            \/ /\ SendThere(r, job[w].n, job[w].t, job[w].ep) /\ UNCHANGED st
               /\ job' = [job EXCEPT ![w].refs = @ \ {r}]
         /\ UNCHANGED <<trie, acc, ep, active, lists, got>>
  BY DEF PubFan, At
<1>2. job[w] \in Jobs
  BY <1>1, Actor
<1>3. /\ r \in Ref /\ job[w].n \in Nat /\ job[w].t \in Subject /\ job[w].ep \in Nat
      /\ job[w].refs \ {r} \in SUBSET Ref
  BY <1>2 DEF Jobs
<1>4. /\ st' \in [Clients -> States] /\ BoxOk(mail') /\ shut' \subseteq Clients
      /\ spent' \in [DOMAIN Limit -> Nat]
      /\ \A d \in Clients : st'[d] = st[d] \/ (Owner[d] = w /\ st'[d] = "closing")
      /\ \/ job' = [job EXCEPT ![w].refs = @ \ {r}]
         \/ /\ job' = [job EXCEPT ![w].refs = @ \ {r}, ![w].ref = r, ![w].pc = "send"]
            /\ Owner[r.c] = w
  <2>1. CASE UNCHANGED <<st, mail, shut, spent>> /\ job' = [job EXCEPT ![w].refs = @ \ {r}]
    BY <2>1 DEF IInv, TypeInv, MailInv
  <2>2. CASE Owner[r.c] = w /\ CheckHere(w, r, job[w].t)
    BY <1>3, <2>2, CheckHereDoes
  <2>3. CASE /\ SendThere(r, job[w].n, job[w].t, job[w].ep) /\ UNCHANGED st
             /\ job' = [job EXCEPT ![w].refs = @ \ {r}]
    BY <1>3, <2>3, SendThereDoes DEF IInv, TypeInv
  <2> QED BY <1>1, <2>1, <2>2, <2>3
<1>5. /\ Moves(w, job'[w]) /\ job'[w].c = c /\ job'[w].pc \in {"fan", "send"}
      /\ job'[w].pc = "send" => job'[w].ref \in Ref /\ Owner[job'[w].ref.c] = w
  <2>0. TypeInv
    BY DEF IInv
  <2>1. CASE job' = [job EXCEPT ![w].refs = @ \ {r}]
    <3>1. job' = [job EXCEPT ![w].refs = job[w].refs \ {r}]
      BY <2>1
    <3> QED BY <1>1, <1>3, <2>0, <3>1, DropMoves
  <2>2. CASE /\ job' = [job EXCEPT ![w].refs = @ \ {r}, ![w].ref = r, ![w].pc = "send"]
             /\ Owner[r.c] = w
    <3>1. PICK X \in SUBSET Ref :
             job' = [job EXCEPT ![w].refs = X, ![w].ref = r, ![w].pc = "send"]
      BY <1>3, <2>2
    <3>2. /\ Moves(w, job'[w]) /\ job'[w].pc = "send" /\ job'[w].ref = r
          /\ job'[w].c = job[w].c
      BY <1>3, <2>0, <3>1, TakeMoves
    <3> QED BY <1>3, <2>2, <3>2
  <2> QED BY <1>4, <2>1, <2>2
<1>6. OwnInv' /\ TrieInv' /\ ClientsInv'
  BY <1>1, <1>4, <1>5, FanQuiet
<1>7. TypeInv' /\ MailInv'
  BY <1>1, <1>4, <1>5 DEF IInv, TypeInv, AccOk, MailInv, lists, Moves
<1> QED BY <1>6, <1>7 DEF IInv

(* One receiver of the fan-out: the write.                                   *)
LEMMA SendHereStep ==
    ASSUME IInv, NEW w \in Workers, SendHere(w)
    PROVE  IInv'
<1>a. PICK c, r : c = job[w].c /\ r = job[w].ref
  OBVIOUS
<1>1. /\ job[w].pc = "send" /\ job' = [job EXCEPT ![w].ref = NoRef, ![w].pc = "fan"]
      /\ UNCHANGED <<trie, acc, ep, active, lists>>
      /\ \/ /\ got' = got \cup {Message(r, job[w].n, job[w].t)}
            /\ UNCHANGED <<st, mail, shut, spent>>
         \/ /\ Spend("oom") /\ st' = [st EXCEPT ![r.c] = "closing"]
            /\ PushTeardown(r.c, mail) /\ UNCHANGED got
         \/ /\ st' = [st EXCEPT ![r.c] = "closing"]
            /\ TeardownOrShutdown(r.c, mail) /\ UNCHANGED got
         \/ UNCHANGED <<st, mail, shut, got, spent>>
  BY <1>a DEF SendHere, At
<1>2. /\ c \in Clients /\ Owner[c] = w /\ job[w] \in Jobs
      /\ ClientOk(c, job[w], st[c], ent[c], sub_count[c], Held(c))
  BY <1>1, <1>a, Actor
<1>3. /\ r \in Ref /\ r.c \in Clients /\ Owner[r.c] = w
      /\ job[w].n \in Nat /\ job[w].t \in Subject
  <2>1. r \in Ref /\ Owner[r.c] = w
    BY <1>1, <1>2, <1>a DEF ClientOk, LocalsOk
  <2> QED BY <1>2, <2>1, RefIs DEF Jobs
<1>4. /\ st \in [Clients -> States] /\ BoxOk(mail) /\ shut \subseteq Clients
      /\ spent \in [DOMAIN Limit -> Nat] /\ got \subseteq Msgs /\ TypeInv
  BY DEF IInv, TypeInv, MailInv
<1>5. /\ st' \in [Clients -> States] /\ BoxOk(mail') /\ shut' \subseteq Clients
      /\ spent' \in [DOMAIN Limit -> Nat] /\ got' \subseteq Msgs
      /\ \A d \in Clients : st'[d] = st[d] \/ (Owner[d] = w /\ st'[d] = "closing")
  <2>1. CASE /\ got' = got \cup {Message(r, job[w].n, job[w].t)}
             /\ UNCHANGED <<st, mail, shut, spent>>
    <3>1. Message(r, job[w].n, job[w].t) \in Msgs
      BY <1>3 DEF Message, Msgs
    <3> QED BY <1>4, <2>1, <3>1
  <2>2. CASE /\ Spend("oom") /\ st' = [st EXCEPT ![r.c] = "closing"]
             /\ PushTeardown(r.c, mail) /\ UNCHANGED got
    <3>1. BoxOk(mail') /\ shut' \subseteq Clients
      BY <1>3, <1>4, <2>2, PushBox
    <3>2. spent' \in [DOMAIN Limit -> Nat]
      BY <1>4, <2>2, SpendType, LimitIs
    <3> QED BY <1>3, <1>4, <2>2, <3>1, <3>2 DEF States
  <2>3. CASE /\ st' = [st EXCEPT ![r.c] = "closing"]
             /\ TeardownOrShutdown(r.c, mail) /\ UNCHANGED got
    <3>1. BoxOk(mail') /\ shut' \subseteq Clients /\ spent' \in [DOMAIN Limit -> Nat]
      BY <1>3, <1>4, <2>3, TeardownBox
    <3> QED BY <1>3, <1>4, <2>3, <3>1 DEF States
  <2>4. CASE UNCHANGED <<st, mail, shut, got, spent>>
    BY <1>4, <2>4
  <2> QED BY <1>1, <2>1, <2>2, <2>3, <2>4
<1>6. Moves(w, job'[w]) /\ job'[w].c = c /\ job'[w].pc = "fan"
  BY <1>1, <1>4, <1>a, LeaveMoves
<1>7. OwnInv' /\ TrieInv' /\ ClientsInv'
  BY <1>1, <1>5, <1>6, <1>a, FanQuiet
<1>8. TypeInv' /\ MailInv'
  BY <1>1, <1>5, <1>6 DEF IInv, TypeInv, AccOk, MailInv, lists, Moves
<1> QED BY <1>7, <1>8 DEF IInv

-----------------------------------------------------------------------------
(* The mailbox.                                                              *)

(* The worker of an idle job may close a client or not.                      *)
LEMMA MailStep ==
    ASSUME IInv, NEW w \in Workers, job[w] = Idle, NEW c \in Clients, Owner[c] = w,
           Closing(w, c) \/ UNCHANGED <<st, job>>,
           UNCHANGED <<trie, acc, lists, shut, ep, active>>,
           BoxOk(mail'), got' \subseteq Msgs, spent' \in [DOMAIN Limit -> Nat]
    PROVE  IInv'
<1>1. View(c) = Idle /\ ~Gap(Idle) /\ ~Enters(Idle) /\ ~Tears(Idle)
  BY Rests, IdleIs, Whole
<1>2. CASE Closing(w, c)
  <2>1. /\ OwnInv' /\ TrieInv' /\ ClientsInv'
        /\ st' \in [Clients -> States] /\ job' \in [Workers -> Jobs]
    BY <1>1, <1>2, ClosingStep
  <2>2. TypeInv' /\ MailInv'
    BY <2>1 DEF IInv, TypeInv, AccOk, MailInv, lists
  <2> QED BY <2>1, <2>2 DEF IInv
<1>3. CASE UNCHANGED <<st, job>>
  <2>1. OwnInv' /\ TrieInv'
    BY <1>3 DEF IInv, OwnInv, TrieInv
  <2>2. ClientsInv'
    BY <1>3 DEF IInv, ClientsInv, View, Held, lists
  <2>3. TypeInv' /\ MailInv'
    BY <1>3 DEF IInv, TypeInv, AccOk, MailInv, lists
  <2> QED BY <2>1, <2>2, <2>3 DEF IInv
<1> QED BY <1>2, <1>3

(* A worker handles the next message of its mailbox.                         *)
LEMMA MailNextStep ==
    ASSUME IInv, NEW w \in Workers, MailNext(w)
    PROVE  IInv'
<1> DEFINE m == Head(mail[w])
           c == m.to
<1>1. /\ job[w] = Idle /\ mail[w] # <<>> /\ UNCHANGED <<trie, acc, lists, shut>>
      /\ MailSend(w, m) \/ MailFarewell(w, m) \/ MailTeardown(w, m)
  BY DEF MailNext
<1>2. /\ BoxOk(mail) /\ got \subseteq Msgs /\ spent \in [DOMAIN Limit -> Nat] /\ TypeInv
  BY DEF IInv, TypeInv, MailInv
<1>3. /\ BoxOk([mail EXCEPT ![w] = Tail(@)]) /\ Tail(mail[w]) \in Seq(Letter)
      /\ \A k \in DOMAIN Tail(mail[w]) : /\ k + 1 \in DOMAIN mail[w]
                                         /\ Tail(mail[w])[k] = mail[w][k + 1]
      /\ m \in Letter /\ Owner[c] = w
  BY <1>1, <1>2, TailBox
<1> HIDE DEF m
<1>4. /\ c \in Clients
      /\ m.kind = "SEND" => /\ m.ref \in Ref /\ m.n \in Nat /\ m.t \in Subject
                            /\ m.ep \in Nat
  BY <1>3, LetterKinds
<1>5. CASE MailSend(w, m)
  <2> DEFINE j == [Job("letter", c) EXCEPT !.ref = m.ref, !.n = m.n, !.t = m.t, !.ep = m.ep]
  <2>1. /\ m.kind = "SEND" /\ mail' = [mail EXCEPT ![w] = Tail(@)]
        /\ UNCHANGED <<ep, active, got, spent>>
        /\ \/ Closing(w, c) \/ UNCHANGED <<st, job>>
           \/ /\ st[c] \in {"init", "connected"} /\ job' = [job EXCEPT ![w] = j]
              /\ UNCHANGED st
    BY <1>5 DEF MailSend
  <2>2. BoxOk(mail') /\ got' \subseteq Msgs
    BY <1>2, <1>3, <2>1
  <2>3. spent' \in [DOMAIN Limit -> Nat]
    BY <1>2, <2>1
  <2>4. CASE Closing(w, c) \/ UNCHANGED <<st, job>>
    BY <1>1, <1>3, <1>4, <2>1, <2>2, <2>3, <2>4, MailStep
  <2>5. CASE /\ st[c] \in {"init", "connected"} /\ job' = [job EXCEPT ![w] = j]
             /\ UNCHANGED st
    <3>1. j \in Jobs /\ j.pc = "letter" /\ j.c = c /\ j.ref \in Ref
      <4>1. "letter" \in Pcs
        BY DEF Pcs
      <4>2. Job("letter", c) \in Jobs /\ Job("letter", c).pc = "letter"
            /\ Job("letter", c).c = c
        BY <1>4, <4>1, JobIs
      <4> QED BY <1>4, <2>1, <4>2 DEF Jobs
    <3>2. Moves(w, j)
      BY <1>2, <2>5, <3>1, PutMoves
    <3> HIDE DEF j
    <3>3. ClientOk(c, j, st'[c], ent[c], sub_count[c], Held(c))
      <4>1. ClientOk(c, Idle, st[c], ent[c], sub_count[c], Held(c))
        BY <1>1, <1>3, <1>4, Rests
      <4>2. ~Gap(Idle) /\ ~Enters(Idle) /\ ~Tears(Idle)
        BY IdleIs, Whole
      <4>3. StateOk(j, st[c])
        BY <2>5, <3>1 DEF StateOk, SubPcs
      <4> QED BY <1>4, <2>5, <3>1, <4>1, <4>2, <4>3, Calm
    <3>4. OwnInv' /\ TrieInv' /\ ClientsInv'
      BY <1>1, <1>3, <1>4, <2>5, <3>1, <3>2, <3>3, Quiet
    <3>5. TypeInv' /\ MailInv'
      BY <1>1, <2>1, <2>2, <2>3, <2>5, <3>2 DEF IInv, TypeInv, MailInv, lists, Moves
    <3> QED BY <3>4, <3>5 DEF IInv
  <2> QED BY <2>1, <2>4, <2>5
<1>6. CASE MailFarewell(w, m)
  <2>1. /\ mail' = [mail EXCEPT ![w] = Tail(@)] /\ UNCHANGED <<ep, active>>
        /\ Closing(w, c) \/ UNCHANGED <<st, job>>
        /\ UNCHANGED <<got, spent>>
    BY <1>6 DEF MailFarewell
  <2>2. BoxOk(mail') /\ got' \subseteq Msgs
    BY <1>2, <1>3, <2>1
  <2>3. spent' \in [DOMAIN Limit -> Nat]
    BY <1>2, <2>1
  <2> QED BY <1>1, <1>3, <1>4, <2>1, <2>2, <2>3, MailStep
<1>7. CASE MailTeardown(w, m)
  <2>1. /\ Purge(w, c, Tail(mail[w])) /\ UNCHANGED <<ep, active>>
        /\ Closing(w, c) \/ UNCHANGED <<st, job>>
        /\ UNCHANGED <<got, spent>>
    BY <1>7 DEF MailTeardown
  <2>2. \A k \in DOMAIN Tail(mail[w]) : Owner[Tail(mail[w])[k].to] = w
    BY <1>2, <1>3 DEF BoxOk
  <2>3. BoxOk(mail')
    BY <1>2, <1>3, <2>1, <2>2, PurgeBox
  <2>4. got' \subseteq Msgs
    BY <1>2, <2>1
  <2>5. spent' \in [DOMAIN Limit -> Nat]
    BY <1>2, <2>1
  <2> QED BY <1>1, <1>3, <1>4, <2>1, <2>3, <2>4, <2>5, MailStep
<1> QED BY <1>1, <1>5, <1>6, <1>7

(* A letter is written.                                                      *)
LEMMA MailWriteStep ==
    ASSUME IInv, NEW w \in Workers, MailWrite(w)
    PROVE  IInv'
<1> DEFINE c == job[w].c
           m == Message(job[w].ref, job[w].n, job[w].t)
<1>1. /\ job[w].pc = "letter"
      /\ UNCHANGED <<trie, acc, ep, active, lists, mail, shut>>
      /\ \/ Closing(w, c) /\ UNCHANGED <<got, spent>>
         \/ got' = got \cup {m} /\ Done(w) /\ UNCHANGED <<st, spent>>
         \/ Spend("oom") /\ Closing(w, c) /\ UNCHANGED got
         \/ Done(w) /\ UNCHANGED <<st, got, spent>>
  BY DEF MailWrite, At
<1>2. /\ c \in Clients /\ Owner[c] = w /\ View(c) = job[w] /\ job[w] \in Jobs
      /\ ClientOk(c, job[w], st[c], ent[c], sub_count[c], Held(c))
  BY <1>1, Actor
<1>3. ~Gap(job[w]) /\ ~Enters(job[w]) /\ ~Tears(job[w])
  BY <1>1, Whole
<1>4. m \in Msgs
  <2>1. job[w].ref \in Ref
    BY <1>1, <1>2 DEF ClientOk, LocalsOk
  <2> QED BY <1>2, <2>1 DEF Jobs, Message, Msgs
<1> HIDE DEF m
<1>5. got' \subseteq Msgs
  BY <1>1, <1>4 DEF IInv, TypeInv
<1>6. spent' \in [DOMAIN Limit -> Nat]
  <2>1. Spend("oom") => spent' \in [DOMAIN Limit -> Nat]
    BY SpendType, LimitIs DEF IInv
  <2> QED BY <1>1, <2>1 DEF IInv, TypeInv
<1>7. CASE Closing(w, c)
  <2>1. /\ OwnInv' /\ TrieInv' /\ ClientsInv'
        /\ st' \in [Clients -> States] /\ job' \in [Workers -> Jobs]
    BY <1>1, <1>2, <1>3, <1>7, ClosingStep
  <2>2. TypeInv' /\ MailInv'
    BY <1>1, <1>5, <1>6, <2>1 DEF IInv, TypeInv, MailInv, lists
  <2> QED BY <2>1, <2>2 DEF IInv
<1>8. CASE Done(w) /\ UNCHANGED st
  <2>1. OwnInv' /\ TrieInv' /\ ClientsInv' /\ job' \in [Workers -> Jobs]
    BY <1>1, <1>3, <1>8, DoneStep
  <2>2. TypeInv' /\ MailInv'
    BY <1>1, <1>5, <1>6, <1>8, <2>1 DEF IInv, TypeInv, MailInv, lists
  <2> QED BY <2>1, <2>2 DEF IInv
<1> QED BY <1>1, <1>7, <1>8

-----------------------------------------------------------------------------
(* Closing, up to the teardown, and the environment.                         *)

LEMMA FinishStep ==
    ASSUME IInv, NEW w \in Workers, Finish(w) \/ FinishLater(w)
    PROVE  IInv'
<1> DEFINE c == job[w].c
<1>1. /\ job[w].pc = "finish" /\ (Go(w, "teardown") \/ Done(w))
      /\ UNCHANGED <<trie, acc, sessions, lists, mail, shut, got, spent>>
  BY DEF Finish, FinishLater, At
<1>2. /\ c \in Clients /\ Owner[c] = w /\ View(c) = job[w]
      /\ ClientOk(c, job[w], st[c], ent[c], sub_count[c], Held(c))
  BY <1>1, Actor
<1>3. ~Gap(job[w]) /\ ~Enters(job[w]) /\ ~Tears(job[w])
  BY <1>1, Whole
<1>4. OwnInv' /\ TrieInv' /\ ClientsInv' /\ job' \in [Workers -> Jobs]
  <2>1. CASE Done(w)
    BY <1>1, <1>3, <2>1, DoneStep DEF sessions
  <2>2. CASE Go(w, "teardown")
    <3>1. /\ "teardown" \in Pcs /\ job[w].pc # "idle" /\ UNCHANGED <<trie, lists>>
          /\ st' = st
      BY <1>1 DEF Pcs, sessions
    <3>2. job'[w].pc = "teardown"
      BY <2>2, <3>1, GoMoves DEF IInv
    <3>3. StateOk(job'[w], st[c])
      BY <1>1, <1>2, <3>2 DEF ClientOk, StateOk, SubPcs
    <3>4. ClientOk(c, job'[w], st'[c], ent[c], sub_count[c], Held(c))
      BY <1>2, <1>3, <3>1, <3>2, <3>3, Calm
    <3> QED BY <2>2, <3>1, <3>4, GoStep
  <2> QED BY <1>1, <2>1, <2>2
<1>5. TypeInv' /\ MailInv'
  BY <1>1, <1>4 DEF IInv, TypeInv, AccOk, MailInv, lists, sessions, BoxOk, Limit
<1> QED BY <1>4, <1>5 DEF IInv

(* A peer that hangs up.                                                     *)
LEMMA EofStep ==
    ASSUME IInv, NEW w \in Workers, NEW c \in Clients, Flush(w, c) \/ Eof(w, c)
    PROVE  IInv'
<1>1. PICK p \in {"finish", "teardown"} :
         /\ Owner[c] = w /\ Start(w, Job(p, c))
         /\ p = "finish" => st[c] = "closing"
         /\ st[c] \in {"init", "connected", "closing"}
         /\ UNCHANGED <<trie, acc, sessions, lists, mail, shut, got, spent>>
  BY DEF Flush, Eof
<1>2. job[w] = Idle /\ job' = [job EXCEPT ![w] = Job(p, c)] /\ st' = st
  BY <1>1 DEF Start, sessions
<1>3. Job(p, c) \in Jobs /\ Job(p, c).pc = p /\ Job(p, c).c = c
  BY JobIs DEF Pcs
<1>4. Moves(w, Job(p, c))
  BY <1>2, <1>3, PutMoves DEF IInv
<1>5. ClientOk(c, Job(p, c), st'[c], ent[c], sub_count[c], Held(c))
  <2>1. ClientOk(c, Idle, st[c], ent[c], sub_count[c], Held(c))
    BY <1>1, <1>2, Rests
  <2>2. ~Gap(Idle) /\ ~Enters(Idle) /\ ~Tears(Idle)
    BY IdleIs, Whole
  <2>3. StateOk(Job(p, c), st[c])
    BY <1>1, <1>3 DEF StateOk, SubPcs
  <2> QED BY <1>2, <1>3, <2>1, <2>2, <2>3, Calm
<1>6. OwnInv' /\ TrieInv' /\ ClientsInv'
  BY <1>1, <1>2, <1>3, <1>4, <1>5, Quiet
<1>7. TypeInv' /\ MailInv'
  BY <1>1, <1>4 DEF IInv, TypeInv, AccOk, MailInv, lists, sessions, BoxOk, Moves, Limit
<1> QED BY <1>6, <1>7 DEF IInv

(* The account is deleted or created again.                                  *)
LEMMA AdminStep ==
    ASSUME IInv, Delete \/ Create
    PROVE  IInv'
<1>1. /\ UNCHANGED <<trie, sessions, lists, mail, job, shut, got>> /\ Spend("admin")
      /\ \E b : acc' = [active |-> b, epoch |-> acc.epoch + 1]
  BY DEF Delete, Create
<1>2. AccOk(acc')
  BY <1>1 DEF IInv, TypeInv, AccOk
<1>3. spent' \in [DOMAIN Limit -> Nat]
  BY <1>1, SpendType, LimitIs DEF IInv
<1>4. OwnInv' /\ TrieInv' /\ ClientsInv'
  BY <1>1 DEF IInv, OwnInv, TrieInv, ClientsInv, View, Held, sessions, lists
<1>5. TypeInv' /\ MailInv'
  BY <1>1, <1>2, <1>3 DEF IInv, TypeInv, MailInv, lists, sessions
<1> QED BY <1>4, <1>5 DEF IInv

(* A client is accepted.                                                     *)
LEMMA AdmitStep ==
    ASSUME IInv, NEW c \in Clients, Admit(c)
    PROVE  IInv'
<1>1. /\ st[c] = "none" /\ st' = [st EXCEPT ![c] = "init"] /\ active' = active + 1
      /\ UNCHANGED <<trie, acc, ep, lists, mail, job, shut, got, spent>>
  BY DEF Admit
<1>2. /\ st' \in [Clients -> States] /\ st'[c] = "init"
      /\ \A d \in Clients \ {c} : st'[d] = st[d]
  BY <1>1 DEF IInv, TypeInv, States
<1>3. /\ \A d : View(d)' = View(d) /\ Held(d)' = Held(d)
      /\ ent' = ent /\ sub_count' = sub_count
  BY <1>1 DEF View, Held, lists
<1>4. ClientOk(c, View(c), "init", ent[c], sub_count[c], Held(c))
  <2>1. ClientOk(c, View(c), "none", ent[c], sub_count[c], Held(c))
    BY <1>1 DEF IInv, ClientsInv
  <2>2. StateOk(View(c), "init")
    BY <2>1 DEF ClientOk, StateOk
  <2>3. ListOk(c, View(c), "init", ent[c], sub_count[c], Held(c))
    BY <2>1 DEF ClientOk, ListOk
  <2> QED BY <2>1, <2>2, <2>3 DEF ClientOk
<1>5. ASSUME NEW d \in Clients
      PROVE  ClientOk(d, View(d), st[d], ent[d], sub_count[d], Held(d))'
  <2>1. CASE d = c
    BY <1>2, <1>3, <1>4, <2>1
  <2>2. CASE d # c
    BY <1>2, <1>3, <2>2 DEF IInv, ClientsInv
  <2> QED BY <2>1, <2>2
<1>6. OwnInv' /\ TrieInv' /\ ClientsInv'
  BY <1>1, <1>5 DEF IInv, OwnInv, TrieInv, ClientsInv
<1>7. TypeInv' /\ MailInv'
  BY <1>1, <1>2 DEF IInv, TypeInv, AccOk, MailInv, lists, BoxOk, Limit
<1> QED BY <1>6, <1>7 DEF IInv

(* The keepalive timer of a connection.                                      *)
LEMMA KeepaliveStep ==
    ASSUME IInv, NEW c \in Clients, KeepaliveDead(c) \/ KeepaliveTimeout(c)
    PROVE  IInv'
<1>1. UNCHANGED <<trie, acc, sessions, lists, job, got>>
  BY DEF KeepaliveDead, KeepaliveTimeout
<1>2. BoxOk(mail) /\ TypeInv
  BY DEF IInv, MailInv
<1>3. BoxOk(Parting(c))
  BY <1>2, LetterIs, AppendBox DEF Parting, Mailed
<1>4. BoxOk(mail') /\ shut' \subseteq Clients /\ spent' \in [DOMAIN Limit -> Nat]
  <2>1. CASE TeardownOrShutdown(c, Parting(c))
    BY <1>2, <1>3, <2>1, TeardownBox
  <2>2. CASE Spend("doom") /\ PushTeardown(c, Parting(c))
    BY <1>2, <1>3, <2>2, PushBox, SpendType, LimitIs
  <2> QED BY <2>1, <2>2 DEF KeepaliveDead, KeepaliveTimeout
<1>5. OwnInv' /\ TrieInv' /\ ClientsInv'
  BY <1>1 DEF IInv, OwnInv, TrieInv, ClientsInv, View, Held, sessions, lists
<1>6. TypeInv' /\ MailInv'
  BY <1>1, <1>4 DEF IInv, TypeInv, AccOk, MailInv, lists, sessions
<1> QED BY <1>5, <1>6 DEF IInv

-----------------------------------------------------------------------------
(* Steps that change the trie or a list.                                     *)

(* A reference enters the trie.                                              *)
LEMMA HeldInsert ==
    ASSUME TrieInv, NEW r \in Ref, r \notin Registered(trie),
           trie' = Insert(trie, r.pat, r)
    PROVE  /\ TrieInv' /\ Held(r.c)' = Held(r.c) \cup {r}
           /\ \A d \in Clients \ {r.c} : Held(d)' = Held(d)
           /\ Registered(trie') = Registered(trie) \cup {r}
<1>1. /\ TrieOk(Insert(trie, r.pat, r))
      /\ Registered(Insert(trie, r.pat, r)) = Registered(trie) \cup {r}
  BY RefIs, InsertTrie DEF TrieInv
<1>2. TrieOk(trie') /\ Registered(trie') = Registered(trie) \cup {r}
  BY <1>1
<1>3. TrieInv'
  BY <1>2 DEF TrieInv
<1> QED BY <1>2, <1>3 DEF Held

(* A reference leaves the trie.                                              *)
LEMMA HeldRemove ==
    ASSUME TrieInv, NEW r \in Ref, trie' = Remove(trie, r.pat, r)
    PROVE  /\ TrieInv' /\ Held(r.c)' = Held(r.c) \ {r}
           /\ \A d \in Clients \ {r.c} : Held(d)' = Held(d)
           /\ Registered(trie') = Registered(trie) \ {r}
<1>1. TrieOk(trie') /\ Registered(trie') = Registered(trie) \ {r}
  <2>1. CASE r \in Registered(trie)
    <3>1. /\ TrieOk(Remove(trie, r.pat, r))
          /\ Registered(Remove(trie, r.pat, r)) = Registered(trie) \ {r}
      BY <2>1, RemoveTrie DEF TrieInv
    <3> QED BY <3>1
  <2>2. CASE r \notin Registered(trie)
    <3>1. trie' = trie
      BY <2>2, RemoveAbsent
    <3> QED BY <2>2, <3>1 DEF TrieInv
  <2> QED BY <2>1, <2>2
<1>2. TrieInv'
  BY <1>1 DEF TrieInv
<1> QED BY <1>1, <1>2 DEF Held

(* SUBSCRIBE takes the reference it replaces out of the trie.                *)
LEMMA SubUnlinkStep ==
    ASSUME IInv, NEW w \in Workers, SubUnlink(w)
    PROVE  IInv'
<1>a. PICK c, old : c = job[w].c /\ old = job[w].old
  OBVIOUS
<1>1. /\ job[w].pc = "unlink" /\ trie' = Remove(trie, old.pat, old) /\ Go(w, "insert")
      /\ UNCHANGED <<acc, sessions, lists, mail, shut, got, spent>>
  BY <1>a DEF SubUnlink, At
<1>2. /\ c \in Clients /\ Owner[c] = w /\ View(c) = job[w] /\ job[w] \in Jobs
      /\ ClientOk(c, job[w], st[c], ent[c], sub_count[c], Held(c))
  BY <1>1, <1>a, Actor
<1>3. ~Gap(job[w]) /\ ~Enters(job[w]) /\ ~Tears(job[w]) /\ Before(job[w])
  BY <1>1, Whole DEF Before
<1>4. /\ st[c] = "connected" /\ job[w].ref \in Ref /\ job[w].ref.c = c
      /\ old # NoRef /\ old.c = c /\ old.sid = job[w].ref.sid /\ old \in ent[c]
  BY <1>1, <1>2, <1>3, <1>a DEF ClientOk, StateOk, LocalsOk, SubPcs
<1>5. old \in Ref
  BY <1>2, <1>4, <1>a DEF Jobs
<1>6. /\ TrieInv' /\ Held(c)' = Held(c) \ {old}
      /\ \A d \in Clients \ {c} : Held(d)' = Held(d)
  BY <1>1, <1>4, <1>5, HeldRemove DEF IInv
<1>7. /\ Moves(w, job'[w]) /\ job'[w].pc = "insert" /\ job'[w].c = c
      /\ job'[w].ref = job[w].ref /\ job'[w].old = old
  BY <1>1, <1>a, GoMoves DEF IInv, Pcs, SubPcs
<1>8. st' = st /\ ent' = ent /\ sub_count' = sub_count
  BY <1>1 DEF sessions, lists
<1>9. ClientOk(c, job'[w], st'[c], ent'[c], sub_count'[c], Held(c)')
  <2>1. Gap(job'[w]) /\ ~Enters(job'[w]) /\ ~Tears(job'[w])
    BY <1>4, <1>7 DEF Gap, Enters, Tears
  <2>2. ListOk(c, job'[w], st[c], ent[c], sub_count[c], Held(c) \ {old})
    BY <1>2, <1>3, <1>7, <2>1 DEF ClientOk, ListOk
  <2>3. LocalsOk(c, job'[w], ent[c])
    BY <1>4, <1>7, <2>1 DEF LocalsOk, SubPcs
  <2>4. StateOk(job'[w], st[c])
    BY <1>4, <1>7 DEF StateOk, SubPcs
  <2> QED BY <1>6, <1>8, <2>2, <2>3, <2>4 DEF ClientOk
<1>10. OwnInv' /\ ClientsInv'
  BY <1>2, <1>6, <1>7, <1>8, <1>9, <1>a, Local
<1>11. TypeInv' /\ MailInv'
  BY <1>1, <1>7 DEF IInv, TypeInv, AccOk, MailInv, lists, sessions, BoxOk, Moves, Limit
<1> QED BY <1>6, <1>10, <1>11 DEF IInv

(* SUBSCRIBE puts its reference into the trie.                               *)
LEMMA SubInsertStep ==
    ASSUME IInv, NEW w \in Workers, SubInsert(w)
    PROVE  IInv'
<1>a. PICK c, old, ref : c = job[w].c /\ old = job[w].old /\ ref = job[w].ref
  OBVIOUS
<1> DEFINE E == (ent[c] \ {old}) \cup {ref}
<1>1. /\ job[w].pc = "insert" /\ trie' = Insert(trie, ref.pat, ref)
      /\ ent' = [ent EXCEPT ![c] = (@ \ {old}) \cup {ref}]
      /\ job' = [job EXCEPT ![w].pc = "nudge", ![w].next = "confirm"]
      /\ UNCHANGED <<acc, sessions, sub_count, mail, shut, got, spent>>
  BY <1>a DEF SubInsert, At
<1>2. /\ c \in Clients /\ Owner[c] = w /\ View(c) = job[w] /\ job[w] \in Jobs
      /\ ClientOk(c, job[w], st[c], ent[c], sub_count[c], Held(c))
  BY <1>1, <1>a, Actor
<1>3. /\ ~Enters(job[w]) /\ ~Tears(job[w]) /\ Before(job[w])
      /\ Gap(job[w]) <=> old # NoRef
  BY <1>1, <1>a DEF Before, Gap, Enters, Tears
<1>4. /\ st[c] = "connected" /\ ref \in Ref /\ ref.c = c
      /\ old # NoRef => old.c = c /\ old.sid = ref.sid /\ old \in ent[c]
      /\ old = NoRef => \A r \in ent[c] : r.sid # ref.sid
  BY <1>1, <1>2, <1>3, <1>a DEF ClientOk, StateOk, LocalsOk, SubPcs
<1>5. /\ ent \in [Clients -> SUBSET Ref] /\ NoRef \notin Ref /\ NoRef \notin ent[c]
  BY <1>2, IdleIs DEF IInv, TypeInv
<1>6. /\ ref \notin Registered(trie) /\ ref \notin ent[c] \ {old} /\ ref \notin Held(c)
      /\ \A r \in ent[c] \ {old} : r.sid # ref.sid
      /\ \A r \in ent[c] \ {old} : r \in Held(c)
      /\ \A r \in Held(c) : r \in ent[c] \ {old}
  BY <1>2, <1>3, <1>4, <1>5, <1>a DEF ClientOk, ListOk, Held
<1>7. /\ TrieInv' /\ Held(c)' = Held(c) \cup {ref}
      /\ \A d \in Clients \ {c} : Held(d)' = Held(d)
  BY <1>1, <1>4, <1>6, HeldInsert DEF IInv
<1>8. /\ Moves(w, job'[w]) /\ job'[w].pc = "nudge" /\ job'[w].c = c
      /\ job'[w].ref = ref /\ job'[w].old = old /\ job'[w].next = "confirm"
  BY <1>1, <1>a, NextMoves DEF IInv, Pcs, SubPcs
<1>9. /\ st' = st /\ sub_count' = sub_count /\ ent'[c] = E
      /\ \A d \in Clients \ {c} : ent'[d] = ent[d]
      /\ ent' \in [Clients -> SUBSET Ref]
  BY <1>1, <1>2, <1>4, <1>5 DEF sessions
<1>10. /\ IsFiniteSet(E) /\ Cardinality(ent[c]) = sub_count[c]
       /\ old = NoRef => Cardinality(E) = sub_count[c] + 1
       /\ old # NoRef => Cardinality(E) = sub_count[c]
  <2>1. IsFiniteSet(ent[c]) /\ Cardinality(ent[c]) = sub_count[c] /\ sub_count[c] \in Nat
    BY <1>2, <1>3 DEF ClientOk, ListOk, IInv, TypeInv
  <2>2. /\ IsFiniteSet(ent[c] \ {old})
        /\ Cardinality(ent[c] \ {old}) =
              IF old \in ent[c] THEN sub_count[c] - 1 ELSE sub_count[c]
    BY <2>1, FS_RemoveElement
  <2>3. IsFiniteSet(E) /\ Cardinality(E) = Cardinality(ent[c] \ {old}) + 1
    BY <1>6, <2>2, FS_AddElement
  <2> QED BY <1>4, <1>5, <2>1, <2>2, <2>3
<1>11. ClientOk(c, job'[w], st'[c], ent'[c], sub_count'[c], Held(c)')
  <2> HIDE DEF E
  <2>1. /\ ~Gap(job'[w]) /\ Enters(job'[w]) /\ ~Tears(job'[w])
        /\ ~Before(job'[w])
    BY <1>8 DEF Gap, Enters, Tears, Before
  <2>2. /\ \A r \in E : r.c = c /\ r \in Held(c) \cup {ref}
        /\ \A r, q \in E : r.sid = q.sid => r = q
        /\ \A r \in Held(c) \cup {ref} : r \in E
    BY <1>2, <1>4, <1>6 DEF E, ClientOk, ListOk
  <2>3. ListOk(c, job'[w], st[c], E, sub_count[c], Held(c) \cup {ref})
    BY <1>4, <1>8, <1>10, <2>1, <2>2 DEF ListOk
  <2>4. LocalsOk(c, job'[w], E)
    <3>1. ref \in E
      BY DEF E
    <3> QED BY <1>4, <1>8, <2>1, <3>1 DEF LocalsOk, SubPcs
  <2>5. StateOk(job'[w], st[c])
    BY <1>4, <1>8 DEF StateOk, SubPcs
  <2> QED BY <1>7, <1>9, <2>3, <2>4, <2>5 DEF ClientOk
<1>12. OwnInv' /\ ClientsInv'
  BY <1>2, <1>7, <1>8, <1>9, <1>11, <1>a, Local
<1>13. TypeInv' /\ MailInv'
  BY <1>1, <1>8, <1>9 DEF IInv, TypeInv, AccOk, MailInv, sessions, BoxOk, Moves, Limit
<1> QED BY <1>7, <1>12, <1>13 DEF IInv

(* The insert finds no memory.                                               *)
LEMMA SubInsertFailsStep ==
    ASSUME IInv, NEW w \in Workers, SubInsertFails(w)
    PROVE  IInv'
<1>a. PICK c, old, ref : c = job[w].c /\ old = job[w].old /\ ref = job[w].ref
  OBVIOUS
<1>1. /\ job[w].pc = "insert" /\ Spend("oom")
      /\ \E k \in 0 .. Len(ref.pat) : trie' = InsertFails(trie, ref.pat, k)
      /\ \/ old # NoRef /\ Go(w, "restore")
         \/ old = NoRef /\ job' = [job EXCEPT ![w].pc = "nudge", ![w].next = "idle"]
      /\ UNCHANGED <<acc, sessions, lists, mail, shut, got>>
  BY <1>a DEF SubInsertFails, At
<1>2. /\ c \in Clients /\ Owner[c] = w /\ View(c) = job[w]
      /\ ClientOk(c, job[w], st[c], ent[c], sub_count[c], Held(c))
  BY <1>1, <1>a, Actor
<1>3. /\ ~Enters(job[w]) /\ ~Tears(job[w]) /\ Before(job[w])
      /\ Gap(job[w]) <=> old # NoRef
  BY <1>1, <1>a DEF Before, Gap, Enters, Tears
<1>4. /\ st[c] = "connected" /\ ref \in Ref /\ ref.c = c
      /\ old # NoRef => old.c = c /\ old.sid = ref.sid /\ old \in ent[c]
      /\ old = NoRef => \A r \in ent[c] : r.sid # ref.sid
  BY <1>1, <1>2, <1>3, <1>a DEF ClientOk, StateOk, LocalsOk, SubPcs
<1>5. trie' = trie
  BY <1>1, <1>4, RefIs, FailTrie DEF IInv, TrieInv
<1>6. /\ Moves(w, job'[w]) /\ job'[w].c = c /\ job'[w].ref = ref /\ job'[w].old = old
      /\ \/ job'[w].pc = "restore" /\ old # NoRef
         \/ job'[w].pc = "nudge" /\ job'[w].next = "idle" /\ old = NoRef
  <2>1. CASE old # NoRef /\ Go(w, "restore")
    BY <1>a, <2>1, GoMoves DEF IInv, Pcs, SubPcs
  <2>2. CASE old = NoRef /\ job' = [job EXCEPT ![w].pc = "nudge", ![w].next = "idle"]
    BY <1>a, <2>2, NextMoves DEF IInv, Pcs, SubPcs
  <2> QED BY <1>1, <2>1, <2>2
<1>7. st' = st
  BY <1>1 DEF sessions
<1>8. ClientOk(c, job'[w], st'[c], ent[c], sub_count[c], Held(c))
  <2>1. /\ ~Enters(job'[w]) /\ ~Tears(job'[w]) /\ ~Before(job'[w])
        /\ Gap(job'[w]) <=> old # NoRef
    BY <1>6 DEF Gap, Enters, Tears, Before
  <2>2. ListOk(c, job'[w], st[c], ent[c], sub_count[c], Held(c))
    BY <1>2, <1>3, <1>6, <1>a, <2>1 DEF ClientOk, ListOk
  <2>3. LocalsOk(c, job'[w], ent[c])
    BY <1>4, <1>6, <2>1 DEF LocalsOk, SubPcs
  <2>4. StateOk(job'[w], st[c])
    BY <1>4, <1>6 DEF StateOk, SubPcs
  <2> QED BY <1>7, <2>2, <2>3, <2>4 DEF ClientOk
<1>9. OwnInv' /\ TrieInv' /\ ClientsInv'
  BY <1>1, <1>2, <1>5, <1>6, <1>7, <1>8, <1>a, Quiet
<1>10. spent' \in [DOMAIN Limit -> Nat]
  BY <1>1, SpendType, LimitIs DEF IInv
<1>11. TypeInv' /\ MailInv'
  BY <1>1, <1>6, <1>10 DEF IInv, TypeInv, AccOk, MailInv, lists, sessions, BoxOk, Moves, Limit
<1> QED BY <1>9, <1>11 DEF IInv

(* The replaced reference goes back into the trie.                           *)
LEMMA SubRestoreStep ==
    ASSUME IInv, NEW w \in Workers, SubRestore(w)
    PROVE  IInv'
<1>a. PICK c, old, ref : c = job[w].c /\ old = job[w].old /\ ref = job[w].ref
  OBVIOUS
<1>1. /\ job[w].pc = "restore" /\ trie' = Insert(trie, old.pat, old)
      /\ job' = [job EXCEPT ![w].pc = "nudge", ![w].next = "idle"]
      /\ UNCHANGED <<acc, sessions, lists, mail, shut, got, spent>>
  BY <1>a DEF SubRestore, At
<1>2. /\ c \in Clients /\ Owner[c] = w /\ View(c) = job[w] /\ job[w] \in Jobs
      /\ ClientOk(c, job[w], st[c], ent[c], sub_count[c], Held(c))
  BY <1>1, <1>a, Actor
<1>3. ~Enters(job[w]) /\ ~Tears(job[w]) /\ Gap(job[w])
  BY <1>1, <1>a DEF Gap, Enters, Tears
<1>4. /\ st[c] = "connected" /\ ref \in Ref /\ ref.c = c /\ old # NoRef
      /\ old.c = c /\ old.sid = ref.sid /\ old \in ent[c]
  BY <1>1, <1>2, <1>3, <1>a DEF ClientOk, StateOk, LocalsOk, SubPcs
<1>5. old \in Ref /\ old \notin Registered(trie)
  <2>1. old \in Ref /\ old \notin Held(c)
    BY <1>2, <1>3, <1>4, <1>a DEF Jobs, ClientOk, ListOk
  <2> QED BY <1>4, <2>1 DEF Held
<1>6. /\ TrieInv' /\ Held(c)' = Held(c) \cup {old}
      /\ \A d \in Clients \ {c} : Held(d)' = Held(d)
  BY <1>1, <1>4, <1>5, HeldInsert DEF IInv
<1>7. /\ Moves(w, job'[w]) /\ job'[w].pc = "nudge" /\ job'[w].c = c
      /\ job'[w].ref = ref /\ job'[w].old = old /\ job'[w].next = "idle"
  BY <1>1, <1>a, NextMoves DEF IInv, Pcs, SubPcs
<1>8. st' = st /\ ent' = ent /\ sub_count' = sub_count
  BY <1>1 DEF sessions, lists
<1>9. ClientOk(c, job'[w], st'[c], ent'[c], sub_count'[c], Held(c)')
  <2>1. /\ ~Gap(job'[w]) /\ ~Enters(job'[w]) /\ ~Tears(job'[w])
        /\ ~Before(job'[w])
    BY <1>7 DEF Gap, Enters, Tears, Before
  <2>2. ListOk(c, job'[w], st[c], ent[c], sub_count[c], Held(c) \cup {old})
    BY <1>2, <1>3, <1>4, <1>a, <2>1 DEF ClientOk, ListOk
  <2>3. LocalsOk(c, job'[w], ent[c])
    BY <1>4, <1>7, <2>1 DEF LocalsOk, SubPcs
  <2>4. StateOk(job'[w], st[c])
    BY <1>4, <1>7 DEF StateOk, SubPcs
  <2> QED BY <1>6, <1>8, <2>2, <2>3, <2>4 DEF ClientOk
<1>10. OwnInv' /\ ClientsInv'
  BY <1>2, <1>6, <1>7, <1>8, <1>9, <1>a, Local
<1>11. TypeInv' /\ MailInv'
  BY <1>1, <1>7 DEF IInv, TypeInv, AccOk, MailInv, lists, sessions, BoxOk, Moves, Limit
<1> QED BY <1>6, <1>10, <1>11 DEF IInv

(* It does not: no memory either.                                            *)
LEMMA SubRestoreFailsStep ==
    ASSUME IInv, NEW w \in Workers, SubRestoreFails(w)
    PROVE  IInv'
<1>a. PICK c, old, ref : c = job[w].c /\ old = job[w].old /\ ref = job[w].ref
  OBVIOUS
<1>1. /\ job[w].pc = "restore" /\ Spend("oom")
      /\ \E k \in 0 .. Len(old.pat) : trie' = InsertFails(trie, old.pat, k)
      /\ job' = [job EXCEPT ![w].pc = "nudge", ![w].next = "ghost"]
      /\ UNCHANGED <<acc, sessions, lists, mail, shut, got>>
  BY <1>a DEF SubRestoreFails, At
<1>2. /\ c \in Clients /\ Owner[c] = w /\ View(c) = job[w] /\ job[w] \in Jobs
      /\ ClientOk(c, job[w], st[c], ent[c], sub_count[c], Held(c))
  BY <1>1, <1>a, Actor
<1>3. ~Enters(job[w]) /\ ~Tears(job[w]) /\ Gap(job[w])
  BY <1>1, <1>a DEF Gap, Enters, Tears
<1>4. /\ st[c] = "connected" /\ ref \in Ref /\ ref.c = c /\ old # NoRef
      /\ old.c = c /\ old.sid = ref.sid /\ old \in ent[c]
  BY <1>1, <1>2, <1>3, <1>a DEF ClientOk, StateOk, LocalsOk, SubPcs
<1>5. trie' = trie
  <2>1. old \in Ref
    BY <1>2, <1>4, <1>a DEF Jobs
  <2> QED BY <1>1, <2>1, RefIs, FailTrie DEF IInv, TrieInv
<1>6. /\ Moves(w, job'[w]) /\ job'[w].pc = "nudge" /\ job'[w].c = c
      /\ job'[w].ref = ref /\ job'[w].old = old /\ job'[w].next = "ghost"
  BY <1>1, <1>a, NextMoves DEF IInv, Pcs, SubPcs
<1>7. st' = st
  BY <1>1 DEF sessions
<1>8. ClientOk(c, job'[w], st'[c], ent[c], sub_count[c], Held(c))
  <2>1. /\ Gap(job'[w]) /\ ~Enters(job'[w]) /\ ~Tears(job'[w])
        /\ ~Before(job'[w])
    BY <1>6 DEF Gap, Enters, Tears, Before
  <2>2. ListOk(c, job'[w], st[c], ent[c], sub_count[c], Held(c))
    BY <1>2, <1>3, <1>6, <1>a, <2>1 DEF ClientOk, ListOk
  <2>3. LocalsOk(c, job'[w], ent[c])
    BY <1>4, <1>6, <2>1 DEF LocalsOk, SubPcs
  <2>4. StateOk(job'[w], st[c])
    BY <1>4, <1>6 DEF StateOk, SubPcs
  <2> QED BY <1>7, <2>2, <2>3, <2>4 DEF ClientOk
<1>9. OwnInv' /\ TrieInv' /\ ClientsInv'
  BY <1>1, <1>2, <1>5, <1>6, <1>7, <1>8, <1>a, Quiet
<1>10. spent' \in [DOMAIN Limit -> Nat]
  BY <1>1, SpendType, LimitIs DEF IInv
<1>11. TypeInv' /\ MailInv'
  BY <1>1, <1>6, <1>10 DEF IInv, TypeInv, AccOk, MailInv, lists, sessions, BoxOk, Moves, Limit
<1> QED BY <1>9, <1>11 DEF IInv

(* A list that is one shorter.                                               *)
LEMMA OneLess ==
    ASSUME NEW E, IsFiniteSet(E), NEW r \in E, NEW n \in Nat, Cardinality(E) = n
    PROVE  /\ IsFiniteSet(E \ {r}) /\ n > 0
           /\ Cardinality(E \ {r}) = IF n > 0 THEN n - 1 ELSE n
<1>1. IsFiniteSet(E \ {r}) /\ Cardinality(E \ {r}) = n - 1
  BY FS_RemoveElement
<1>2. Cardinality(E \ {r}) \in Nat
  BY <1>1, FS_CardinalityType
<1> QED BY <1>1, <1>2

(* The reference that could not be restored leaves the list.                 *)
LEMMA SubGhostStep ==
    ASSUME IInv, NEW w \in Workers, SubGhost(w)
    PROVE  IInv'
<1>a. PICK c, old, ref : c = job[w].c /\ old = job[w].old /\ ref = job[w].ref
  OBVIOUS
<1>1. /\ job[w].pc = "ghost"
      /\ ent' = [ent EXCEPT ![c] = @ \ {old}]
      /\ sub_count' = [sub_count EXCEPT ![c] = IF @ > 0 THEN @ - 1 ELSE @]
      /\ shut' = shut \cup {c} /\ Closing(w, c)
      /\ UNCHANGED <<trie, acc, ep, active, mail, got, spent>>
  BY <1>a DEF SubGhost, At
<1>2. /\ c \in Clients /\ Owner[c] = w /\ View(c) = job[w] /\ job[w] \in Jobs
      /\ ClientOk(c, job[w], st[c], ent[c], sub_count[c], Held(c))
  BY <1>1, <1>a, Actor
<1>3. ~Enters(job[w]) /\ ~Tears(job[w]) /\ Gap(job[w])
  BY <1>1, <1>a DEF Gap, Enters, Tears
<1>4. old \in ent[c]
  BY <1>1, <1>2, <1>3, <1>a DEF ClientOk, LocalsOk
<1>5. IsFiniteSet(ent[c]) /\ Cardinality(ent[c]) = sub_count[c] /\ sub_count[c] \in Nat
  BY <1>2, <1>3 DEF ClientOk, ListOk, IInv, TypeInv
<1>6. /\ ent' \in [Clients -> SUBSET Ref] /\ sub_count' \in [Clients -> Nat]
      /\ ent'[c] = ent[c] \ {old}
      /\ sub_count'[c] = IF sub_count[c] > 0 THEN sub_count[c] - 1 ELSE sub_count[c]
      /\ \A d \in Clients \ {c} : ent'[d] = ent[d] /\ sub_count'[d] = sub_count[d]
  BY <1>1, <1>2 DEF IInv, TypeInv
<1>7. IsFiniteSet(ent'[c]) /\ Cardinality(ent'[c]) = sub_count'[c]
  BY <1>4, <1>5, <1>6, OneLess
<1>8. /\ Moves(w, Job("finish", c)) /\ st' \in [Clients -> States]
      /\ st'[c] = "closing" /\ \A d \in Clients \ {c} : st'[d] = st[d]
  BY <1>1, <1>2, ClosingMoves DEF IInv
<1>9. Job("finish", c).c = c /\ Job("finish", c).pc = "finish"
  <2>1. "finish" \in Pcs
    BY DEF Pcs
  <2> QED BY <1>2, <2>1, JobIs
<1>10. \A d : Held(d)' = Held(d)
  BY <1>1 DEF Held
<1>11. ClientOk(c, Job("finish", c), st'[c], ent'[c], sub_count'[c], Held(c)')
  <2> DEFINE j == Job("finish", c)
  <2>1. j.pc = "finish"
    BY <1>9
  <2> HIDE DEF j
  <2>2. ~Gap(j) /\ ~Enters(j) /\ ~Tears(j) /\ ~Before(j)
    BY <2>1 DEF Gap, Enters, Tears, Before
  <2>3. ListOk(c, j, "closing", ent'[c], sub_count'[c], Held(c))
    BY <1>2, <1>3, <1>6, <1>7, <1>a, <2>2 DEF ClientOk, ListOk
  <2>4. LocalsOk(c, j, ent'[c])
    BY <2>1, <2>2 DEF LocalsOk, SubPcs
  <2>5. StateOk(j, "closing")
    BY <2>1 DEF StateOk, SubPcs
  <2> QED BY <1>8, <1>10, <2>3, <2>4, <2>5 DEF ClientOk, j
<1>12. OwnInv' /\ ClientsInv'
  BY <1>2, <1>6, <1>8, <1>9, <1>10, <1>11, <1>a, Local
<1>13. TrieInv'
  BY <1>1 DEF IInv, TrieInv
<1>14. TypeInv' /\ MailInv'
  BY <1>1, <1>2, <1>6, <1>8 DEF IInv, TypeInv, MailInv, Moves
<1> QED BY <1>12, <1>13, <1>14 DEF IInv

(* SUBSCRIBE counts its entry and looks at the epoch once more.              *)
LEMMA SubConfirmStep ==
    ASSUME IInv, NEW w \in Workers, SubConfirm(w)
    PROVE  IInv'
<1>a. PICK c, old, ref : c = job[w].c /\ old = job[w].old /\ ref = job[w].ref
  OBVIOUS
<1>1. /\ job[w].pc = "confirm"
      /\ sub_count' = [sub_count EXCEPT ![c] = IF old = NoRef THEN @ + 1 ELSE @]
      /\ Done(w) \/ Go(w, "undo")
      /\ UNCHANGED <<trie, acc, sessions, ent, mail, shut, got, spent>>
  BY <1>a DEF SubConfirm, At
<1>2. /\ c \in Clients /\ Owner[c] = w /\ View(c) = job[w] /\ job[w] \in Jobs
      /\ ClientOk(c, job[w], st[c], ent[c], sub_count[c], Held(c))
  BY <1>1, <1>a, Actor
<1>3. Enters(job[w]) /\ ~Tears(job[w]) /\ ~Gap(job[w])
  BY <1>1, <1>a DEF Gap, Enters, Tears
<1>4. /\ st[c] = "connected" /\ ref \in Ref /\ ref.c = c /\ ref \in ent[c]
      /\ old = NoRef \/ (old.c = c /\ old.sid = ref.sid)
  BY <1>1, <1>2, <1>3, <1>a DEF ClientOk, StateOk, LocalsOk, SubPcs
<1>5. /\ sub_count' \in [Clients -> Nat]
      /\ sub_count'[c] = IF old = NoRef THEN sub_count[c] + 1 ELSE sub_count[c]
      /\ \A d \in Clients \ {c} : sub_count'[d] = sub_count[d]
  BY <1>1, <1>2 DEF IInv, TypeInv
<1>6. Cardinality(ent[c]) = sub_count'[c]
  BY <1>2, <1>3, <1>5, <1>a DEF ClientOk, ListOk
<1>7. PICK j : /\ Moves(w, j)
               /\ j = Idle \/ (j.c = c /\ j.pc = "undo")
               /\ j.pc \in {"idle", "undo"}
               /\ j.pc = "undo" => j.ref = ref /\ j.old = old
  <2>1. CASE Done(w)
    BY <2>1, DoneMoves, IdleIs DEF IInv
  <2>2. CASE Go(w, "undo")
    <3>1. "undo" \in Pcs
      BY DEF Pcs, SubPcs
    <3> QED BY <1>a, <2>2, <3>1, GoMoves DEF IInv
  <2> QED BY <1>1, <2>1, <2>2
<1>8. st' = st /\ ent' = ent /\ \A d : Held(d)' = Held(d)
  BY <1>1 DEF sessions, Held
<1>9. ClientOk(c, j, st'[c], ent'[c], sub_count'[c], Held(c)')
  <2>1. ~Gap(j) /\ ~Enters(j) /\ ~Tears(j) /\ ~Before(j)
    BY <1>7 DEF Gap, Enters, Tears, Before
  <2>2. ListOk(c, j, st[c], ent[c], sub_count'[c], Held(c))
    BY <1>2, <1>3, <1>6, <2>1 DEF ClientOk, ListOk
  <2>3. LocalsOk(c, j, ent[c])
    BY <1>4, <1>7, <2>1 DEF LocalsOk, SubPcs
  <2>4. StateOk(j, st[c])
    BY <1>4, <1>7 DEF StateOk, SubPcs
  <2> QED BY <1>8, <2>2, <2>3, <2>4 DEF ClientOk
<1>10. OwnInv' /\ ClientsInv'
  BY <1>2, <1>5, <1>7, <1>8, <1>9, <1>a, Local
<1>11. TrieInv'
  BY <1>1 DEF IInv, TrieInv
<1>12. TypeInv' /\ MailInv'
  BY <1>1, <1>5, <1>7 DEF IInv, TypeInv, AccOk, MailInv, sessions, BoxOk, Moves, Limit
<1> QED BY <1>10, <1>11, <1>12 DEF IInv

(* A reference of c leaves the trie, the list and the count together.        *)
LEMMA DropOne ==
    ASSUME IInv, NEW c \in Clients, NEW r \in ent[c], NEW v,
           ClientOk(c, v, st[c], ent[c], sub_count[c], Held(c)),
           ~Gap(v), ~Enters(v), ~Tears(v),
           trie' = Remove(trie, r.pat, r),
           ent' = [ent EXCEPT ![c] = @ \ {r}],
           sub_count' = [sub_count EXCEPT ![c] = IF @ > 0 THEN @ - 1 ELSE @]
    PROVE  /\ TrieInv' /\ r \in Ref /\ r.c = c /\ r \notin ent'[c]
           /\ \A d \in Clients \ {c} : /\ Held(d)' = Held(d) /\ ent'[d] = ent[d]
                                       /\ sub_count'[d] = sub_count[d]
           /\ ent' \in [Clients -> SUBSET Ref] /\ sub_count' \in [Clients -> Nat]
           /\ \A u, z : /\ ~Gap(u) /\ ~Enters(u) /\ ~Tears(u)
                        /\ z \in {"connected", "closing"}
                        => ListOk(c, u, z, ent'[c], sub_count'[c], Held(c)')
<1>1. r \in Ref /\ r.c = c
  BY DEF IInv, TypeInv, ClientOk, ListOk
<1>2. IsFiniteSet(ent[c]) /\ Cardinality(ent[c]) = sub_count[c] /\ sub_count[c] \in Nat
  BY DEF ClientOk, ListOk, IInv, TypeInv
<1>3. /\ ent' \in [Clients -> SUBSET Ref] /\ sub_count' \in [Clients -> Nat]
      /\ ent'[c] = ent[c] \ {r}
      /\ sub_count'[c] = IF sub_count[c] > 0 THEN sub_count[c] - 1 ELSE sub_count[c]
      /\ \A d \in Clients \ {c} : ent'[d] = ent[d] /\ sub_count'[d] = sub_count[d]
  BY DEF IInv, TypeInv
<1>4. IsFiniteSet(ent'[c]) /\ Cardinality(ent'[c]) = sub_count'[c]
  BY <1>2, <1>3, OneLess
<1>5. /\ TrieInv' /\ Held(c)' = Held(c) \ {r}
      /\ \A d \in Clients \ {c} : Held(d)' = Held(d)
  BY <1>1, HeldRemove DEF IInv
<1>6. ASSUME NEW u, NEW z, ~Gap(u), ~Enters(u), ~Tears(u), z \in {"connected", "closing"}
      PROVE  ListOk(c, u, z, ent'[c], sub_count'[c], Held(c)')
  <2>1. ListOk(c, u, z, ent[c] \ {r}, sub_count'[c], Held(c) \ {r})
    BY <1>3, <1>4, <1>6 DEF ClientOk, ListOk
  <2> QED BY <1>3, <1>5, <2>1
<1> QED BY <1>1, <1>3, <1>5, <1>6

(* The account died meanwhile: trie, list and count are taken back.          *)
LEMMA SubUndoStep ==
    ASSUME IInv, NEW w \in Workers, SubUndo(w)
    PROVE  IInv'
<1>a. PICK c, ref : c = job[w].c /\ ref = job[w].ref
  OBVIOUS
<1>1. /\ job[w].pc = "undo" /\ trie' = Remove(trie, ref.pat, ref)
      /\ ent' = [ent EXCEPT ![c] = @ \ {ref}]
      /\ sub_count' = [sub_count EXCEPT ![c] = IF @ > 0 THEN @ - 1 ELSE @]
      /\ Closing(w, c)
      /\ UNCHANGED <<acc, ep, active, mail, shut, got, spent>>
  BY <1>a DEF SubUndo, At
<1>2. /\ c \in Clients /\ Owner[c] = w /\ View(c) = job[w] /\ job[w] \in Jobs
      /\ ClientOk(c, job[w], st[c], ent[c], sub_count[c], Held(c))
  BY <1>1, <1>a, Actor
<1>3. ~Enters(job[w]) /\ ~Tears(job[w]) /\ ~Gap(job[w])
  BY <1>1, Whole
<1>4. ref \in ent[c]
  BY <1>1, <1>2, <1>a DEF ClientOk, LocalsOk
<1> DEFINE j == Job("finish", c)
<1>5. /\ Moves(w, j) /\ st' \in [Clients -> States]
      /\ st'[c] = "closing" /\ \A d \in Clients \ {c} : st'[d] = st[d]
  BY <1>1, <1>2, ClosingMoves DEF IInv
<1>6. j.c = c /\ j.pc = "finish"
  <2>1. "finish" \in Pcs
    BY DEF Pcs
  <2> QED BY <1>2, <2>1, JobIs
<1> HIDE DEF j
<1>7. ~Gap(j) /\ ~Enters(j) /\ ~Tears(j) /\ ~Before(j)
  BY <1>6 DEF Gap, Enters, Tears, Before
<1>8. /\ TrieInv' /\ ent' \in [Clients -> SUBSET Ref] /\ sub_count' \in [Clients -> Nat]
      /\ \A d \in Clients \ {c} : /\ Held(d)' = Held(d) /\ ent'[d] = ent[d]
                                  /\ sub_count'[d] = sub_count[d]
      /\ ListOk(c, j, "closing", ent'[c], sub_count'[c], Held(c)')
  BY <1>1, <1>2, <1>3, <1>4, <1>7, DropOne
<1>9. ClientOk(c, j, st'[c], ent'[c], sub_count'[c], Held(c)')
  <2>1. LocalsOk(c, j, ent'[c])
    BY <1>6, <1>7 DEF LocalsOk, SubPcs
  <2>2. StateOk(j, "closing")
    BY <1>6 DEF StateOk, SubPcs
  <2> QED BY <1>5, <1>8, <2>1, <2>2 DEF ClientOk
<1>10. OwnInv' /\ ClientsInv'
  BY <1>2, <1>5, <1>6, <1>8, <1>9, <1>a, Local
<1>11. TypeInv' /\ MailInv'
  BY <1>1, <1>2, <1>5, <1>8 DEF IInv, TypeInv, MailInv, Moves
<1> QED BY <1>8, <1>10, <1>11 DEF IInv

(* UNSUBSCRIBE takes its reference off the trie and the list.                *)
LEMMA UnsubscribeStep ==
    ASSUME IInv, NEW w \in Workers, NEW c \in Clients, NEW r \in ent[c],
           Unsubscribe(w, c, r)
    PROVE  IInv'
<1>1. /\ Owner[c] = w /\ st[c] = "connected" /\ job[w] = Idle
      /\ trie' = Remove(trie, r.pat, r)
      /\ ent' = [ent EXCEPT ![c] = @ \ {r}]
      /\ sub_count' = [sub_count EXCEPT ![c] = IF @ > 0 THEN @ - 1 ELSE @]
      /\ UNCHANGED <<acc, sessions, mail, job, shut, got, spent>>
  BY DEF Unsubscribe, Mine
<1>2. ClientOk(c, Idle, st[c], ent[c], sub_count[c], Held(c))
  BY <1>1, Rests
<1>3. ~Enters(Idle) /\ ~Tears(Idle) /\ ~Gap(Idle)
  BY IdleIs, Whole
<1>4. Moves(w, Idle)
  BY <1>1 DEF IInv, TypeInv, Moves
<1>5. /\ TrieInv' /\ ent' \in [Clients -> SUBSET Ref] /\ sub_count' \in [Clients -> Nat]
      /\ \A d \in Clients \ {c} : /\ Held(d)' = Held(d) /\ ent'[d] = ent[d]
                                  /\ sub_count'[d] = sub_count[d]
      /\ ListOk(c, Idle, "connected", ent'[c], sub_count'[c], Held(c)')
  BY <1>1, <1>2, <1>3, DropOne
<1>6. st' = st
  BY <1>1 DEF sessions
<1>7. ClientOk(c, Idle, st'[c], ent'[c], sub_count'[c], Held(c)')
  <2>1. ~Before(Idle)
    BY IdleIs DEF Before
  <2>2. LocalsOk(c, Idle, ent'[c])
    BY <1>3, <2>1, IdleIs DEF LocalsOk, SubPcs
  <2>3. StateOk(Idle, "connected")
    BY IdleIs DEF StateOk, SubPcs
  <2> QED BY <1>1, <1>5, <1>6, <2>2, <2>3 DEF ClientOk
<1>8. OwnInv' /\ ClientsInv'
  BY <1>1, <1>4, <1>5, <1>6, <1>7, Local
<1>9. TypeInv' /\ MailInv'
  BY <1>1, <1>5 DEF IInv, TypeInv, AccOk, MailInv, sessions, BoxOk, Limit
<1> QED BY <1>5, <1>8, <1>9 DEF IInv

-----------------------------------------------------------------------------
(* client_teardown.                                                          *)

(* The list moves to the handler.                                            *)
LEMMA TearEnterStep ==
    ASSUME IInv, NEW w \in Workers, TearEnter(w)
    PROVE  IInv'
<1>a. PICK c, E : c = job[w].c /\ E = ent[c]
  OBVIOUS
<1>1. /\ job[w].pc = "teardown" /\ st' = [st EXCEPT ![c] = "closed"]
      /\ job' = [job EXCEPT ![w].pc = "tear", ![w].refs = E]
      /\ ent' = [ent EXCEPT ![c] = {}] /\ sub_count' = [sub_count EXCEPT ![c] = 0]
      /\ UNCHANGED <<trie, acc, ep, active, mail, shut, got, spent>>
  BY <1>a DEF TearEnter, At
<1>2. /\ c \in Clients /\ Owner[c] = w /\ View(c) = job[w] /\ job[w] \in Jobs
      /\ ClientOk(c, job[w], st[c], ent[c], sub_count[c], Held(c))
  BY <1>1, <1>a, Actor
<1>3. ~Enters(job[w]) /\ ~Tears(job[w]) /\ ~Gap(job[w])
  BY <1>1, Whole
<1>4. E \subseteq Ref /\ (\A r \in E : r.c = c) /\ (\A r \in Held(c) : r \in E)
  BY <1>2, <1>3, <1>a DEF ClientOk, ListOk, IInv, TypeInv
<1>5. /\ Moves(w, job'[w]) /\ job'[w].pc = "tear" /\ job'[w].c = c /\ job'[w].refs = E
  <2>1. "tear" \in Pcs /\ job \in [Workers -> Jobs]
    BY DEF Pcs, IInv, TypeInv
  <2>2. /\ job'[w].pc = "tear" /\ job'[w].c = c /\ job'[w].refs = E
        /\ job'[w] \in Jobs
    BY <1>1, <1>4, <1>a, <2>1 DEF Jobs
  <2>3. job' \in [Workers -> Jobs] /\ \A x \in Workers \ {w} : job'[x] = job[x]
    <3>1. DOMAIN job' = Workers /\ job' = [x \in Workers |-> job'[x]]
      BY <1>1, <2>1
    <3>2. \A x \in Workers \ {w} : job'[x] = job[x]
      BY <1>1, <2>1
    <3> QED BY <2>1, <2>2, <3>1, <3>2
  <2> QED BY <2>2, <2>3 DEF Moves
<1>6. /\ st' \in [Clients -> States] /\ ent' \in [Clients -> SUBSET Ref]
      /\ sub_count' \in [Clients -> Nat]
      /\ st'[c] = "closed" /\ ent'[c] = {} /\ sub_count'[c] = 0
      /\ \A d \in Clients \ {c} : /\ st'[d] = st[d] /\ ent'[d] = ent[d]
                                  /\ sub_count'[d] = sub_count[d]
  BY <1>1, <1>2 DEF IInv, TypeInv, States
<1>7. \A d : Held(d)' = Held(d)
  BY <1>1 DEF Held
<1>8. ClientOk(c, job'[w], st'[c], ent'[c], sub_count'[c], Held(c)')
  <2>1. /\ ~Gap(job'[w]) /\ ~Enters(job'[w]) /\ Tears(job'[w])
        /\ ~Before(job'[w])
    BY <1>5 DEF Gap, Enters, Tears, Before
  <2>2. IsFiniteSet({}) /\ Cardinality({}) = 0
    BY FS_EmptySet
  <2>3. ListOk(c, job'[w], "closed", {}, 0, Held(c))
    BY <1>4, <1>5, <2>1, <2>2 DEF ListOk
  <2>4. LocalsOk(c, job'[w], {})
    BY <1>4, <1>5, <2>1 DEF LocalsOk, SubPcs
  <2>5. StateOk(job'[w], "closed")
    BY <1>5 DEF StateOk, SubPcs
  <2> QED BY <1>6, <1>7, <2>3, <2>4, <2>5 DEF ClientOk
<1>9. OwnInv' /\ ClientsInv'
  BY <1>2, <1>5, <1>6, <1>7, <1>8, <1>a, Local
<1>10. TrieInv'
  BY <1>1 DEF IInv, TrieInv
<1>11. TypeInv' /\ MailInv'
  BY <1>1, <1>5, <1>6 DEF IInv, TypeInv, AccOk, MailInv, BoxOk, Moves, Limit
<1> QED BY <1>9, <1>10, <1>11 DEF IInv

(* A worker whose job is a job, when the others keep theirs.                 *)
LEMMA OneMoves ==
    ASSUME TypeInv, NEW w \in Workers, DOMAIN job' = Workers,
           job' = [x \in Workers |-> job'[x]], job'[w] \in Jobs,
           \A x \in Workers \ {w} : job'[x] = job[x]
    PROVE  Moves(w, job'[w])
<1>1. job' \in [Workers -> Jobs]
  BY DEF TypeInv
<1> QED BY <1>1 DEF Moves

(* Teardown takes one reference out of the trie.                             *)
LEMMA TearSubStep ==
    ASSUME IInv, NEW w \in Workers, TearSub(w)
    PROVE  IInv'
<1>a. PICK c, refs : c = job[w].c /\ refs = job[w].refs
  OBVIOUS
<1>1. PICK r \in refs : /\ job[w].pc = "tear" /\ trie' = Remove(trie, r.pat, r)
                        /\ job' = [job EXCEPT ![w].refs = refs \ {r}]
                        /\ UNCHANGED <<acc, sessions, lists, mail, shut, got, spent>>
  BY <1>a DEF TearSub, At
<1>2. /\ c \in Clients /\ Owner[c] = w /\ View(c) = job[w] /\ job[w] \in Jobs
      /\ ClientOk(c, job[w], st[c], ent[c], sub_count[c], Held(c))
  BY <1>1, <1>a, Actor
<1>3. ~Enters(job[w]) /\ Tears(job[w]) /\ ~Gap(job[w])
  BY <1>1 DEF Gap, Enters, Tears
<1>4. /\ st[c] = "closed" /\ ent[c] = {} /\ r \in Ref /\ r.c = c /\ refs \subseteq Ref
      /\ \A q \in refs : q.c = c
      /\ \A q \in Held(c) : q \in refs
  BY <1>1, <1>2, <1>3, <1>a DEF ClientOk, StateOk, LocalsOk, ListOk, Jobs
<1>5. /\ TrieInv' /\ Held(c)' = Held(c) \ {r}
      /\ \A d \in Clients \ {c} : Held(d)' = Held(d)
  BY <1>1, <1>4, HeldRemove DEF IInv
<1>6. /\ Moves(w, job'[w]) /\ job'[w].pc = "tear" /\ job'[w].c = c
      /\ job'[w].refs = refs \ {r}
  <2>1. refs \ {r} \in SUBSET Ref /\ TypeInv
    BY <1>4 DEF IInv
  <2> QED BY <1>1, <1>a, <2>1, DropMoves
<1>7. st' = st /\ ent' = ent /\ sub_count' = sub_count
  BY <1>1 DEF sessions, lists
<1>8. ClientOk(c, job'[w], st'[c], ent'[c], sub_count'[c], Held(c)')
  <2>1. /\ ~Gap(job'[w]) /\ ~Enters(job'[w]) /\ Tears(job'[w])
        /\ ~Before(job'[w])
    BY <1>6 DEF Gap, Enters, Tears, Before
  <2>2. IsFiniteSet(ent[c]) /\ Cardinality(ent[c]) = sub_count[c]
    BY <1>2, <1>3 DEF ClientOk, ListOk
  <2>3. ListOk(c, job'[w], st[c], ent[c], sub_count[c], Held(c) \ {r})
    BY <1>4, <1>6, <2>1, <2>2 DEF ListOk
  <2>4. LocalsOk(c, job'[w], ent[c])
    BY <1>4, <1>6, <2>1 DEF LocalsOk, SubPcs
  <2>5. StateOk(job'[w], st[c])
    BY <1>4, <1>6 DEF StateOk, SubPcs
  <2> QED BY <1>5, <1>7, <2>3, <2>4, <2>5 DEF ClientOk
<1>9. OwnInv' /\ ClientsInv'
  BY <1>2, <1>5, <1>6, <1>7, <1>8, <1>a, Local
<1>10. TypeInv' /\ MailInv'
  BY <1>1, <1>6 DEF IInv, TypeInv, AccOk, MailInv, lists, sessions, BoxOk, Moves, Limit
<1> QED BY <1>5, <1>9, <1>10 DEF IInv

(* Teardown purges the mail and frees the slot.                              *)
LEMMA TearReleaseStep ==
    ASSUME IInv, NEW w \in Workers, TearRelease(w)
    PROVE  IInv'
<1>a. PICK c : c = job[w].c
  OBVIOUS
<1>1. /\ job[w].pc = "tear" /\ job[w].refs = {} /\ st' = [st EXCEPT ![c] = "gone"]
      /\ Purge(w, c, mail[w]) /\ active' = active - 1
      /\ shut' = shut \ {c} /\ Done(w)
      /\ UNCHANGED <<trie, acc, ep, lists, got, spent>>
  BY <1>a DEF TearRelease, At
<1>2. /\ c \in Clients /\ Owner[c] = w /\ View(c) = job[w] /\ job[w] \in Jobs
      /\ ClientOk(c, job[w], st[c], ent[c], sub_count[c], Held(c))
  BY <1>1, <1>a, Actor
<1>3. ~Enters(job[w]) /\ Tears(job[w]) /\ ~Gap(job[w])
  BY <1>1 DEF Gap, Enters, Tears
<1>4. st[c] = "closed" /\ ent[c] = {} /\ Held(c) = {}
  BY <1>1, <1>2, <1>3 DEF ClientOk, StateOk, LocalsOk, ListOk
<1>5. Moves(w, Idle)
  BY <1>1, DoneMoves DEF IInv
<1>6. /\ st' \in [Clients -> States] /\ st'[c] = "gone"
      /\ \A d \in Clients \ {c} : st'[d] = st[d]
  BY <1>1, <1>2 DEF IInv, TypeInv, States
<1>7. ent' = ent /\ sub_count' = sub_count /\ \A d : Held(d)' = Held(d)
  BY <1>1 DEF lists, Held
<1>8. ClientOk(c, Idle, st'[c], ent[c], sub_count[c], Held(c))
  <2>1. ~Gap(Idle) /\ ~Enters(Idle) /\ ~Tears(Idle) /\ ~Before(Idle)
    BY IdleIs DEF Gap, Enters, Tears, Before
  <2>2. ListOk(c, Idle, "gone", ent[c], sub_count[c], Held(c))
    BY <1>2, <1>3, <1>4, <2>1 DEF ClientOk, ListOk
  <2>3. LocalsOk(c, Idle, ent[c])
    BY <2>1, IdleIs DEF LocalsOk, SubPcs
  <2>4. StateOk(Idle, "gone")
    BY IdleIs DEF StateOk, SubPcs
  <2> QED BY <1>6, <2>2, <2>3, <2>4 DEF ClientOk
<1>9. OwnInv' /\ TrieInv' /\ ClientsInv'
  BY <1>1, <1>2, <1>5, <1>6, <1>8, <1>a, Quiet
<1>10. BoxOk(mail')
  <2>1. BoxOk(mail) /\ mail[w] \in Seq(Letter)
    BY DEF IInv, MailInv, BoxOk
  <2> QED BY <1>1, <2>1, PurgeBox DEF BoxOk
<1>11. TypeInv' /\ MailInv'
  BY <1>1, <1>5, <1>6, <1>7, <1>10 DEF IInv, TypeInv, MailInv, Moves
<1> QED BY <1>9, <1>11 DEF IInv

-----------------------------------------------------------------------------
(* The invariant.                                                            *)

LEMMA InitOk == Init => IInv
<1> SUFFICES ASSUME Init PROVE IInv
  OBVIOUS
<1>1. /\ trie = EmptyTrie /\ st = [c \in Clients |-> "none"]
      /\ acc = [active |-> TRUE, epoch |-> 1]
      /\ ent = [c \in Clients |-> {}] /\ sub_count = [c \in Clients |-> 0]
      /\ mail = [w \in Workers |-> <<>>] /\ job = [w \in Workers |-> Idle]
  BY DEF Init, Fresh
<1>2. TypeInv
  <2>1. AccOk(acc) /\ st \in [Clients -> States] /\ job \in [Workers -> Jobs]
    BY <1>1, IdleIs DEF AccOk, States
  <2> QED BY <2>1 DEF Init, Fresh, TypeInv
<1>3. MailInv
  <2>1. \A w \in Workers : mail[w] = <<>> /\ DOMAIN mail[w] = {}
    BY <1>1
  <2> QED BY <1>1, <2>1 DEF MailInv, BoxOk
<1>4. OwnInv
  BY <1>1 DEF OwnInv
<1>5. TrieInv /\ Registered(trie) = {}
  BY <1>1, EmptyOk DEF TrieInv
<1>6. ASSUME NEW c \in Clients
      PROVE  ClientOk(c, View(c), st[c], ent[c], sub_count[c], Held(c))
  <2>1. View(c) = Idle /\ st[c] = "none" /\ ent[c] = {} /\ sub_count[c] = 0 /\ Held(c) = {}
    BY <1>1, <1>5, SubscriptionsAssumption DEF View, Held
  <2>2. ~Gap(Idle) /\ ~Enters(Idle) /\ ~Tears(Idle) /\ ~Before(Idle)
    BY IdleIs DEF Gap, Enters, Tears, Before
  <2>3. IsFiniteSet({}) /\ Cardinality({}) = 0
    BY FS_EmptySet
  <2>4. ListOk(c, Idle, "none", {}, 0, {})
    BY <2>2, <2>3 DEF ListOk
  <2>5. LocalsOk(c, Idle, {})
    BY <2>2, IdleIs DEF LocalsOk, SubPcs
  <2>6. StateOk(Idle, "none")
    BY IdleIs DEF StateOk, SubPcs
  <2> QED BY <2>1, <2>4, <2>5, <2>6 DEF ClientOk
<1> QED BY <1>2, <1>3, <1>4, <1>5, <1>6 DEF IInv, ClientsInv

(* Every step of the server keeps the invariant.                             *)
LEMMA StepOk ==
    ASSUME IInv, Step
    PROVE  IInv'
<1>1. ASSUME NEW w \in Workers, Handler(w) PROVE IInv'
  <2>1. CASE ConnectCredit(w) \/ ConnectLive(w) \/ Welcome(w)
    BY <2>1, ConnectCreditStep, ConnectLiveStep, WelcomeStep
  <2>2. CASE \/ SubClaim(w) \/ SubCredit(w) \/ SubRecheck(w) \/ SubUnlink(w)
             \/ SubInsert(w) \/ SubInsertFails(w) \/ SubRestore(w) \/ SubRestoreFails(w)
    BY <2>2, SubClaimStep, SubCreditStep, SubRecheckStep, SubUnlinkStep, SubInsertStep,
       SubInsertFailsStep, SubRestoreStep, SubRestoreFailsStep
  <2>3. CASE SubNudge(w) \/ SubGhost(w) \/ SubConfirm(w) \/ SubUndo(w)
    BY <2>3, SubNudgeStep, SubGhostStep, SubConfirmStep, SubUndoStep
  <2>4. CASE \/ PubSnapshot(w) \/ PubNoMemory(w) \/ PubGo(w) \/ PubFan(w) \/ SendHere(w)
             \/ PubDone(w) \/ MailWrite(w)
    BY <2>4, PubSnapshotStep, PubNoMemoryStep, PubGoStep, PubFanStep, SendHereStep,
       PubDoneStep, MailWriteStep
  <2>5. CASE Finish(w) \/ FinishLater(w)
    BY <2>5, FinishStep
  <2>6. CASE TearEnter(w) \/ TearSub(w) \/ TearRelease(w)
    BY <2>6, TearEnterStep, TearSubStep, TearReleaseStep
  <2> QED BY <1>1, <2>1, <2>2, <2>3, <2>4, <2>5, <2>6 DEF Handler
<1>2. ASSUME NEW w \in Workers, NEW c \in Clients, Frame(w, c) PROVE IInv'
  <2>1. CASE Connect(w, c) \/ Denied(w, c) \/ Disconnect(w, c)
    BY <2>1, ConnectStep, DeniedStep
  <2>2. CASE \E sid \in Sids, i \in Interests : Subscribe(w, c, sid, i)
    BY <2>2, SubscribeStep
  <2>3. CASE \E r \in ent[c] : Unsubscribe(w, c, r)
    BY <2>3, UnsubscribeStep
  <2>4. CASE \E t \in Topics : Publish(w, c, t)
    BY <2>4, PublishStep
  <2> QED BY <1>2, <2>1, <2>2, <2>3, <2>4 DEF Frame
<1>3. ASSUME Environment PROVE IInv'
  BY <1>3, AdminStep, AdmitStep, KeepaliveStep DEF Environment
<1> QED BY <1>1, <1>2, <1>3, MailNextStep, EofStep DEF Step

(* Nothing the invariant reads has changed.                                  *)
LEMMA StutterOk ==
    ASSUME IInv, UNCHANGED vars
    PROVE  IInv'
<1>1. /\ trie' = trie /\ acc' = acc /\ st' = st /\ ep' = ep
      /\ active' = active /\ ent' = ent /\ sub_count' = sub_count /\ mail' = mail
      /\ job' = job /\ shut' = shut /\ got' = got /\ spent' = spent
  BY DEF vars, sessions, lists
<1>2. TypeInv' /\ MailInv' /\ OwnInv' /\ TrieInv'
  BY <1>1 DEF IInv, TypeInv, MailInv, OwnInv, TrieInv
<1>3. (\A d : View(d)' = View(d)) /\ (\A d : Held(d)' = Held(d))
  BY <1>1 DEF View, Held
<1>4. ClientsInv'
  BY <1>1, <1>3 DEF IInv, ClientsInv
<1> QED BY <1>2, <1>4 DEF IInv

(* The trie, the lists of the clients, the handlers of the workers and the   *)
(* mailboxes agree in every reachable state.                                 *)
THEOREM Invariant == Spec => []IInv
<1>1. IInv /\ [Next]_vars => IInv'
  BY StepOk, StutterOk DEF Next
<1> QED BY <1>1, InitOk, PTL DEF Spec

(* No subscription outlives its connection, and none is lost.                *)
THEOREM InterestKept == Spec => []InterestSound
<1>1. ASSUME IInv PROVE InterestSound
  <2>1. ASSUME NEW r \in Registered(trie)
        PROVE  /\ st[r.c] \notin {"none", "gone"}
               /\ r \in ent[r.c] \/ (Tearing(r.c) /\ r \in job[Owner[r.c]].refs)
    <3>1. r \in Ref /\ r.c \in Clients
      BY <1>1, <2>1 DEF IInv, TrieInv, Ref
    <3>a. PICK c, v : c = r.c /\ v = View(c)
      OBVIOUS
    <3>2. r \in Held(c) /\ c \in Clients /\ ClientOk(c, v, st[c], ent[c], sub_count[c], Held(c))
      BY <1>1, <3>1, <3>a DEF IInv, ClientsInv, Held
    <3>3. CASE r \in ent[c]
      <4>1. st[c] \in {"connected", "closing"}
        BY <3>2, <3>3 DEF ClientOk, ListOk
      <4> QED BY <3>3, <3>a, <4>1
    <3>4. CASE Tears(v) /\ r \in v.refs
      <4>1. v.pc = "tear" /\ st[c] = "closed"
        BY <3>2, <3>4 DEF ClientOk, StateOk, Tears
      <4>2. v = job[Owner[c]] /\ job[Owner[c]].c = c
        BY <3>a, <4>1, IdleIs DEF View
      <4> QED BY <3>4, <3>a, <4>1, <4>2 DEF Tearing, Working, At
    <3> QED BY <3>2, <3>3, <3>4 DEF ClientOk, ListOk
  <2>2. ASSUME NEW c \in Clients, ~Working(c)
        PROVE  /\ ent[c] \subseteq Registered(trie)
               /\ sub_count[c] = Cardinality(ent[c])
               /\ \A r, q \in ent[c] : r.sid = q.sid => r = q
    <3>1. View(c) = Idle
      BY <2>2 DEF View, Working
    <3>2. ClientOk(c, Idle, st[c], ent[c], sub_count[c], Held(c))
      BY <1>1, <3>1 DEF IInv, ClientsInv
    <3>3. ~Gap(Idle) /\ ~Enters(Idle)
      BY IdleIs, Whole
    <3> QED BY <3>2, <3>3 DEF ClientOk, ListOk, Held
  <2> QED BY <2>1, <2>2 DEF InterestSound
<1> QED BY <1>1, Invariant, PTL

(* The trie and its matches are exact.                                       *)
THEOREM TrieKept == Spec => []TrieExact
<1>1. ASSUME IInv PROVE TrieExact
  <2> DEFINE all == Registered(trie)
  <2>1. TrieOk(trie) /\ Shape(trie) /\ Placed(trie) /\ Used(trie) /\ Counted(trie)
    BY <1>1 DEF IInv, TrieInv, TrieOk
  <2>2. \A n \in Nodes(trie), r \in all : r \in trie.subs[n] <=> r.pat = n
    BY <2>1, Home
  <2>3. Nodes(trie) = {<<>>} \cup UNION {Path(r.pat) : r \in all}
    BY <2>1 DEF Used
  <2>4. trie.count = Cardinality(all)
    BY <2>1 DEF Counted
  <2>5. ASSUME NEW t \in Probes
        PROVE  Match(trie, t) = {r \in all : SubjectMatch(r.pat, t)}
    <3>1. PICK p \in Topics : t \in {p, Tail(p), Append(p, p[1])}
      BY DEF Probes
    <3>2. p \in Seq(STRING) /\ p # <<>>
      BY SubscriptionsAssumption
    <3>3. Len(p) > 0 /\ p[1] \in STRING
      BY <3>2
    <3>4. t \in Seq(STRING)
      BY <3>1, <3>2, <3>3
    <3> QED BY <2>1, <3>4, MatchExact
  <2> QED BY <2>2, <2>3, <2>4, <2>5 DEF TrieExact
<1> QED BY <1>1, Invariant, PTL

=============================================================================
