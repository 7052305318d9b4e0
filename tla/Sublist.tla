------------------------------ MODULE Sublist ------------------------------
(***************************************************************************)
(* The subscription trie of server/cmq_sublist.c.  A trie value holds, for   *)
(* every node, the references stored there, and the count of them all.  A    *)
(* node is named by the tokens on the way to it; "*" and ">" name the pwc    *)
(* and fwc children.  cmq_sublist takes its rwlock once per call, so insert, *)
(* remove and match are functions of one trie value.                         *)
(***************************************************************************)
EXTENDS Subjects, FiniteSets

EmptyTrie == [subs |-> [n \in {<<>>} |-> {}], count |-> 0]

Nodes(t)      == DOMAIN t.subs
Registered(t) == UNION {t.subs[n] : n \in Nodes(t)}
Path(p)       == {SubSeq(p, 1, k) : k \in 0 .. Len(p)}
Below(t, n)   == {m \in Nodes(t) : Len(m) >= Len(n) /\ SubSeq(m, 1, Len(n)) = n}
Children(t, n) == {m \in Nodes(t) : Len(m) = Len(n) + 1 /\ SubSeq(m, 1, Len(n)) = n}

(* find_child and add_child for every token of p                             *)
Grow(t, p) ==
    [t EXCEPT !.subs = [n \in Nodes(t) \cup Path(p) |->
                            IF n \in Nodes(t) THEN t.subs[n] ELSE {}]]

(* Mutant: the walk back up stops at the first node.                         *)
Prune_LeafOnly(t, p, C) ==
    [t EXCEPT !.subs = [n \in Nodes(t) \ {m \in C \cap {p} : t.subs[m] = {}
                                                 /\ Children(t, m) = {}} |-> t.subs[n]]]

(* The walk from p towards the root that frees the nodes of C without        *)
(* references and children: rollback_created and the end of                  *)
(* cmq_sublist_remove.                                                       *)
Prune(t, p, C) ==
    LET Bare(m) == \A n \in Below(t, m) : n \in Path(p) /\ n \in C /\ t.subs[n] = {}
    IN [t EXCEPT !.subs = [n \in Nodes(t) \ {m \in C \cap Path(p) : Bare(m)}
                               |-> t.subs[n]]]

Insert(t, p, r) ==
    LET grown == Grow(t, p)
    IN [subs  |-> [grown.subs EXCEPT ![p] = @ \cup {r}],
        count |-> t.count + 1]

(* Memory runs out after k nodes: the nodes created so far are dropped.      *)
InsertFails(t, p, k) ==
    LET grown == Grow(t, SubSeq(p, 1, k))
    IN Prune(grown, SubSeq(p, 1, k), Nodes(grown) \ Nodes(t))

Holds(t, p, r) == p \in Nodes(t) /\ r \in t.subs[p]

Remove(t, p, r) ==
    IF ~Holds(t, p, r)
    THEN t
    ELSE LET cut == [subs  |-> [t.subs EXCEPT ![p] = @ \ {r}],
                     count |-> IF t.count > 0 THEN t.count - 1 ELSE 0]
         IN Prune(cut, p, Nodes(t) \ {<<>>})

(* match_recursive: what the walk collects from every node on                *)
Rest(t, n) == UNION {t.subs[m] : m \in Children(t, n) \cap {Append(n, ">")}}

Collect(t, s) ==
    LET at[n \in Nodes(t)] ==
            IF Len(n) >= Len(s)
            THEN t.subs[n] \cup Rest(t, n)
            ELSE Rest(t, n) \cup UNION {at[m] : m \in
                     {k \in Children(t, n) : k[Len(k)] \in {"*", s[Len(k)]}}}
    IN at

Match(t, s) == Collect(t, s)[<<>>]

=============================================================================
