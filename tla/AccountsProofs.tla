--------------------------- MODULE AccountsProofs ---------------------------
(***************************************************************************)
(* Soft deletion and slot reclaiming leave no dangling permission row, for   *)
(* every set of names, subjects and limits; and the counters of an account   *)
(* count what was taken since its last clear, for any number of callers.     *)
(***************************************************************************)
EXTENDS Accounts, Credits, FiniteSetTheorems, TLAPS

(* What every step preserves of the table.  PermsLive rests on UniqueNames,  *)
(* since a name in two slots could be active and deleted at once; the count  *)
(* of the maps needs that an account has one map per source, or replacing    *)
(* one would lose others.                                                    *)
TableType ==
    /\ slots \in Seq(Slot) /\ Len(slots) <= AccountMax
    /\ rows \subseteq Names /\ rules \subseteq Rule /\ maps \subseteq Map

OneMapPerSource ==
    \A m1, m2 \in maps : m1.acc = m2.acc /\ m1.src = m2.src => m1 = m2

Counted == /\ IsFiniteSet(maps) /\ map_total = Cardinality(maps)
           /\ OneMapPerSource

TableInv == TableType /\ UniqueNames /\ PermsLive /\ Counted

-----------------------------------------------------------------------------
(* The count of maps after some of them go, and after one comes.             *)
LEMMA CountDrops ==
    ASSUME Counted, NEW S, maps' = maps \ S,
           map_total' = map_total - Cardinality(maps \cap S)
    PROVE  Counted'
  BY FS_Difference DEF Counted, OneMapPerSource

(* A map with a new source raises map_total by one, and the count stays      *)
(* right.                                                                    *)
LEMMA CountAdds ==
    ASSUME Counted, NEW m, m \notin maps, maps' = maps \cup {m},
           \A x \in maps : ~(x.acc = m.acc /\ x.src = m.src),
           map_total' = map_total + 1
    PROVE  Counted'
  BY FS_AddElement DEF Counted, OneMapPerSource

(* DropPerms(n) removes what belongs to n or names n and keeps the rest in   *)
(* order, as long as the other accounts stay active.                         *)
LEMMA DropKeeps ==
    ASSUME TableType, Counted, PermsLive, NEW n \in Names, DropPerms(n),
           \A a \in Names \ {n} : IsActive(a) => IsActive(a)'
    PROVE  /\ rows' \subseteq Names /\ rules' \subseteq Rule /\ maps' \subseteq Map
           /\ PermsLive'
           /\ Counted'
<1>1. rows' \subseteq Names /\ rules' \subseteq Rule /\ maps' \subseteq Map
  BY DEF TableType, DropPerms, RowsWithout, RulesWithout, MapsWithout
<1>2. \A a \in rows' : IsActive(a)' /\ Used(rules', maps', a)
  BY DEF TableType, DropPerms, RowsWithout, PermsLive
<1>3. \A r \in rules' : r.acc \in rows' /\ PeerOk(r.peer)'
  <2> SUFFICES ASSUME NEW r \in rules'
               PROVE  r.acc \in rows' /\ PeerOk(r.peer)'
    OBVIOUS
  <2>1. /\ r \in rules /\ r \in Rule /\ r.acc # n /\ r.peer # n
        /\ r.acc \in rows /\ PeerOk(r.peer)
    BY DEF DropPerms, RulesWithout, PermsLive, TableType
  <2>2. r.acc \in rows'
    BY <2>1 DEF DropPerms, RowsWithout, Used
  <2>3. PeerOk(r.peer)'
    BY <2>1 DEF PeerOk, Rule
  <2> QED
    BY <2>2, <2>3
<1>4. \A m \in maps' : m.acc \in rows'
  BY DEF DropPerms, RowsWithout, MapsWithout, PermsLive, Used
<1>5. Counted'
  <2> DEFINE S == maps \ MapsWithout(n)
  <2>1. maps' = maps \ S /\ maps \cap S = S
    BY DEF DropPerms, MapsWithout
  <2>2. map_total' = map_total - Cardinality(maps \cap S)
    BY <2>1 DEF DropPerms
  <2> QED
    BY <2>1, <2>2, CountDrops
<1> QED
  BY <1>1, <1>2, <1>3, <1>4, <1>5 DEF PermsLive

-----------------------------------------------------------------------------
(* account_create_impl and account_ensure_impl on a new name.                *)
LEMMA NewSlotKeeps ==
    ASSUME TableInv, NEW n \in Names, NewSlot(n)
    PROVE  TableInv'
<1> USE DEF TableInv
<1>1. Held(n) = {}
  BY DEF NewSlot
<1>2. CASE /\ Len(slots) < AccountMax
           /\ slots' = Append(slots, [name |-> n, epoch |-> 1, active |-> TRUE])
           /\ UNCHANGED <<rows, rules, maps, map_total>>
  <2>1. TableType'
    BY <1>2, AccountsAssumption DEF TableType, Slot, AccountsAssumption
  <2>2. UniqueNames'
    BY <1>1, <1>2 DEF TableType, UniqueNames, Held, Slot
  <2>3. \A a \in Names : IsActive(a) => IsActive(a)'
    BY <1>2 DEF TableType, IsActive, Held, Slot
  <2>4. PermsLive'
    BY <1>2, <2>3 DEF PermsLive, PeerOk, TableType, Rule
  <2> QED
    BY <1>2, <2>1, <2>2, <2>4 DEF Counted, OneMapPerSource
<1>3. ASSUME NEW i \in Idle,
             DropPerms(slots[i].name),
             slots' = [slots EXCEPT ![i] =
                 [name |-> n, epoch |-> slots[i].epoch + 1, active |-> TRUE]]
      PROVE  TableInv'
  <2>1. i \in 1 .. Len(slots) /\ ~slots[i].active /\ slots[i] \in Slot
    BY <1>3 DEF Idle, TableType
  <2>2. slots' \in Seq(Slot) /\ Len(slots') = Len(slots)
    BY <1>3, <2>1 DEF TableType, Slot
  <2>3. UniqueNames'
    BY <1>1, <1>3, <2>1 DEF UniqueNames, Held, TableType
  <2>4. \A a \in Names \ {slots[i].name} : IsActive(a) => IsActive(a)'
    BY <1>3, <2>1 DEF IsActive, Held, TableType
  <2>5. /\ rows' \subseteq Names /\ rules' \subseteq Rule /\ maps' \subseteq Map
        /\ PermsLive'
        /\ Counted'
    BY <1>3, <2>1, <2>4, DropKeeps DEF Slot
  <2> QED
    BY <2>2, <2>3, <2>5 DEF TableType
<1> QED
  BY <1>2, <1>3 DEF NewSlot

(* Reactivation and deletion change one slot and keep its name.              *)
LEMMA RenumberKeeps ==
    ASSUME TableType, UniqueNames, NEW n \in Names, NEW i \in Held(n), NEW b \in BOOLEAN,
           slots' = [slots EXCEPT ![i].active = b, ![i].epoch = @ + 1]
    PROVE  /\ slots' \in Seq(Slot) /\ Len(slots') = Len(slots)
           /\ UniqueNames'
           /\ \A a \in Names \ {n} : IsActive(a) => IsActive(a)'
           /\ b => IsActive(n)'
<1>1. i \in 1 .. Len(slots) /\ slots[i] \in Slot /\ slots[i].name = n
  BY DEF TableType, Held
<1>2. slots' \in Seq(Slot) /\ Len(slots') = Len(slots)
  BY <1>1 DEF TableType, Slot
<1>3. \A j \in 1 .. Len(slots) :
          /\ slots'[j].name = slots[j].name
          /\ slots'[j].active = IF j = i THEN b ELSE slots[j].active
  BY <1>1 DEF TableType, Slot
<1> QED
  BY <1>1, <1>2, <1>3 DEF UniqueNames, IsActive, Held

(* cmq_account_create, which may reuse the slot of a deleted account.        *)
LEMMA CreateKeeps ==
    ASSUME TableInv, NEW n \in Names, Create(n)
    PROVE  TableInv'
<1>1. CASE NewSlot(n)
  BY <1>1, NewSlotKeeps
<1>2. CASE Reactivate(n)
  <2> USE DEF TableInv
  <2>1. PICK i \in Held(n) :
            slots' = [slots EXCEPT ![i].active = TRUE, ![i].epoch = @ + 1]
    BY <1>2 DEF Reactivate
  <2>3. /\ slots' \in Seq(Slot) /\ Len(slots') = Len(slots)
        /\ UniqueNames'
        /\ \A a \in Names \ {n} : IsActive(a) => IsActive(a)'
        /\ IsActive(n)'
    BY <2>1, RenumberKeeps
  <2>4. UNCHANGED <<rows, rules, maps, map_total>>
    BY <1>2 DEF Reactivate
  <2>5. \A a \in Names : IsActive(a) => IsActive(a)'
    BY <2>3
  <2>6. PermsLive'
    BY <2>4, <2>5 DEF PermsLive, PeerOk, TableType, Rule
  <2> QED
    BY <2>3, <2>4, <2>6 DEF TableType, Counted, OneMapPerSource
<1> QED
  BY <1>1, <1>2 DEF Create

(* cmq_account_delete, which clears the rules and maps of the account.       *)
LEMMA DeleteKeeps ==
    ASSUME TableInv, NEW n \in Names, Delete(n)
    PROVE  TableInv'
<1> USE DEF TableInv
<1>1. PICK i \in Held(n) :
          slots' = [slots EXCEPT ![i].active = FALSE, ![i].epoch = @ + 1]
  BY DEF Delete
<1>3. /\ slots' \in Seq(Slot) /\ Len(slots') = Len(slots)
      /\ UniqueNames'
      /\ \A a \in Names \ {n} : IsActive(a) => IsActive(a)'
  BY <1>1, RenumberKeeps
<1>4. /\ rows' \subseteq Names /\ rules' \subseteq Rule /\ maps' \subseteq Map
      /\ PermsLive'
      /\ Counted'
  BY <1>3, DropKeeps DEF Delete
<1> QED
  BY <1>3, <1>4 DEF TableType

-----------------------------------------------------------------------------
(* With no empty entry to reclaim, find_or_create_perms only adds.           *)
LEMMA FindOrCreateAdds ==
    ASSUME PermsLive, NEW n
    PROVE  FindOrCreatePerms(n) = rows \cup {n}
  BY DEF PermsLive, FindOrCreatePerms, Shells

(* Adding an export or an import.                                            *)
LEMMA AddRuleKeeps ==
    ASSUME TableInv, NEW k \in Kinds, NEW n \in Names, NEW p \in Patterns,
           NEW d \in Names \cup {AnyPeer}, AddRule(k, n, p, d)
    PROVE  TableInv'
<1> USE DEF TableInv
<1> DEFINE r == [kind |-> k, acc |-> n, subj |-> p, peer |-> d]
<1>1. r \in Rule
  BY DEF Rule
<1>2. /\ rows' = rows \cup {n} /\ IsActive(n) /\ PeerOk(d)
      /\ UNCHANGED <<slots, maps, map_total>>
  BY FindOrCreateAdds DEF AddRule
<1>3. /\ rules' = rules \cup {r} \/ rules' = rules
      /\ \E q \in rules' : q.acc = n
  <2>1. CASE Cardinality(RulesOf(k, n)) < MaxRules
    <3>1. rules' = rules \cup {r}
      BY <2>1 DEF AddRule
    <3>2. r \in rules' /\ r.acc = n
      BY <3>1
    <3> QED
      BY <3>1, <3>2
  <2>2. CASE ~(Cardinality(RulesOf(k, n)) < MaxRules)
    <3>1. RulesOf(k, n) # {}
      BY <2>2, FS_EmptySet, AccountsAssumption DEF AccountsAssumption
    <3> QED
      BY <2>2, <3>1 DEF AddRule, RulesOf
  <2> QED
    BY <2>1, <2>2
<1>4. TableType' /\ UniqueNames' /\ Counted'
  BY <1>1, <1>2, <1>3 DEF TableType, UniqueNames, Counted, OneMapPerSource
<1>5. PermsLive'
  BY <1>1, <1>2, <1>3 DEF PermsLive, PeerOk, IsActive, Held, Used
<1> QED
  BY <1>4, <1>5

(* Removing an export or an import.                                          *)
LEMMA RemoveRuleKeeps ==
    ASSUME TableInv, NEW k \in Kinds, NEW n \in Names, NEW p \in Patterns,
           RemoveRule(k, n, p)
    PROVE  TableInv'
<1> USE DEF TableInv
<1> DEFINE gone == {r \in RulesOf(k, n) : r.subj = p}
<1>1. /\ rules' = rules \ gone
      /\ rows' = IF Used(rules \ gone, maps, n) THEN rows ELSE rows \ {n}
      /\ UNCHANGED <<slots, maps, map_total>>
      /\ \A r \in gone : r.acc = n
  BY DEF RemoveRule, RulesOf
<1>2. TableType' /\ UniqueNames' /\ Counted'
  BY <1>1 DEF TableType, UniqueNames, Counted, OneMapPerSource
<1>3. PermsLive'
  BY <1>1 DEF PermsLive, PeerOk, IsActive, Held, Used
<1> QED
  BY <1>2, <1>3

(* Adding a map, or replacing the one with its source.                       *)
LEMMA AddMapKeeps ==
    ASSUME TableInv, NEW n \in Names, NEW p \in Sources, NEW d \in Dests,
           AddMap(n, p, d)
    PROVE  TableInv'
<1> USE DEF TableInv
<1> DEFINE same == {m \in {x \in maps : x.acc = n} : m.src = p}
           new  == [acc |-> n, src |-> p, dest |-> d]
<1>1. new \in Map
  BY DEF Map
<1>2. /\ rows' = rows \cup {n} /\ IsActive(n)
      /\ UNCHANGED <<slots, rules>>
      /\ \/ same # {} /\ maps' = (maps \ same) \cup {new} /\ map_total' = map_total
         \/ same = {} /\ maps' = maps \cup {new} /\ map_total' = map_total + 1
  BY FindOrCreateAdds DEF AddMap
<1>3. TableType' /\ UniqueNames'
  BY <1>1, <1>2 DEF TableType, UniqueNames
<1>4. PermsLive'
  BY <1>1, <1>2 DEF PermsLive, PeerOk, IsActive, Held, Used
<1>5. CASE same = {} /\ maps' = maps \cup {new} /\ map_total' = map_total + 1
  <2>1. \A x \in maps : ~(x.acc = new.acc /\ x.src = new.src)
    BY <1>5
  <2>2. new \notin maps
    BY <2>1
  <2>3. Counted'
    BY <1>5, <2>1, <2>2, CountAdds
  <2> QED
    BY <1>3, <1>4, <2>3
<1>6. CASE same # {} /\ maps' = (maps \ same) \cup {new} /\ map_total' = map_total
  <2>1. PICK m \in same : TRUE
    BY <1>6
  <2>2. m \in maps /\ m.acc = n /\ m.src = p
    OBVIOUS
  <2>3. same = {m}
    BY <2>2 DEF Counted, OneMapPerSource
  <2> DEFINE rest == maps \ {m}
  <2>4. IsFiniteSet(rest) /\ Cardinality(rest) = Cardinality(maps) - 1
    BY <2>2, FS_RemoveElement DEF Counted
  <2>5. \A x \in rest : ~(x.acc = new.acc /\ x.src = new.src)
    BY <2>3
  <2>6. new \notin rest
    BY <2>5
  <2>7. maps' = rest \cup {new}
    BY <1>6, <2>3
  <2>8. IsFiniteSet(maps') /\ Cardinality(maps') = Cardinality(rest) + 1
    BY <2>4, <2>6, <2>7, FS_AddElement
  <2>9. OneMapPerSource'
    BY <2>5, <2>7 DEF Counted, OneMapPerSource
  <2>10. Cardinality(maps) \in Nat
    BY FS_CardinalityType DEF Counted
  <2>11. Counted'
    BY <1>6, <2>4, <2>8, <2>9, <2>10 DEF Counted
  <2> QED
    BY <1>3, <1>4, <2>11
<1> QED
  BY <1>2, <1>5, <1>6

(* Removing a map.                                                           *)
LEMMA RemoveMapKeeps ==
    ASSUME TableInv, NEW n \in Names, NEW p \in Sources, RemoveMap(n, p)
    PROVE  TableInv'
<1> USE DEF TableInv
<1> DEFINE gone == {m \in maps : m.acc = n /\ m.src = p}
<1>1. /\ maps' = maps \ gone
      /\ map_total' = map_total - Cardinality(gone)
      /\ rows' = IF Used(rules, maps \ gone, n) THEN rows ELSE rows \ {n}
      /\ UNCHANGED <<slots, rules>>
  BY DEF RemoveMap
<1>2. TableType' /\ UniqueNames'
  BY <1>1 DEF TableType, UniqueNames
<1>3. PermsLive'
  BY <1>1 DEF PermsLive, PeerOk, IsActive, Held, Used
<1>4. gone = maps \cap gone
  OBVIOUS
<1>5. Counted'
  BY <1>1, <1>4, CountDrops
<1> QED
  BY <1>2, <1>3, <1>5

-----------------------------------------------------------------------------
(* The table keeps its invariant when nothing of it changes.                 *)
LEMMA TableStutter ==
    ASSUME TableInv, UNCHANGED <<slots, rows, rules, maps, map_total>>
    PROVE  TableInv'
  BY DEF TableInv, TableType, UniqueNames, PermsLive, PeerOk, IsActive, Held,
         Used, Counted, OneMapPerSource

(* Every step of the manager or of a session keeps the table's invariant.    *)
LEMMA TableStep ==
    ASSUME TableInv, [Next]_vars
    PROVE  TableInv'
<1>1. CASE UNCHANGED vars
  BY <1>1, TableStutter DEF vars
<1>2. ASSUME NEW n \in Names, Create(n) PROVE TableInv'
  BY <1>2, CreateKeeps
<1>3. ASSUME NEW n \in Names, Delete(n) PROVE TableInv'
  BY <1>3, DeleteKeeps
<1>4. ASSUME NEW n \in Names, NEW k \in Kinds, NEW p \in Patterns,
             NEW d \in Names \cup {AnyPeer}, AddRule(k, n, p, d)
      PROVE  TableInv'
  BY <1>4, AddRuleKeeps
<1>5. ASSUME NEW n \in Names, NEW k \in Kinds, NEW p \in Patterns, RemoveRule(k, n, p)
      PROVE  TableInv'
  BY <1>5, RemoveRuleKeeps
<1>6. ASSUME NEW n \in Names, NEW p \in Sources, NEW d \in Dests, AddMap(n, p, d)
      PROVE  TableInv'
  BY <1>6, AddMapKeeps
<1>7. ASSUME NEW n \in Names, NEW p \in Sources, RemoveMap(n, p)
      PROVE  TableInv'
  BY <1>7, RemoveMapKeeps
<1>8. ASSUME NEW n \in Names, NEW s \in Sessions, ConnectEnsure(s, n)
      PROVE  TableInv'
  <2>1. CASE NewSlot(n)
    BY <2>1, NewSlotKeeps
  <2>2. CASE UNCHANGED <<slots, rows, rules, maps, map_total>>
    BY <2>2, TableStutter
  <2> QED
    BY <1>8, <2>1, <2>2 DEF ConnectEnsure
<1>9. ASSUME NEW s \in Sessions, ConnectGet(s) \/ Disconnect(s)
      PROVE  TableInv'
  BY <1>9, TableStutter DEF ConnectGet, Disconnect
<1> QED
  BY <1>1, <1>2, <1>3, <1>4, <1>5, <1>6, <1>7, <1>8, <1>9 DEF Next

(* The empty table.                                                          *)
LEMMA TableInit == Init => TableInv
  BY FS_EmptySet, AccountsAssumption
     DEF AccountsAssumption, Init, TableInv, TableType, UniqueNames, PermsLive,
         Counted, OneMapPerSource

(* No name is held by two slots and no permission row outlives the account   *)
(* it belongs to or names, after any sequence of create, ensure, delete,     *)
(* reclaim and row changes and whatever the sizes of the tables.             *)
THEOREM NoDanglingPerms == Spec => [](UniqueNames /\ PermsLive)
<1>1. TableInv => UniqueNames /\ PermsLive
  BY DEF TableInv
<1> QED
  BY <1>1, TableInit, TableStep, PTL DEF Spec

(* map_total is the number of map rows, so the shortcut that skips rewriting *)
(* when it is zero never skips a map.                                        *)
THEOREM MapTotalCorrect == Spec => []MapTotal
<1>1. TableInv => MapTotal
  BY DEF TableInv, Counted, MapTotal
<1> QED
  BY <1>1, TableInit, TableStep, PTL DEF Spec

-----------------------------------------------------------------------------
(* The gates agree wherever no row dangles: the pair that can_import finds   *)
(* belongs to two active accounts, so may_deliver accepts it, and the rows   *)
(* may_deliver finds are a pair.                                             *)
LEMMA GatesFromPerms == TableInv => GatesAgree
<1> SUFFICES ASSUME TableInv, NEW n \in Names, NEW t \in Topics
             PROVE  /\ CanImport(n, t) /\ (OfferedTo(n, t) \/ Imports(n, t))
                          => \E m \in Names : /\ RulesOf("export", m) # {}
                                             /\ MayDeliver(m, n, t)
                    /\ \A m \in Names \ {n} :
                          MayDeliver(m, n, t) => CanImport(n, t) /\ CanExport(m, t)
  BY DEF GatesAgree
<1>1. ASSUME CanImport(n, t), OfferedTo(n, t) \/ Imports(n, t)
      PROVE  \E m \in Names : RulesOf("export", m) # {} /\ MayDeliver(m, n, t)
  <2>1. PairOk(n, t) /\ IsActive(n)
    BY <1>1 DEF CanImport
  <2>2. PICK i \in RulesOf("import", n), e \in rules :
            /\ e.kind = "export"
            /\ SubjectMatch(i.subj, t) /\ SubjectMatch(e.subj, t)
            /\ For(e, n)
            /\ IF i.peer = AnyPeer THEN e.acc # n ELSE e.acc = i.peer
    BY <2>1 DEF PairOk
  <2> DEFINE m == e.acc
  <2>3. m \in Names /\ IsActive(m) /\ e \in RulesOf("export", m)
    BY <2>2 DEF TableInv, TableType, PermsLive, RulesOf, Rule
  <2>4. CASE m = n
    <3>1. Exports(m, t)
      BY <2>2, <2>3 DEF Exports
    <3> QED
      BY <2>1, <2>3, <2>4, <3>1 DEF MayDeliver
  <2>5. CASE m # n
    <3>1. For(i, m)
      BY <2>2 DEF For
    <3>2. MayDeliver(m, n, t)
      BY <2>1, <2>2, <2>3, <2>5, <3>1 DEF MayDeliver
    <3> QED
      BY <2>3, <3>2
  <2> QED
    BY <2>4, <2>5
<1>2. ASSUME NEW m \in Names \ {n}, MayDeliver(m, n, t)
      PROVE  CanImport(n, t) /\ CanExport(m, t)
  <2>1. PICK e \in RulesOf("export", m) : SubjectMatch(e.subj, t) /\ For(e, n)
    BY <1>2 DEF MayDeliver
  <2>2. PICK i \in RulesOf("import", n) : SubjectMatch(i.subj, t) /\ For(i, m)
    BY <1>2 DEF MayDeliver
  <2>3. e \in rules /\ e.kind = "export" /\ e.acc = m
    BY DEF RulesOf
  <2>4. IF i.peer = AnyPeer THEN e.acc # n ELSE e.acc = i.peer
    BY <2>2, <2>3 DEF For
  <2>5. PairOk(n, t)
    BY <2>1, <2>2, <2>3, <2>4 DEF PairOk
  <2>6. Exports(m, t)
    BY <2>1 DEF Exports
  <2> QED
    BY <1>2, <2>5, <2>6 DEF CanImport, CanExport, MayDeliver
<1> QED
  BY <1>1, <1>2

(* The SUBSCRIBE, PUBLISH and delivery gates of the account manager agree in *)
(* every reachable state, for every set of names, subjects and rows.         *)
THEOREM GatesConsistent == Spec => []GatesAgree
  BY GatesFromPerms, TableInit, TableStep, PTL DEF Spec

-----------------------------------------------------------------------------
(* The counters.                                                             *)

Asking  == {"out", "look", "gen", "load", "try", "swap", "add"}
Undoing == {"check", "undo", "undo_try", "undo_swap"}
Keeping == {"held", "dec", "dec_gen", "dec_load", "dec_try", "dec_swap"}

Calls == [pc : Asking \cup Undoing \cup Keeping, ep : Nat, g0 : Nat, cur : Nat, got : Nat]

CreditType ==
    /\ slot \in [active : BOOLEAN, epoch : Nat \ {0}, gen : Nat \ {0}, n : Nat, max : Nat]
    /\ admin \in {"none", "gen", "zero", "flip"}
    /\ call \in [Takers -> Calls]
    /\ torn \in BOOLEAN

(* A call v when the slot is s and the administrator is at a.  A taker that  *)
(* is let in holds a credit of the clear_gen of its epoch, and of no other   *)
(* once a clear is past the epoch; what it is about to swap was decided      *)
(* under the present clear_gen unless tn says the clear was torn.            *)
CallOk(s, a, tn, v) ==
    /\ v.g0 <= s.gen /\ v.got <= s.gen /\ v.ep <= s.epoch
    /\ a # "none" => v.ep < s.epoch
    /\ v.pc \in Asking => v.got = 0
    /\ v.pc \in Undoing => v.got = v.g0
    /\ v.pc \in Keeping => /\ v.ep = s.epoch => v.got = s.gen
                           /\ v.got = s.gen /\ a # "gen" => v.ep = s.epoch /\ s.active
    /\ v.pc \in {"dec_load", "dec_try", "dec_swap"} /\ v.ep = s.epoch => v.g0 = s.gen
    /\ v.pc = "dec_swap" => v.cur > 0 /\ (v.g0 = s.gen => v.got = s.gen)
    /\ v.pc = "dec_try" /\ v.ep = s.epoch /\ ~tn => v.cur > 0
    /\ v.pc = "swap" => v.cur < s.max
    /\ v.pc = "add" => s.max = 0
    /\ ~tn /\ a \in {"none", "flip"} /\ v.pc \in Swapping => v.g0 = s.gen

Settled == ~torn /\ admin \in {"none", "flip"}

CreditInv ==
    /\ CreditType
    /\ \A h \in Takers : CallOk(slot, admin, torn, call[h])
    /\ slot.max # 0 => slot.n <= slot.max
    /\ Settled => slot.n = Cardinality(Creditors)

(* A step of one call changes the counter as much as its own credit.         *)
LEMMA OneCall ==
    ASSUME CreditInv, NEW h \in Takers, NEW u \in Calls, call' = [call EXCEPT ![h] = u],
           NEW m \in Nat, slot' = [slot EXCEPT !.n = m], UNCHANGED <<admin, torn>>,
           CallOk(slot, admin, torn, u), slot.max # 0 => m <= slot.max,
           Settled => \/ /\ m = slot.n
                         /\ u.got = slot.gen <=> call[h].got = slot.gen
                      \/ m = slot.n + 1 /\ u.got = slot.gen /\ call[h].got # slot.gen
                      \/ m = slot.n - 1 /\ u.got # slot.gen /\ call[h].got = slot.gen
    PROVE  CreditInv'
<1>1. /\ slot'.active = slot.active /\ slot'.epoch = slot.epoch /\ slot'.gen = slot.gen
      /\ slot'.max = slot.max /\ slot'.n = m /\ call \in [Takers -> Calls]
  BY DEF CreditInv, CreditType
<1>2. CreditType'
  BY DEF CreditInv, CreditType
<1>3. call'[h] = u /\ \A g \in Takers \ {h} : call'[g] = call[g]
  BY <1>1
<1>4. \A v : CallOk(slot, admin, torn, v) => CallOk(slot', admin', torn', v)
  BY <1>1 DEF CallOk
<1>5. \A g \in Takers : CallOk(slot', admin', torn', call'[g])
  BY <1>3, <1>4 DEF CreditInv
<1>6. ASSUME Settled' PROVE slot'.n = Cardinality(Creditors')
  <2>1. Settled /\ slot.n = Cardinality(Creditors)
    BY <1>6 DEF Settled, CreditInv
  <2>2. IsFiniteSet(Creditors)
    BY CreditsAssumption, FS_Subset DEF Creditors
  <2>3. Creditors' = {g \in Takers : call'[g].got = slot.gen}
    BY <1>1 DEF Creditors
  <2>4. CASE m = slot.n /\ (u.got = slot.gen <=> call[h].got = slot.gen)
    <3>1. Creditors' = Creditors
      BY <1>3, <2>3, <2>4 DEF Creditors
    <3> QED BY <1>1, <2>1, <2>4, <3>1
  <2>5. CASE m = slot.n + 1 /\ u.got = slot.gen /\ call[h].got # slot.gen
    <3>1. Creditors' = Creditors \cup {h} /\ h \notin Creditors
      BY <1>3, <2>3, <2>5 DEF Creditors
    <3>2. Cardinality(Creditors \cup {h}) = Cardinality(Creditors) + 1
      BY <2>2, <3>1, FS_AddElement
    <3> QED BY <1>1, <2>1, <2>5, <3>1, <3>2
  <2>6. CASE m = slot.n - 1 /\ u.got # slot.gen /\ call[h].got = slot.gen
    <3>1. Creditors' = Creditors \ {h} /\ h \in Creditors
      BY <1>3, <2>3, <2>6 DEF Creditors
    <3> QED BY <1>1, <2>1, <2>2, <2>6, <3>1, FS_RemoveElement
  <2> QED BY <2>1, <2>4, <2>5, <2>6
<1>7. slot'.max # 0 => slot'.n <= slot'.max
  BY <1>1
<1> QED BY <1>2, <1>5, <1>6, <1>7 DEF CreditInv

(* A step of one call that leaves the counter and its own credit alone.      *)
LEMMA QuietCall ==
    ASSUME CreditInv, NEW h \in Takers, NEW u \in Calls, call' = [call EXCEPT ![h] = u],
           UNCHANGED <<slot, admin, torn>>, CallOk(slot, admin, torn, u),
           Settled => (u.got = slot.gen <=> call[h].got = slot.gen)
    PROVE  CreditInv'
<1>1. slot.n \in Nat /\ slot' = [slot EXCEPT !.n = slot.n]
  BY DEF CreditInv, CreditType
<1>2. slot.max # 0 => slot.n <= slot.max
  BY DEF CreditInv
<1> QED BY <1>1, <1>2, OneCall

(* While a counted call is there the counter is not 0.                       *)
LEMMA CountedCall ==
    ASSUME CreditInv, Settled, NEW h \in Takers, call[h].got = slot.gen
    PROVE  slot.n > 0
<1>1. h \in Creditors /\ IsFiniteSet(Creditors)
  BY CreditsAssumption, FS_Subset DEF Creditors
<1>2. slot.n = Cardinality(Creditors) /\ slot.n \in Nat
  BY DEF CreditInv, CreditType
<1> QED BY <1>1, <1>2, FS_EmptySet

(* account_inc_counter                                                       *)
LEMMA IncKeeps ==
    ASSUME CreditInv, NEW h \in Takers,
           \/ GetEpoch(h) \/ IncLook(h) \/ IncGen(h) \/ IncAdd(h) \/ IncLoad(h) \/ IncTry(h)
           \/ IncSwap(h) \/ IncCheck(h)
    PROVE  CreditInv'
<1>a. PICK v, s : v = call[h] /\ s = slot
  OBVIOUS
<1>1. /\ v \in Calls /\ CallOk(s, admin, torn, v) /\ call \in [Takers -> Calls]
      /\ s \in [active : BOOLEAN, epoch : Nat \ {0}, gen : Nat \ {0}, n : Nat, max : Nat]
      /\ admin \in {"none", "gen", "zero", "flip"} /\ torn \in BOOLEAN
  BY <1>a DEF CreditInv, CreditType
<1>2. Out \in Calls /\ CallOk(s, admin, torn, Out) /\ Out.got # s.gen
  BY <1>1 DEF Out, Calls, Asking, Undoing, Keeping, CallOk, Swapping
<1> DEFINE go(p) == [v EXCEPT !.pc = p]
<1>3. CASE GetEpoch(h)
  <2> DEFINE u == [v EXCEPT !.pc = "look", !.ep = s.epoch]
  <2>1. call' = [call EXCEPT ![h] = u]
    BY <1>3, <1>a DEF GetEpoch
  <2>2. v.pc = "out" /\ v.got = 0 /\ admin = "none"
    BY <1>1, <1>3, <1>a DEF GetEpoch, InCall, CallOk, Asking
  <2>3. /\ u \in Calls /\ u.pc = "look" /\ u.ep = s.epoch /\ u.got = v.got /\ u.g0 = v.g0
        /\ s.epoch \in Nat
    BY <1>1 DEF Calls, Asking
  <2> HIDE DEF u
  <2>4. CallOk(s, admin, torn, u)
    BY <1>1, <2>2, <2>3 DEF CallOk, Asking, Undoing, Keeping, Swapping
  <2> QED BY <1>3, <1>a, <2>1, <2>3, <2>4, QuietCall DEF GetEpoch
<1>4. CASE call' = [call EXCEPT ![h] = Out] /\ v.got = 0 /\ UNCHANGED <<slot, admin, torn>>
  BY <1>1, <1>2, <1>4, <1>a, QuietCall
<1>5. CASE IncLook(h)
  <2>1. v.pc = "look" /\ v.got = 0
    BY <1>1, <1>5, <1>a DEF IncLook, InCall, CallOk, Asking
  <2>2. go("gen") \in Calls /\ go("gen").got = v.got /\ CallOk(s, admin, torn, go("gen"))
    BY <1>1, <2>1 DEF Calls, CallOk, Asking, Undoing, Keeping, Swapping
  <2>3. CASE Turn(h, "gen")
    <3>1. call' = [call EXCEPT ![h] = go("gen")]
      BY <1>a, <2>3 DEF Turn
    <3> HIDE DEF go
    <3> QED BY <1>5, <1>a, <2>2, <3>1, QuietCall DEF IncLook
  <2> QED BY <1>4, <1>5, <2>1, <2>3 DEF IncLook, Leave
<1>6. CASE IncGen(h)
  <2>1. v.pc = "gen"
    BY <1>6, <1>a DEF IncGen, InCall
  <2> DEFINE p == IF s.max = 0 THEN "add" ELSE "load"
             u == [v EXCEPT !.g0 = s.gen, !.pc = p]
  <2>2. call' = [call EXCEPT ![h] = u]
    BY <1>6, <1>a DEF IncGen
  <2>3. u \in Calls /\ u.got = v.got /\ CallOk(s, admin, torn, u)
    <3>1. p \in {"add", "load"} /\ (p = "add" => s.max = 0)
      OBVIOUS
    <3> HIDE DEF p
    <3>2. /\ u \in Calls /\ u.pc = p /\ u.got = v.got /\ u.ep = v.ep /\ u.g0 = s.gen
          /\ s.gen \in Nat
      BY <1>1, <3>1 DEF Calls, Asking
    <3> HIDE DEF u
    <3>3. CallOk(s, admin, torn, u)
      BY <1>1, <2>1, <3>1, <3>2 DEF CallOk, Asking, Undoing, Keeping, Swapping
    <3> QED BY <3>2, <3>3
  <2> HIDE DEF u
  <2> QED BY <1>6, <1>a, <2>2, <2>3, QuietCall DEF IncGen
<1>7. ASSUME v.pc \in {"add", "swap"}, v.pc = "swap" => s.n = v.cur,
             slot' = [slot EXCEPT !.n = @ + 1],
             call' = [call EXCEPT ![h].got = call[h].g0, ![h].pc = "check"],
             UNCHANGED <<admin, torn>>
      PROVE  CreditInv'
  <2> DEFINE u == [v EXCEPT !.got = v.g0, !.pc = "check"]
  <2>1. call' = [call EXCEPT ![h] = u]
    BY <1>7, <1>a
  <2>2. u \in Calls /\ u.got = v.g0 /\ CallOk(s, admin, torn, u)
    BY <1>1, <1>7 DEF Calls, CallOk, Asking, Undoing, Keeping, Swapping
  <2>3. v.got = 0 /\ (Settled => v.g0 = s.gen) /\ (v.pc = "add" => s.max = 0)
        /\ (v.pc = "swap" => v.cur < s.max)
    BY <1>1, <1>7 DEF CallOk, Settled, Asking, Swapping
  <2>4. s.n + 1 \in Nat /\ s.gen # 0 /\ slot' = [slot EXCEPT !.n = s.n + 1]
        /\ (s.max # 0 => s.n + 1 <= s.max)
    BY <1>1, <1>7, <1>a, <2>3 DEF Calls
  <2> HIDE DEF u
  <2> QED BY <1>7, <1>a, <2>1, <2>2, <2>3, <2>4, OneCall
<1>8. CASE IncAdd(h)
  BY <1>7, <1>8, <1>a DEF IncAdd, InCall
<1>9. ASSUME v.pc \in {"load", "swap"}, UNCHANGED <<slot, admin, torn>>,
             call' = [call EXCEPT ![h].cur = slot.n, ![h].pc = "try"]
      PROVE  CreditInv'
  <2> DEFINE u == [v EXCEPT !.cur = s.n, !.pc = "try"]
  <2>1. call' = [call EXCEPT ![h] = u]
    BY <1>9, <1>a
  <2>2. u \in Calls /\ u.got = v.got /\ CallOk(s, admin, torn, u)
    BY <1>1, <1>9 DEF Calls, CallOk, Asking, Undoing, Keeping, Swapping
  <2> HIDE DEF u
  <2> QED BY <1>9, <1>a, <2>1, <2>2, QuietCall
<1>10. CASE IncLoad(h)
  BY <1>9, <1>10, <1>a DEF IncLoad, InCall
<1>11. CASE IncTry(h)
  <2>1. v.pc = "try" /\ v.got = 0
    BY <1>1, <1>11, <1>a DEF IncTry, InCall, CallOk, Asking
  <2>2. CASE Fence(h) /\ v.cur < s.max /\ Turn(h, "swap")
    <3>1. call' = [call EXCEPT ![h] = go("swap")] /\ s.gen = v.g0
      BY <1>a, <2>2 DEF Turn, Fence
    <3>2. go("swap") \in Calls /\ go("swap").got = v.got /\ CallOk(s, admin, torn, go("swap"))
      BY <1>1, <2>1, <2>2, <3>1 DEF Calls, CallOk, Asking, Undoing, Keeping, Swapping
    <3> HIDE DEF go
    <3> QED BY <1>11, <1>a, <3>1, <3>2, QuietCall DEF IncTry
  <2> QED BY <1>4, <1>11, <1>a, <2>1, <2>2 DEF IncTry, Leave
<1>12. CASE IncSwap(h)
  BY <1>7, <1>9, <1>12, <1>a DEF IncSwap, InCall
<1>13. CASE IncCheck(h)
  <2>1. v.pc = "check" /\ UNCHANGED <<slot, admin, torn>>
    BY <1>13, <1>a DEF IncCheck, InCall
  <2>2. CASE Fence(h) /\ Turn(h, "held")
    <3>1. /\ call' = [call EXCEPT ![h] = go("held")]
          /\ s.gen = v.g0 /\ s.epoch = v.ep /\ s.active
      BY <1>a, <2>2 DEF Turn, Fence, Seen
    <3>2. go("held") \in Calls /\ go("held").got = v.got /\ CallOk(s, admin, torn, go("held"))
      BY <1>1, <2>1, <3>1 DEF Calls, CallOk, Asking, Undoing, Keeping, Swapping
    <3> HIDE DEF go
    <3> QED BY <1>a, <2>1, <3>1, <3>2, QuietCall
  <2>3. CASE Turn(h, "undo")
    <3>1. call' = [call EXCEPT ![h] = go("undo")]
      BY <1>a, <2>3 DEF Turn
    <3>2. go("undo") \in Calls /\ go("undo").got = v.got /\ CallOk(s, admin, torn, go("undo"))
      BY <1>1, <2>1 DEF Calls, CallOk, Asking, Undoing, Keeping, Swapping
    <3> HIDE DEF go
    <3> QED BY <1>a, <2>1, <3>1, <3>2, QuietCall
  <2> QED BY <1>13, <2>2, <2>3 DEF IncCheck
<1> QED BY <1>3, <1>5, <1>6, <1>8, <1>10, <1>11, <1>12, <1>13

(* account_undo_stale_inc                                                    *)
LEMMA UndoKeeps ==
    ASSUME CreditInv, NEW h \in Takers, UndoLoad(h) \/ UndoTry(h) \/ UndoSwap(h)
    PROVE  CreditInv'
<1>a. PICK v, s : v = call[h] /\ s = slot
  OBVIOUS
<1>1. /\ v \in Calls /\ CallOk(s, admin, torn, v) /\ call \in [Takers -> Calls]
      /\ s \in [active : BOOLEAN, epoch : Nat \ {0}, gen : Nat \ {0}, n : Nat, max : Nat]
      /\ admin \in {"none", "gen", "zero", "flip"} /\ torn \in BOOLEAN
      /\ s.max # 0 => s.n <= s.max
  BY <1>a DEF CreditInv, CreditType
<1>2. Out \in Calls /\ CallOk(s, admin, torn, Out) /\ Out.got # s.gen
  BY <1>1 DEF Out, Calls, Asking, Undoing, Keeping, CallOk, Swapping
<1>3. ASSUME v.pc \in {"undo", "undo_swap"}, UNCHANGED <<slot, admin, torn>>,
             call' = [call EXCEPT ![h].cur = slot.n, ![h].pc = "undo_try"]
      PROVE  CreditInv'
  <2> DEFINE u == [v EXCEPT !.cur = s.n, !.pc = "undo_try"]
  <2>1. call' = [call EXCEPT ![h] = u]
    BY <1>3, <1>a
  <2>2. u \in Calls /\ u.got = v.got /\ CallOk(s, admin, torn, u)
    BY <1>1, <1>3 DEF Calls, CallOk, Asking, Undoing, Keeping, Swapping
  <2> HIDE DEF u
  <2> QED BY <1>3, <1>a, <2>1, <2>2, QuietCall
<1>4. CASE UndoLoad(h)
  BY <1>3, <1>4, <1>a DEF UndoLoad, InCall
<1>5. CASE UndoTry(h)
  <2>1. v.pc = "undo_try" /\ v.got = v.g0 /\ UNCHANGED <<slot, admin, torn>>
    BY <1>1, <1>5, <1>a DEF UndoTry, InCall, CallOk, Undoing
  <2>2. CASE s.gen = v.g0 /\ Turn(h, "undo_swap")
    <3> DEFINE u == [v EXCEPT !.pc = "undo_swap"]
    <3>1. call' = [call EXCEPT ![h] = u]
      BY <1>a, <2>2 DEF Turn
    <3>2. u \in Calls /\ u.got = v.got /\ CallOk(s, admin, torn, u)
      BY <1>1, <2>1, <2>2 DEF Calls, CallOk, Asking, Undoing, Keeping, Swapping
    <3> HIDE DEF u
    <3> QED BY <1>a, <2>1, <3>1, <3>2, QuietCall
  <2>3. CASE s.gen # v.g0 /\ Leave(h)
    BY <1>2, <1>a, <2>1, <2>3, QuietCall DEF Leave
  <2> QED BY <1>5, <1>a, <2>2, <2>3 DEF UndoTry
<1>6. CASE UndoSwap(h)
  <2>1. v.pc = "undo_swap" /\ v.got = v.g0 /\ UNCHANGED <<admin, torn>>
    BY <1>1, <1>6, <1>a DEF UndoSwap, InCall, CallOk, Undoing
  <2>2. CASE slot' = [slot EXCEPT !.n = IF @ > 1 THEN @ - 1 ELSE 0] /\ Leave(h)
    <3> DEFINE m == IF s.n > 1 THEN s.n - 1 ELSE 0
    <3>1. m \in Nat /\ slot' = [slot EXCEPT !.n = m] /\ m <= s.n /\ (s.n > 0 => m = s.n - 1)
      BY <1>1, <1>a, <2>2
    <3>2. Settled => v.got = s.gen
      BY <1>1, <2>1 DEF Settled, CallOk, Swapping
    <3>3. Settled => m = s.n - 1
      BY <1>a, <3>1, <3>2, CountedCall
    <3> HIDE DEF m
    <3>4. s.max # 0 => m <= s.max
      BY <1>1, <3>1
    <3> QED BY <1>2, <1>a, <2>1, <2>2, <3>1, <3>2, <3>3, <3>4, OneCall DEF Leave
  <2> QED BY <1>3, <1>6, <2>1, <2>2 DEF UndoSwap
<1> QED BY <1>4, <1>5, <1>6

(* cmq_account_dec_connections, cmq_account_dec_subscriptions                *)
LEMMA DecKeeps ==
    ASSUME CreditInv, NEW h \in Takers,
           \/ EndHeld(h) \/ DecLook(h) \/ DecGen(h) \/ DecLoad(h) \/ DecTry(h) \/ DecSwap(h)
    PROVE  CreditInv'
<1>a. PICK v, s : v = call[h] /\ s = slot
  OBVIOUS
<1>1. /\ v \in Calls /\ CallOk(s, admin, torn, v) /\ call \in [Takers -> Calls]
      /\ s \in [active : BOOLEAN, epoch : Nat \ {0}, gen : Nat \ {0}, n : Nat, max : Nat]
      /\ admin \in {"none", "gen", "zero", "flip"} /\ torn \in BOOLEAN
      /\ s.max # 0 => s.n <= s.max
  BY <1>a DEF CreditInv, CreditType
<1>2. Out \in Calls /\ CallOk(s, admin, torn, Out) /\ Out.got # s.gen
  BY <1>1 DEF Out, Calls, Asking, Undoing, Keeping, CallOk, Swapping
<1>3. ASSUME NEW p \in {"dec", "dec_gen", "dec_swap"}, Turn(h, p),
             v.pc \in {"held", "dec", "dec_try"}, UNCHANGED <<slot, admin, torn>>,
             p = "dec_swap" => v.cur > 0 /\ v.ep = s.epoch /\ v.g0 = s.gen
      PROVE  CreditInv'
  <2> DEFINE u == [v EXCEPT !.pc = p]
  <2>1. call' = [call EXCEPT ![h] = u]
    BY <1>3, <1>a DEF Turn
  <2>2. u \in Calls /\ u.got = v.got /\ CallOk(s, admin, torn, u)
    BY <1>1, <1>3 DEF Calls, CallOk, Asking, Undoing, Keeping, Swapping
  <2> HIDE DEF u
  <2> QED BY <1>3, <1>a, <2>1, <2>2, QuietCall
<1>4. ASSUME Leave(h), UNCHANGED <<slot, admin, torn>>, Settled => v.got # s.gen
      PROVE  CreditInv'
  BY <1>2, <1>4, <1>a, QuietCall DEF Leave
<1>5. CASE EndHeld(h)
  BY <1>3, <1>5, <1>a DEF EndHeld, InCall
<1>6. CASE DecLook(h)
  <2>1. v.pc = "dec" /\ UNCHANGED <<slot, admin, torn>>
    BY <1>6, <1>a DEF DecLook, InCall
  <2>2. ~Seen(h) /\ Settled => v.got # s.gen
    BY <1>1, <1>a, <2>1 DEF Seen, Settled, CallOk, Keeping
  <2> QED BY <1>3, <1>4, <1>6, <2>1, <2>2 DEF DecLook
<1>7. CASE DecGen(h)
  <2> DEFINE u == [v EXCEPT !.g0 = s.gen, !.pc = "dec_load"]
  <2>1. call' = [call EXCEPT ![h] = u] /\ v.pc = "dec_gen"
    BY <1>7, <1>a DEF DecGen, InCall
  <2>2. /\ u \in Calls /\ u.pc = "dec_load" /\ u.got = v.got /\ u.ep = v.ep
        /\ u.g0 = s.gen /\ s.gen \in Nat
    BY <1>1 DEF Calls, Keeping
  <2> HIDE DEF u
  <2>3. CallOk(s, admin, torn, u)
    BY <1>1, <2>1, <2>2 DEF CallOk, Asking, Undoing, Keeping, Swapping
  <2> QED BY <1>7, <1>a, <2>1, <2>2, <2>3, QuietCall DEF DecGen
<1>8. ASSUME v.pc \in {"dec_load", "dec_swap"}, UNCHANGED <<slot, admin, torn>>,
             call' = [call EXCEPT ![h].cur = slot.n, ![h].pc = "dec_try"]
      PROVE  CreditInv'
  <2> DEFINE u == [v EXCEPT !.cur = s.n, !.pc = "dec_try"]
  <2>1. call' = [call EXCEPT ![h] = u]
    BY <1>8, <1>a
  <2>2. v.ep = s.epoch /\ ~torn => Settled /\ v.got = s.gen
    BY <1>1, <1>8 DEF CallOk, Keeping, Settled
  <2>3. v.ep = s.epoch /\ ~torn => s.n > 0
    BY <1>a, <2>2, CountedCall
  <2>4. u \in Calls /\ u.got = v.got /\ CallOk(s, admin, torn, u)
    BY <1>1, <1>8, <2>3 DEF Calls, CallOk, Asking, Undoing, Keeping, Swapping
  <2> HIDE DEF u
  <2> QED BY <1>8, <1>a, <2>1, <2>4, QuietCall
<1>9. CASE DecLoad(h)
  BY <1>8, <1>9, <1>a DEF DecLoad, InCall
<1>10. CASE DecTry(h)
  <2> DEFINE ok == v.cur > 0 /\ s.epoch = v.ep /\ s.gen = v.g0
  <2>1. /\ v.pc = "dec_try" /\ UNCHANGED <<slot, admin, torn>>
        /\ (ok /\ Turn(h, "dec_swap")) \/ (~ok /\ Leave(h))
    BY <1>10, <1>a DEF DecTry, InCall
  <2>2. ~ok /\ Settled => v.got # s.gen
    BY <1>1, <2>1 DEF Settled, CallOk, Keeping
  <2>3. CASE ok /\ Turn(h, "dec_swap")
    BY <1>3, <2>1, <2>3
  <2>4. CASE ~ok /\ Leave(h)
    BY <1>4, <2>1, <2>2, <2>4
  <2> QED BY <2>1, <2>3, <2>4
<1>11. CASE DecSwap(h)
  <2>1. v.pc = "dec_swap" /\ UNCHANGED <<admin, torn>>
    BY <1>11, <1>a DEF DecSwap, InCall
  <2>2. CASE s.n = v.cur /\ slot' = [slot EXCEPT !.n = @ - 1] /\ Leave(h)
    <3>1. s.n > 0 /\ (Settled => v.got = s.gen)
      BY <1>1, <2>1, <2>2 DEF CallOk, Settled, Swapping
    <3>2. s.n - 1 \in Nat /\ slot' = [slot EXCEPT !.n = s.n - 1]
          /\ (s.max # 0 => s.n - 1 <= s.max)
      BY <1>1, <1>a, <2>2, <3>1
    <3> QED BY <1>2, <1>a, <2>1, <2>2, <3>1, <3>2, OneCall DEF Leave
  <2> QED BY <1>8, <1>11, <1>a, <2>1, <2>2 DEF DecSwap
<1> QED BY <1>5, <1>6, <1>7, <1>9, <1>10, <1>11

(* Deletions and creations of the account.                                   *)
LEMMA AdminKeeps ==
    ASSUME CreditInv, CreditAdmin
    PROVE  CreditInv'
<1>1. /\ slot \in [active : BOOLEAN, epoch : Nat \ {0}, gen : Nat \ {0}, n : Nat, max : Nat]
      /\ call \in [Takers -> Calls] /\ torn \in BOOLEAN
      /\ \A h \in Takers : call[h] \in Calls /\ CallOk(slot, admin, torn, call[h])
      /\ slot.max # 0 => slot.n <= slot.max
  BY DEF CreditInv, CreditType
<1>2. CASE BumpEpoch
  <2>1. /\ slot' = [slot EXCEPT !.epoch = @ + 1] /\ admin' = "gen" /\ call' = call
        /\ torn' = torn
    BY <1>2 DEF BumpEpoch
  <2>2. CreditType'
    BY <1>1, <2>1 DEF CreditType
  <2>3. ASSUME NEW h \in Takers PROVE CallOk(slot', admin', torn', call'[h])
    BY <1>1, <2>1 DEF CallOk, Calls
  <2>4. slot'.max # 0 => slot'.n <= slot'.max
    BY <1>1, <2>1
  <2> QED BY <2>1, <2>2, <2>3, <2>4 DEF CreditInv, Settled
<1>3. CASE BumpGen
  <2>1. /\ slot' = [slot EXCEPT !.gen = @ + 1] /\ admin' = "zero" /\ call' = call
        /\ torn' = torn /\ admin = "gen"
    BY <1>3 DEF BumpGen
  <2>2. CreditType'
    BY <1>1, <2>1 DEF CreditType
  <2>3. ASSUME NEW h \in Takers PROVE CallOk(slot', admin', torn', call'[h])
    BY <1>1, <2>1 DEF CallOk, Calls
  <2>4. slot'.max # 0 => slot'.n <= slot'.max
    BY <1>1, <2>1
  <2> QED BY <2>1, <2>2, <2>3, <2>4 DEF CreditInv, Settled
<1>4. CASE ClearCounter
  <2>1. /\ slot' = [slot EXCEPT !.n = 0] /\ admin' = "flip" /\ call' = call
        /\ torn' = (\E h \in Takers : Caught(h)) /\ admin = "zero"
    BY <1>4 DEF ClearCounter
  <2>2. torn' \in BOOLEAN /\ (~torn' => \A h \in Takers : ~Caught(h))
    BY <2>1
  <2>3. CreditType'
    BY <1>1, <2>1, <2>2 DEF CreditType
  <2>4. ASSUME NEW h \in Takers PROVE CallOk(slot', admin', torn', call'[h])
    BY <1>1, <2>1, <2>2 DEF CallOk, Calls, Caught
  <2>5. slot'.n = 0 /\ slot'.gen = slot.gen /\ slot'.max = slot.max
    BY <1>1, <2>1
  <2>6. ASSUME ~torn' PROVE slot'.n = Cardinality(Creditors')
    <3>1. Creditors' = {}
      BY <2>1, <2>2, <2>5, <2>6 DEF Creditors, Caught
    <3> QED BY <2>5, <3>1, FS_EmptySet
  <2> QED BY <1>1, <2>3, <2>4, <2>5, <2>6 DEF CreditInv, Settled
<1>5. CASE FlipActive
  <2>1. /\ slot' = [slot EXCEPT !.active = ~@] /\ admin' = "none" /\ call' = call
        /\ torn' = torn /\ admin = "flip"
    BY <1>5 DEF FlipActive
  <2>2. /\ slot'.n = slot.n /\ slot'.gen = slot.gen /\ slot'.max = slot.max
        /\ slot'.epoch = slot.epoch /\ slot'.active \in BOOLEAN
    BY <1>1, <2>1
  <2>3. CreditType'
    BY <1>1, <2>1 DEF CreditType
  <2>4. ASSUME NEW h \in Takers PROVE CallOk(slot', admin', torn', call'[h])
    BY <1>1, <2>1, <2>2 DEF CallOk, Calls
  <2>5. Creditors' = Creditors
    BY <2>1, <2>2 DEF Creditors
  <2> QED BY <1>1, <2>1, <2>2, <2>3, <2>4, <2>5 DEF CreditInv, Settled
<1> QED BY <1>2, <1>3, <1>4, <1>5 DEF CreditAdmin

(* Every step of calls and administrator.                                    *)
LEMMA CreditStep ==
    ASSUME CreditInv, [CreditNext]_creditVars
    PROVE  CreditInv'
<1>1. CASE UNCHANGED creditVars
  BY <1>1 DEF creditVars, CreditInv, CreditType, CallOk, Settled, Creditors
<1>2. ASSUME NEW h \in Takers, CreditCall(h) PROVE CreditInv'
  BY <1>2, IncKeeps, UndoKeeps, DecKeeps DEF CreditCall
<1> QED BY <1>1, <1>2, AdminKeeps DEF CreditNext

(* At the start nobody is counted.                                           *)
LEMMA CreditStart == CreditInit => CreditInv
<1> SUFFICES ASSUME CreditInit PROVE CreditInv
  OBVIOUS
<1>1. PICK m \in Nat :
          slot = [active |-> TRUE, epoch |-> 1, gen |-> 1, n |-> 0, max |-> m]
  BY CreditsAssumption DEF CreditInit
<1>2. Out \in Calls /\ Out.got = 0
  BY DEF Out, Calls, Asking, Undoing, Keeping
<1>3. CreditType
  <2>1. slot \in [active : BOOLEAN, epoch : Nat \ {0}, gen : Nat \ {0}, n : Nat, max : Nat]
    BY <1>1
  <2>2. call \in [Takers -> Calls]
    BY <1>2 DEF CreditInit
  <2> QED BY <2>1, <2>2 DEF CreditInit, CreditType
<1>4. CallOk(slot, admin, torn, Out)
  BY <1>1 DEF CreditInit, Out, CallOk, Asking, Undoing, Keeping, Swapping
<1>5. Creditors = {}
  BY <1>1, <1>2 DEF CreditInit, Creditors
<1> QED BY <1>1, <1>3, <1>4, <1>5, FS_EmptySet DEF CreditInit, CreditInv

(* However many CONNECTs and SUBSCRIBEs race with each other and with the    *)
(* deletion and creation of their account, its counter stays within its      *)
(* limit and counts what was taken since the last clear, unless that clear   *)
(* fell between the check and the swap of a call.                            *)
THEOREM CreditsKept == CreditSpec => []CreditsExact
<1>1. CreditInv => CreditsExact
  <2> SUFFICES ASSUME CreditInv PROVE CreditsExact
    OBVIOUS
  <2>1. ASSUME NEW h \in Takers, InCall(h, "held"), Seen(h) PROVE h \in Creditors
    BY <2>1 DEF CreditInv, CallOk, InCall, Seen, Creditors, Keeping
  <2> QED BY <2>1 DEF CreditInv, Settled, CreditsExact
<1>2. CreditInv /\ [CreditNext]_creditVars => CreditInv'
  BY CreditStep
<1> QED BY <1>1, <1>2, CreditStart, PTL DEF CreditSpec

=============================================================================
