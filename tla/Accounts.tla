------------------------------ MODULE Accounts ------------------------------
(***************************************************************************)
(* The account table of enterprise/cmq_account.c: soft deletion with an      *)
(* epoch per slot, reclaiming of slots when the table is full, the export,   *)
(* import and map rows of an account, and the three gates the server asks    *)
(* (can_import at SUBSCRIBE, can_export at PUBLISH, may_deliver at           *)
(* delivery).  Sessions stand for the clients of server/cmq_server.c: a      *)
(* CONNECT ensures its account and copies the epoch it then finds; what the  *)
(* epoch protects is in Subscriptions and Publish.                           *)
(*                                                                           *)
(* Every operation of the manager runs under mgr->lock and is one step.      *)
(* The usage counters and their limits are in module Credits; the rewriting  *)
(* of mapped subjects is left out.                                           *)
(***************************************************************************)
EXTENDS Naturals, Sequences, FiniteSets, Subjects

CONSTANTS
    Names,          \* account names
    AnyPeer,        \* "*", a rule for every account
    Sessions,       \* client connections
    Patterns,       \* subjects of rules
    Sources,        \* subjects of map rows
    Topics,         \* concrete subjects
    Inboxes,        \* the topics under _INBOX.
    Dests,          \* map templates that dest_template_ok accepts
    AccountMax,     \* CMQ_ACCOUNT_MAX
    MaxRules,       \* CMQ_ACCOUNT_MAX_EXPORTS, CMQ_ACCOUNT_MAX_IMPORTS
    MaxMaps,        \* CMQ_ACCOUNT_MAX_MAPS
    MaxEpoch,       \* bound: epochs explored
    NoName          \* no account

ASSUME AccountsAssumption ==
    /\ AnyPeer \notin Names /\ NoName \notin Names
    /\ {AccountMax, MaxRules, MaxMaps} \subseteq Nat \ {0}
    /\ MaxEpoch \in Nat
    /\ Inboxes \subseteq Topics

VARIABLES
    slots,      \* mgr->accounts: name, epoch, active
    rows,       \* accounts that have a cmq_account_perms_t
    rules,      \* the export and import rows of all of them
    maps,       \* the map rows of all of them
    map_total,  \* mgr->map_total
    pend,       \* pend[s]: the account CONNECT has ensured but not yet got
    sess        \* sess[s]: account_name and account_epoch of the session

vars == <<slots, rows, rules, maps, map_total, pend, sess>>

Kinds   == {"export", "import"}
Rule    == [kind : Kinds, acc : Names, subj : Patterns, peer : Names \cup {AnyPeer}]
Map     == [acc : Names, src : Sources, dest : Dests]
Slot    == [name : Names, epoch : Nat \ {0}, active : BOOLEAN]
NoSession == [name |-> NoName, epoch |-> 0]

Init ==
    /\ slots = <<>> /\ rows = {} /\ rules = {} /\ maps = {} /\ map_total = 0
    /\ pend = [s \in Sessions |-> NoName]
    /\ sess = [s \in Sessions |-> NoSession]

-----------------------------------------------------------------------------
(* The table.                                                                *)

Held(n)     == {i \in 1 .. Len(slots) : slots[i].name = n}
IsActive(n) == \E i \in Held(n) : slots[i].active
Idle        == {i \in 1 .. Len(slots) : ~slots[i].active}
First(i)    == \A j \in Idle : i <= j

(* clear_account_perms_unlocked(n), purge_peer_acl_refs_unlocked(n)          *)
RulesWithout(n) == {r \in rules : r.acc # n /\ r.peer # n}
MapsWithout(n)  == {m \in maps : m.acc # n}
Used(R, M, n)   == (\E r \in R : r.acc = n) \/ (\E m \in M : m.acc = n)
RowsWithout(n)  == {a \in rows \ {n} : Used(RulesWithout(n), MapsWithout(n), a)}

(* Mutant: deletion keeps the rows of other accounts that name n.            *)
DropPerms_NoPurge(n) ==
    /\ rules' = {r \in rules : r.acc # n}
    /\ maps' = MapsWithout(n)
    /\ rows' = rows \ {n}
    /\ map_total' = map_total - Cardinality(maps \ MapsWithout(n))

DropPerms(n) ==
    /\ rules' = RulesWithout(n)
    /\ maps' = MapsWithout(n)
    /\ rows' = RowsWithout(n)
    /\ map_total' = map_total - Cardinality(maps \ MapsWithout(n))

(* A name the table does not hold: append, or reclaim the first inactive     *)
(* slot when the table is full.                                              *)
NewSlot(n) ==
    /\ Held(n) = {}
    /\ \/ /\ Len(slots) < AccountMax
          /\ slots' = Append(slots, [name |-> n, epoch |-> 1, active |-> TRUE])
          /\ UNCHANGED <<rows, rules, maps, map_total>>
       \/ /\ Len(slots) >= AccountMax
          /\ \E i \in Idle :
                 /\ First(i) /\ slots[i].epoch < MaxEpoch
                 /\ DropPerms(slots[i].name)
                 /\ slots' = [slots EXCEPT ![i] =
                        [name |-> n, epoch |-> slots[i].epoch + 1, active |-> TRUE]]

Reactivate(n) ==
    /\ \E i \in Held(n) :
           /\ ~slots[i].active
           /\ slots[i].epoch < MaxEpoch
           /\ slots' = [slots EXCEPT ![i].active = TRUE, ![i].epoch = @ + 1]
    /\ UNCHANGED <<rows, rules, maps, map_total>>

Create(n) ==
    /\ NewSlot(n) \/ Reactivate(n)
    /\ UNCHANGED <<pend, sess>>

Delete(n) ==
    /\ \E i \in Held(n) :
           /\ slots[i].active
           /\ slots[i].epoch < MaxEpoch
           /\ slots' = [slots EXCEPT ![i].active = FALSE, ![i].epoch = @ + 1]
    /\ DropPerms(n)
    /\ UNCHANGED <<pend, sess>>

-----------------------------------------------------------------------------
(* Export, import and map rows.                                              *)

Shells == {a \in rows : ~Used(rules, maps, a)}

(* find_or_create_perms                                                      *)
FindOrCreatePerms(n) ==
    IF n \in rows THEN rows
    ELSE IF Cardinality(rows) < AccountMax THEN rows \cup {n}
    ELSE (rows \ Shells) \cup {n}

HasRow(n) == n \in rows \/ Cardinality(rows) < AccountMax
                 \/ Cardinality(rows \ Shells) < AccountMax

PeerOk(d) == d = AnyPeer \/ IsActive(d)

RulesOf(k, n) == {r \in rules : r.kind = k /\ r.acc = n}

(* account_add_export_impl and account_add_import_impl                       *)
AddRule(k, n, p, d) ==
    LET r == [kind |-> k, acc |-> n, subj |-> p, peer |-> d]
    IN /\ IsActive(n) /\ PeerOk(d) /\ HasRow(n)
       /\ rows' = FindOrCreatePerms(n)
       /\ rules' = IF Cardinality(RulesOf(k, n)) < MaxRules
                   THEN rules \cup {r} ELSE rules
       /\ UNCHANGED <<slots, maps, map_total, pend, sess>>

(* account_remove_export_impl and account_remove_import_impl: every row of   *)
(* that subject goes, and the account's entry with its last row.             *)
RemoveRule(k, n, p) ==
    LET gone == {r \in RulesOf(k, n) : r.subj = p}
    IN /\ n \in rows /\ gone # {}
       /\ rules' = rules \ gone
       /\ rows' = IF Used(rules \ gone, maps, n) THEN rows ELSE rows \ {n}
       /\ UNCHANGED <<slots, maps, map_total, pend, sess>>

AddMap(n, p, d) ==
    LET old == {m \in maps : m.acc = n}
        same == {m \in old : m.src = p}
        new == [acc |-> n, src |-> p, dest |-> d]
    IN /\ IsActive(n) /\ HasRow(n)
       /\ rows' = FindOrCreatePerms(n)
       /\ \/ /\ same # {}
             /\ maps' = (maps \ same) \cup {new}
             /\ UNCHANGED map_total
          \/ /\ same = {} /\ Cardinality(old) < MaxMaps
             /\ maps' = maps \cup {new}
             /\ map_total' = map_total + 1
       /\ UNCHANGED <<slots, rules, pend, sess>>

RemoveMap(n, p) ==
    LET gone == {m \in maps : m.acc = n /\ m.src = p}
    IN /\ n \in rows /\ gone # {}
       /\ maps' = maps \ gone
       /\ map_total' = map_total - Cardinality(gone)
       /\ rows' = IF Used(rules, maps \ gone, n) THEN rows ELSE rows \ {n}
       /\ UNCHANGED <<slots, rules, pend, sess>>

-----------------------------------------------------------------------------
(* CONNECT: ensure creates a name never used and refuses a soft-deleted one; *)
(* get copies the epoch of an active account.                                *)

ConnectEnsure(s, n) ==
    /\ pend[s] = NoName /\ sess[s] = NoSession
    /\ \/ NewSlot(n)
       \/ IsActive(n) /\ UNCHANGED <<slots, rows, rules, maps, map_total>>
    /\ pend' = [pend EXCEPT ![s] = n]
    /\ UNCHANGED sess

ConnectGet(s) ==
    /\ pend[s] # NoName
    /\ sess' = [sess EXCEPT ![s] =
                   IF IsActive(pend[s])
                   THEN [name |-> pend[s],
                         epoch |-> slots[CHOOSE i \in Held(pend[s]) : TRUE].epoch]
                   ELSE NoSession]
    /\ pend' = [pend EXCEPT ![s] = NoName]
    /\ UNCHANGED <<slots, rows, rules, maps, map_total>>

Disconnect(s) ==
    /\ sess[s] # NoSession
    /\ sess' = [sess EXCEPT ![s] = NoSession]
    /\ UNCHANGED <<slots, rows, rules, maps, map_total, pend>>

Next ==
    \/ \E n \in Names :
           \/ Create(n) \/ Delete(n)
           \/ \E k \in Kinds, p \in Patterns :
                  \/ \E d \in Names \cup {AnyPeer} : AddRule(k, n, p, d)
                  \/ RemoveRule(k, n, p)
           \/ \E p \in Sources :
                  \/ \E d \in Dests : AddMap(n, p, d)
                  \/ RemoveMap(n, p)
           \/ \E s \in Sessions : ConnectEnsure(s, n)
    \/ \E s \in Sessions : ConnectGet(s) \/ Disconnect(s)

Spec == Init /\ [][Next]_vars

-----------------------------------------------------------------------------
(* The gates.                                                                *)

For(r, n) == r.peer \in {n, AnyPeer}

(* export_offered_to: another account exports t to n                         *)
OfferedTo(n, t) ==
    \E r \in rules : /\ r.kind = "export" /\ r.acc # n
                     /\ ~WildcardOnly(r.subj) /\ SubjectMatch(r.subj, t)
                     /\ For(r, n)

(* import_matches_subject                                                    *)
Imports(n, t) ==
    \E r \in RulesOf("import", n) : ~WildcardOnly(r.subj) /\ SubjectMatch(r.subj, t)

(* Mutant: the pair ignores whom the export is for.                          *)
PairOk_AnyDest(n, t) ==
    \E i \in RulesOf("import", n), e \in rules :
        /\ e.kind = "export"
        /\ SubjectMatch(i.subj, t) /\ SubjectMatch(e.subj, t)
        /\ IF i.peer = AnyPeer THEN e.acc # n ELSE e.acc = i.peer

(* import_export_pair_ok                                                     *)
PairOk(n, t) ==
    \E i \in RulesOf("import", n), e \in rules :
        /\ e.kind = "export"
        /\ SubjectMatch(i.subj, t) /\ SubjectMatch(e.subj, t)
        /\ For(e, n)
        /\ IF i.peer = AnyPeer THEN e.acc # n ELSE e.acc = i.peer

CanImport(n, t) == IsActive(n) /\ (OfferedTo(n, t) \/ Imports(n, t) => PairOk(n, t))

Exports(n, t) == RulesOf("export", n) # {}
                     => \E r \in RulesOf("export", n) : SubjectMatch(r.subj, t)

CanExport(n, t) == IsActive(n) /\ Exports(n, t)

MayDeliver(pub, sub, t) ==
    /\ IsActive(pub) /\ IsActive(sub)
    /\ IF pub = sub THEN t \in Inboxes \/ Exports(pub, t)
       ELSE /\ \E r \in RulesOf("export", pub) : SubjectMatch(r.subj, t) /\ For(r, sub)
            /\ \E r \in RulesOf("import", sub) : SubjectMatch(r.subj, t) /\ For(r, pub)

-----------------------------------------------------------------------------
(* Properties.                                                               *)

(* No name is held by two slots, whatever order of create, delete, ensure    *)
(* and reclaim (account_create_impl, account_ensure_impl).                   *)
UniqueNames == \A i, j \in 1 .. Len(slots) : slots[i].name = slots[j].name => i = j

(* Soft deletion leaves nothing behind: every row belongs to an active       *)
(* account, names "*" or an active account, and no account keeps an entry    *)
(* without rows (account_delete_impl, purge_peer_acl_refs_unlocked).         *)
PermsLive ==
    /\ \A a \in rows : IsActive(a) /\ Used(rules, maps, a)
    /\ \A r \in rules : r.acc \in rows /\ PeerOk(r.peer)
    /\ \A m \in maps : m.acc \in rows

(* map_total, which lets a PUBLISH skip the rewriting, counts the map rows   *)
(* of all accounts.                                                          *)
MapTotal == map_total = Cardinality(maps)

(* The SUBSCRIBE gate never lets a ghost through: when a topic belongs to    *)
(* the rules of accounts, can_import accepts it only if some account exports *)
(* it and can deliver it, and whatever may be delivered across accounts      *)
(* passes the gates at both ends.                                            *)
GatesAgree ==
    \A n \in Names, t \in Topics :
        /\ CanImport(n, t) /\ (OfferedTo(n, t) \/ Imports(n, t))
              => \E m \in Names : RulesOf("export", m) # {} /\ MayDeliver(m, n, t)
        /\ \A m \in Names \ {n} :
              MayDeliver(m, n, t) => CanImport(n, t) /\ CanExport(m, t)

=============================================================================
