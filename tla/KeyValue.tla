------------------------------ MODULE KeyValue ------------------------------
(***************************************************************************)
(* The $KV buckets (src/src/store/cmq_kvb.c over cmq_kv.c) and the $OBJ    *)
(* object store (src/src/store/cmq_obj.c).  A bucket is a table of at most *)
(* SlotMax keys in memory and, when persist_dir is set, a write-ahead log  *)
(* of keyed records (the filestore, module Filestore) that is replayed     *)
(* when the bucket is created, or when persist_dir comes with a reload.    *)
(* An object is one file, written as <name>.tmp and renamed.  The locks of *)
(* the three files make every call one step; a call may be cut short by    *)
(* the end of the process.                                                 *)
(***************************************************************************)
EXTENDS Integers, Sequences, SequencesExt, FiniteSets

CONSTANTS
    Buckets, Keys, Values,
    Objects,      \* object names
    Temp,         \* object -> the path of its temporary file
    Torn,         \* content of a file cut short
    Empty,        \* the empty payload: delete, and the tombstone in the log
    NoTable,      \* a bucket that is not in memory
    BucketMax,    \* CMQ_KVB_MAX
    SlotMax,      \* CMQ_KV_SLOTS_MAX
    MaxWrite,     \* bound: records in all logs, and object writes
    MaxTrouble,   \* bound: failed writes, process ends inside a call
    MaxRestart    \* bound: process ends between calls

VARIABLES
    table,    \* bucket -> NoTable or a function key -> value
    wal,      \* bucket -> its log, a sequence of [key, val]
    blob,     \* path -> the content of the file, Empty if there is none
    on,       \* persist_dir is set
    logged,   \* buckets in memory whose kv->fs is set
    want,     \* bucket -> key -> values the answers so far let a reader of this run expect
    kept,     \* bucket -> key -> the same of a later run, from the writes made with a log
    wantBlob, \* object -> values the answers so far let a reader expect
    crowded,  \* buckets whose logged writes once left more keys than a table holds
    budget    \* [write, trouble, restart]

vars == <<table, wal, blob, on, logged, want, kept, wantBlob, crowded, budget>>

Paths == Objects \cup {Temp[o] : o \in Objects}

NewTable == [k \in {} |-> Empty]
Value(t, k) == IF k \in DOMAIN t THEN t[k] ELSE Empty

\* a server without persist_dir may find the files of one that had it
Init ==
    /\ table = [b \in Buckets |-> NoTable]
    /\ on \in BOOLEAN
    /\ wal \in [Buckets -> {<<>>} \cup {<<[key |-> k, val |-> v]>> : k \in Keys, v \in Values}]
    /\ blob = [p \in Paths |-> Empty]
    /\ kept = [b \in Buckets |-> [k \in Keys |->
                  {IF wal[b] # <<>> /\ wal[b][1].key = k THEN wal[b][1].val ELSE Empty}]]
    /\ want = IF on THEN kept ELSE [b \in Buckets |-> [k \in Keys |-> {Empty}]]
    /\ wantBlob = [o \in Objects |-> {Empty}]
    /\ logged = {} /\ crowded = {}
    /\ budget = [write |-> 0, trouble |-> 0, restart |-> 0]

Spend(what, max) == budget[what] < max /\ budget' = [budget EXCEPT ![what] = @ + 1]

-----------------------------------------------------------------------------
(* Tables. *)

\* kv_apply: an empty value drops the key, a new key needs a free slot
Apply(t, k, v) ==
    IF v = Empty THEN [j \in DOMAIN t \ {k} |-> t[j]]
    ELSE IF k \notin DOMAIN t /\ Cardinality(DOMAIN t) >= SlotMax THEN t
    ELSE [j \in DOMAIN t \cup {k} |-> IF j = k THEN v ELSE t[j]]

\* Mutant: the first record of a key wins.
ReplayWal_FirstWins(t, log) == FoldLeft(LAMBDA acc, r : Apply(acc, r.key, r.val), t, Reverse(log))

\* kv_replay over a table that may already hold keys
ReplayWal(t, log) == FoldLeft(LAMBDA acc, r : Apply(acc, r.key, r.val), t, log)

\* kvb_get_or_create
Live == {b \in Buckets : table[b] # NoTable}
CanCreate(b) == b \in Live \/ Cardinality(Live) < BucketMax
Got(b) ==
    CASE b \in Live -> table[b]
      [] b \notin Live /\ on -> ReplayWal(NewTable, wal[b])
      [] OTHER -> NewTable

\* kvb_get_or_create leaves b in memory, with a log if persist_dir is set; a log
\* that cannot be opened refuses the bucket and changes nothing
GotLogged(b) == IF b \in Live THEN logged ELSE IF on THEN logged \cup {b} ELSE logged
Create(b, t) == table' = [table EXCEPT ![b] = t] /\ logged' = GotLogged(b)

\* the expectations kept' of later runs; a table has room for SlotMax keys only
Crowd ==
    crowded' = crowded \cup
        {b \in Buckets : Cardinality({k \in Keys : kept'[b][k] # {Empty}}) > SlotMax}

\* the process ends: memory is gone, and the next run may rely on what was logged
Gone ==
    /\ table' = [b \in Buckets |-> NoTable] /\ logged' = {}
    /\ want' = [b \in Buckets |-> [k \in Keys |->
                  IF ~on THEN {Empty}
                  ELSE kept'[b][k] \cup (IF b \in crowded' THEN {Empty} ELSE {})]]

-----------------------------------------------------------------------------
(* PUBLISH $KV.<bucket>.<key>. *)

\* cmq_kv_put, cmq_kv_del: the record first, then the table; deleting a key
\* that is not there writes nothing
Write(b, k, v) ==
    /\ CanCreate(b)
    /\ LET t    == Got(b)
           void == IF v = Empty THEN k \notin DOMAIN t
                   ELSE k \notin DOMAIN t /\ Cardinality(DOMAIN t) >= SlotMax
       IN  IF void
           THEN Create(b, t) /\ UNCHANGED <<wal, want, kept, crowded, budget>>
           ELSE /\ Spend("write", MaxWrite)
                /\ Create(b, Apply(t, k, v))
                /\ want' = [want EXCEPT ![b][k] = {v}]
                /\ IF b \in logged'
                   THEN /\ wal' = [wal EXCEPT ![b] = Append(@, [key |-> k, val |-> v])]
                        /\ kept' = [kept EXCEPT ![b][k] = {v}]
                   ELSE UNCHANGED <<wal, kept>>
                /\ Crowd
    /\ UNCHANGED <<blob, on, wantBlob>>

\* a record that cmq_kv_put or cmq_kv_del would write
Writes(b, k, v) ==
    /\ CanCreate(b) /\ b \in GotLogged(b)
    /\ v = Empty => k \in DOMAIN Got(b)
    /\ v # Empty => k \in DOMAIN Got(b) \/ Cardinality(DOMAIN Got(b)) < SlotMax

\* the append fails, its record left or not: the table stays, a put is answered
\* with an error and a delete with success
WriteFails(b, k, v) ==
    /\ Writes(b, k, v) /\ Spend("trouble", MaxTrouble)
    /\ Create(b, Got(b))
    /\ \E left \in BOOLEAN :
        /\ wal' = IF left THEN [wal EXCEPT ![b] = Append(@, [key |-> k, val |-> v])] ELSE wal
        /\ kept' = IF left \/ v = Empty THEN [kept EXCEPT ![b][k] = @ \cup {v}] ELSE kept
    /\ want' = IF v = Empty THEN [want EXCEPT ![b][k] = @ \cup {v}] ELSE want
    /\ Crowd
    /\ UNCHANGED <<blob, on, wantBlob>>

\* the process dies after the record and before the answer
WriteDies(b, k, v) ==
    /\ Writes(b, k, v) /\ Spend("trouble", MaxTrouble)
    /\ wal' = [wal EXCEPT ![b] = Append(@, [key |-> k, val |-> v])]
    /\ kept' = [kept EXCEPT ![b][k] = @ \cup {v}]
    /\ Crowd /\ Gone
    /\ UNCHANGED <<blob, on, wantBlob>>

-----------------------------------------------------------------------------
(* PUBLISH $OBJ.<name>; the store exists only with persist_dir. *)

\* the files after k stages of cmq_obj_put: tmp opened and cut short, tmp
\* whole, renamed
ObjStaged(o, v, k) ==
    CASE k = 0 -> blob
      [] k = 1 -> [blob EXCEPT ![Temp[o]] = Torn]
      [] k = 2 -> [blob EXCEPT ![Temp[o]] = v]
      [] k = 3 -> [blob EXCEPT ![Temp[o]] = Empty, ![o] = v]

\* cmq_obj_publish: a payload is put, an empty one unlinks the file
ObjWrite(o, v) ==
    /\ on /\ Spend("write", MaxWrite)
    /\ blob' = IF v = Empty THEN [blob EXCEPT ![o] = Empty] ELSE ObjStaged(o, v, 3)
    /\ wantBlob' = [wantBlob EXCEPT ![o] = {v}]
    /\ UNCHANGED <<table, wal, on, logged, want, kept, crowded>>

\* the write or the rename fails; the temporary file is unlinked, if that works
ObjFails(o, v, k) ==
    /\ on /\ Spend("trouble", MaxTrouble)
    /\ \E left \in BOOLEAN :
        blob' = [ObjStaged(o, v, k) EXCEPT ![Temp[o]] = IF k = 0 \/ left THEN @ ELSE Empty]
    /\ UNCHANGED <<table, wal, on, logged, want, kept, wantBlob, crowded>>

\* the unlink of a delete fails, and the delete is answered with success
ObjDelFails(o) ==
    /\ on /\ Spend("trouble", MaxTrouble)
    /\ wantBlob' = [wantBlob EXCEPT ![o] = @ \cup {Empty}]
    /\ UNCHANGED <<table, wal, blob, on, logged, want, kept, crowded>>

\* the process dies after k stages
ObjDies(o, v, k) ==
    /\ on /\ Spend("trouble", MaxTrouble)
    /\ blob' = ObjStaged(o, v, k)
    /\ wantBlob' = [wantBlob EXCEPT ![o] = IF k = 3 THEN {v} ELSE @]
    /\ UNCHANGED <<wal, on, kept, crowded>>
    /\ Gone

-----------------------------------------------------------------------------
(* Restart and reload. *)

Restart ==
    /\ Live # {} /\ Spend("restart", MaxRestart)
    /\ UNCHANGED <<wal, blob, on, wantBlob, kept, crowded>>
    /\ Gone

\* cmq_kvb_reload_attach_persist with cmq_kv_set_persist on the buckets in memory, and
\* cmq_obj_reload_attach: the records found are applied over the table.  A bucket whose
\* log cannot be opened goes on without one.  A reader may from now on see the answered
\* writes of this run or of the one that left the log.
AttachPersist(ok) ==
    /\ ~on
    /\ ok \subseteq Live
    /\ IF ok = Live THEN UNCHANGED budget ELSE Spend("trouble", MaxTrouble)
    /\ on' = TRUE
    /\ logged' = ok
    /\ table' = [b \in Buckets |-> IF b \in ok THEN ReplayWal(table[b], wal[b]) ELSE table[b]]
    /\ want' = [b \in Buckets |-> [k \in Keys |->
                  CASE b \in ok -> want[b][k] \cup kept[b][k]
                    [] b \in Live \ ok -> want[b][k]
                    [] OTHER -> kept[b][k]]]
    /\ UNCHANGED <<wal, blob, wantBlob, kept, crowded>>

Next ==
    \/ \E b \in Buckets, k \in Keys, v \in Values \cup {Empty} :
          Write(b, k, v) \/ WriteFails(b, k, v) \/ WriteDies(b, k, v)
    \/ \E o \in Objects, v \in Values \cup {Empty} :
          ObjWrite(o, v) \/ (v = Empty /\ ObjDelFails(o))
    \/ \E o \in Objects, v \in Values :
          \/ \E k \in 0 .. 2 : ObjFails(o, v, k)
          \/ \E k \in 0 .. 3 : ObjDies(o, v, k)
    \/ Restart
    \/ \E ok \in SUBSET Buckets : AttachPersist(ok)

Spec == Init /\ [][Next]_vars
-----------------------------------------------------------------------------
(* Properties. *)

\* A bucket in memory gives for each key the last write answered with success in
\* this run, after a restart the last one made while the bucket had a log, or a later
\* one cut short after its record (cmq_kv_put and cmq_kv_del write the record first,
\* kv_replay is last-wins).  Three answers promise less: a delete is answered with
\* success even when its record failed; a reload that finds both a table and a log may
\* keep either value of a key; and the records logged after it, or after a failed put
\* whose record stayed, may hold more keys than a table, of which a restart drops some,
\* never giving an older value.
KvRecovered ==
    \A b \in Live, k \in Keys :
        Value(table[b], k) \in want[b][k]

\* An object reads as the last blob put, whole, or is absent after a delete (or
\* still there, when the unlink failed): a put that fails or dies leaves the
\* previous file (cmq_obj_put flushes a temporary file and renames it).  Objects named like the temporary file of
\* another one are not covered: putting the other one replaces them.
BlobWhole ==
    \A o \in Objects \ {Temp[p] : p \in Objects} : blob[o] \in wantBlob[o]
=============================================================================
