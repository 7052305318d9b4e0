----------------------------- MODULE Filestore -----------------------------
(***************************************************************************)
(* The write-ahead log of store/cmq_filestore.c: a data file of records, an *)
(* idx file of their offsets, the archive pair (.data.1, .idx.1) they       *)
(* rotate to, and the handle one process has on them.                       *)
(*                                                                          *)
(* An operation holds fs->lock from its first to its last step, so the      *)
(* steps of two operations never mix; what can come between them is a       *)
(* crash.  status says which operation is in the middle of what.  The files *)
(* outlive a crash; what a power loss spares is what was synced.            *)
(***************************************************************************)
EXTENDS Naturals, Sequences, FiniteSets

CONSTANTS
    Payloads,       \* what is appended
    Size,           \* Size[p]: cells the payload takes after its header
    KeyOf, NoKey,   \* KeyOf[p]: the key of a CMQK envelope, or NoKey
    Tombs,          \* keyed payloads with an empty value
    Unknown,        \* UINT64_MAX in data_end_off
    Torn,           \* an idx entry that is not 8 bytes long
    Nobody,         \* no operation in progress
    RotateAt,       \* rotate_bytes, in cells; 0 is off
    DirtyNum, DirtyDen,   \* compact_dirty_num / compact_dirty_den; 0 is off
    Young,          \* whether tombstone_ttl_ms may find the archive young
    RingMax,        \* async_capacity
    Troubles,       \* the kinds of trouble that may happen
    MaxAppend, MaxOpen, MaxUpkeep,    \* appends, opens, compactions
    MaxTrouble                        \* kinds of trouble in one behaviour

(* What the constants must satisfy.                                          *)
FilestoreAssumption ==
    /\ Size \in [Payloads -> Nat \ {0}]
    /\ Tombs \subseteq {p \in Payloads : KeyOf[p] # NoKey}
    /\ {RotateAt, DirtyNum, DirtyDen, RingMax} \subseteq Nat
    /\ Young \subseteq BOOLEAN /\ Young # {}
    /\ Troubles \subseteq {"attach", "other", "async", "crash", "power", "io",
                     "stuck"}
    /\ Unknown \notin Nat /\ Torn \notin Nat

VARIABLES
    data, idx,      \* the live files
    adata, aidx,    \* the archive files ...
    have,           \* ... and which of the two exist
    synced,         \* cells of data, whole entries of idx on the disk
    status,         \* the handle: closed, open, broken, or inside an operation
    job,            \* the operation inside: payload, offset, new idx
    cache,          \* data_end_off
    due,            \* a rotation has asked for compact_keys_maybe
    ring,           \* the async ring
    acked,          \* [seq, pay] of every append that returned 0
    promised,       \* those that a sync, rotation or compaction made durable
    harm,           \* since the last open: "blind" an append used a stale
                    \* offset, "stuck" a rollback failed, "mixed" the two
                    \* live files are not a pair that belongs together
    sealed,         \* payloads of the live files when they were archived
    exact,          \* they were all that the archived data file held
    spent,          \* how many operations of each kind there were
    hit             \* the kinds of trouble that have happened

live    == <<data, idx, synced>>
archive == <<adata, aidx, have, sealed, exact>>
handle  == <<status, job, cache, due, ring>>
claims  == <<acked, promised, harm>>
budget  == <<spent, hit>>
vars    == <<live, archive, handle, claims, budget>>

Limit == [append |-> MaxAppend, open |-> MaxOpen, upkeep |-> MaxUpkeep]

Count(K) == /\ \A k \in K : spent[k] < Limit[k]
            /\ spent' = [k \in DOMAIN Limit |->
                           IF k \in K THEN spent[k] + 1 ELSE spent[k]]

Spend(k) == Count({k}) /\ UNCHANGED hit

(* Trouble of the kinds T, during an operation of the kinds K (or of none).  *)
Hit(T, K) ==
    /\ T \subseteq Troubles \ hit
    /\ hit' = hit \cup T
    /\ Cardinality(hit') <= MaxTrouble
    /\ Count(K)

Init ==
    /\ data = <<>> /\ idx = <<>> /\ synced = [data |-> 0, idx |-> 0]
    /\ adata = <<>> /\ aidx = <<>> /\ have = {}
    /\ sealed = <<>> /\ exact = FALSE
    /\ status = "closed" /\ job = Nobody /\ cache = 0 /\ due = FALSE
    /\ ring = <<>>
    /\ acked = {} /\ promised = {} /\ harm = {}
    /\ spent = [k \in DOMAIN Limit |-> 0] /\ hit = {}

-----------------------------------------------------------------------------
(* The file formats.  A record is a header cell and Size[p] body cells, so   *)
(* an offset that is off by less than a record points into a body.           *)

Hdr(s, p) == [tag |-> "hdr", seq |-> s, pay |-> p]
Body(p)   == [tag |-> "body", seq |-> 0, pay |-> p]
Raw(p)    == [tag |-> "raw", seq |-> 0, pay |-> p]     \* no header
Zero      == [tag |-> "zero", seq |-> 0, pay |-> Nobody]

Fill(c, n)    == [i \in 1..n |-> c]
Record(s, p)  == <<Hdr(s, p)>> \o Fill(Body(p), Size[p])

(* ftruncate to n cells: a shorter file grows by zeros.                      *)
Resize(d, n) == [i \in 1..n |-> IF i <= Len(d) THEN d[i] ELSE Zero]
Smaller(m, n) == IF m < n THEN m ELSE n

(* A header with the magic at offset o of d, its payload inside the file and *)
(* the CRC right.                                                            *)
RecordAt(d, o) ==
    /\ o < Len(d) /\ d[o + 1].tag = "hdr"
    /\ LET p == d[o + 1].pay IN
          /\ o + 1 + Size[p] <= Len(d)
          /\ \A i \in (o + 2)..(o + 1 + Size[p]) : d[i] = Body(p)

(* Mutant: the sequence number of the header is not compared.                *)
Good_AnySeq(d, x, s) == x[s] # Torn /\ RecordAt(d, x[s])

(* The checks that repair_idx and read share: entry s leads to record s.     *)
Good(d, x, s) == x[s] # Torn /\ RecordAt(d, x[s]) /\ d[x[s] + 1].seq = s

PayAt(d, x, s) == d[x[s] + 1].pay

(* Entries of an idx file, without a torn last one (fs_refresh_next_seq).    *)
Whole(x) == SelectSeq(x, LAMBDA o : o # Torn)

(* The data and idx file that hold the payloads ps as records 1, 2, ...      *)
DataOf(ps) ==
    LET built[i \in 0..Len(ps)] ==
            IF i = 0 THEN <<>> ELSE built[i - 1] \o Record(i, ps[i])
    IN built[Len(ps)]
IdxOf(ps) == [i \in 1..Len(ps) |-> Len(DataOf(SubSeq(ps, 1, i - 1)))]

-----------------------------------------------------------------------------
(* Opening: cmq_filestore_create, and the reads that follow it.              *)

(* Mutant: the loop stops before it looks at the last entry.                 *)
Valid_Short(d, x) ==
    CHOOSE n \in 0..Len(x) :
        /\ \A s \in 1..n : Good(d, x, s)
        /\ n + 1 >= Len(x) \/ ~Good(d, x, n + 1)

(* repair_idx: how many entries from the start are good.                     *)
Valid(d, x) ==
    CHOOSE n \in 0..Len(x) :
        /\ \A s \in 1..n : Good(d, x, s)
        /\ n = Len(x) \/ ~Good(d, x, n + 1)

(* truncate_orphan_data: where the data of the last of n entries ends.       *)
CoveredEnd(d, x, n) ==
    IF n = 0 THEN 0 ELSE x[n] + 1 + Size[PayAt(d, x, n)]

(* Repair, and what is claimed from now on is what the files then hold.      *)
Repair ==
    LET n == Valid(data, Whole(idx))
        e == CoveredEnd(data, idx, n)
    IN /\ idx'  = SubSeq(idx, 1, n)
       /\ data' = IF Len(data) > e THEN SubSeq(data, 1, e) ELSE data
       /\ synced' = [data |-> Smaller(synced.data, e),
                     idx  |-> Smaller(synced.idx, n)]
       /\ acked' = {[seq |-> s, pay |-> PayAt(data, idx, s)] : s \in 1..n}
       /\ promised' = promised \cap acked'
       /\ harm' = {}

(* data_end_off after the open and the first read of a replay: calloc leaves *)
(* 0, and read_range or read, called when there are records, drops it.       *)
Replayed(x) == IF x = <<>> THEN 0 ELSE Unknown

(* cmq_server_create and cmq_kv_set_persist: open and replay.                *)
Open ==
    /\ status = "closed" /\ Spend("open")
    /\ Repair
    /\ cache' = Replayed(idx')
    /\ status' = "open"
    /\ UNCHANGED <<archive, job, due, ring>>

(* cmq_filestore_reload_attach: open an existing store without a replay.     *)
Attach ==
    /\ status = "closed" /\ Hit({"attach"}, {"open"})
    /\ Repair
    /\ cache' = 0
    /\ status' = "open"
    /\ UNCHANGED <<archive, job, due, ring>>

(* The handle and the memory of its process are gone.                        *)
Killed == /\ status' = "closed" /\ job' = Nobody
          /\ ring' = <<>> /\ due' = FALSE /\ cache' = 0

(* cmq_filestore_destroy; what is left in the ring is freed unwritten.       *)
Close ==
    /\ status \in {"open", "broken"}
    /\ Killed
    /\ UNCHANGED <<live, archive, claims, budget>>

-----------------------------------------------------------------------------
(* filestore_append_impl.                                                    *)

Last   == Len(Whole(idx))
Offset == IF cache = Unknown THEN Len(data) ELSE cache

(* A rollback truncates to the offset the append took from the cache.        *)
RollBack ==
    /\ data' = Resize(data, Offset)
    /\ synced' = [synced EXCEPT !.data = Smaller(@, Offset)]

(* A torn entry goes, the record is written and flushed; or the write fails  *)
(* and is rolled back; or the rollback fails too and some cells stay.        *)
AppendData(p) ==
    LET rec == Record(Last + 1, p)
        sly == IF Offset # Len(data) THEN {"blind"} ELSE {}
    IN
    /\ status = "open"
    /\ idx' = Whole(idx)
    /\ cache' = Offset
    /\ \/ /\ Spend("append")
          /\ data' = data \o rec
          /\ status' = "index"
          /\ job' = [pay |-> p, off |-> Offset]
          /\ harm' = harm \cup sly
          /\ UNCHANGED synced
       \/ /\ Hit({"io"}, {"append"})
          /\ RollBack
          /\ harm' = harm \cup sly
          /\ UNCHANGED <<status, job>>
       \/ /\ Hit({"io", "stuck"}, {"append"})
          /\ \E k \in 1..Len(rec) : data' = data \o SubSeq(rec, 1, k)
          /\ harm' = harm \cup sly \cup {"stuck"}
          /\ UNCHANGED <<status, job, synced>>
    /\ UNCHANGED <<archive, due, ring, acked, promised>>

(* The entry is written: the append returns 0, after a rotation if the file  *)
(* has grown to rotate_bytes.                                                *)
Indexed ==
    LET end == job.off + 1 + Size[job.pay] IN
    /\ idx' = Append(idx, job.off)
    /\ acked' = acked \cup {[seq |-> Len(idx) + 1, pay |-> job.pay]}
    /\ cache' = end
    /\ status' = IF RotateAt > 0 /\ end >= RotateAt THEN "rotate" ELSE "open"

(* The periodic fdatasync of filestore_maybe_fsync covers the data file only.*)
AppendIndex ==
    /\ status = "index"
    /\ job' = Nobody
    /\ \/ /\ Indexed
          /\ synced' \in {synced, [synced EXCEPT !.data = Len(data)]}
          /\ UNCHANGED <<data, harm, budget>>
       \/ /\ Hit({"io"}, {})                     \* rolled back, idx then data
          /\ RollBack
          /\ status' = "open"
          /\ UNCHANGED <<idx, cache, acked, harm>>
       \/ /\ Hit({"io", "stuck"}, {})            \* data or both stay
          /\ idx' \in {idx, Append(idx, Torn), Append(idx, job.off)}
          /\ status' = "open"
          /\ harm' = harm \cup {"stuck"}
          /\ UNCHANGED <<data, synced, cache, acked>>
    /\ UNCHANGED <<archive, due, ring, promised>>

(* cmq_filestore_read and read_range move the streams: the cache is dropped. *)
Read ==
    /\ status = "open" /\ cache # Unknown
    /\ cache' = Unknown
    /\ UNCHANGED <<live, archive, status, job, due, ring, claims, budget>>

(* Mutant: only the data file is synced.                                     *)
Sync_DataOnly ==
    /\ status = "open"
    /\ synced' = [synced EXCEPT !.data = Len(data)]
    /\ promised' = acked
    /\ UNCHANGED <<data, idx, archive, handle, acked, harm, budget>>

(* filestore_sync_impl                                                       *)
Sync ==
    /\ status = "open"
    /\ synced' = [data |-> Len(data), idx |-> Last]
    /\ promised' = acked
    /\ UNCHANGED <<data, idx, archive, handle, acked, harm, budget>>

-----------------------------------------------------------------------------
(* filestore_rotate_archive_locked: sync, unlink the old archive, rename the *)
(* data file, rename the idx file, start empty.                              *)

Contents(d, x) == [s \in 1..Len(x) |-> PayAt(d, x, s)]

(* The payloads of all whole records of a data file, with or without an idx. *)
Records(d) ==
    LET found[i \in 0..Len(d)] ==
            IF i = 0 THEN <<>>
            ELSE IF RecordAt(d, i - 1) THEN Append(found[i - 1], d[i].pay)
                 ELSE found[i - 1]
    IN found[Len(d)]

(* The live files hold records 1, 2, ... and no others.                      *)
Pure == harm = {} /\ Contents(data, idx) = Records(data)

RotateData ==
    /\ status = "rotate"
    /\ \/ /\ adata' = data /\ data' = <<>> /\ have' = {"data"} /\ aidx' = <<>>
          /\ synced' = [data |-> 0, idx |-> Len(idx)]
          /\ status' = "rotate2"
          /\ exact' = Pure
          /\ sealed' = IF Pure THEN Contents(data, idx) ELSE <<>>
          /\ harm' = harm \cup {"mixed"}
          /\ promised' = acked
          /\ UNCHANGED budget
       \/ /\ Hit({"io"}, {})                     \* the flush fails
          /\ status' = "open"
          /\ UNCHANGED <<data, synced, archive, harm, promised>>
       \/ /\ Hit({"io"}, {})                     \* the first rename fails
          /\ have' = {} /\ adata' = <<>> /\ aidx' = <<>>
          /\ sealed' = <<>> /\ exact' = FALSE
          /\ synced' = [data |-> Len(data), idx |-> Len(idx)]
          /\ promised' = acked
          /\ status' = "open"
          /\ UNCHANGED <<data, harm>>
    /\ UNCHANGED <<idx, job, cache, due, ring, acked>>

(* The live files start empty and the cache is right again; or the handle    *)
(* could not be opened; or the rename fails and idx stays without its data.  *)
RotateIdx ==
    /\ status = "rotate2"
    /\ \/ /\ aidx' = idx /\ idx' = <<>> /\ have' = {"data", "idx"}
          /\ synced' = [data |-> 0, idx |-> 0]
          /\ acked' = {} /\ promised' = {} /\ harm' = {}
          /\ \/ cache' = 0 /\ status' = "open" /\ due' = (DirtyDen > 0)
                /\ UNCHANGED budget
             \/ Hit({"io"}, {}) /\ status' = "broken" /\ UNCHANGED <<cache, due>>
       \/ /\ Hit({"io"}, {})
          /\ status' = "open"
          /\ UNCHANGED <<idx, synced, aidx, have, cache, due, acked, promised,
                         harm>>
    /\ UNCHANGED <<data, adata, sealed, exact, job, ring>>

-----------------------------------------------------------------------------
(* filestore_compact_impl: keep the newest records, renumbered from 1.       *)

CompactAll ==
    /\ status = "open" /\ Last > 0
    /\ data' = <<>>
    /\ \/ /\ Spend("upkeep")
          /\ idx' = <<>>
          /\ synced' = [data |-> 0, idx |-> 0]
          /\ cache' = 0 /\ acked' = {} /\ promised' = {} /\ harm' = {}
       \/ /\ Hit({"io"}, {"upkeep"})          \* idx cannot be truncated
          /\ idx' = Whole(idx)
          /\ synced' = [data |-> 0, idx |-> Smaller(synced.idx, Last)]
          /\ harm' = harm \cup {"mixed"}
          /\ UNCHANGED <<cache, acked, promised>>
    /\ UNCHANGED <<archive, status, job, due, ring>>

(* The copies are written and synced, and the first of the two is renamed.   *)
CompactData(retain) ==
    LET kept == [i \in 1..retain |-> PayAt(data, idx, Last - retain + i)] IN
    /\ status = "open" /\ retain \in 1..(Last - 1)
    /\ \A s \in (Last - retain + 1)..Last : RecordAt(data, idx[s])
    /\ Spend("upkeep")
    /\ idx' = Whole(idx)
    /\ data' = DataOf(kept)
    /\ synced' = [data |-> Len(data'), idx |-> Smaller(synced.idx, Last)]
    /\ status' = "swap"
    /\ job' = [idx |-> IdxOf(kept), from |-> Last - retain, ok |-> harm = {}]
    /\ harm' = harm \cup {"mixed"}
    /\ UNCHANGED <<archive, cache, due, ring, acked, promised>>

CompactDone ==
    /\ idx' = job.idx
    /\ synced' = [synced EXCEPT !.idx = Len(job.idx)]
    /\ acked' = {[seq |-> a.seq - job.from, pay |-> a.pay] :
                    a \in {b \in acked : b.seq > job.from}}
    /\ promised' = acked'
    /\ harm' = IF job.ok THEN {} ELSE harm
    /\ cache' = Len(data)

CompactIdx ==
    /\ status = "swap"
    /\ job' = Nobody
    /\ \/ /\ CompactDone
          /\ \/ status' = "open" /\ UNCHANGED budget
             \/ Hit({"io"}, {}) /\ status' = "broken"     \* no reopen
       \/ /\ Hit({"io"}, {})                     \* the second rename fails
          /\ status' = "open"
          /\ UNCHANGED <<idx, synced, acked, promised, harm, cache>>
    /\ UNCHANGED <<data, archive, due, ring>>

-----------------------------------------------------------------------------
(* filestore_compact_keys_impl, on the archive: the last value of each key.  *)

LaterSame(ps, i) == {j \in (i + 1)..Len(ps) : KeyOf[ps[j]] = KeyOf[ps[i]]}

(* Mutant: the first record of a key is kept instead of the last.            *)
Keep_First(ps, i, young) ==
    \/ KeyOf[ps[i]] = NoKey
    \/ /\ \A j \in 1..(i - 1) : KeyOf[ps[j]] # KeyOf[ps[i]]
       /\ ps[i] \notin Tombs \/ young

(* keycompact_mark                                                           *)
Keep(ps, i, young) ==
    \/ KeyOf[ps[i]] = NoKey
    \/ LaterSame(ps, i) = {} /\ (ps[i] \notin Tombs \/ young)

Kept(ps, young) ==
    LET pick[i \in 0..Len(ps)] ==
            IF i = 0 THEN <<>>
            ELSE IF Keep(ps, i, young) THEN Append(pick[i - 1], ps[i])
                 ELSE pick[i - 1]
    IN pick[Len(ps)]

(* keycompact_load fails on any record it cannot read.                       *)
Loadable == /\ have = {"data", "idx"}
            /\ \A s \in 1..Len(aidx) : aidx[s] # Torn /\ RecordAt(adata, aidx[s])

(* drop / total >= num / den, of filestore_compact_keys_maybe_impl           *)
Dirty(ps, young) == /\ Len(ps) > 0
                    /\ (Len(ps) - Len(Kept(ps, young))) * DirtyDen
                            >= Len(ps) * DirtyNum

KeysData(ps) ==
    /\ adata' = DataOf(ps)
    /\ status' = "keyswap"
    /\ job' = [idx |-> IdxOf(ps)]

CompactKeys(young) ==
    /\ status = "open" /\ Loadable /\ Spend("upkeep")
    /\ KeysData(Kept(Contents(adata, aidx), young))
    /\ UNCHANGED <<live, aidx, have, sealed, exact, cache, due, ring, claims>>

(* The same after a rotation, when enough of the archive is dead.            *)
CompactKeysMaybe(young) ==
    /\ status = "open" /\ due
    /\ due' = FALSE
    /\ \/ /\ Loadable /\ Dirty(Contents(adata, aidx), young)
          /\ KeysData(Kept(Contents(adata, aidx), young))
       \/ /\ ~(Loadable /\ Dirty(Contents(adata, aidx), young))
          /\ UNCHANGED <<adata, status, job>>
    /\ UNCHANGED <<live, aidx, have, sealed, exact, cache, ring, claims, budget>>

CompactKeysIdx ==
    /\ status = "keyswap"
    /\ status' = "open" /\ job' = Nobody
    /\ \/ aidx' = job.idx /\ UNCHANGED budget
       \/ Hit({"io"}, {}) /\ UNCHANGED aidx    \* the second rename fails
    /\ UNCHANGED <<live, adata, have, sealed, exact, cache, due, ring, claims>>

-----------------------------------------------------------------------------
(* The async ring.  Its worker writes the bare entry: no header, no idx.     *)

AsyncEnqueue(p) ==
    /\ status = "open" /\ Len(ring) < RingMax
    /\ Hit({"async"}, {"append"})
    /\ ring' = Append(ring, p)
    /\ UNCHANGED <<live, archive, status, job, cache, due, claims>>

AsyncWrite ==
    /\ status = "open" /\ ring # <<>>
    /\ data' = data \o Fill(Raw(Head(ring)), Size[Head(ring)])
    /\ ring' = Tail(ring)
    /\ UNCHANGED <<idx, synced, archive, status, job, cache, due, claims, budget>>

(* Another process appends between two operations, under the file locks.     *)
OtherAppend(p) ==
    /\ status = "open" /\ Hit({"other"}, {"append"})
    /\ data' = data \o Record(Last + 1, p)
    /\ idx' = Append(Whole(idx), Len(data))
    /\ acked' = acked \cup {[seq |-> Last + 1, pay |-> p]}
    /\ UNCHANGED <<synced, archive, handle, promised, harm>>

-----------------------------------------------------------------------------
(* Crashes.                                                                  *)

(* kill -9: whatever was written stays; a write may have been cut short.     *)
Crash ==
    /\ status # "closed"
    /\ Killed
    /\ \/ Hit({"crash"}, {}) /\ UNCHANGED live
       \/ /\ status = "open" /\ Hit({"crash"}, {"append"})
          /\ \E p \in Payloads : \E k \in 1..Size[p] :
                data' = data \o SubSeq(Record(Last + 1, p), 1, k)
          /\ UNCHANGED <<idx, synced>>
       \/ /\ status = "index" /\ Hit({"crash"}, {})
          /\ idx' \in {Append(idx, Torn), Append(idx, job.off)}
          /\ UNCHANGED <<data, synced>>
    /\ UNCHANGED <<archive, claims>>

(* The machine goes down: each file keeps its synced part and perhaps more.  *)
PowerLoss ==
    /\ Hit({"power"}, {})
    /\ Killed
    /\ \E k \in synced.data..Len(data), m \in synced.idx..Len(idx) :
          /\ data' = SubSeq(data, 1, k)
          /\ idx' = SubSeq(idx, 1, m)
          /\ synced' = [data |-> k, idx |-> Smaller(m, Last)]
    /\ acked' = promised
    /\ UNCHANGED <<archive, promised, harm>>

Operation ==
    \/ Open \/ Attach \/ Close \/ Read \/ Sync
    \/ \E p \in Payloads : AppendData(p) \/ AsyncEnqueue(p) \/ OtherAppend(p)
    \/ AppendIndex \/ RotateData \/ RotateIdx
    \/ CompactAll \/ CompactIdx \/ \E n \in 1..MaxAppend : CompactData(n)
    \/ \E young \in Young : CompactKeys(young) \/ CompactKeysMaybe(young)
    \/ CompactKeysIdx \/ AsyncWrite

Next == Operation \/ Crash \/ PowerLoss

Spec == Init /\ [][Next]_vars

-----------------------------------------------------------------------------
(* Properties.                                                               *)

(* An append that returned 0 can be read back at its sequence number, in     *)
(* every state and across kill -9; and one that a sync covered, across a     *)
(* power loss.  The two exceptions are an append at a stale cached offset    *)
(* and a pair of renames or truncations of which one was done.               *)
Durable ==
    harm \subseteq {"stuck"} =>
        \A a \in acked : /\ a.seq <= Len(idx)
                         /\ Good(data, idx, a.seq)
                         /\ PayAt(data, idx, a.seq) = a.pay

(* Even after an append at a stale offset, a read never returns another      *)
(* payload than the one acknowledged under that sequence number.             *)
ReadSound ==
    harm \subseteq {"blind"} =>
        \A a \in acked : a.seq <= Len(idx) /\ Good(data, idx, a.seq)
                            => PayAt(data, idx, a.seq) = a.pay

(* Opening a store repairs it without dropping an acknowledged record.       *)
ReopenKeeps ==
    [][status = "closed" /\ status' = "open" /\ harm \subseteq {"stuck"}
          => acked \subseteq acked']_vars

(* persistence.md: on restart every persisted record is restored.            *)
NothingLost ==
    [][status = "closed" /\ status' = "open" => acked \subseteq acked']_vars

(* What a reader of the archive is after: the unkeyed payloads in order and  *)
(* the last value of each key that has not been deleted.                     *)
Unkeyed(ps) == SelectSeq(ps, LAMBDA p : KeyOf[p] = NoKey)
LastValues(ps) ==
    {ps[i] : i \in {j \in 1..Len(ps) : /\ KeyOf[ps[j]] # NoKey
                                       /\ LaterSame(ps, j) = {}
                                       /\ ps[j] \notin Tombs}}

(* The archived data file never loses an unkeyed record or the last value of *)
(* a key: not by key compaction, however often it runs, and not by a crash   *)
(* or a failed rename between the two renames of a rotation or a key         *)
(* compaction.  What such a crash leaves, new data with the old idx, is a    *)
(* pair keycompact_load refuses, so no later key compaction drops records by *)
(* it: a pair that loads leads to exactly the records of the data file.      *)
ArchiveView ==
    exact => LET now == Records(adata) IN
                /\ Unkeyed(now) = Unkeyed(sealed)
                /\ LastValues(now) = LastValues(sealed)
                /\ Loadable => Contents(adata, aidx) = now

=============================================================================
