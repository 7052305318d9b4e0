------------------------------- MODULE Stream -------------------------------
(***************************************************************************)
(* The value of a struct cmq_stream (src/src/store/cmq_stream.c) with the  *)
(* ring of the memory store below it (src/src/store/cmq_store.c), and each *)
(* locked section of the two files as an operator on that value.           *)
(*                                                                         *)
(*   ring   slot -> [seq, val, valid]; sequence number s lives in slot     *)
(*          (s - 1) % Cap;                                                 *)
(*   head   the next sequence number; count  the retained messages, always *)
(*          the newest ones;                                               *)
(*   bytes  total_bytes; nparts and part  the hash partitions and the      *)
(*          partition of each slot's message;                              *)
(*   cons   the consumer table, in table order, each row with its          *)
(*          watermark and its watermark per partition.                     *)
(*                                                                         *)
(* A sequence number of 0 is the code's "none".  The 2^64 and SIZE_MAX     *)
(* saturation branches need more appends than can be made and are left out.*)
(***************************************************************************)
EXTENDS Integers, Sequences, SequencesExt, FiniteSetsExt

CONSTANTS
    Values,     \* message payloads
    Size,       \* payload -> its length in bytes
    PartOf,     \* <<payload, n>> -> FNV-1a of the payload modulo n
    SafeNames,  \* consumer names cursor_token_safe accepts
    Cap,        \* max_msgs, the slots of the ring
    MaxBytes,   \* max_bytes, 0 for no limit
    MaxParts,   \* CMQ_STREAM_MAX_PARTS
    ConsMax,    \* CMQ_MAX_CONSUMERS
    NoVal,      \* content of a slot never written
    NoFile      \* a file that is not there

ASSUME StreamAssumption ==
    /\ Cap \in Nat \ {0} /\ MaxBytes \in Nat /\ MaxParts \in Nat \ {0}
    /\ ConsMax \in Nat \ {0}
    /\ \A v \in Values : Size[v] \in Nat \ {0}
    /\ \A v \in Values, n \in 1 .. MaxParts : PartOf[<<v, n>>] \in 0 .. n - 1

Parts == 0 .. MaxParts - 1

\* cmq_stream_create over cmq_store_create
NewStream ==
    [ring |-> [i \in 0 .. Cap - 1 |-> [seq |-> 0, val |-> NoVal, valid |-> FALSE]],
     head |-> 1, count |-> 0, bytes |-> 0, nparts |-> 1,
     part |-> [i \in 0 .. Cap - 1 |-> 0], cons |-> <<>>]

-----------------------------------------------------------------------------
(* The ring. *)

SlotOf(s) == (s - 1) % Cap
FirstSeq(st) == IF st.count > 0 THEN st.head - st.count ELSE 0
LastSeq(st) == IF st.count > 0 THEN st.head - 1 ELSE 0
Retained(st) == IF st.count > 0 THEN FirstSeq(st) .. LastSeq(st) ELSE {}

\* the checks of store_get_impl and store_seq_len_impl
Has(st, s) ==
    /\ s > 0 /\ s < st.head
    /\ s >= (IF st.head > Cap THEN st.head - Cap ELSE 1)
    /\ st.ring[SlotOf(s)].valid
    /\ st.ring[SlotOf(s)].seq = s

\* store_put_owned_impl, then the partition of the slot
Put(st, v, p) ==
    [st EXCEPT !.ring[SlotOf(st.head)] = [seq |-> st.head, val |-> v, valid |-> TRUE],
               !.part[SlotOf(st.head)] = IF st.nparts > 1 THEN p ELSE @,
               !.head = @ + 1,
               !.count = Min({@ + 1, Cap})]

SizeAt(st, s) == Size[st.ring[SlotOf(s)].val]
BytesOf(st, S) == MapThenSumSet(LAMBDA s : SizeAt(st, s), S)

\* total_bytes is never taken below zero
Debited(b, n) == IF b >= n THEN b - n ELSE 0

\* k rounds of the loop over store_evict_seq_impl, which takes the oldest message only
Evict(st, k) ==
    LET end == FirstSeq(st) + k
    IN  [st EXCEPT !.ring = [i \in DOMAIN st.ring |->
                                IF st.ring[i].valid /\ st.ring[i].seq < end
                                THEN [st.ring[i] EXCEPT !.val = NoVal, !.valid = FALSE]
                                ELSE st.ring[i]],
                   !.count = @ - k,
                   !.bytes = Debited(@, BytesOf(st, FirstSeq(st) .. end - 1))]

-----------------------------------------------------------------------------
(* Consumers and their watermarks. *)

Rows(st, c) == {i \in DOMAIN st.cons : st.cons[i].name = c}
Known(st, c) == Rows(st, c) # {}
Row(st, c) == st.cons[CHOOSE i \in Rows(st, c) : TRUE]
WithRow(st, row) ==
    [st EXCEPT !.cons = [i \in DOMAIN @ |-> IF @[i].name = row.name THEN row ELSE @[i]]]

InitParts(c, s) == [name |-> c, acked |-> s, marks |-> [p \in Parts |-> s]]

LeastMark(row, n) == Min({row.marks[p] : p \in 0 .. n - 1})
SyncAcked(row, n) == IF n <= 1 THEN row ELSE [row EXCEPT !.acked = LeastMark(row, n)]

PartAt(st, s) == IF st.nparts <= 1 \/ s = 0 THEN 0 ELSE st.part[SlotOf(s)]

\* consumer_floor_locked: the oldest message this consumer may still ask for
ConsumerFloor(st, row) ==
    LET floor(acked) == Max({FirstSeq(st), Min({acked, LastSeq(st)}) + 1})
    IN  IF st.nparts <= 1 THEN floor(row.acked)
        ELSE Min({floor(row.marks[p]) : p \in 0 .. st.nparts - 1})

\* Mutant: only the first consumer holds messages back.
RetainFloor_First(st) ==
    IF st.cons = <<>> THEN st.head + 1 ELSE ConsumerFloor(st, st.cons[1])

\* UINT64_MAX of the code is any number past the newest message
RetainFloor(st) ==
    Min({ConsumerFloor(st, st.cons[i]) : i \in DOMAIN st.cons} \cup {st.head + 1})

\* Mutant: a new consumer starts behind the newest message.
AddConsumer_AtEnd(st, c) ==
    IF Known(st, c) \/ Len(st.cons) >= ConsMax THEN st
    ELSE [st EXCEPT !.cons = Append(@, InitParts(c, LastSeq(st)))]

\* stream_add_consumer_impl
AddConsumer(st, c) ==
    IF Known(st, c) \/ Len(st.cons) >= ConsMax THEN st
    ELSE [st EXCEPT !.cons = Append(@, InitParts(c, Max({FirstSeq(st) - 1, 0})))]

\* stream_remove_consumer_impl
RemoveConsumer(st, c) ==
    IF Known(st, c) THEN [st EXCEPT !.cons = RemoveAt(@, Min(Rows(st, c)))] ELSE st

\* stream_consumer_next_impl
NextSeq(st, c) ==
    LET next == Max({FirstSeq(st), Row(st, c).acked + 1})
    IN  IF ~Known(st, c) \/ LastSeq(st) = 0 \/ next > LastSeq(st) THEN 0 ELSE next

\* stream_consumer_next_part_impl
NextSeqPart(st, c, p) ==
    LET start == Max({FirstSeq(st),
                      1 + IF st.nparts > 1 THEN Row(st, c).marks[p] ELSE Row(st, c).acked})
        mine  == {s \in start .. LastSeq(st) : st.nparts <= 1 \/ PartAt(st, s) = p}
    IN  IF ~Known(st, c) \/ p >= st.nparts \/ mine = {} THEN 0 ELSE Min(mine)

\* the window stream_consumer_ack_impl and stream_consumer_ack_part_impl accept
InWindow(st, s) == s > 0 /\ s <= LastSeq(st) /\ s >= FirstSeq(st)

\* stream_consumer_ack_impl; a message may lie in a partition the stream has not
Ack(st, c, s) ==
    LET row == Row(st, c)
        p   == PartAt(st, s)
        cum == [row EXCEPT !.acked = Max({@, s})]
        per == IF p < st.nparts THEN [cum EXCEPT !.marks[p] = Max({@, s})] ELSE cum
    IN  WithRow(st, IF st.nparts > 1 THEN SyncAcked(per, st.nparts) ELSE cum)

\* stream_consumer_ack_part_impl
AckPart(st, c, p, s) ==
    LET row == Row(st, c)
    IN  WithRow(st, IF st.nparts > 1
                    THEN SyncAcked([row EXCEPT !.marks[p] = Max({@, s})], st.nparts)
                    ELSE [row EXCEPT !.acked = Max({@, s})])

-----------------------------------------------------------------------------
(* Append. *)

\* Mutant: the overwritten message is not taken off total_bytes.
Debit_None(st) == 0

\* the message that a put into a full ring overwrites
Debit(st) == IF st.count >= Cap THEN SizeAt(st, FirstSeq(st)) ELSE 0

\* stream_append_impl: byte eviction up to the slowest consumer, refusal, wrap
AppendImpl(st, v, p) ==
    LET floor   == RetainFloor(st)
        over(b) == MaxBytes > 0 /\ (b >= MaxBytes \/ b + Size[v] > MaxBytes)
        stop(k) == ~over(Evict(st, k).bytes) \/ k = st.count \/ FirstSeq(st) + k >= floor
        lean    == Evict(st, Min({k \in 0 .. st.count : stop(k)}))
    IN  IF over(lean.bytes) \/ (lean.count >= Cap /\ FirstSeq(lean) >= floor)
        THEN [st |-> lean, seq |-> 0]
        ELSE [st |-> [Put(lean, v, p) EXCEPT !.bytes = Debited(@, Debit(lean)) + Size[v]],
              seq |-> lean.head]

\* first section of cmq_stream_append_key, with the payload as key: the partition
KeyPart(st, v) == IF st.nparts > 1 THEN PartOf[<<v, st.nparts>>] ELSE 0

-----------------------------------------------------------------------------
(* Partitions and the cursor file. *)

\* parts_alloc_locked: the partition of every slot starts as 0
AllocParts(st, n) == [st EXCEPT !.nparts = n, !.part = [i \in DOMAIN @ |-> 0]]

\* cmq_stream_set_partitions on a stream that is empty or already has n
SetPartitions(st, n) ==
    IF st.nparts = n THEN st
    ELSE [AllocParts(st, n) EXCEPT
             !.cons = [i \in DOMAIN @ |-> InitParts(@[i].name, @[i].acked)]]
CanSetPartitions(st, n) == st.nparts = n \/ LastSeq(st) = 0

\* cursor_save_locked: one line per safe consumer, per partition when n > 1
CursorFile(st) ==
    [n    |-> st.nparts,
     rows |-> SelectSeq(st.cons, LAMBDA row : row.name \in SafeNames)]

\* cursor_find_or_add, then the line's watermark, for one row of the file
LoadRow(st, row, n) ==
    LET room  == Known(st, row.name) \/ Len(st.cons) < ConsMax
        added == IF Known(st, row.name) THEN st
                 ELSE [st EXCEPT !.cons = Append(@, InitParts(row.name, 0))]
        old   == Row(added, row.name)
        new   == IF n > 1
                 THEN SyncAcked([old EXCEPT !.marks = [p \in Parts |->
                          IF p < n THEN Max({@[p], row.marks[p]}) ELSE @[p]]], st.nparts)
                 ELSE IF row.acked > old.acked THEN InitParts(row.name, row.acked) ELSE old
    IN  IF room THEN WithRow(added, new) ELSE st

\* cursor_load_locked
LoadCursors(st, f) ==
    IF f = NoFile THEN st
    ELSE FoldLeft(LAMBDA acc, row : LoadRow(acc, row, f.n),
                  IF f.n > 1 /\ st.nparts = 1 THEN AllocParts(st, f.n) ELSE st,
                  f.rows)
CursorsMatch(st, f) == f = NoFile \/ f.n = 1 \/ st.nparts \in {1, f.n}
=============================================================================
