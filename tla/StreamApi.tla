------------------------------ MODULE StreamApi ------------------------------
(***************************************************************************)
(* The public operations of a stream, called from several threads.         *)
(*                                                                         *)
(* Append, join, leave, ack and partition calls hold stream->lock from     *)
(* end to end and are one step each.  An append by key reads nparts under  *)
(* the lock, lets it go, and takes it again to store the message, so a     *)
(* writer is idle or keyed.  A read does not take that lock: it looks at   *)
(* the slot, lets go of the store's lock to allocate, and looks again, so  *)
(* a reader has a program counter:                                         *)
(*   idle -> checked -> in -> half -> in -> idle                           *)
(* "checked" is between the first look at dying and the increment of       *)
(* in_flight in stream_begin_op, "in" is counted, "half" is between the    *)
(* two locked sections of store_get_impl.                                  *)
(***************************************************************************)
EXTENDS Stream

CONSTANTS
    Consumers,  \* consumer names
    Writers,    \* threads that append by key
    Readers,    \* reading threads
    Miss,       \* result of a read that finds nothing
    MaxSeq      \* bound: sequence numbers given out

ASSUME MaxSeqAssumption == MaxSeq \in Nat

VARIABLES
    st,      \* the struct cmq_stream
    wr,      \* writer -> [pc, val, part]
    rd,      \* reader -> [pc, seq, len]
    got,     \* result of the read that returned last
    dying,   \* stream->dying
    freed    \* cmq_stream_destroy has released the memory

vars == <<st, wr, rd, got, dying, freed>>

Rest == [pc |-> "idle", val |-> NoVal, part |-> 0]
Idle == [pc |-> "idle", seq |-> 0, len |-> 0]

Init ==
    /\ st = NewStream
    /\ wr = [w \in Writers |-> Rest]
    /\ rd = [r \in Readers |-> Idle]
    /\ got = Miss
    /\ dying = FALSE
    /\ freed = FALSE

Alive == ~dying /\ ~freed
InFlight == {r \in Readers : rd[r].pc \in {"in", "half"}}
            \cup {w \in Writers : wr[w].pc = "keyed"}

-----------------------------------------------------------------------------
(* Calls that hold the lock. *)

\* cmq_stream_append
DoAppend(v) ==
    /\ Alive /\ st.head <= MaxSeq
    /\ st' = AppendImpl(st, v, 0).st
    /\ UNCHANGED <<wr, rd, got, dying, freed>>

DoAdd(c) ==
    /\ Alive
    /\ st' = AddConsumer(st, c)
    /\ UNCHANGED <<wr, rd, got, dying, freed>>

DoRemove(c) ==
    /\ Alive /\ Known(st, c)
    /\ st' = RemoveConsumer(st, c)
    /\ UNCHANGED <<wr, rd, got, dying, freed>>

DoAck(c, s) ==
    /\ Alive /\ Known(st, c) /\ InWindow(st, s)
    /\ st' = Ack(st, c, s)
    /\ UNCHANGED <<wr, rd, got, dying, freed>>

DoAckPart(c, p, s) ==
    /\ Alive /\ Known(st, c) /\ InWindow(st, s)
    /\ p < st.nparts /\ (st.nparts > 1 => PartAt(st, s) = p)
    /\ st' = AckPart(st, c, p, s)
    /\ UNCHANGED <<wr, rd, got, dying, freed>>

DoSetPartitions(n) ==
    /\ Alive /\ CanSetPartitions(st, n)
    /\ st' = SetPartitions(st, n)
    /\ UNCHANGED <<wr, rd, got, dying, freed>>

-----------------------------------------------------------------------------
(* cmq_stream_append_key. *)

\* stream_begin_op, and the partition among the nparts of this moment
KeyHash(w, v) ==
    /\ wr[w].pc = "idle" /\ Alive /\ st.head <= MaxSeq
    /\ wr' = [wr EXCEPT ![w] = [pc |-> "keyed", val |-> v, part |-> KeyPart(st, v)]]
    /\ UNCHANGED <<st, rd, got, dying, freed>>

\* stream_append_impl takes the lock again; the partitions may be others by now
KeyAppend(w) ==
    /\ wr[w].pc = "keyed"
    /\ st' = AppendImpl(st, wr[w].val, wr[w].part).st
    /\ wr' = [wr EXCEPT ![w] = Rest]
    /\ UNCHANGED <<rd, got, dying, freed>>

\* malloc fails before the lock is taken again
KeyNoMemory(w) ==
    /\ wr[w].pc = "keyed"
    /\ wr' = [wr EXCEPT ![w] = Rest]
    /\ UNCHANGED <<st, rd, got, dying, freed>>

-----------------------------------------------------------------------------
(* A read, and the destruction it may race with. *)

\* first line of stream_begin_op
ReadCheck(r, s) ==
    /\ rd[r].pc = "idle" /\ Alive
    /\ rd' = [rd EXCEPT ![r] = [pc |-> "checked", seq |-> s, len |-> 0]]
    /\ UNCHANGED <<st, wr, got, dying, freed>>

\* the increment and the second look at dying
ReadEnter(r) ==
    /\ rd[r].pc = "checked" /\ ~freed
    /\ IF dying
       THEN rd' = [rd EXCEPT ![r] = Idle] /\ got' = Miss
       ELSE rd' = [rd EXCEPT ![r].pc = "in"] /\ UNCHANGED got
    /\ UNCHANGED <<st, wr, dying, freed>>

Leave(r, result) ==
    /\ rd' = [rd EXCEPT ![r] = Idle]
    /\ got' = result

\* first locked section of store_get_impl: the length to allocate
ReadMeasure(r) ==
    /\ rd[r].pc = "in"
    /\ IF Has(st, rd[r].seq)
       THEN /\ rd' = [rd EXCEPT ![r].pc = "half", ![r].len = SizeAt(st, rd[r].seq)]
            /\ UNCHANGED got
       ELSE Leave(r, Miss)
    /\ UNCHANGED <<st, wr, dying, freed>>

\* second locked section: everything is checked again, the length too
ReadCopy(r) ==
    /\ rd[r].pc = "half"
    /\ LET s == rd[r].seq
       IN  IF Has(st, s) /\ SizeAt(st, s) = rd[r].len
           THEN Leave(r, <<s, st.ring[SlotOf(s)].val>>)
           ELSE Leave(r, Miss)
    /\ UNCHANGED <<st, wr, dying, freed>>

\* malloc fails between the two sections
ReadNoMemory(r) ==
    /\ rd[r].pc = "half"
    /\ Leave(r, Miss)
    /\ UNCHANGED <<st, wr, dying, freed>>

DestroyBegin ==
    /\ Alive
    /\ dying' = TRUE
    /\ UNCHANGED <<st, wr, rd, got, freed>>

\* cmq_stream_destroy waits for in_flight without a limit
DestroyEnd ==
    /\ dying /\ ~freed /\ InFlight = {}
    /\ freed' = TRUE
    /\ UNCHANGED <<st, wr, rd, got, dying>>

Next ==
    \/ \E v \in Values : DoAppend(v)
    \/ \E w \in Writers : KeyAppend(w) \/ KeyNoMemory(w) \/ \E v \in Values : KeyHash(w, v)
    \/ \E c \in Consumers : DoAdd(c) \/ DoRemove(c)
    \/ \E c \in Consumers, s \in 1 .. MaxSeq : DoAck(c, s)
    \/ \E c \in Consumers, p \in Parts, s \in 1 .. MaxSeq : DoAckPart(c, p, s)
    \/ \E n \in 1 .. MaxParts : DoSetPartitions(n)
    \/ \E r \in Readers, s \in 1 .. MaxSeq : ReadCheck(r, s)
    \/ \E r \in Readers : ReadEnter(r) \/ ReadMeasure(r) \/ ReadCopy(r) \/ ReadNoMemory(r)
    \/ DestroyBegin
    \/ DestroyEnd

Spec == Init /\ [][Next]_vars

-----------------------------------------------------------------------------
(* Properties. *)

\* the watermark that covers message s: that of its partition; all of them, as for
\* stream_consumer_next_impl, when the stream has no such partition
Mark(z, row, s) ==
    CASE z.nparts <= 1 -> row.acked
      [] z.nparts > 1 /\ PartAt(z, s) < z.nparts -> row.marks[PartAt(z, s)]
      [] z.nparts > 1 /\ PartAt(z, s) >= z.nparts -> LeastMark(row, z.nparts)

\* retained messages a consumer's watermarks do not cover
Unacked(z, c) == {s \in Retained(z) : s > Mark(z, Row(z, c), s)}

Window(z) == [s \in Retained(z) |-> z.ring[SlotOf(s)].val]
Pending(z) == [c \in {d \in Consumers : Known(z, d)} |-> Unacked(z, c)]

Log == INSTANCE RetainedLog WITH
    window  <- Window(st),
    next    <- st.head,
    pending <- Pending(st)

\* The stream implements a retained log: stream_append_impl never evicts or
\* overwrites a message that a joined consumer has not acknowledged, an ack
\* settles nothing newer than itself and nothing of another consumer, and a
\* read (store_get_impl, interrupted between its two locked sections by
\* appends that reuse the slot) returns the message of its number or nothing.
ImplementsLog == Log!Spec

\* total_bytes is the size of what the ring retains, whatever mixture of byte
\* eviction, ring wrap and refusal led there, and stays within max_bytes.
BytesExact ==
    /\ st.bytes = BytesOf(st, Retained(st))
    /\ MaxBytes > 0 => st.bytes <= MaxBytes
=============================================================================
