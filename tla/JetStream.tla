------------------------------ MODULE JetStream ------------------------------
(***************************************************************************)
(* One named $JS stream (src/src/store/cmq_js.c): the stream in memory,    *)
(* its four files, and what a crash, a failed write or a reload leaves.    *)
(*                                                                         *)
(* js->lock is held through every call, so a call is one step; its file    *)
(* operations have an order, and a call may be cut short after any of      *)
(* them.  A publish touches the disk in the stages                         *)
(*   0 nothing   1 .last unlinked   2 .last renamed   3 record torn        *)
(*   4 record appended   5 .msgs unlinked by rotation   6 tail renamed     *)
(* Messages are the numbers 1, 2, ... in the order they are published.     *)
(* Every record counts one unit of js_msgs_rotate_bytes.                   *)
(***************************************************************************)
EXTENDS Stream

CONSTANTS
    Consumers,   \* consumer names
    Torn,        \* a record cut short, in a .msgs file
    Junk,        \* message read across a torn record
    NoSlot,      \* the stream is not open
    Rotates,     \* values of js_msgs_rotate_bytes a configuration may hold, 0 off
    MaxPublish,  \* bound: messages
    MaxRestart,  \* bound: ends of the process
    MaxTrouble,  \* bound: failed writes, crashes inside a call
    MaxReload    \* bound: configuration reloads

VARIABLES
    slot,     \* NoSlot, or [st, last]: the stream and the copy of its last message
    disk,     \* [last, msgs, parts, cursors], each NoFile or its content
    on,       \* persist_dir is set
    def,      \* def_parts
    rotate,   \* rotate_bytes
    sent,     \* messages published so far
    oked,     \* messages whose publish was answered 1 since persistence or this run began
    settled,  \* consumer -> messages its acknowledgements covered
    astray,   \* .msgs or .cursors has fallen out of step with the stream
    lastLost, \* the .last file was unlinked, or not written by an attach, and not replaced
    budget    \* [restart, trouble, reload]: uses of the bounds

vars == <<slot, disk, on, def, rotate, sent, oked, settled, astray, lastLost, budget>>
ghosts == <<oked, settled, astray, lastLost>>

NoDisk == [last |-> NoFile, msgs |-> NoFile, parts |-> NoFile, cursors |-> NoFile]

Init ==
    /\ slot = NoSlot /\ disk = NoDisk
    /\ on \in BOOLEAN /\ def \in 1 .. MaxParts /\ rotate \in Rotates
    /\ sent = 0 /\ oked = {}
    /\ settled = [c \in Consumers |-> {}]
    /\ astray = FALSE /\ lastLost = FALSE
    /\ budget = [restart |-> 0, trouble |-> 0, reload |-> 0]

-----------------------------------------------------------------------------
(* Opening a stream. *)

Records(f) == IF f = NoFile THEN <<>> ELSE f

\* js_replay_msgs reads up to a torn record; when more follows, the torn
\* header may claim the next record's bytes as its payload.
Readable(f) ==
    LET recs == Records(f)
        bad  == {i \in DOMAIN recs : recs[i] = Torn}
    IN  IF bad = {} THEN {recs}
        ELSE LET head == SubSeq(recs, 1, Min(bad) - 1)
             IN  {head} \cup (IF Min(bad) < Len(recs) THEN {Append(head, Junk)} ELSE {})

\* js_stream_append; js->lock keeps set_partitions out from the look to the put
AppendHere(st, v) == AppendImpl(st, v, KeyPart(st, v))

\* every record is appended again; the first one refused ends the replay
Replay(st, recs) ==
    FoldLeft(LAMBDA acc, v : LET a == AppendHere(acc.st, v)
                             IN  IF acc.go /\ a.seq > 0 THEN [st |-> a.st, go |-> TRUE]
                                 ELSE [acc EXCEPT !.go = FALSE],
             [st |-> st, go |-> TRUE], recs).st

\* js_get_or_create_slot: cursors, partitions, history, last message
Opened ==
    IF slot # NoSlot THEN {[slot |-> slot, disk |-> disk]}
    ELSE LET st1  == IF on THEN LoadCursors(NewStream, disk.cursors) ELSE NewStream
             d1   == IF on THEN [disk EXCEPT !.cursors = CursorFile(st1)] ELSE disk
             kept == on /\ disk.parts # NoFile
             st2  == CASE kept -> SetPartitions(st1, disk.parts)
                       [] ~kept /\ def > 1 -> SetPartitions(st1, def)
                       [] OTHER -> st1
             d2   == IF on /\ ~kept /\ def > 1 THEN [d1 EXCEPT !.parts = st2.nparts] ELSE d1
         IN  {[slot |-> [st   |-> Replay(st2, recs),
                         last |-> IF on THEN disk.last ELSE NoFile],
               disk |-> d2] : recs \in IF on THEN Readable(disk.msgs) ELSE {<<>>}}

\* an acknowledgement or a pull opens a stream only if its history or partitions exist
CanOpen == slot # NoSlot \/ (on /\ (disk.msgs # NoFile \/ disk.parts # NoFile))

Tick(what) == budget' = [budget EXCEPT ![what] = @ + 1]
Trouble == budget.trouble < MaxTrouble /\ Tick("trouble")

-----------------------------------------------------------------------------
(* PUBLISH $JS.<name>. *)

\* the tail js_compact_msgs keeps: as much as fits, at least one, at most the ring
KeptTail(recs) ==
    LET take == Min({Len(recs), Cap, Max({rotate, 1})})
    IN  SubSeq(recs, Len(recs) - take + 1, Len(recs))
Rotating(recs) ==
    /\ rotate > 0 /\ Len(recs) >= rotate
    /\ \A i \in DOMAIN recs : recs[i] # Torn
    /\ KeptTail(recs) # recs

\* Mutant: the .last file is not replaced.
LastFile_Stale(d, v, s, k) == d.last

\* js_save_last: unlink, then rename
LastFile(d, v, s, k) == CASE k = 0 -> d.last [] k = 1 -> NoFile [] OTHER -> [seq |-> s, val |-> v]

\* the disk after the first k stages of a publish of v under number s
Staged(d, v, s, k) ==
    LET recs == Append(Records(d.msgs), v)
        msgs == CASE k < 3 -> d.msgs
                  [] k = 3 -> Append(Records(d.msgs), Torn)
                  [] k = 5 /\ Rotating(recs) -> NoFile
                  [] k = 6 /\ Rotating(recs) -> KeptTail(recs)
                  [] OTHER -> recs
    IN  IF on THEN [d EXCEPT !.last = LastFile(d, v, s, k), !.msgs = msgs] ELSE d

\* cmq_js_publish that returns 1; a rotation that fails halfway is ignored
PublishOk ==
    /\ sent < MaxPublish
    /\ \E o \in Opened, k \in {4, 5, 6} :
        LET v == sent + 1
            a == AppendHere(o.slot.st, v)
            d == Staged(o.disk, v, a.st.head - 1, k)
        IN  /\ a.seq > 0
            /\ k # 6 => on /\ Rotating(Append(Records(o.disk.msgs), v))
            /\ slot' = [st |-> a.st, last |-> [seq |-> a.st.head - 1, val |-> v]]
            /\ disk' = d
            /\ IF k = 6 THEN UNCHANGED budget ELSE Trouble
            /\ oked' = oked \cup {v}
            /\ astray' = (astray \/ (on /\ Records(d.msgs) # Append(Records(o.disk.msgs), v)))
            /\ lastLost' = FALSE
    /\ sent' = sent + 1
    /\ UNCHANGED <<on, def, rotate, settled>>

\* the ring is full of messages some consumer has not acknowledged
PublishRefused ==
    /\ sent < MaxPublish
    /\ \E o \in Opened :
        /\ AppendHere(o.slot.st, sent + 1).seq = 0
        /\ slot' = o.slot /\ disk' = o.disk
    /\ sent' = sent + 1
    /\ UNCHANGED <<on, def, rotate, budget>> /\ UNCHANGED ghosts

\* a write fails after k stages, or the fsync of the whole record (k = 4): the
\* stream keeps the message, the caller sees -1
PublishFails ==
    /\ sent < MaxPublish /\ Trouble
    /\ \E o \in Opened, k \in 0 .. 4, copied \in BOOLEAN :
        LET v == sent + 1
            a == AppendHere(o.slot.st, v)
        IN  /\ a.seq > 0
            /\ k > 0 => copied
            /\ copied => on
            /\ slot' = [st |-> a.st,
                        last |-> IF copied THEN [seq |-> a.st.head - 1, val |-> v]
                                 ELSE o.slot.last]
            /\ disk' = Staged(o.disk, v, a.st.head - 1, k)
            /\ astray' = (astray \/ (on /\ k # 4))
            /\ lastLost' = CASE k = 0 -> lastLost [] k = 1 -> TRUE [] OTHER -> FALSE
    /\ sent' = sent + 1
    /\ UNCHANGED <<on, def, rotate, oked, settled>>

-----------------------------------------------------------------------------
(* Pull and acknowledge. *)

\* cmq_js_consume, cmq_js_consume_part: the first pull adds the consumer and
\* saves the cursors; a save that fails is ignored
Consume(c) ==
    /\ CanOpen
    /\ \E o \in Opened, saved \in BOOLEAN :
        LET st  == AddConsumer(o.slot.st, c)
            has == {st.ring[SlotOf(s)].val : s \in FirstSeq(st) .. LastSeq(st)}
        IN  /\ slot' = [o.slot EXCEPT !.st = st]
            /\ disk' = IF on /\ saved /\ Known(st, c)
                       THEN [o.disk EXCEPT !.cursors = CursorFile(st)] ELSE o.disk
            /\ IF saved THEN UNCHANGED budget ELSE on /\ Trouble
            /\ astray' = (astray \/ ~saved)
            /\ settled' = IF Known(o.slot.st, c) \/ ~Known(st, c) THEN settled
                          ELSE [settled EXCEPT ![c] = oked \ has]
    /\ UNCHANGED <<on, def, rotate, sent, oked, lastLost>>

\* messages an acknowledgement of s covers
Covered(st, s) ==
    {st.ring[SlotOf(t)].val : t \in
        {u \in FirstSeq(st) .. s : st.nparts > 1 => PartAt(st, u) = PartAt(st, s)}}

\* PUBLISH $JS.<name>.<consumer> with a sequence number
Acknowledge(c, s) ==
    /\ CanOpen
    /\ \E o \in Opened, saved \in BOOLEAN :
        LET st == Ack(o.slot.st, c, s)
        IN  /\ Known(o.slot.st, c) /\ InWindow(o.slot.st, s)
            /\ slot' = [o.slot EXCEPT !.st = st]
            /\ disk' = IF on /\ saved THEN [o.disk EXCEPT !.cursors = CursorFile(st)] ELSE o.disk
            /\ IF saved THEN UNCHANGED budget ELSE on /\ Trouble
            /\ astray' = (astray \/ ~saved)
            /\ settled' = [settled EXCEPT ![c] = @ \cup Covered(o.slot.st, s)]
    /\ UNCHANGED <<on, def, rotate, sent, oked, lastLost>>

\* REQUEST $JS.<name>: opens the stream if it has a .last file
Request ==
    /\ slot = NoSlot /\ on /\ disk.last # NoFile
    /\ \E o \in Opened : slot' = o.slot /\ disk' = o.disk
    /\ UNCHANGED <<on, def, rotate, sent, budget>> /\ UNCHANGED ghosts

\* js_save_parts of n partitions: unlink, then rename
PartsFile(d, n, k) == CASE k = 0 -> d.parts [] k = 1 -> NoFile [] OTHER -> n

\* cmq_js_set_partitions: k = 1 is a .parts file unlinked and not replaced
SetParts(n) ==
    /\ \E o \in Opened, k \in {0, 1, 2} :
        LET st == SetPartitions(o.slot.st, n)
        IN  /\ CanSetPartitions(o.slot.st, n) /\ o.slot.st.nparts # n
            /\ slot' = [o.slot EXCEPT !.st = st]
            /\ disk' = IF on THEN [o.disk EXCEPT !.parts = PartsFile(o.disk, n, k)] ELSE o.disk
            /\ IF k = 2 THEN UNCHANGED budget ELSE on /\ Trouble
    /\ UNCHANGED <<on, def, rotate, sent>> /\ UNCHANGED ghosts

-----------------------------------------------------------------------------
(* The process ends; the configuration is read again. *)

\* the next run's configuration may name persist_dir or not; between runs that
\* do not both name it nothing was promised
Restart ==
    /\ slot # NoSlot /\ budget.restart < MaxRestart /\ Tick("restart")
    /\ slot' = NoSlot
    /\ on' \in BOOLEAN
    /\ IF on /\ on' THEN UNCHANGED <<oked, settled, lastLost>>
       ELSE oked' = {} /\ settled' = [c \in Consumers |-> {}] /\ lastLost' = FALSE
    /\ UNCHANGED <<disk, def, rotate, sent, astray>>

\* the process is killed inside a publish, after k stages
Crash ==
    /\ on /\ sent < MaxPublish /\ Trouble
    /\ \E o \in Opened, k \in 0 .. 6 :
        LET v == sent + 1
            a == AppendHere(o.slot.st, v)
            d == Staged(o.disk, v, a.st.head - 1, k)
        IN  /\ a.seq > 0
            /\ k = 5 => d.msgs = NoFile
            /\ disk' = d
            /\ astray' = (astray \/ k = 3 \/
                   (k > 3 /\ Records(d.msgs) # Append(Records(o.disk.msgs), v)))
            /\ lastLost' = CASE k = 0 -> lastLost [] k = 1 -> TRUE [] OTHER -> FALSE
    /\ slot' = NoSlot
    /\ sent' = sent + 1
    /\ UNCHANGED <<on, def, rotate, oked, settled>>

\* cmq_js_reload_attach_persist and cmq_js_set_persist on a running server: an open
\* stream takes the cursors of an earlier run, keeps or takes the last message, and
\* writes its files; the writes are independent and a failed one only turns the answer
AttachPersist ==
    /\ ~on /\ budget.reload < MaxReload
    /\ on' = TRUE
    /\ IF slot = NoSlot THEN Tick("reload") /\ UNCHANGED <<slot, disk, astray, lastLost>>
       ELSE \E saved \in BOOLEAN, k, m \in 0 .. 2 :
            LET match == CursorsMatch(slot.st, disk.cursors)
                st    == IF match THEN LoadCursors(slot.st, disk.cursors) ELSE slot.st
                own   == slot.last # NoFile
                bad   == ~saved \/ k < 2 \/ m < 2
            IN  /\ ~match => saved
                /\ ~own => k = 2
                /\ st.nparts = 1 => m = 2
                /\ bad => budget.trouble < MaxTrouble
                /\ budget' = [budget EXCEPT !.reload = @ + 1,
                                            !.trouble = IF bad THEN @ + 1 ELSE @]
                /\ slot' = [st |-> st, last |-> IF own THEN slot.last ELSE disk.last]
                /\ disk' = [disk EXCEPT
                       !.cursors = IF match /\ saved THEN CursorFile(st) ELSE @,
                       !.last = IF own THEN LastFile(disk, slot.last.val, slot.last.seq, k)
                                ELSE @,
                       !.parts = IF st.nparts > 1 THEN PartsFile(disk, st.nparts, m) ELSE @]
                /\ astray' = (astray \/ slot.st.head > 1 \/ disk # NoDisk \/ ~saved)
                /\ lastLost' = (lastLost \/ k < 2)
    /\ UNCHANGED <<def, rotate, sent, oked, settled>>

\* cmq_js_reload
Reload(n, r) ==
    /\ budget.reload < MaxReload /\ Tick("reload")
    /\ def' = n /\ rotate' = IF r > 0 THEN r ELSE rotate
    /\ UNCHANGED <<slot, disk, on, sent>> /\ UNCHANGED ghosts

Next ==
    \/ PublishOk
    \/ PublishRefused
    \/ PublishFails
    \/ \E c \in Consumers : Consume(c) \/ \E s \in 1 .. MaxPublish : Acknowledge(c, s)
    \/ Request
    \/ \E n \in 1 .. MaxParts : SetParts(n)
    \/ Restart
    \/ Crash
    \/ AttachPersist
    \/ \E n \in 1 .. MaxParts, r \in Rotates : Reload(n, r)

Spec == Init /\ [][Next]_vars
-----------------------------------------------------------------------------
(* Properties. *)

\* what the stream st still holds for consumer c
Owed(st, c) ==
    {t \in FirstSeq(st) .. LastSeq(st) :
        t > IF st.nparts > 1 THEN Row(st, c).marks[PartAt(st, t)] ELSE Row(st, c).acked}
Messages(st, S) == {st.ring[SlotOf(s)].val : s \in S}
InStep == ~(on /\ astray)
OldestOf(S) == IF S = {} THEN 0 ELSE Min(S)

\* A message whose publish succeeded is owed to every known consumer until that
\* consumer acknowledges it, across any kill and reopen (.msgs replay against
\* the .cursors file), as long as neither file fell out of step with the stream
\* (a failed save, a torn record, a rotation, an attach to a stream or to files
\* already in use); and a pull from a partition hands out the oldest owed message of
\* it, a pull from a partitioned stream as a whole nothing newer than the oldest one.
NothingSkipped ==
    slot # NoSlot =>
        LET st == slot.st
        IN  \A c \in {d \in Consumers : Known(st, d)} :
               /\ InStep => oked \ settled[c] \subseteq Messages(st, Owed(st, c))
               /\ \A p \in 0 .. st.nparts - 1 :
                     NextSeqPart(st, c, p) = OldestOf({s \in Owed(st, c) : PartAt(st, s) = p})
               /\ InStep /\ Owed(st, c) # {} => NextSeq(st, c) \in 1 .. Min(Owed(st, c))

\* what REQUEST $JS.<name> answers now (cmq_js_last), 0 for a miss
Answer ==
    LET ask(sl) == CASE sl.last # NoFile -> sl.last.val
                     [] sl.last = NoFile /\ sl.st.count > 0 ->
                            sl.st.ring[SlotOf(LastSeq(sl.st))].val
                     [] OTHER -> 0
    IN  IF slot = NoSlot /\ (~on \/ disk.last = NoFile) THEN {0}
        ELSE {ask(o.slot) : o \in Opened}

\* REQUEST never answers with a message older than the newest one that was
\* acknowledged to its publisher, and misses only when a publish was cut short
\* between the unlink and the rename of js_save_last, or an attach could not write.
LastNotStale ==
    oked # {} /\ ~lastLost => \A v \in Answer : v >= Max(oked)
=============================================================================
