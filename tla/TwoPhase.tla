------------------------------ MODULE TwoPhase ------------------------------
(***************************************************************************)
(* The cluster transaction of cmsgqueue: one txn id, the node that a        *)
(* client's COMMIT reaches (Coord), and its route peers (Parts).            *)
(*                                                                          *)
(* Every node keeps a slot of the txn table (server/cmq_txn.c).  A COMMIT   *)
(* with live routes runs txn_2pc_commit (server/cmq_server.c), which fans   *)
(* BEGIN, ADD..., PREPARE out over the route pool, waits for votes and fans *)
(* out COMMIT or ABORT.  A frame that meets EAGAIN goes to the retry queue  *)
(* of the pool (cluster/cmq_route.c), which every later broadcast and the   *)
(* reconnect sidecar drain.                                                 *)
(*                                                                          *)
(* Every cmq_txn_* call is one step, because it holds the table's lock; the *)
(* calls of one handler interleave with the other workers, the sidecar, the *)
(* peers, and with crashes.                                                 *)
(***************************************************************************)
EXTENDS Naturals, Sequences, FiniteSets

CONSTANTS
    Coord,       \* the node the client talks to
    Parts,       \* its route peers
    Threads,     \* worker threads that may run a COMMIT or ABORT handler
    Sidecar,     \* the route reconnect thread, which also drains the queue
    Ops,         \* what an ADD buffers (subject and payload)
    NoOp,        \* the op of a frame that carries none
    Nothing,     \* an unused retry slot
    OpsMax,      \* CMQ_TXN_OPS
    PartsMax,    \* CMQ_TXN_PARTS
    RetryMax,    \* CMQ_ROUTE_RETRY_MAX
    MaxBegin, MaxCommit, MaxAbort,           \* client requests of each kind
    MaxEagain, MaxHard, MaxCrash, MaxIO,     \* faults of each kind
    MaxEvents                                \* requests and faults together

ASSUME TwoPhaseAssumption ==
    /\ Coord \notin Parts
    /\ Sidecar \notin Threads
    /\ OpsMax \in Nat \ {0}
    /\ RetryMax \in Nat /\ PartsMax \in Nat

VARIABLES
    \* the txn's entry of slots[] at each node; only the coordinator's has
    \* participants and votes
    busy,        \* nodes whose entry is used
    prepared,    \* nodes whose entry is prepared
    ops,         \* ops[n]: the buffered ops of the entry at n
    parts,       \* participants registered at the coordinator
    votes,       \* participants whose yes vote it has
    done,        \* nodes that have the id in done[] (memory)
    log,         \* nodes whose cmq.txn has a 'C' record of the id that a load finds
    skew,        \* nodes whose cmq.txn ends with a part of a record
    lost,        \* nodes that appended the id's record to such a file (history)
    \* what happened
    applied,     \* applied[n]: ops handed to cmq_server_publish at n, in order
    commits,     \* commits[n]: how often cmq_txn_commit decided at n
    joined,      \* participants registered when the coordinator committed
    reply,       \* outcomes COMMIT handlers returned
    spent,       \* how many requests and faults of each kind happened
    \* the routes
    link,        \* link[p]: the coordinator's route to p
    wire,        \* wire[p]: frames in flight on the current connection to p
    stale,       \* stale[p]: frames still unread from connections that ended
    voting,      \* voting[p]: VOTE frames of p in flight to the coordinator
    retry,       \* retry[i]: the retry queue of the route pool
    \* the handler each thread runs
    pc,          \* pc[t]: where in the handler t is
    job,         \* job[t]: which fan-out it runs
    frame,       \* frame[t]: the frame it broadcasts
    todo,        \* todo[t]: peers of the broadcast snapshot not yet written
    missed,      \* threads whose fan-out missed a peer (rc = -1)
    idx,         \* idx[t]: the next op of the ADD loop ...
    nops,        \* nops[t]: ... and the op count the loop read at its start
    di,          \* di[t]: the retry slot its drain is at
    held,        \* held[t]: the entry its drain took out of the queue
    rest         \* rest[t]: committed ops it has still to apply

entry   == <<busy, prepared, ops, parts, votes>>
history == <<applied, commits, joined>>
disk    == <<log, skew, lost>>
tables  == <<entry, done, disk, history>>
routes  == <<link, wire, stale, voting, retry>>
loop    == <<idx, nops>>
drain   == <<di, held>>
locals  == <<job, frame, todo, missed, loop, drain, rest>>
vars    == <<tables, reply, spent, routes, pc, locals>>

Nodes    == {Coord} \cup Parts
Drainers == Threads \cup {Sidecar}
Slots    == 1..RetryMax

(* A PUBLISH frame with a CMQT header; only an ADD has a subject and payload *)
(* that matter.                                                              *)
Frame == [kind : {"BEGIN", "PREPARE", "COMMIT", "ABORT"}, op : {NoOp}]
            \cup [kind : {"ADD"}, op : Ops]

Ctl(k) == [kind |-> k, op |-> NoOp]
Add(o) == [kind |-> "ADD", op |-> o]

Limit == [begin |-> MaxBegin, commit |-> MaxCommit, abort |-> MaxAbort,
          eagain |-> MaxEagain, hard |-> MaxHard, crash |-> MaxCrash,
          io |-> MaxIO]
Limited == {"begin", "commit", "abort", "eagain", "hard", "crash", "io"}

Init ==
    /\ busy = {} /\ prepared = {} /\ parts = {} /\ votes = {}
    /\ ops      = [n \in Nodes |-> <<>>]
    /\ done = {} /\ log = {} /\ skew = {} /\ lost = {}
    /\ applied  = [n \in Nodes |-> <<>>]
    /\ commits  = [n \in Nodes |-> 0]
    /\ joined = {} /\ reply = {}
    /\ spent    = [k \in Limited |-> 0]
    /\ link     = [p \in Parts |-> "up"]
    /\ wire     = [p \in Parts |-> <<>>]
    /\ stale    = [p \in Parts |-> <<>>]
    /\ voting   = [p \in Parts |-> 0]
    /\ retry    = [i \in Slots |-> Nothing]
    /\ pc       = [t \in Drainers |-> "idle"]
    /\ job      = [t \in Drainers |-> "none"]
    /\ frame    = [t \in Drainers |-> Ctl("BEGIN")]
    /\ todo     = [t \in Drainers |-> {}]
    /\ missed = {}
    /\ idx      = [t \in Drainers |-> 0]
    /\ nops     = [t \in Drainers |-> 0]
    /\ di       = [t \in Drainers |-> 1]
    /\ held     = [t \in Drainers |-> Nothing]
    /\ rest     = [t \in Drainers |-> <<>>]

Events == spent["begin"] + spent["commit"] + spent["abort"] + spent["eagain"]
            + spent["hard"] + spent["crash"] + spent["io"]

Spend(k) == /\ spent[k] < Limit[k]
            /\ Events < MaxEvents
            /\ spent' = [spent EXCEPT ![k] = @ + 1]

Live == {p \in Parts : link[p] # "down"}

-----------------------------------------------------------------------------
(* The calls of cmq_txn.c.                                                   *)

(* memset(&t->slots[idx], 0, sizeof) *)
Clear(n) ==
    /\ busy'     = busy \ {n}
    /\ prepared' = prepared \ {n}
    /\ ops'      = [ops EXCEPT ![n] = <<>>]
    /\ parts'    = IF n = Coord THEN {} ELSE parts
    /\ votes'    = IF n = Coord THEN {} ELSE votes

(* cmq_txn_begin: refuses a committed id, keeps an entry that exists. *)
Begin(n) == busy' = IF n \in done THEN busy ELSE busy \cup {n}

(* cmq_txn_add *)
CanAdd(n) == n \in busy /\ n \notin prepared /\ Len(ops[n]) < OpsMax

(* txn_all_yes_slot *)
AllYes == parts # {} /\ votes = parts

(* The checks of cmq_txn_commit before the log record. *)
CanCommit(n) == /\ n \in busy
                /\ n = Coord /\ parts # {} => n \in prepared /\ AllYes

(* Mutant: the record is never written. *)
LogCommit_NoLog(n) ==
    /\ done'    = done \cup {n}
    /\ commits' = [commits EXCEPT ![n] = @ + 1]
    /\ Clear(n)
    /\ UNCHANGED disk

(* txn_log_commit, txn_done_add and the memset, all under the lock.  Records *)
(* have no framing: behind a part of a record, txn_log_load reads the nine   *)
(* bytes of this one as parts of two others.  (The id is one that such a     *)
(* pair does not spell by chance.)                                           *)
LogCommit(n) ==
    /\ log'     = IF n \in skew THEN log ELSE log \cup {n}
    /\ lost'    = IF n \in skew THEN lost \cup {n} ELSE lost
    /\ done'    = done \cup {n}
    /\ commits' = [commits EXCEPT ![n] = @ + 1]
    /\ Clear(n)
    /\ UNCHANGED skew

(* A write that stops inside a record.  Nothing truncates the file, so what  *)
(* is appended next starts there; a second part may fill up the nine bytes.  *)
CutShort(n) ==
    /\ skew' \in {skew \cup {n}, IF n \in skew THEN skew \ {n} ELSE skew \cup {n}}
    /\ UNCHANGED <<log, lost>>

(* txn_log_commit returned -1: of the record nothing, a part or all of it is *)
(* in the file.                                                              *)
LogFails(n) ==
    /\ Spend("io")
    /\ \/ CutShort(n)
       \/ log' \in {log, IF n \in skew THEN log ELSE log \cup {n}} /\ UNCHANGED <<skew, lost>>
    /\ UNCHANGED <<entry, done, history>>

-----------------------------------------------------------------------------
(* Client requests at the coordinator.  Any connection may name the id.      *)

ClientBegin ==
    /\ Spend("begin")
    /\ Begin(Coord)
    /\ UNCHANGED <<prepared, ops, parts, votes, done, disk, history, reply,
                   routes, pc, locals>>

ClientAdd(o) ==
    /\ CanAdd(Coord)
    /\ ops' = [ops EXCEPT ![Coord] = Append(@, o)]
    /\ UNCHANGED <<busy, prepared, parts, votes, done, disk, history, reply,
                   spent, routes, pc, locals>>

(* t starts, or goes on to, a fan-out that begins with frame f. *)
FanOut(t, j, f) ==
    /\ pc'    = [pc EXCEPT ![t] = "fan"]
    /\ job'   = [job EXCEPT ![t] = j]
    /\ frame' = [frame EXCEPT ![t] = f]
    /\ UNCHANGED <<todo, missed, loop, drain, rest>>

(* The handler returns; its locals are gone. *)
Leave(t) ==
    /\ pc'     = [pc EXCEPT ![t] = "idle"]
    /\ job'    = [job EXCEPT ![t] = "none"]
    /\ frame'  = [frame EXCEPT ![t] = Ctl("BEGIN")]
    /\ todo'   = [todo EXCEPT ![t] = {}]
    /\ missed' = missed \ {t}
    /\ idx'    = [idx EXCEPT ![t] = 0]
    /\ nops'   = [nops EXCEPT ![t] = 0]
    /\ di'     = [di EXCEPT ![t] = 1]
    /\ held'   = [held EXCEPT ![t] = Nothing]
    /\ rest'   = [rest EXCEPT ![t] = <<>>]

Return(t, outcome) ==
    /\ Leave(t)
    /\ reply' = reply \cup {outcome}

(* ABORT: drop the buffer and, when there was one, tell the peers. *)
ClientAbort(t) ==
    /\ pc[t] = "idle"
    /\ Spend("abort")
    /\ Coord \in busy
    /\ Clear(Coord)
    /\ FanOut(t, "cabort", Ctl("ABORT"))
    /\ UNCHANGED <<done, disk, history, reply, routes>>

(* COMMIT: with live routes txn_2pc_commit, without them cmq_txn_commit. *)
ClientCommit(t) ==
    /\ pc[t] = "idle"
    /\ Spend("commit")
    /\ pc' = [pc EXCEPT ![t] = IF Live = {} THEN "plain" ELSE "parts"]
    /\ UNCHANGED <<tables, reply, routes, job, frame, todo, missed, loop,
                   drain, rest>>

-----------------------------------------------------------------------------
(* txn_2pc_commit up to the fan-out. *)

(* txn_add_live_parts: too many live peers are refused, otherwise each of    *)
(* them is registered by a call of its own.                                  *)
LiveParts(t) ==
    /\ pc[t] = "parts"
    /\ \/ /\ Cardinality(Live) <= PartsMax
          /\ todo' = [todo EXCEPT ![t] = Live]
          /\ pc' = [pc EXCEPT ![t] = "register"]
          /\ UNCHANGED <<reply, job, frame, missed, loop, drain, rest>>
       \/ /\ Cardinality(Live) > PartsMax
          /\ Return(t, "error")
    /\ UNCHANGED <<tables, spent, routes>>

(* cmq_txn_add_part; a peer already registered keeps its vote, and one that  *)
(* is no longer live is passed over.                                         *)
AddPart(t, p) ==
    /\ pc[t] = "register" /\ p \in todo[t]
    /\ \/ /\ p \notin Live \/ (Coord \in busy /\ Cardinality(parts) < PartsMax)
          /\ parts' = IF p \in Live THEN parts \cup {p} ELSE parts
          /\ todo' = [todo EXCEPT ![t] = @ \ {p}]
          /\ UNCHANGED <<reply, pc, job, frame, missed, loop, drain, rest>>
       \/ /\ p \in Live /\ ~(Coord \in busy /\ Cardinality(parts) < PartsMax)
          /\ Return(t, "error")
          /\ UNCHANGED parts
    /\ UNCHANGED <<busy, prepared, ops, votes, done, disk, history, spent, routes>>

(* cmq_txn_prepare *)
Prepare(t) ==
    /\ pc[t] = "register" /\ todo[t] = {}
    /\ \/ /\ Coord \notin busy
          /\ Return(t, "error")
          /\ UNCHANGED prepared
       \/ /\ Coord \in busy
          /\ prepared' = prepared \cup {Coord}
          /\ pc' = [pc EXCEPT ![t] = "count"]
          /\ UNCHANGED <<reply, locals>>
    /\ UNCHANGED <<busy, ops, parts, votes, done, disk, history, spent, routes>>

(* cmq_txn_part_count, which is -1 when the entry has gone meanwhile *)
CountParts(t) ==
    /\ pc[t] = "count"
    /\ \/ /\ parts = {}
          /\ pc' = [pc EXCEPT ![t] = "plain"]
          /\ UNCHANGED locals
       \/ /\ parts # {}
          /\ FanOut(t, "prepare", Ctl("BEGIN"))
    /\ UNCHANGED <<tables, reply, spent, routes>>

-----------------------------------------------------------------------------
(* cmq_route_forward_op: snapshot, write every peer, drain the retry queue.  *)

Snapshot(t) ==
    /\ pc[t] = "fan"
    /\ pc' = [pc EXCEPT ![t] = "write"]
    /\ todo' = [todo EXCEPT ![t] = Live]
    /\ UNCHANGED <<tables, reply, spent, routes, job, frame, missed, loop,
                   drain, rest>>

(* The lowest unused retry slot, as cmq_route_retry_offer picks it. *)
FreeSlot(i) == /\ retry[i] = Nothing
               /\ \A j \in Slots : j < i => retry[j] # Nothing
QueueFull == \A i \in Slots : retry[i] # Nothing

(* cmq_route_retry_offer: a full queue drops the newest frame. *)
Offer(p, f) ==
    retry' = IF QueueFull THEN retry
             ELSE [retry EXCEPT ![CHOOSE i \in Slots : FreeSlot(i)] =
                      [peer |-> p, frame |-> f]]

(* A write that the kernel accepts.  On a torn connection the peer cannot    *)
(* parse what follows the half frame.                                        *)
Write(p, f) ==
    wire' = IF link[p] = "up" THEN [wire EXCEPT ![p] = Append(@, f)] ELSE wire

(* The broadcasts that have p in their snapshot find it vanished. *)
Vanish(p) ==
    /\ missed' = missed \cup {t \in Drainers : pc[t] = "write" /\ p \in todo[t]}
    /\ todo'   = [t \in Drainers |-> IF pc[t] = "write" THEN todo[t] \ {p} ELSE todo[t]]

(* The connection to p ends: of what is in flight a prefix is still read.   *)
Cut(p) ==
    /\ link'  = [link EXCEPT ![p] = "down"]
    /\ wire'  = [wire EXCEPT ![p] = <<>>]
    /\ \E k \in 0..Len(wire[p]) :
          stale' = [stale EXCEPT ![p] = @ \o SubSeq(wire[p], 1, k)]
    /\ Vanish(p)

(* One peer of cmq_route_broadcast: written, EAGAIN before the first byte,   *)
(* or a hard failure that drops the connection.                              *)
WritePeer(t, p) ==
    /\ pc[t] = "write"
    /\ p \in todo[t]
    /\ \/ /\ Write(p, frame[t])
          /\ todo' = [todo EXCEPT ![t] = @ \ {p}]
          /\ UNCHANGED <<link, stale, retry, missed, spent>>
       \/ /\ Spend("eagain")
          /\ Offer(p, frame[t])
          /\ todo' = [todo EXCEPT ![t] = @ \ {p}]
          /\ missed' = IF QueueFull THEN missed \cup {t} ELSE missed
          /\ UNCHANGED <<link, wire, stale>>
       \/ /\ Spend("hard")
          /\ Cut(p)
          /\ UNCHANGED retry
    /\ UNCHANGED <<tables, reply, voting, pc, job, frame, loop, drain, rest>>

BroadcastDone(t) ==
    /\ pc[t] = "write"
    /\ todo[t] = {}
    /\ pc' = [pc EXCEPT ![t] = "drain"]
    /\ di' = [di EXCEPT ![t] = 1]
    /\ UNCHANGED <<tables, reply, spent, routes, job, frame, todo, missed,
                   loop, held, rest>>

(* cmq_route_retry_drain: take the next used slot, then write it unlocked.   *)
NextUsed(i, d) == /\ i >= d
                  /\ retry[i] # Nothing
                  /\ \A j \in d..(i - 1) : retry[j] = Nothing
DrainEnd(d) == \A i \in Slots : i >= d => retry[i] = Nothing

DrainTake(t) ==
    /\ pc[t] = "drain"
    /\ \E i \in Slots :
          /\ NextUsed(i, di[t])
          /\ held' = [held EXCEPT ![t] = retry[i]]
          /\ di' = [di EXCEPT ![t] = i + 1]
          /\ retry' = [retry EXCEPT ![i] = Nothing]
    /\ pc' = [pc EXCEPT ![t] = "resend"]
    /\ UNCHANGED <<tables, reply, spent, link, wire, stale, voting, job,
                   frame, todo, missed, loop, rest>>

(* route_write_named: sent, EAGAIN (offered again), or -1 (forgotten).  A    *)
(* failure after a partial write leaves the connection up with half a frame. *)
DrainWrite(t) ==
    /\ pc[t] = "resend"
    /\ LET p == held[t].peer
           f == held[t].frame
       IN \/ /\ link[p] = "down"
             /\ UNCHANGED <<link, wire, retry, spent>>
          \/ /\ link[p] # "down"
             /\ Write(p, f)
             /\ UNCHANGED <<link, retry, spent>>
          \/ /\ link[p] # "down"
             /\ Spend("eagain")
             /\ Offer(p, f)
             /\ UNCHANGED <<link, wire>>
          \/ /\ link[p] # "down"
             /\ Spend("hard")
             /\ link' = [link EXCEPT ![p] = "torn"]
             /\ UNCHANGED <<wire, retry>>
    /\ pc' = [pc EXCEPT ![t] = "drain"]
    /\ held' = [held EXCEPT ![t] = Nothing]
    /\ UNCHANGED <<tables, reply, stale, voting, job, frame, todo, missed,
                   loop, di, rest>>

(* The reconnect sidecar drains on its own schedule. *)
SidecarDrain ==
    /\ pc[Sidecar] = "idle"
    /\ ~DrainEnd(1)
    /\ pc' = [pc EXCEPT ![Sidecar] = "drain"]
    /\ UNCHANGED <<tables, reply, spent, routes, locals>>

SidecarDone ==
    /\ pc[Sidecar] = "drain"
    /\ DrainEnd(di[Sidecar])
    /\ Leave(Sidecar)
    /\ UNCHANGED <<tables, reply, spent, routes>>

-----------------------------------------------------------------------------
(* txn_fanout_op and txn_2pc_commit after each forwarded frame.              *)

Forwarded(t, j, k) == /\ pc[t] = "drain"
                      /\ job[t] = j /\ frame[t].kind = k
                      /\ DrainEnd(di[t])

(* (void)cmq_txn_abort; return -1 *)
AbortAndReturn(t) ==
    /\ Clear(Coord)
    /\ Return(t, "error")

(* A missed BEGIN ends the fan-out; a missed ADD or PREPARE is remembered. *)
AfterBegin(t) ==
    /\ Forwarded(t, "prepare", "BEGIN")
    /\ \/ /\ t \in missed
          /\ AbortAndReturn(t)
       \/ /\ t \notin missed
          /\ pc'   = [pc EXCEPT ![t] = "ops"]
          /\ idx'  = [idx EXCEPT ![t] = 1]
          /\ nops' = [nops EXCEPT ![t] = Len(ops[Coord])]
          /\ UNCHANGED <<entry, reply, job, frame, todo, missed, drain, rest>>
    /\ UNCHANGED <<done, disk, history, spent, routes>>

AfterAdd(t) ==
    /\ Forwarded(t, "prepare", "ADD")
    /\ pc'  = [pc EXCEPT ![t] = "ops"]
    /\ idx' = [idx EXCEPT ![t] = @ + 1]
    /\ UNCHANGED <<tables, reply, spent, routes, job, frame, todo, missed,
                   nops, drain, rest>>

(* cmq_txn_op_at on the live table: the entry may have changed meanwhile. *)
NextOp(t) ==
    /\ pc[t] = "ops"
    /\ \/ /\ idx[t] > nops[t]
          /\ FanOut(t, "prepare", Ctl("PREPARE"))
          /\ UNCHANGED <<entry, reply>>
       \/ /\ idx[t] <= nops[t] /\ idx[t] <= Len(ops[Coord])
          /\ FanOut(t, "prepare", Add(ops[Coord][idx[t]]))
          /\ UNCHANGED <<entry, reply>>
       \/ /\ idx[t] <= nops[t] /\ idx[t] > Len(ops[Coord])
          /\ AbortAndReturn(t)
    /\ UNCHANGED <<done, disk, history, spent, routes>>

AfterPrepare(t) ==
    /\ Forwarded(t, "prepare", "PREPARE")
    /\ \/ /\ t \in missed
          /\ AbortAndReturn(t)
       \/ /\ t \notin missed
          /\ pc' = [pc EXCEPT ![t] = "wait"]
          /\ UNCHANGED <<entry, reply, locals>>
    /\ UNCHANGED <<done, disk, history, spent, routes>>

(* The end of an ABORT or COMMIT fan-out: its result is discarded. *)
AfterDecision(t) ==
    /\ \/ /\ Forwarded(t, "abort", "ABORT")
          /\ AbortAndReturn(t)
       \/ /\ Forwarded(t, "cabort", "ABORT")
          /\ Leave(t)
          /\ UNCHANGED <<entry, reply>>
       \/ /\ Forwarded(t, "commit", "COMMIT")
          /\ Return(t, "ok")
          /\ UNCHANGED entry
    /\ UNCHANGED <<done, disk, history, spent, routes>>

(* cmq_txn_wait_votes: woken with every vote in. *)
VotesIn(t) ==
    /\ pc[t] = "wait"
    /\ Coord \in busy /\ AllYes
    /\ pc' = [pc EXCEPT ![t] = "decide"]
    /\ UNCHANGED <<tables, reply, spent, routes, locals>>

(* Mutant: the wait has no deadline. *)
WaitFails_NoTimeout(t) ==
    /\ pc[t] = "wait"
    /\ Coord \notin busy
    /\ FanOut(t, "abort", Ctl("ABORT"))
    /\ UNCHANGED <<tables, reply, spent, routes>>

(* CMQ_TXN_2PC_MS passed, or the entry is gone. *)
WaitFails(t) ==
    /\ pc[t] = "wait"
    /\ ~(Coord \in busy /\ AllYes)
    /\ FanOut(t, "abort", Ctl("ABORT"))
    /\ UNCHANGED <<tables, reply, spent, routes>>

-----------------------------------------------------------------------------
(* cmq_txn_commit at the coordinator: with participants (pc = "decide") or   *)
(* without (pc = "plain").                                                   *)

(* Mutant: the return code of the 2PC cmq_txn_commit is ignored. *)
CommitFails_Ignored(t) ==
    \/ /\ pc[t] = "plain"
       /\ Return(t, "error")
    \/ /\ pc[t] = "decide"
       /\ FanOut(t, "commit", Ctl("COMMIT"))
       /\ UNCHANGED reply

CommitFails(t) ==
    \/ /\ pc[t] = "plain"
       /\ Return(t, "error")
    \/ /\ pc[t] = "decide"
       /\ FanOut(t, "abort", Ctl("ABORT"))
       /\ UNCHANGED reply

CommitKnown(t) ==
    /\ Coord \in done
    /\ \/ /\ pc[t] = "plain"
          /\ Return(t, "ok")
       \/ /\ pc[t] = "decide"
          /\ FanOut(t, "commit", Ctl("COMMIT"))
          /\ UNCHANGED reply
    /\ UNCHANGED <<tables, spent, routes>>

CommitRefused(t) ==
    /\ Coord \notin done /\ ~CanCommit(Coord)
    /\ CommitFails(t)
    /\ UNCHANGED <<tables, spent, routes>>

CommitLogged(t) ==
    /\ pc[t] \in {"plain", "decide"}
    /\ Coord \notin done /\ CanCommit(Coord)
    /\ LogCommit(Coord)
    /\ joined' = parts
    /\ rest' = [rest EXCEPT ![t] = ops[Coord]]
    /\ job' = [job EXCEPT ![t] = IF pc[t] = "plain" THEN "plain" ELSE "commit"]
    /\ pc' = [pc EXCEPT ![t] = "apply"]
    /\ UNCHANGED <<applied, reply, spent, routes, frame, todo, missed, loop,
                   drain>>

CommitNotLogged(t) ==
    /\ Coord \notin done /\ CanCommit(Coord)
    /\ CommitFails(t)
    /\ LogFails(Coord)
    /\ UNCHANGED routes

(* One op applied by cmq_server_publish, outside the table's lock. *)
ApplyOp(t) ==
    /\ pc[t] = "apply"
    /\ rest[t] # <<>>
    /\ \/ /\ applied' = [applied EXCEPT ![Coord] = Append(@, Head(rest[t]))]
          /\ rest' = [rest EXCEPT ![t] = Tail(@)]
          /\ UNCHANGED <<reply, spent, pc, job, frame, todo, missed, loop,
                         drain>>
       \/ /\ Spend("io")
          /\ \/ /\ job[t] = "plain"
                /\ Return(t, "error")
             \/ /\ job[t] = "commit"
                /\ FanOut(t, "abort", Ctl("ABORT"))
                /\ UNCHANGED reply
          /\ UNCHANGED applied
    /\ UNCHANGED <<entry, done, disk, commits, joined, routes>>

ApplyDone(t) ==
    /\ pc[t] = "apply"
    /\ rest[t] = <<>>
    /\ \/ /\ job[t] = "plain"
          /\ Return(t, "ok")
       \/ /\ job[t] = "commit"
          /\ FanOut(t, "commit", Ctl("COMMIT"))
          /\ UNCHANGED reply
    /\ UNCHANGED <<tables, spent, routes>>

-----------------------------------------------------------------------------
(* A route peer reads one frame (handle_publish with c->is_route).           *)

RecvBegin(p, f) ==
    /\ f.kind = "BEGIN"
    /\ Begin(p)
    /\ UNCHANGED <<prepared, ops, parts, votes, done, disk, history, voting,
                   spent>>

RecvAdd(p, f) ==
    /\ f.kind = "ADD"
    /\ ops' = IF CanAdd(p) THEN [ops EXCEPT ![p] = Append(@, f.op)] ELSE ops
    /\ UNCHANGED <<busy, prepared, parts, votes, done, disk, history, voting,
                   spent>>

(* begin, prepare, and a yes vote over the peer's own routes. *)
RecvPrepare(p, f) ==
    /\ f.kind = "PREPARE"
    /\ Begin(p)
    /\ prepared' = IF p \in done THEN prepared ELSE prepared \cup {p}
    /\ voting' = IF p \in done THEN voting ELSE [voting EXCEPT ![p] = @ + 1]
    /\ UNCHANGED <<ops, parts, votes, done, disk, history, spent>>

(* cmq_txn_commit at the peer: k ops are applied before one fails, if any. *)
RecvCommit(p, f) ==
    /\ f.kind = "COMMIT"
    /\ \/ /\ p \in done \/ ~CanCommit(p)
          /\ UNCHANGED <<tables, spent>>
       \/ /\ p \notin done /\ CanCommit(p)
          /\ LogCommit(p)
          /\ \E k \in 0..Len(ops[p]) :
                /\ applied' = [applied EXCEPT ![p] =
                                  @ \o SubSeq(ops[p], 1, k)]
                /\ IF k = Len(ops[p]) THEN UNCHANGED spent ELSE Spend("io")
          /\ UNCHANGED joined
       \/ /\ p \notin done /\ CanCommit(p)
          /\ LogFails(p)
    /\ UNCHANGED voting

RecvAbort(p, f) ==
    /\ f.kind = "ABORT"
    /\ Clear(p)
    /\ UNCHANGED <<done, disk, history, voting, spent>>

Recv(p, f) == \/ RecvBegin(p, f)
              \/ RecvAdd(p, f)
              \/ RecvPrepare(p, f)
              \/ RecvCommit(p, f)
              \/ RecvAbort(p, f)

(* An ended connection may be read out by another worker of the peer while   *)
(* the new one is already being read.                                        *)
Receive(p) ==
    /\ \/ /\ wire[p] # <<>>
          /\ Recv(p, Head(wire[p]))
          /\ wire' = [wire EXCEPT ![p] = Tail(@)]
          /\ UNCHANGED stale
       \/ /\ stale[p] # <<>>
          /\ Recv(p, Head(stale[p]))
          /\ stale' = [stale EXCEPT ![p] = Tail(@)]
          /\ UNCHANGED wire
    /\ UNCHANGED <<reply, link, retry, pc, locals>>

(* cmq_txn_vote at the coordinator: kept only for a registered peer. *)
RecvVote(p) ==
    /\ voting[p] > 0
    /\ voting' = [voting EXCEPT ![p] = @ - 1]
    /\ votes' = votes \cup ({p} \cap parts)
    /\ UNCHANGED <<busy, prepared, ops, parts, done, disk, history, reply,
                   spent, link, wire, stale, retry, pc, locals>>

(* The peer's own forward missed the coordinator. *)
LoseVote(p) ==
    /\ voting[p] > 0
    /\ voting' = [voting EXCEPT ![p] = @ - 1]
    /\ UNCHANGED <<tables, reply, spent, link, wire, stale, retry, pc, locals>>

-----------------------------------------------------------------------------
(* Connections and nodes fail and come back. *)

Flap(p) ==
    /\ link[p] # "down"
    /\ Spend("hard")
    /\ Cut(p)
    /\ UNCHANGED <<tables, reply, voting, retry, pc, job, frame, loop, drain,
                   rest>>

(* The record of another transaction is cut short at n. *)
OtherCutShort(n) ==
    /\ Spend("io")
    /\ CutShort(n)
    /\ UNCHANGED <<entry, done, history, reply, routes, pc, locals>>

Reconnect(p) ==
    /\ link[p] = "down"
    /\ link' = [link EXCEPT ![p] = "up"]
    /\ UNCHANGED <<tables, reply, spent, wire, stale, voting, retry, pc, locals>>

(* Mutant: cmq_txn_set_log does not load the log. *)
Restart_NoLoad(n) ==
    /\ Clear(n)
    /\ done' = done \ {n}

(* A restart reloads done[] from the log (txn_log_load) and nothing else. *)
Restart(n) ==
    /\ Clear(n)
    /\ done' = (done \ {n}) \cup (log \cap {n})

CrashPart(p) ==
    /\ Spend("crash")
    /\ Restart(p)
    /\ link'   = [link EXCEPT ![p] = "down"]
    /\ wire'   = [wire EXCEPT ![p] = <<>>]
    /\ stale'  = [stale EXCEPT ![p] = <<>>]
    /\ Vanish(p)
    /\ UNCHANGED <<disk, history, reply, voting, retry, pc, job, frame, loop,
                   drain, rest>>

CrashCoord ==
    /\ Spend("crash")
    /\ Restart(Coord)
    /\ link'   = [p \in Parts |-> "down"]
    /\ wire'   = [p \in Parts |-> <<>>]
    /\ stale'  = [p \in Parts |-> stale[p] \o wire[p]]
    /\ retry'  = [i \in Slots |-> Nothing]
    /\ pc'     = [t \in Drainers |-> "idle"]
    /\ job'    = [t \in Drainers |-> "none"]
    /\ frame'  = [t \in Drainers |-> Ctl("BEGIN")]
    /\ todo'   = [t \in Drainers |-> {}]
    /\ missed' = {}
    /\ idx'    = [t \in Drainers |-> 0]
    /\ nops'   = [t \in Drainers |-> 0]
    /\ di'     = [t \in Drainers |-> 1]
    /\ held'   = [t \in Drainers |-> Nothing]
    /\ rest'   = [t \in Drainers |-> <<>>]
    /\ UNCHANGED <<disk, history, reply, voting>>

-----------------------------------------------------------------------------
(* What a thread that is inside a handler does next. *)
Handler(t) ==
    \/ LiveParts(t) \/ (\E p \in Parts : AddPart(t, p)) \/ Prepare(t) \/ CountParts(t)
    \/ Snapshot(t)
    \/ \E p \in Parts : WritePeer(t, p)
    \/ BroadcastDone(t) \/ DrainTake(t) \/ DrainWrite(t)
    \/ AfterBegin(t) \/ AfterAdd(t) \/ NextOp(t) \/ AfterPrepare(t)
    \/ AfterDecision(t)
    \/ VotesIn(t) \/ WaitFails(t)
    \/ CommitKnown(t) \/ CommitRefused(t) \/ CommitLogged(t)
    \/ CommitNotLogged(t) \/ ApplyOp(t) \/ ApplyDone(t)

Client ==
    \/ ClientBegin
    \/ \E o \in Ops : ClientAdd(o)
    \/ \E t \in Threads : ClientAbort(t) \/ ClientCommit(t)

Peer(p) == Receive(p) \/ RecvVote(p) \/ LoseVote(p)

SidecarStep == \/ SidecarDrain \/ DrainTake(Sidecar) \/ DrainWrite(Sidecar)
               \/ SidecarDone

Fault == \/ \E p \in Parts : Flap(p) \/ Reconnect(p) \/ CrashPart(p)
         \/ CrashCoord \/ \E n \in Nodes : OtherCutShort(n)

Next ==
    \/ Client
    \/ \E t \in Threads : Handler(t)
    \/ SidecarStep
    \/ \E p \in Parts : Peer(p)
    \/ Fault

Spec == Init /\ [][Next]_vars

(* A worker runs its handler to the end; every wait in it has a timeout. *)
FairSpec == Spec /\ \A t \in Threads : WF_vars(Handler(t))

-----------------------------------------------------------------------------
(* Properties. *)

TypeEntry ==
    /\ busy \subseteq Nodes /\ prepared \subseteq busy
    /\ ops \in [Nodes -> Seq(Ops)]
    /\ \A n \in Nodes : Len(ops[n]) <= OpsMax
    /\ parts \subseteq Parts /\ votes \subseteq parts

TypeHistory ==
    /\ done \subseteq Nodes /\ log \subseteq Nodes
    /\ skew \subseteq Nodes /\ lost \subseteq Nodes
    /\ applied \in [Nodes -> Seq(Ops)]
    /\ commits \in [Nodes -> Nat]
    /\ joined \subseteq Parts
    /\ reply \subseteq {"ok", "error"}
    /\ spent \in [Limited -> Nat]

Labels == {"idle", "parts", "register", "count", "fan", "write", "drain", "resend",
           "ops", "wait", "decide", "plain", "apply"}

TypeThreads ==
    /\ link \in [Parts -> {"up", "torn", "down"}]
    /\ voting \in [Parts -> Nat]
    /\ pc \in [Drainers -> Labels]
    /\ job \in [Drainers -> {"none", "prepare", "abort", "cabort", "commit",
                             "plain"}]
    /\ todo \in [Drainers -> SUBSET Parts]
    /\ missed \subseteq Drainers
    /\ idx \in [Drainers -> Nat] /\ nops \in [Drainers -> Nat]
    /\ \A t \in Drainers : pc[t] = "ops" => idx[t] >= 1
    /\ di \in [Drainers -> Nat]
    /\ rest \in [Drainers -> Seq(Ops)]

(* Every frame on a connection, in the retry queue or in the hands of a      *)
(* thread is one of F.                                                       *)
Carried(F) ==
    /\ wire \in [Parts -> Seq(F)]
    /\ stale \in [Parts -> Seq(F)]
    /\ retry \in [Slots -> [peer : Parts, frame : F] \cup {Nothing}]
    /\ frame \in [Drainers -> F]
    /\ held \in [Drainers -> [peer : Parts, frame : F] \cup {Nothing}]
    /\ \A t \in Drainers : pc[t] = "resend" =>
                              held[t] \in [peer : Parts, frame : F]

(* Types of the tables, the queue and the handlers' locals; no entry of the  *)
(* txn table ever holds more than CMQ_TXN_OPS ops, only an entry in use is   *)
(* prepared, and only a registered peer is counted as a voter.               *)
TypeOK == TypeEntry /\ TypeHistory /\ TypeThreads /\ Carried(Frame)

(* A peer commits, durably or in memory, only a transaction the coordinator  *)
(* has committed: no ABORTed, timed-out or half-logged txn is ever applied   *)
(* at a route peer, whatever the retry queue, flaps and crashes do.  And the *)
(* coordinator still knows of it, unless its record fell behind the part of  *)
(* another one.                                                              *)
CommitBacked ==
    \A p \in Parts : p \in done \/ p \in log \/ applied[p] # <<>>
        => commits[Coord] > 0 /\ (Coord \in lost \/ (Coord \in done /\ Coord \in log))

(* cmq_txn_commit decides an id at most once per node, across retried COMMIT *)
(* frames, repeated client requests and restarts from the log, as long as    *)
(* the record it decided with was not appended to the part of another one.   *)
CommitOnce == \A n \in Nodes : n \in lost \/ commits[n] <= 1

(* A client is told ok only for a commit that a restart would remember, with *)
(* the same exception.                                                       *)
OkIsDurable == "ok" \in reply => Coord \in lost \/ (Coord \in done /\ Coord \in log)

(* What makes CommitBacked, CommitOnce and OkIsDurable inductive: memory     *)
(* never runs ahead of the log, an id that is known has no entry, a thread   *)
(* that applies or announces a commit has one to announce, and before the    *)
(* coordinator commits no COMMIT frame exists anywhere, on a connection, in  *)
(* the retry queue or in a thread.                                           *)
NoCommitYet ==
    /\ Carried({f \in Frame : f.kind # "COMMIT"})
    /\ \A p \in Parts : p \notin log /\ p \notin done /\ applied[p] = <<>>

Remembered ==
    /\ done \subseteq log \cup lost
    /\ busy \cap done = {}
    /\ \A n \in Nodes \ lost : commits[n] = 0 \/ (commits[n] = 1 /\ n \in done)

Announced ==
    \A t \in Drainers :
        pc[t] = "apply" \/ job[t] = "commit" \/ (pc[t] = "decide" /\ Coord \in done)
            => commits[Coord] > 0

Decided ==
    /\ Remembered /\ Announced /\ OkIsDurable
    /\ commits[Coord] = 0 => NoCommitYet

(* Nothing of the transaction is in flight any more. *)
Quiescent == /\ \A t \in Drainers : pc[t] = "idle"
             /\ \A p \in Parts : wire[p] = <<>> /\ stale[p] = <<>>
             /\ \A i \in Slots : retry[i] = Nothing

(* txn.md: the PUBLISH frames of a transaction commit together: when all is  *)
(* quiet after a commit, each registered peer applied what Coord applied.    *)
SameOps == Quiescent /\ Coord \in done =>
               \A p \in joined : applied[p] = applied[Coord]

(* Every COMMIT or ABORT handler returns to its worker's event loop. *)
HandlerReturns == \A t \in Threads : [](pc[t] # "idle" => <>(pc[t] = "idle"))
=============================================================================
