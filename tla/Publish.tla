------------------------------ MODULE Publish ------------------------------
(***************************************************************************)
(* What a frame that carries messages does between its arrival and its       *)
(* answer: handle_publish, handle_batch, handle_request and handle_response  *)
(* of server/cmq_server.c, with the idempotent-producer window, the budget   *)
(* of bytes in flight of the account, the cluster forward and the coroutine  *)
(* that delivers to many targets.                                            *)
(*                                                                           *)
(* Every connection has a worker of its own, so handlers interleave, and an  *)
(* administrator deletes and recreates their account meanwhile.  The budget  *)
(* is a lock-free counter: its loads and its compare-and-swap are steps of   *)
(* their own, and so are the stores of account_bump_epoch and                *)
(* account_clear_counters, which run under a lock those loops do not take.   *)
(* The loads of epoch, active and clear_gen of one check are one step.       *)
(*                                                                           *)
(* Subjects, targets and peers are abstracted: a match finds no target, a    *)
(* few or more than a coroutine batch, a delivery reaches one of them or     *)
(* none, and a forward is written to a peer, put into the retry queue of the *)
(* pool, or neither.                                                         *)
(***************************************************************************)
EXTENDS Naturals, Sequences, FiniteSets, FiniteSetsExt

CONSTANTS
    Conns,       \* client connections
    LiveMax,     \* account_max_bytes_live, greater than 0
    BatchMax,    \* CMQ_BATCH_MAX
    InboxMax,    \* inbox_max_pending
    Window,      \* CMQ_IDEMPO_WIN
    MaxPids,     \* CMQ_IDEMPO_PIDS
    CoroCap,     \* coro_cap of a worker
    Ids,         \* the producers' messages explored, pairs of pid and seq
    Plans        \* bounds: mixes of inputs, one of which a behaviour explores

Ops == {"publish", "batch", "request", "response"}

ASSUME PublishAssumption ==
    /\ IsFiniteSet(Conns) /\ LiveMax \in Nat /\ Window \in Nat /\ BatchMax \in Nat
    /\ \A i \in Ids : i = <<i[1], i[2]>> /\ i[2] \in Nat
    /\ \A p \in Plans :
         /\ p.conns \subseteq Conns /\ p.ops \subseteq Ops
         /\ p.sizes \subseteq Nat /\ p.finds \subseteq {"none", "few", "many"}
         /\ p.cluster \subseteq BOOLEAN /\ p.ids \subseteq Ids \cup {<<>>}

VARIABLES
    plan,      \* the mix of inputs explored
    acct,      \* the account: active, epoch, gen (clear_gen), live (bytes_live)
    admin,     \* what account_delete_impl or account_create_impl does next
    torn,      \* ghost: the last clear fell between a check and its swap
    routed,    \* routes are configured
    session,   \* session[c]: account_epoch and conn_gen, epoch 0 when closed
    task,      \* task[c]: the handler of the frame of c
    jobs,      \* jobs[c]: frames so far
    inbox,     \* inbox[c]: inbox_pending
    window,    \* the slots of cmq_idempo_t: last and bits of a producer
    coros,     \* coros[c]: the delivery coroutines of c's worker
    fanned,    \* ghost: how often a producer's message was fanned out
    late       \* ghost: what the coroutines had reached that sent an ERROR

vars == <<plan, acct, admin, torn, routed, session, task, jobs, inbox, window,
          coros, fanned, late>>

NoId == <<>>

Item(n) == [n |-> n, tgts |-> "none", held |-> FALSE, cl |-> "no", local |-> FALSE]

Idle == [pc |-> "idle", op |-> "none", route |-> FALSE, ep |-> 0, id |-> NoId,
         items |-> <<>>, k |-> 1, g0 |-> 0, cur |-> 0, fail |-> FALSE,
         amb |-> FALSE, answer |-> "none"]

Init ==
    /\ plan \in Plans
    /\ acct = [active |-> TRUE, epoch |-> 1, gen |-> 1, live |-> 0]
    /\ admin = "idle" /\ torn = FALSE
    /\ routed \in plan.cluster
    /\ session = [c \in Conns |-> [ep |-> 0, gen |-> 0]]
    /\ task = [c \in Conns |-> Idle]
    /\ jobs = [c \in Conns |-> 0]
    /\ inbox = [c \in Conns |-> 0]
    /\ window = <<>>
    /\ coros = [c \in Conns |-> <<>>]
    /\ fanned = [i \in Ids |-> 0]
    /\ late = {}

-----------------------------------------------------------------------------
(* The account.                                                              *)

(* client_account_live, pub_account_epoch_live                               *)
Live(ep) == acct.active /\ acct.epoch = ep

(* A thread is between a check of the generation and its compare-and-swap.   *)
Swapping == \E c \in Conns : task[c].pc \in {"cas", "undo", "debit"}

AdminBegin ==
    /\ admin = "idle" /\ acct.epoch < plan.epochs
    /\ acct' = [acct EXCEPT !.epoch = @ + 1]
    /\ admin' = "gen"
    /\ UNCHANGED torn

AdminGen ==
    /\ admin = "gen"
    /\ acct' = [acct EXCEPT !.gen = @ + 1]
    /\ admin' = "zero"
    /\ UNCHANGED torn

AdminZero ==
    /\ admin = "zero"
    /\ acct' = [acct EXCEPT !.live = 0]
    /\ torn' = Swapping
    /\ admin' = "flip"

AdminFlip ==
    /\ admin = "flip"
    /\ acct' = [acct EXCEPT !.active = ~@]
    /\ admin' = "idle"
    /\ UNCHANGED torn

(* account_delete_impl of an active account, account_create_impl of a        *)
(* deleted one: bump, clear, store active.                                   *)
Admin ==
    /\ AdminBegin \/ AdminGen \/ AdminZero \/ AdminFlip
    /\ UNCHANGED <<plan, routed, session, task, jobs, inbox, window, coros, fanned,
                   late>>

Connect(c) ==
    /\ task[c] = Idle /\ session[c].ep = 0 /\ session[c].gen < plan.connects
    /\ acct.active
    /\ session' = [session EXCEPT ![c] = [ep |-> acct.epoch, gen |-> @.gen + 1]]
    /\ UNCHANGED <<plan, acct, admin, torn, routed, task, jobs, inbox, window, coros,
                   fanned, late>>

-----------------------------------------------------------------------------
(* The end of a handler.                                                     *)

Step(c, j) == task' = [task EXCEPT ![c] = j]

HeldItems(j) == {k \in 1 .. Len(j.items) : j.items[k].held}

(* pub_done, req_done, BATCH_RELEASE: what was held is dropped, item by item *)
Finished(j, ans) ==
    LET h == HeldItems(j)
    IN [j EXCEPT !.answer = ans, !.k = IF h = {} THEN 1 ELSE Min(h),
                 !.pc = IF h = {} THEN "done" ELSE "drop", !.g0 = 0, !.cur = 0]

Finish(c, j, ans) == Step(c, Finished(j, ans)) /\ UNCHANGED session

(* "account inactive", and the connection is CLOSING                         *)
Inactive(c, j) ==
    /\ Step(c, Finished(j, "inactive"))
    /\ session' = [session EXCEPT ![c].ep = 0]

-----------------------------------------------------------------------------
(* Arrival: handle_frame tests the account before it calls a handler.        *)

Shape(op, items) == IF op = "batch" THEN Len(items) \in 1 .. BatchMax
                                    ELSE Len(items) = 1

(* What follows the validation of the frame                                  *)
FirstPc(op) == CASE op = "publish"  -> "admit"
                 [] op = "response" -> "match"
                 [] OTHER           -> "load"

(* inbox_pending: a REQUEST that was counted is only taken off again when    *)
(* $KV, $OBJ or $JS answers it here; a RESPONSE counts down its own sender.  *)
Counted(op, n) == CASE op = "request"            -> n + 1
                    [] op = "response" /\ n > 0 -> n - 1
                    [] OTHER                     -> n

Begin(c, op, ns, id, route) ==
    LET j == [Idle EXCEPT !.op = op, !.route = route, !.id = id,
                          !.ep = session[c].ep, !.pc = FirstPc(op),
                          !.items = [k \in 1 .. Len(ns) |-> Item(ns[k])]]
        full == op = "request" /\ inbox[c] >= InboxMax
    IN /\ task[c] = Idle /\ session[c].ep # 0 /\ jobs[c] < plan.jobs
       /\ Shape(op, ns) /\ (id # NoId => op = "publish") /\ (route => routed)
       /\ jobs' = [jobs EXCEPT ![c] = @ + 1]
       /\ \/ /\ ~Live(session[c].ep) /\ Inactive(c, j)
             /\ UNCHANGED inbox
          \/ /\ Live(session[c].ep)
             \* it does not inflate or is cut short, or the inbox is full
             /\ \/ Finish(c, j, "refused")
                \/ op = "request" /\ ~full /\ Finish(c, j, "stored")
             /\ UNCHANGED inbox
          \/ /\ Live(session[c].ep) /\ ~full
             /\ inbox' = [inbox EXCEPT ![c] = Counted(op, @)]
             \* it does not parse, is too large or not permitted
             /\ (Step(c, j) /\ UNCHANGED session) \/ Finish(c, j, "refused")
       /\ UNCHANGED <<plan, acct, admin, torn, routed, window, coros, fanned, late>>

(* The client has read its answer.                                           *)
Read(c) ==
    /\ task[c].pc = "done"
    /\ Step(c, Idle)
    /\ UNCHANGED <<plan, acct, admin, torn, routed, session, jobs, inbox, window, coros,
                   fanned, late>>

-----------------------------------------------------------------------------
(* PUBLISH: cmq_idempo_check, then the WAL, then ACL, quota, rate limit and  *)
(* subject map.  bits holds the distances behind last that were seen.        *)

Known(p) == p \in DOMAIN window

Marked(w, s) ==
    IF s > w.last
    THEN [last |-> s, bits |-> {0} \cup {d \in {b + (s - w.last) : b \in w.bits} : d < Window}]
    ELSE [w EXCEPT !.bits = @ \cup {w.last - s}]

Duplicate(w, s) == s <= w.last /\ (w.last - s >= Window \/ w.last - s \in w.bits)

(* the account's budget is next, whether or not the append succeeded         *)
Admitted(c) == Step(c, [task[c] EXCEPT !.pc = "load"]) /\ UNCHANGED session

Admit(c) ==
    LET j == task[c]
        p == j.id[1]
        s == j.id[2]
    IN /\ j.pc = "admit"
       /\ \/ /\ j.id = NoId
             /\ Admitted(c) \/ Finish(c, j, "refused")
             /\ UNCHANGED window
          \/ /\ j.id # NoId /\ Known(p) /\ Duplicate(window[p], s)
             /\ Finish(c, j, "silent")
             /\ UNCHANGED window
          \/ /\ j.id # NoId /\ ~Known(p) /\ Cardinality(DOMAIN window) >= MaxPids
             /\ Finish(c, j, "refused")
             /\ UNCHANGED window
          \/ /\ j.id # NoId
             /\ \/ /\ Known(p) /\ ~Duplicate(window[p], s)
                   /\ window' = [window EXCEPT ![p] = Marked(@, s)]
                \/ /\ ~Known(p) /\ Cardinality(DOMAIN window) < MaxPids
                   /\ window' = [q \in DOMAIN window \cup {p} |->
                        IF q = p THEN [last |-> s, bits |-> {0}] ELSE window[q]]
             /\ Admitted(c) \/ Finish(c, j, "refused")
       /\ UNCHANGED <<plan, acct, admin, torn, routed, jobs, inbox, coros, fanned, late>>

-----------------------------------------------------------------------------
(* account_live_hold: cmq_account_credit_bytes_live for item k.              *)

EntrySize(j) == j.items[j.k].n
Less(m, n) == IF m > n THEN m - n ELSE 0

Fenced(j, g) == Live(j.ep) /\ acct.gen = g

Rest == UNCHANGED <<plan, admin, torn, routed, jobs, inbox, window, coros, fanned, late>>

(* the next loop iteration, with cur as the swap found it                    *)
Retry(c, j, g) ==
    \/ /\ ~Fenced(j, g) \/ acct.live + EntrySize(j) > LiveMax
       /\ Finish(c, j, "refused")
    \/ /\ Fenced(j, g) /\ acct.live + EntrySize(j) <= LiveMax
       /\ Step(c, [j EXCEPT !.pc = "cas", !.g0 = g, !.cur = acct.live])
       /\ UNCHANGED session

HoldLoad(c) ==
    LET j == task[c]
    IN /\ j.pc = "load"
       /\ \/ /\ EntrySize(j) = 0
             /\ Step(c, [j EXCEPT !.pc = "match"]) /\ UNCHANGED session
          \/ /\ EntrySize(j) > 0
             /\ Retry(c, j, acct.gen)
       /\ UNCHANGED acct /\ Rest

HoldSwap(c) ==
    LET j == task[c]
    IN /\ j.pc = "cas"
       /\ \/ /\ acct.live = j.cur
             /\ acct' = [acct EXCEPT !.live = j.cur + EntrySize(j)]
             /\ Step(c, [j EXCEPT !.pc = "recheck"]) /\ UNCHANGED session
          \/ /\ acct.live # j.cur
             /\ Retry(c, j, j.g0)
             /\ UNCHANGED acct
       /\ Rest

HoldCheck(c) ==
    LET j == task[c]
    IN /\ j.pc = "recheck"
       /\ \/ /\ Fenced(j, j.g0)
             /\ Step(c, [j EXCEPT !.pc = "match", !.items[j.k].held = TRUE,
                                !.g0 = 0, !.cur = 0])
             /\ UNCHANGED session
          \/ /\ ~Fenced(j, j.g0) /\ acct.gen = j.g0
             /\ Step(c, [j EXCEPT !.pc = "undo", !.cur = acct.live])
             /\ UNCHANGED session
          \/ /\ ~Fenced(j, j.g0) /\ acct.gen # j.g0
             /\ Finish(c, j, "refused")
       /\ UNCHANGED acct /\ Rest

(* account_undo_stale_inc                                                    *)
HoldUndo(c) ==
    LET j == task[c]
    IN /\ j.pc = "undo"
       /\ \/ /\ acct.live = j.cur
             /\ acct' = [acct EXCEPT !.live = Less(@, EntrySize(j))]
             /\ Finish(c, j, "refused")
          \/ /\ acct.live # j.cur /\ acct.gen = j.g0
             /\ Step(c, [j EXCEPT !.cur = acct.live])
             /\ UNCHANGED <<acct, session>>
          \/ /\ acct.live # j.cur /\ acct.gen # j.g0
             /\ Finish(c, j, "refused")
             /\ UNCHANGED acct
       /\ Rest

(* account_live_drop of item k is over: the next one that is held            *)
Dropped(j) == Finished([j EXCEPT !.items[j.k].held = FALSE], j.answer)

(* Mutant: the debit is not fenced by the epoch.                             *)
DebitFenced_NoEpoch(j) == acct.active /\ acct.live > 0

DebitFenced(j) == Live(j.ep) /\ acct.live > 0

(* account_live_drop: cmq_account_debit_bytes_live                           *)
DropLoad(c) ==
    LET j == task[c]
    IN /\ j.pc = "drop"
       /\ Step(c, IF DebitFenced(j)
                  THEN [j EXCEPT !.pc = "debit", !.g0 = acct.gen, !.cur = acct.live]
                  ELSE Dropped(j))
       /\ UNCHANGED <<acct, session>> /\ Rest

DropSwap(c) ==
    LET j == task[c]
    IN /\ j.pc = "debit"
       /\ \/ /\ acct.live = j.cur
             /\ acct' = [acct EXCEPT !.live = Less(@, EntrySize(j))]
             /\ Step(c, Dropped(j))
          \/ /\ acct.live # j.cur
             /\ Step(c, IF DebitFenced(j) /\ acct.gen = j.g0
                        THEN [j EXCEPT !.cur = acct.live] ELSE Dropped(j))
             /\ UNCHANGED acct
       /\ UNCHANGED session /\ Rest

-----------------------------------------------------------------------------
(* Match and snapshot of item k.                                             *)

Found(op) == IF op = "publish" THEN plan.finds ELSE plan.finds \ {"many"}

Match(c) ==
    LET j == task[c]
    IN /\ j.pc = "match"
       /\ \/ Finish(c, j, "failed")
          \/ /\ \E t \in Found(j.op) :
                   LET found == [j EXCEPT !.items[j.k].tgts = t]
                   IN Step(c, IF j.k < Len(j.items)
                              THEN [found EXCEPT !.k = @ + 1, !.pc = "load"]
                              ELSE [found EXCEPT !.k = 1, !.pc = "forward"])
             /\ UNCHANGED session
       /\ UNCHANGED acct /\ Rest

-----------------------------------------------------------------------------
(* Cluster forward: cmq_route_forward_op.                                    *)

Forwards(j) == IF routed /\ ~j.route THEN {"no", "queued", "sent"} ELSE {"no"}

(* cmq_route_forward_missed: routes are configured and no peer was written   *)
Missed(j, r) == routed /\ ~j.route /\ r # "sent"

NoLocal(j) == \A k \in 1 .. Len(j.items) : j.items[k].tgts = "none"

ForwardPublish(c, j, r) ==
    /\ fanned' = IF j.id = NoId THEN fanned ELSE [fanned EXCEPT ![j.id] = @ + 1]
    /\ \/ /\ NoLocal(j)
          /\ Finish(c, j, IF Missed(j, r) THEN "failed" ELSE "ok")
       \/ /\ ~NoLocal(j)
          /\ Step(c, [j EXCEPT !.pc = "local"]) /\ UNCHANGED session

(* pass 2b: every entry is tried; oom is the copy of the entry failing       *)
ForwardBatch(c, j, r, oom) ==
    LET miss == oom \/ (j.items[j.k].tgts = "none" /\ Missed(j, r))
        tried == [j EXCEPT !.fail = @ \/ miss]
    IN /\ oom => Forwards(j) # {"no"} /\ r = "no"
       /\ Step(c, IF j.k < Len(j.items) THEN [tried EXCEPT !.k = @ + 1]
                  ELSE [tried EXCEPT !.k = 1, !.pc = "local"])
       /\ UNCHANGED <<session, fanned>>

(* a REQUEST or RESPONSE leaves the node only when nobody here takes it      *)
ForwardCall(c, j, r) ==
    /\ ~NoLocal(j) => r = "no"
    /\ Step(c, [j EXCEPT !.pc = IF NoLocal(j) THEN "reply" ELSE "local"])
    /\ UNCHANGED <<session, fanned>>

Forward(c) ==
    LET j == task[c]
    IN /\ j.pc = "forward"
       /\ \/ /\ j.op = "batch" /\ j.k = 1 /\ NoLocal(j) /\ Missed(j, "no")
             /\ Finish(c, j, "failed")       \* no live peer at all
             /\ UNCHANGED fanned
          \/ /\ ~Live(j.ep) /\ Inactive(c, j)
             /\ UNCHANGED fanned
          \/ /\ Live(j.ep)
             /\ \E r \in Forwards(j) :
                   LET f == [j EXCEPT !.items[j.k].cl = r]
                   IN \/ j.op = "publish" /\ ForwardPublish(c, f, r)
                      \/ j.op = "batch" /\ \E oom \in BOOLEAN : ForwardBatch(c, f, r, oom)
                      \/ j.op \in {"request", "response"} /\ ForwardCall(c, f, r)
       /\ UNCHANGED <<plan, acct, admin, torn, routed, jobs, inbox, window, coros, late>>

-----------------------------------------------------------------------------
(* Local delivery: deliver_targets_sync, deliver_request_targets.            *)

Sent(i) == i.cl = "sent"
Reached(i) == i.local \/ Sent(i)
AnyReached(j) == \E k \in 1 .. Len(j.items) : Reached(j.items[k])

(* "Cluster already has the message": no ERROR then                          *)
PublishAnswer(j) == IF AnyReached(j) THEN "ok" ELSE "failed"

(* worker_coro_spawn_deliver                                                 *)
Spawn(c, j) ==
    /\ Len(coros[c]) < CoroCap
    /\ coros' = [coros EXCEPT ![c] = Append(@,
            [ep |-> j.ep, gen |-> session[c].gen, left |-> 2, any |-> FALSE,
             cl |-> j.items[1].cl])]
    /\ Finish(c, j, "ok")

LocalPublish(c, j, d) ==
    \/ /\ Finish(c, d, PublishAnswer(d))
       /\ UNCHANGED coros
    \/ j.items[1].tgts = "many" /\ Spawn(c, j)

(* Mutant: the batch answers an ERROR although part of it was delivered.     *)
BatchAnswer_Partial(j) == IF j.fail THEN "failed" ELSE "ok"

BatchAnswer(j) == IF j.fail /\ ~AnyReached(j) THEN "failed" ELSE "ok"

(* pass 2c                                                                   *)
LocalBatch(c, j, d) ==
    LET i == d.items[j.k]
        next == [d EXCEPT !.fail = @ \/ (i.tgts # "none" /\ ~i.local)]
    IN /\ \/ /\ j.k < Len(j.items)
             /\ Step(c, [next EXCEPT !.k = @ + 1]) /\ UNCHANGED session
          \/ /\ j.k = Len(j.items)
             /\ Finish(c, next, BatchAnswer(next))
       /\ UNCHANGED coros

Local(c) ==
    LET j == task[c]
    IN /\ j.pc = "local"
       /\ \/ /\ j.op \in {"publish", "batch"} /\ ~Live(j.ep)
             /\ Inactive(c, j)
             /\ UNCHANGED coros
          \/ /\ j.op \in {"publish", "batch"} => Live(j.ep)
             /\ \E got \in BOOLEAN, amb \in BOOLEAN :
                   LET d == [j EXCEPT !.items[j.k].local = got, !.amb = amb]
                   IN /\ got => Live(j.ep) /\ j.items[j.k].tgts # "none"
                      /\ amb => j.op = "request"
                      /\ \/ j.op = "publish" /\ LocalPublish(c, j, d)
                         \/ j.op = "batch" /\ LocalBatch(c, j, d)
                         \/ /\ j.op \in {"request", "response"}
                            /\ Step(c, [d EXCEPT !.pc = "reply"])
                            /\ UNCHANGED <<session, coros>>
       /\ UNCHANGED <<plan, acct, admin, torn, routed, jobs, inbox, window, fanned, late>>

(* The end of a REQUEST or RESPONSE.  A REQUEST tests the account again; a   *)
(* RESPONSE does when its local delivery failed.                             *)
Reply(c) ==
    LET j == task[c]
        tested == j.op = "request" \/ (~NoLocal(j) /\ ~AnyReached(j))
        again  == ~NoLocal(j) /\ ~AnyReached(j) /\ ~j.amb /\ ~j.route
    IN /\ j.pc = "reply"
       /\ \/ /\ tested /\ ~Live(j.ep) /\ Inactive(c, j)
          \/ /\ tested => Live(j.ep)
             /\ \E r \in IF again THEN Forwards(j) ELSE {j.items[1].cl} :
                   LET f == [j EXCEPT !.items[1].cl = r]
                   IN Finish(c, f, PublishAnswer(f))
       /\ UNCHANGED acct /\ Rest

-----------------------------------------------------------------------------
(* worker_coro_tick resumes deliver_coro_func between two handlers: one more *)
(* batch of targets, or the end when the publisher is gone.                  *)

PublisherLive(c, co) == session[c] = [ep |-> co.ep, gen |-> co.gen] /\ Live(co.ep)

Resumed(co, got) == [co EXCEPT !.left = @ - 1, !.any = @ \/ got]

CoroTick(c) ==
    LET co == Head(coros[c])
    IN /\ coros[c] # <<>> /\ task[c] = Idle
       /\ \/ /\ ~PublisherLive(c, co)
             /\ coros' = [coros EXCEPT ![c] = Tail(@)]
             /\ UNCHANGED late
          \/ /\ PublisherLive(c, co)
             /\ \E got \in BOOLEAN :
                   LET next == Resumed(co, got)
                   IN \/ /\ next.left > 0
                         /\ coros' = [coros EXCEPT ![c] = Append(Tail(@), next)]
                         /\ UNCHANGED late
                      \/ /\ next.left = 0
                         /\ coros' = [coros EXCEPT ![c] = Tail(@)]
                         /\ late' = IF next.any \/ Sent(next) THEN late
                                    ELSE late \cup {co.any \/ got \/ Sent(co)}
       /\ UNCHANGED <<plan, acct, admin, torn, routed, session, task, jobs, inbox, window,
                      fanned>>

Batches == UNION {[1 .. n -> plan.sizes] : n \in 1 .. BatchMax}

Next ==
    \/ Admin
    \/ \E c \in plan.conns :
           \/ Connect(c) \/ Read(c)
           \/ \E op \in plan.ops, ns \in Batches, id \in plan.ids, route \in BOOLEAN :
                  Begin(c, op, ns, id, route)
           \/ Admit(c)
           \/ HoldLoad(c) \/ HoldSwap(c) \/ HoldCheck(c) \/ HoldUndo(c)
           \/ DropLoad(c) \/ DropSwap(c)
           \/ Match(c) \/ Forward(c) \/ Local(c) \/ Reply(c)
           \/ CoroTick(c)

Spec == Init /\ [][Next]_vars

-----------------------------------------------------------------------------
(* Properties.                                                               *)

(* The bytes a handler holds of the budget of the current epoch              *)
Holding(c) ==
    LET j == task[c]
    IN IF j.ep # acct.epoch THEN 0
       ELSE MapThenSumSet(LAMBDA k : j.items[k].n, HeldItems(j))
              + IF j.pc \in {"recheck", "undo"} THEN EntrySize(j) ELSE 0

(* The budget is exact: however handlers, their retries and the deletion and *)
(* recreation of the account interleave, bytes_live counts what the handlers *)
(* of this epoch hold, none of it leaked on an error path of a batch, and    *)
(* nothing of an earlier epoch (cmq_account_credit_bytes_live,               *)
(* cmq_account_debit_bytes_live, account_undo_stale_inc).  A clear that      *)
(* falls between a check and its swap is excepted: there the comparison can  *)
(* succeed on a value of another generation.                                 *)
LiveExact ==
    /\ acct.live <= LiveMax
    /\ admin = "idle" /\ acct.active /\ ~torn
         => acct.live = MapThenSumSet(Holding, Conns)

(* A producer's message is fanned out at most once in the life of the        *)
(* server, whatever the order in which its sequence numbers arrive           *)
(* (cmq_idempo_check).                                                       *)
OnceEach == \A i \in Ids : fanned[i] <= 1

(* An ERROR that invites a retry is only sent when nobody got the message:   *)
(* no subscriber here and no peer was written, for every entry of a batch    *)
(* and also for the late ERROR of a delivery coroutine.  A REQUEST or        *)
(* RESPONSE never goes to both a local taker, a doubtful one included, and   *)
(* the cluster.  A success of a REQUEST means that somebody got it.          *)
AnswersHonest ==
    /\ TRUE \notin late
    /\ \A c \in Conns :
         LET j == task[c]
         IN /\ j.answer = "failed" => ~AnyReached(j)
            /\ j.op \in {"request", "response"}
                  => /\ j.answer = "ok" => AnyReached(j)
                     /\ j.items[1].cl # "no" => ~j.items[1].local /\ ~j.amb

FanoutHonest == OnceEach /\ AnswersHonest

=============================================================================
