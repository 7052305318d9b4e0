------------------------------ MODULE Mailbox ------------------------------
(***************************************************************************)
(* The mailboxes of the worker threads and the cross-worker REQUEST of      *)
(* server/cmq_server.c.                                                     *)
(*                                                                          *)
(* A worker owns its clients: only its thread writes to them and frees      *)
(* them.  Other threads queue SEND and TEARDOWN messages in its mailbox and *)
(* signal its wakeup fd.  A REQUEST whose target lives on another worker    *)
(* (deliver_request_via_worker) queues a SEND that carries a sync slot with *)
(* two references and waits until the owner has resolved it; meanwhile the  *)
(* waiting worker serves its own mailbox.                                   *)
(*                                                                          *)
(* A worker has two levels of control: pc is the event loop and the REQUEST *)
(* wait, step is the mailbox message it is handling.  While step is not     *)
(* "none" the outer level stands still.  Every step takes at most one lock  *)
(* or one atomic access of state that two threads share.                    *)
(***************************************************************************)
EXTENDS Naturals, Integers, Sequences, FiniteSets

CONSTANTS
    Workers,        \* worker threads
    Acceptor,       \* the accept thread: keepalive TEARDOWNs, plain SENDs
    Clients,        \* connections (an id and a conn_gen)
    Owner,          \* Owner[c]: the worker that owns c
    Requests,       \* REQUESTs, each issued once
    From, To,       \* From[r]: its publisher; To[r]: its target
    Sends,          \* plain SENDs of the acceptor, each pushed once
    Dest,           \* Dest[s]: the client a SEND is for
    NoId, NoMsg,    \* the id of a TEARDOWN; no message
    QueueMax,       \* CMQ_WORKER_MSG_QUEUE_MAX
    Slack,          \* CMQ_WORKER_TEARDOWN_SLACK
    WakeBatch,      \* CMQ_WORKER_WAKE_BATCH
    ServeTeardowns, \* TEARDOWNs one round of service handles
    Attempts,       \* how often a REQUEST is pushed
    MaxTeardown, MaxWake, MaxDead, MaxIO    \* faults of each kind

ASSUME MailboxAssumption ==
    /\ Owner \in [Clients -> Workers]
    /\ From \in [Requests -> Clients] /\ To \in [Requests -> Clients]
    /\ \A r \in Requests : Owner[From[r]] # Owner[To[r]]
    /\ Dest \in [Sends -> Clients]
    /\ Acceptor \notin Workers
    /\ Requests \cap Sends = {} /\ NoId \notin Requests \cup Sends
    /\ {QueueMax, WakeBatch, ServeTeardowns, Attempts} \subseteq Nat \ {0}
    /\ Slack \in Nat

VARIABLES
    mail,       \* mail[w]: msg_head .. msg_tail
    batch,      \* batch[w]: what worker_wakeup_cb took out of the mailbox
    woken,      \* workers whose wakeup fd is readable
    more,       \* workers whose wakeup_cb left messages behind
    state,      \* state[c]: "open", "closing", or "gone" (freed)
    dead,       \* clients whose account is no longer live
    buf,        \* buf[c]: ids in write_buf
    sent,       \* sent[i]: how often the frame of i went out on the socket
    result,     \* result[r]: sync->result, 0 pending 2 claimed 1 ok -1 failed
    refs,       \* refs[r]: sync->refs
    buffered,   \* requests with sync->buffered
    freed,      \* freed[r]: how often the sync slot of r was freed
    pc,         \* pc[w]: event loop and REQUEST wait
    req,        \* req[w]: the REQUEST it runs
    tries,      \* tries[w]: attempts to push it
    phase,      \* phase[w]: the deadline it waits for
    due,        \* workers whose current deadline has passed
    serving,    \* serving[w]: the part of service_while_blocked it is in
    count,      \* count[w]: messages this part has handled
    code,       \* code[w]: what deliver_request_via_worker returned
    step,       \* step[w]: the message being handled, ...
    msg,        \* msg[w]: ... the message itself, ...
    ok, fin,    \* ... whether it was written, whether to close its target
    answer,     \* answer[r]: how handle_request ended
    apc, amsg,  \* the acceptor: "idle" or "signal", and what it pushed
    pushed,     \* plain SENDs pushed
    late,       \* SENDs pushed while a TEARDOWN of their client was queued
    spent       \* faults so far

boxes  == <<mail, batch, woken, more>>
conns  == <<state, dead, buf, sent>>
slots  == <<result, refs, buffered, freed>>
wait   == <<req, tries, phase, due, serving, count, code>>
mbox   == <<step, msg, ok, fin>>
accept == <<apc, amsg, pushed>>
vars   == <<boxes, conns, slots, pc, wait, mbox, answer, accept, late, spent>>

Ids == Requests \cup Sends

Send(i, c)  == [kind |-> "SEND", to |-> c, id |-> i]
Teardown(c) == [kind |-> "TEARDOWN", to |-> c, id |-> NoId]
Message     == [kind : {"SEND"}, to : Clients, id : Ids]
                   \cup [kind : {"TEARDOWN"}, to : Clients, id : {NoId}]

Mine(w) == {c \in Clients : Owner[c] = w}

Limit == [teardown |-> MaxTeardown, wake |-> MaxWake, dead |-> MaxDead,
          io |-> MaxIO]

Spend(k) == /\ spent[k] < Limit[k]
            /\ spent' = [spent EXCEPT ![k] = @ + 1]

Init ==
    /\ mail     = [w \in Workers |-> <<>>]
    /\ batch    = [w \in Workers |-> <<>>]
    /\ woken = {} /\ more = {}
    /\ state    = [c \in Clients |-> "open"]
    /\ dead = {}
    /\ buf      = [c \in Clients |-> {}]
    /\ sent     = [i \in Ids |-> 0]
    /\ result   = [r \in Requests |-> 0]
    /\ refs     = [r \in Requests |-> 0]
    /\ buffered = {}
    /\ freed    = [r \in Requests |-> 0]
    /\ pc       = [w \in Workers |-> "idle"]
    /\ req      = [w \in Workers |-> NoId]
    /\ tries    = [w \in Workers |-> 0]
    /\ phase    = [w \in Workers |-> "soft"]
    /\ due = {}
    /\ serving  = [w \in Workers |-> "teardowns"]
    /\ count    = [w \in Workers |-> 0]
    /\ code     = [w \in Workers |-> 0]
    /\ step     = [w \in Workers |-> "none"]
    /\ msg      = [w \in Workers |-> NoMsg]
    /\ ok = {} /\ fin = {}
    /\ answer   = [r \in Requests |-> "none"]
    /\ apc = "idle" /\ amsg = NoMsg /\ pushed = {}
    /\ late = {}
    /\ spent    = [k \in DOMAIN Limit |-> 0]

-----------------------------------------------------------------------------
(* The sync slot.                                                            *)

Terminal(v) == v \in {1, -1}

(* Drop one reference of every slot in R; the last one frees the slot.       *)
Release(R) ==
    /\ refs'  = [r \in Requests |-> IF r \in R THEN refs[r] - 1 ELSE refs[r]]
    /\ freed' = [r \in Requests |-> IF r \in R /\ refs[r] = 1
                                    THEN freed[r] + 1 ELSE freed[r]]

(* worker_complete_sync of the messages of R                                 *)
CompleteSync(R, v) ==
    /\ result' = [r \in Requests |->
                    IF r \in R /\ ~Terminal(result[r]) THEN v ELSE result[r]]
    /\ Release(R)
    /\ UNCHANGED buffered

(* req_sync_claim: the compare-and-swap 0 -> 2 succeeds                      *)
CanClaim(r) == result[r] = 0

-----------------------------------------------------------------------------
(* The mailbox.                                                              *)

Front(s, n)     == SubSeq(s, 1, n)
Without(s, k)   == SubSeq(s, 1, k - 1) \o SubSeq(s, k + 1, Len(s))
Queued(w, m)    == {k \in DOMAIN mail[w] : mail[w][k] = m}
FirstOf(S)      == CHOOSE k \in S : \A j \in S : k <= j
Letters(s, c)   == {k \in DOMAIN s : s[k].kind = "SEND" /\ s[k].to = c}
SyncOf(m)       == {m.id} \cap Requests

(* A SEND queued behind a TEARDOWN of its client is recorded in late.        *)
Behind(w, m) == IF Queued(w, Teardown(m.to)) # {} THEN {m.id} ELSE {}

(* worker_purge_send_for_id, with worker_complete_sync(m, -1) of each letter *)
(* it unlinks; pos[i] is the old place of the i-th message that is left.     *)
Purge(w, c) ==
    LET kept == DOMAIN mail[w] \ Letters(mail[w], c) IN
    /\ \E pos \in [1..Cardinality(kept) -> kept] :
          /\ \A i, j \in DOMAIN pos : i < j => pos[i] < pos[j]
          /\ mail' = [mail EXCEPT ![w] = [i \in DOMAIN pos |-> mail[w][pos[i]]]]
    /\ CompleteSync(UNION {SyncOf(mail[w][k]) : k \in Letters(mail[w], c)}, -1)

(* wakeup_fd_signal *)
Wake(w) == woken' = woken \cup {w}

(* The wakeup fd could not be written: unlink the message if it is still     *)
(* queued (gone), or leave it to the worker that has it already.             *)
Unlinked(w, m) == Queued(w, m) # {}
Unlink(w, m)   == mail' = [mail EXCEPT ![w] = Without(@, FirstOf(Queued(w, m)))]


(* worker_pop_send: the SENDs with no TEARDOWN of their client ahead         *)
Poppable(w) ==
    {k \in DOMAIN mail[w] :
        /\ mail[w][k].kind = "SEND"
        /\ \A j \in 1..(k - 1) : mail[w][j] # Teardown(mail[w][k].to)}

(* worker_drain_teardowns: TEARDOWNs of any client but the blocked publisher *)
Reclaimable(w) ==
    {k \in DOMAIN mail[w] : /\ mail[w][k].kind = "TEARDOWN"
                            /\ mail[w][k].to # From[req[w]]}

-----------------------------------------------------------------------------
(* Clients, on their own worker's thread.                                    *)

(* Every frame of write_buf goes out. *)
Flushed(C) ==
    sent' = [i \in Ids |->
                sent[i] + Cardinality({c \in C : i \in buf[c]})]

(* client_finish_closing of c: flush, then client_teardown unless bytes are  *)
(* left.  client_teardown purges the mailbox and frees the client.           *)
FinishClosing(w, c) ==
    \/ /\ state[c] # "closing"
       /\ UNCHANGED <<state, buf, sent, mail, slots>>
    \/ /\ state[c] = "closing"
       /\ state' = [state EXCEPT ![c] = "gone"]
       /\ buf'   = [buf EXCEPT ![c] = {}]
       /\ Flushed({c}) \/ UNCHANGED sent      \* flushed, or a hard error
       /\ Purge(w, c)
    \/ /\ state[c] = "closing" /\ buf[c] # {}  \* the socket is full
       /\ UNCHANGED <<state, buf, sent, mail, slots>>

-----------------------------------------------------------------------------
(* Handling one mailbox message: worker_deliver_send_msg, and the TEARDOWN   *)
(* branch of worker_wakeup_cb and worker_drain_teardowns.                    *)

Handle(w, m) ==
    /\ msg'  = [msg EXCEPT ![w] = m]
    /\ step' = [step EXCEPT ![w] = IF m.kind = "SEND" THEN "check" ELSE "purge"]
    /\ UNCHANGED <<ok, fin>>

(* The message is freed; its locals end with it. *)
Drop(w) ==
    /\ msg'  = [msg EXCEPT ![w] = NoMsg]
    /\ step' = [step EXCEPT ![w] = "none"]
    /\ ok'   = ok \ {w}
    /\ fin'  = fin \ {w}

Then(w, s) == step' = [step EXCEPT ![w] = s]

(* Under clients_lock: find the target, refuse a closed one, start closing   *)
(* one whose account has gone.  A subscription that no longer covers the     *)
(* subject drops the message.                                                *)
DeliverCheck(w) ==
    LET c == msg[w].to IN
    /\ step[w] = "check"
    /\ \/ /\ state[c] = "open" /\ c \in dead
          /\ state' = [state EXCEPT ![c] = "closing"]
          /\ fin' = fin \cup {w}
          /\ Then(w, "complete")
       \/ /\ state[c] = "open" /\ c \notin dead
          /\ Then(w, "claim") \/ Then(w, "complete")
          /\ UNCHANGED <<state, fin>>
       \/ /\ state[c] # "open"
          /\ Then(w, "complete")
          /\ UNCHANGED <<state, fin>>
    /\ UNCHANGED <<boxes, dead, buf, sent, slots, pc, wait, msg, ok, answer,
                   accept, late, spent>>

(* Lock released: the account again, the publisher's rights (which may have  *)
(* been withdrawn), and the claim of the slot.                               *)
DeliverClaim(w) ==
    LET c == msg[w].to IN
    /\ step[w] = "claim"
    /\ \/ /\ c \in dead
          /\ state' = [state EXCEPT ![c] = "closing"]
          /\ fin' = fin \cup {w}
          /\ Then(w, "complete")
          /\ UNCHANGED result
       \/ /\ c \notin dead
          /\ Then(w, "complete")              \* the ACL denies it
          /\ UNCHANGED <<state, fin, result>>
       \/ /\ c \notin dead
          /\ \A r \in SyncOf(msg[w]) : CanClaim(r)
          /\ result' = [r \in Requests |->
                          IF r \in SyncOf(msg[w]) THEN 2 ELSE result[r]]
          /\ Then(w, "send")
          /\ UNCHANGED <<state, fin>>
       \/ /\ c \notin dead
          /\ \E r \in SyncOf(msg[w]) : ~CanClaim(r)
          /\ Then(w, "complete")
          /\ UNCHANGED <<state, fin, result>>
    /\ UNCHANGED <<boxes, dead, buf, sent, refs, buffered, freed, pc, wait, msg,
                   ok, answer, accept, late, spent>>

(* cmq_client_send_local: into write_buf, or the client is forced to close.  *)
(* Only a REQUEST is marked buffered and drained.                            *)
DeliverSend(w) ==
    LET c == msg[w].to IN
    /\ step[w] = "send"
    /\ \/ /\ buf' = [buf EXCEPT ![c] = @ \cup {msg[w].id}]
          /\ buffered' = buffered \cup SyncOf(msg[w])
          /\ IF SyncOf(msg[w]) = {}
             THEN ok' = ok \cup {w} /\ Then(w, "complete")
             ELSE UNCHANGED ok /\ Then(w, "drain")
          /\ UNCHANGED <<state, fin, spent>>
       \/ /\ Spend("io")
          /\ state' = [state EXCEPT ![c] = "closing"]
          /\ fin' = fin \cup {w}
          /\ Then(w, "complete")
          /\ UNCHANGED <<buf, buffered, ok>>
    /\ UNCHANGED <<boxes, dead, sent, result, refs, freed, pc, wait, msg,
                   answer, accept, late>>

(* Mutant: a drain that timed out counts as delivered.                       *)
DeliverDrain_Optimistic(w) ==
    LET c == msg[w].to IN
    /\ step[w] = "drain"
    /\ Then(w, "complete")
    /\ ok' = ok \cup {w}
    /\ \/ /\ Flushed({c})
          /\ buf' = [buf EXCEPT ![c] = {}]
          /\ UNCHANGED spent
       \/ Spend("io") /\ UNCHANGED <<buf, sent>>
    /\ UNCHANGED <<boxes, state, dead, fin, slots, pc, wait, msg, answer, accept,
                   late>>

(* client_drain_write_sync: everything is written; or the socket stays full  *)
(* for CMQ_DRAIN_SYNC_MS; or it fails, which empties write_buf and closes.   *)
DeliverDrain(w) ==
    LET c == msg[w].to IN
    /\ step[w] = "drain"
    /\ Then(w, "complete")
    /\ \/ /\ Flushed({c})
          /\ buf' = [buf EXCEPT ![c] = {}]
          /\ ok' = ok \cup {w}
          /\ UNCHANGED <<state, fin, spent>>
       \/ /\ Spend("io")
          /\ UNCHANGED <<state, buf, sent, ok, fin>>
       \/ /\ Spend("io")
          /\ buf' = [buf EXCEPT ![c] = {}]
          /\ state' = [state EXCEPT ![c] = "closing"]
          /\ fin' = fin \cup {w}
          /\ UNCHANGED <<sent, ok>>
    /\ UNCHANGED <<boxes, dead, slots, pc, wait, msg, answer, accept, late>>

DeliverComplete(w) ==
    /\ step[w] = "complete"
    /\ CompleteSync(SyncOf(msg[w]), IF w \in ok THEN 1 ELSE -1)
    /\ IF w \in fin
       THEN Then(w, "finish") /\ UNCHANGED <<msg, ok, fin>>
       ELSE Drop(w)
    /\ UNCHANGED <<boxes, conns, pc, wait, answer, accept, late, spent>>

DeliverFinish(w) ==
    /\ step[w] = "finish"
    /\ FinishClosing(w, msg[w].to)
    /\ Drop(w)
    /\ UNCHANGED <<batch, woken, more, dead, pc, wait, answer, accept, late,
                   spent>>

(* A TEARDOWN first purges the SENDs of its client, ...                      *)
TeardownPurge(w) ==
    /\ step[w] = "purge"
    /\ Purge(w, msg[w].to)
    /\ Then(w, "reclaim")
    /\ UNCHANGED <<batch, woken, more, conns, pc, wait, msg, ok, fin, answer,
                   accept, late, spent>>

(* ... then moves an open client to closing and finishes it.                 *)
TeardownReclaim(w) ==
    LET c == msg[w].to IN
    /\ step[w] = "reclaim"
    /\ IF state[c] = "gone"
       THEN Drop(w) /\ UNCHANGED state
       ELSE /\ state' = [state EXCEPT ![c] = "closing"]
            /\ Then(w, "finish")
            /\ UNCHANGED <<msg, ok, fin>>
    /\ UNCHANGED <<boxes, dead, buf, sent, slots, pc, wait, answer, accept, late,
                   spent>>

MailStep(w) ==
    \/ DeliverCheck(w) \/ DeliverClaim(w) \/ DeliverSend(w) \/ DeliverDrain(w)
    \/ DeliverComplete(w) \/ DeliverFinish(w)
    \/ TeardownPurge(w) \/ TeardownReclaim(w)

-----------------------------------------------------------------------------
(* worker_wakeup_cb: empty the wakeup fd, take a batch, handle it.           *)

Go(w, l) == pc' = [pc EXCEPT ![w] = l]

WakeupDrain(w) ==
    /\ pc[w] = "idle" /\ w \in woken
    /\ woken' = woken \ {w}
    /\ Go(w, "take")
    /\ UNCHANGED <<mail, batch, more, conns, slots, wait, mbox, answer, accept,
                   late, spent>>

TakeBatch(w) ==
    LET n == IF Len(mail[w]) < WakeBatch THEN Len(mail[w]) ELSE WakeBatch IN
    /\ pc[w] = "take"
    /\ batch' = [batch EXCEPT ![w] = Front(mail[w], n)]
    /\ mail'  = [mail EXCEPT ![w] = SubSeq(@, n + 1, Len(@))]
    /\ more'  = IF n < Len(mail[w]) THEN more \cup {w} ELSE more \ {w}
    /\ Go(w, "batch")
    /\ UNCHANGED <<woken, conns, slots, wait, mbox, answer, accept, late, spent>>

BatchNext(w) ==
    /\ pc[w] = "batch" /\ step[w] = "none" /\ batch[w] # <<>>
    /\ Handle(w, Head(batch[w]))
    /\ batch' = [batch EXCEPT ![w] = Tail(@)]
    /\ UNCHANGED <<mail, woken, more, conns, slots, pc, wait, answer, accept,
                   late, spent>>

(* Mutant: the fd is emptied after the batch instead of before it.           *)
BatchEnd_DrainLast(w) ==
    /\ pc[w] = "batch" /\ step[w] = "none" /\ batch[w] = <<>>
    /\ Go(w, IF w \in more THEN "take" ELSE "idle")
    /\ woken' = woken \ {w}
    /\ more'  = more \ {w}
    /\ UNCHANGED <<mail, batch, conns, slots, wait, mbox, answer, accept, late,
                   spent>>

(* Messages left behind: signal itself, or take the next batch when the fd   *)
(* cannot be written.                                                        *)
BatchEnd(w) ==
    /\ pc[w] = "batch" /\ step[w] = "none" /\ batch[w] = <<>>
    /\ \/ w \notin more /\ Go(w, "idle") /\ UNCHANGED <<woken, spent>>
       \/ w \in more /\ Wake(w) /\ Go(w, "idle") /\ UNCHANGED spent
       \/ w \in more /\ Spend("wake") /\ Go(w, "take") /\ UNCHANGED woken
    /\ more' = more \ {w}
    /\ UNCHANGED <<mail, batch, conns, slots, wait, mbox, answer, accept, late>>

(* The event loop also flushes a client, or closes one whose peer has gone.  *)
Flush(w, c) ==
    /\ pc[w] = "idle" /\ c \in Mine(w) /\ buf[c] # {} /\ state[c] # "gone"
    /\ Flushed({c})
    /\ buf' = [buf EXCEPT ![c] = {}]
    /\ UNCHANGED <<boxes, state, dead, slots, pc, wait, mbox, answer, accept,
                   late, spent>>

PeerClose(w, c) ==
    /\ pc[w] = "idle" /\ c \in Mine(w) /\ state[c] # "gone"
    /\ state' = [state EXCEPT ![c] = "gone"]
    /\ buf'   = [buf EXCEPT ![c] = {}]
    /\ Purge(w, c)
    /\ UNCHANGED <<batch, woken, more, dead, sent, pc, wait, mbox, answer,
                   accept, late, spent>>

EventLoop(w) ==
    \/ WakeupDrain(w) \/ TakeBatch(w) \/ BatchNext(w) \/ BatchEnd(w)

-----------------------------------------------------------------------------
(* deliver_request_via_worker, on the publisher's worker.                    *)

Peer(w) == Owner[To[req[w]]]
Letter(w) == Send(req[w], To[req[w]])

(* handle_request reaches the delivery to a target of another worker.        *)
StartRequest(w, r) ==
    /\ pc[w] = "idle" /\ answer[r] = "none"
    /\ Owner[From[r]] = w /\ state[From[r]] = "open"
    /\ req'   = [req EXCEPT ![w] = r]
    /\ answer' = [answer EXCEPT ![r] = "waiting"]
    /\ Go(w, "push")
    /\ UNCHANGED <<boxes, conns, slots, tries, phase, due, serving, count, code,
                   mbox, accept, late, spent>>

Serve(w) ==
    /\ Go(w, "serve")
    /\ serving' = [serving EXCEPT ![w] = "teardowns"]
    /\ count'   = [count EXCEPT ![w] = 0]

Return(w, v) ==
    /\ Go(w, "answer")
    /\ code' = [code EXCEPT ![w] = v]
    /\ UNCHANGED <<serving, count>>

(* The push failed: the fresh slot is freed; serve and retry, or give up.    *)
PushFailed(w) ==
    /\ tries' = [tries EXCEPT ![w] = @ + 1]
    /\ IF tries[w] + 1 < Attempts
       THEN Serve(w) /\ UNCHANGED code
       ELSE Return(w, 0)

(* calloc of the slot and worker_push_msg up to the append                   *)
PushRequest(w) ==
    LET r == req[w] IN
    /\ pc[w] = "push"
    /\ result'   = [result EXCEPT ![r] = 0]
    /\ buffered' = buffered \ {r}
    /\ IF Len(mail[Peer(w)]) < QueueMax
       THEN /\ mail' = [mail EXCEPT ![Peer(w)] = Append(@, Letter(w))]
            /\ late' = late \cup Behind(Peer(w), Letter(w))
            /\ refs' = [refs EXCEPT ![r] = 2]
            /\ freed' = [freed EXCEPT ![r] = 0]
            /\ Go(w, "signal")
            /\ UNCHANGED <<tries, serving, count, code>>
       ELSE /\ refs' = [refs EXCEPT ![r] = 0]
            /\ freed' = [freed EXCEPT ![r] = 1]
            /\ PushFailed(w)
            /\ UNCHANGED <<mail, late>>
    /\ UNCHANGED <<batch, woken, more, conns, req, phase, due, mbox, answer,
                   accept, spent>>

(* The signal of worker_push_msg: if it fails and the message can be         *)
(* unlinked, worker_complete_sync drops the worker's reference and the       *)
(* caller frees the slot.                                                    *)
SignalRequest(w) ==
    LET r == req[w] IN
    /\ pc[w] = "signal"
    /\ \/ /\ Wake(Peer(w))
          /\ Go(w, "look")
          /\ UNCHANGED <<mail, slots, tries, serving, count, code, late, spent>>
       \/ /\ Spend("wake") /\ ~Unlinked(Peer(w), Letter(w))
          /\ Go(w, "look")
          /\ UNCHANGED <<mail, woken, slots, tries, serving, count, code, late>>
       \/ /\ Spend("wake") /\ Unlinked(Peer(w), Letter(w))
          /\ Unlink(Peer(w), Letter(w))
          /\ late' = late \ {r}
          /\ result' = [result EXCEPT ![r] = -1]
          /\ refs'   = [refs EXCEPT ![r] = 0]
          /\ freed'  = [freed EXCEPT ![r] = @ + 1]
          /\ PushFailed(w)
          /\ UNCHANGED <<woken, buffered>>
    /\ UNCHANGED <<batch, more, conns, req, phase, due, mbox, answer, accept>>

(* Mutant: the publisher keeps its reference when the result is decided.     *)
Decided_NoRelease(w) ==
    LET r == req[w] IN
    /\ Terminal(result[r])
    /\ Return(w, IF result[r] = 1 THEN 1 ELSE IF r \in buffered THEN -1 ELSE 0)
    /\ UNCHANGED <<result, refs, freed>>

(* Load the result: decided (req_sync_finish), abandoned, or serve and wait. *)
(* Only the last phase abandons: a pending slot at once (compare-and-swap    *)
(* 0 -> -1), a claimed one when its deadline has passed.                     *)
Decided(w) ==
    LET r == req[w] IN
    /\ Terminal(result[r])
    /\ Release({r})
    /\ Return(w, IF result[r] = 1 THEN 1 ELSE IF r \in buffered THEN -1 ELSE 0)
    /\ UNCHANGED result

(* Mutant: a claimed slot is abandoned as a clean failure.                   *)
Abandon_Clean(w) ==
    LET r == req[w] IN
    /\ phase[w] = "hard"
    /\ result[r] \in {0, 2}
    /\ Release({r})
    /\ result' = [result EXCEPT ![r] = -1]
    /\ Return(w, 0)

Abandon(w) ==
    LET r == req[w] IN
    /\ phase[w] = "hard"
    /\ Release({r})
    /\ \/ /\ result[r] = 0
          /\ result' = [result EXCEPT ![r] = -1]
          /\ Return(w, 0)
       \/ /\ result[r] = 2 /\ w \in due
          /\ Return(w, -1)
          /\ UNCHANGED result

Wait(w) ==
    LET r == req[w] IN
    /\ ~Terminal(result[r])
    /\ phase[w] = "hard" => result[r] = 2 /\ w \notin due
    /\ Serve(w)
    /\ UNCHANGED <<code, result, refs, freed>>

Look(w) ==
    /\ pc[w] = "look"
    /\ Decided(w) \/ Abandon(w) \/ Wait(w)
    /\ UNCHANGED <<boxes, conns, buffered, req, tries, phase, due, mbox, answer,
                   accept, late, spent>>

(* worker_service_while_blocked on the waiting worker: TEARDOWNs (not the    *)
(* publisher's), then SENDs, then pending writes.                            *)
ServePop(w, S, max) ==
    /\ S # {} /\ count[w] < max
    /\ Handle(w, mail[w][FirstOf(S)])
    /\ mail'  = [mail EXCEPT ![w] = Without(@, FirstOf(S))]
    /\ count' = [count EXCEPT ![w] = @ + 1]
    /\ UNCHANGED <<pc, serving, state, buf, sent>>

ServeNext(w, S, max, part) ==
    /\ S = {} \/ count[w] = max
    /\ serving' = [serving EXCEPT ![w] = part]
    /\ count'   = [count EXCEPT ![w] = 0]
    /\ UNCHANGED <<pc, mail, mbox, state, buf, sent>>

(* worker_flush_pending_writes: each client is flushed, fails or stays full. *)
(* A failure empties write_buf and forces CLOSING; nobody is freed here.     *)
ServeFlush(w) ==
    \E F \in SUBSET {c \in Mine(w) : buf[c] # {}} :
    \E X \in SUBSET {c \in Mine(w) \ F : buf[c] # {}} :
        /\ Flushed(F)
        /\ buf' = [c \in Clients |-> IF c \in F \cup X THEN {} ELSE buf[c]]
        /\ state' = [c \in Clients |-> IF c \in X THEN "closing" ELSE state[c]]
        /\ Go(w, "slept")
        /\ UNCHANGED <<mail, mbox, serving, count>>

ServeBlocked(w) ==
    /\ pc[w] = "serve" /\ step[w] = "none"
    /\ \/ /\ serving[w] = "teardowns"
          /\ \/ ServePop(w, Reclaimable(w), ServeTeardowns)
             \/ ServeNext(w, Reclaimable(w), ServeTeardowns, "sends")
       \/ /\ serving[w] = "sends"
          /\ \/ ServePop(w, Poppable(w), WakeBatch)
             \/ ServeNext(w, Poppable(w), WakeBatch, "flush")
       \/ serving[w] = "flush" /\ ServeFlush(w)
    /\ UNCHANGED <<batch, woken, more, dead, slots, req, tries, phase, due,
                   code, answer, accept, late, spent>>

(* After a round: push again, look again, or act on a deadline.  The soft    *)
(* deadline cancels a message that is still queued and frees the slot.       *)
Slept(w) ==
    LET r == req[w] IN
    /\ pc[w] = "slept"
    /\ \/ /\ refs[r] = 0                    \* no slot: the push had failed
          /\ Go(w, "push")
          /\ UNCHANGED <<mail, refs, freed, phase, due, code, serving, count>>
       \/ /\ refs[r] > 0 /\ w \notin due
          /\ Go(w, "look")
          /\ UNCHANGED <<mail, refs, freed, phase, due, code, serving, count>>
       \/ /\ refs[r] > 0 /\ w \in due /\ phase[w] = "soft"
          /\ Unlinked(Peer(w), Letter(w))
          /\ Unlink(Peer(w), Letter(w))
          /\ refs'  = [refs EXCEPT ![r] = 0]
          /\ freed' = [freed EXCEPT ![r] = @ + 1]
          /\ Return(w, 0)
          /\ UNCHANGED <<phase, due>>
       \/ /\ refs[r] > 0 /\ w \in due
          /\ \/ phase[w] = "soft" /\ ~Unlinked(Peer(w), Letter(w))
             \/ phase[w] = "extra"
          /\ phase' = [phase EXCEPT
                         ![w] = IF @ = "soft" THEN "extra" ELSE "hard"]
          /\ due' = due \ {w}
          /\ Go(w, "look")
          /\ UNCHANGED <<mail, refs, freed, code, serving, count>>
       \/ /\ refs[r] > 0 /\ w \in due /\ phase[w] = "hard"
          /\ Go(w, "look")
          /\ UNCHANGED <<mail, refs, freed, phase, due, code, serving, count>>
    /\ UNCHANGED <<batch, woken, more, conns, result, buffered, req, tries,
                   mbox, answer, accept, late, spent>>

(* The rest of handle_request: a publisher whose account has gone is closed; *)
(* otherwise PUBACK, "delivery failed" when the local delivery may still     *)
(* complete, or the REQUEST goes to the cluster.  If the publisher was freed *)
(* meanwhile, what this reads is arbitrary.                                  *)
AnswerRequest(w) ==
    LET r == req[w]  c == From[r] IN
    /\ pc[w] = "answer"
    /\ \/ /\ c \in dead \/ state[c] = "gone"
          /\ answer' = [answer EXCEPT ![r] = "inactive"]
          /\ state' = [state EXCEPT ![c] = IF @ = "open" THEN "closing" ELSE @]
       \/ /\ c \notin dead \/ state[c] = "gone"
          /\ answer' = [answer EXCEPT
                          ![r] = CASE code[w] = 1  -> "acked"
                                   [] code[w] = -1 -> "failed"
                                   [] code[w] = 0  -> "forwarded"]
          /\ UNCHANGED state
    /\ req'   = [req EXCEPT ![w] = NoId]
    /\ tries' = [tries EXCEPT ![w] = 0]
    /\ phase' = [phase EXCEPT ![w] = "soft"]
    /\ due'   = due \ {w}
    /\ serving' = [serving EXCEPT ![w] = "teardowns"]
    /\ count' = [count EXCEPT ![w] = 0]
    /\ code'  = [code EXCEPT ![w] = 0]
    /\ Go(w, "idle")
    /\ UNCHANGED <<boxes, dead, buf, sent, slots, mbox, accept, late, spent>>

RequestStep(w) ==
    \/ PushRequest(w) \/ SignalRequest(w) \/ Look(w) \/ ServeBlocked(w)
    \/ Slept(w) \/ AnswerRequest(w)

(* A deadline of the waiting worker passes (sleeps of 50 us are counted).    *)
Expire(w) ==
    /\ pc[w] \in {"look", "serve", "slept"} /\ w \notin due
    /\ refs[req[w]] > 0
    /\ due' = due \cup {w}
    /\ UNCHANGED <<boxes, conns, slots, pc, req, tries, phase, serving, count,
                   code, mbox, answer, accept, late, spent>>

-----------------------------------------------------------------------------
(* The acceptor and the accounts.                                            *)

(* worker_push_teardown: no duplicate, and a larger bound than a SEND has.   *)
PushTeardown(c) ==
    LET w == Owner[c] IN
    /\ apc = "idle" /\ state[c] # "gone" /\ Spend("teardown")
    /\ Queued(w, Teardown(c)) = {}
    /\ Len(mail[w]) < QueueMax + Slack
    /\ mail' = [mail EXCEPT ![w] = Append(@, Teardown(c))]
    /\ apc' = "signal" /\ amsg' = Teardown(c)
    /\ UNCHANGED <<batch, woken, more, conns, slots, pc, wait, mbox, answer,
                   pushed, late>>

(* worker_push_msg of a plain SEND; a full mailbox drops it.                 *)
PushSend(s) ==
    LET w == Owner[Dest[s]]  m == Send(s, Dest[s]) IN
    /\ apc = "idle" /\ s \notin pushed
    /\ pushed' = pushed \cup {s}
    /\ IF Len(mail[w]) < QueueMax
       THEN /\ mail' = [mail EXCEPT ![w] = Append(@, m)]
            /\ apc' = "signal" /\ amsg' = m
            /\ late' = late \cup Behind(w, m)
       ELSE UNCHANGED <<mail, apc, amsg, late>>
    /\ UNCHANGED <<batch, woken, more, conns, slots, pc, wait, mbox, answer,
                   spent>>

(* A TEARDOWN or SEND that could not be announced is taken back: the         *)
(* TEARDOWN becomes a shutdown of the socket, the SEND is dropped.           *)
SignalPushed ==
    LET w == Owner[amsg.to] IN
    /\ apc = "signal"
    /\ apc' = "idle" /\ amsg' = NoMsg
    /\ \/ Wake(w) /\ UNCHANGED <<mail, late, spent>>
       \/ /\ Spend("wake") /\ ~Unlinked(w, amsg)
          /\ UNCHANGED <<mail, woken, late>>
       \/ /\ Spend("wake") /\ Unlinked(w, amsg)
          /\ Unlink(w, amsg)
          /\ late' = late \ IF amsg.kind = "SEND" THEN {amsg.id}
                            ELSE {mail[w][k].id : k \in Letters(mail[w], amsg.to)}
          /\ UNCHANGED woken
    /\ UNCHANGED <<batch, more, conns, slots, pc, wait, mbox, answer, pushed>>

(* The account of a client is deleted by a reload.                           *)
AccountDies(c) ==
    /\ c \notin dead /\ Spend("dead")
    /\ dead' = dead \cup {c}
    /\ UNCHANGED <<boxes, state, buf, sent, slots, pc, wait, mbox, answer,
                   accept, late>>

WorkerStep(w) == MailStep(w) \/ EventLoop(w) \/ RequestStep(w)

Next ==
    \/ \E w \in Workers : WorkerStep(w) \/ Expire(w)
    \/ \E w \in Workers, r \in Requests : StartRequest(w, r)
    \/ \E w \in Workers, c \in Clients : Flush(w, c) \/ PeerClose(w, c)
    \/ \E c \in Clients : PushTeardown(c) \/ AccountDies(c)
    \/ \E s \in Sends : PushSend(s)
    \/ SignalPushed

Spec == Init /\ [][Next]_vars

(* A worker keeps running its event loop and its handler.  Nothing makes a   *)
(* client issue a request, a peer close, or a deadline pass.                 *)
FairSpec ==
    /\ Spec
    /\ \A w \in Workers : WF_vars(WorkerStep(w))
    /\ WF_vars(SignalPushed)

-----------------------------------------------------------------------------
(* Properties.                                                               *)

InMail(r)  == \E w \in Workers : \E k \in DOMAIN mail[w] : mail[w][k].id = r
InBatch(r) == \E w \in Workers : \E k \in DOMAIN batch[w] : batch[w][k].id = r
InHand(r)  == \E w \in Workers : /\ step[w] \in {"check", "claim", "send", "drain",
                                                 "complete"}
                                /\ msg[w].id = r
Carried(r) == InMail(r) \/ InBatch(r) \/ InHand(r)
Over(r)    == answer[r] \notin {"none", "waiting"}

(* req_sync_release: the sync slot of a REQUEST is freed at most once, no    *)
(* message and no waiting publisher refers to a freed slot, and when the     *)
(* REQUEST is over and no message carries the slot it has been freed.        *)
SlotFreedOnce ==
    \A r \in Requests :
        /\ freed[r] <= 1
        /\ Carried(r) => freed[r] = 0
        /\ \A w \in Workers : pc[w] = "look" /\ req[w] = r => freed[r] = 0
        /\ Over(r) /\ ~Carried(r) => freed[r] = 1

(* handle_request forwards a REQUEST to the cluster only when no local       *)
(* responder has seen it or will see it, so one REQUEST never has both a     *)
(* local and a remote responder.                                             *)
OneResponder ==
    \A r \in Requests :
        answer[r] = "forwarded" =>
            sent[r] = 0 /\ \A c \in Clients : r \notin buf[c]

(* A PUBACK means the REQUEST was written to its target, no frame is ever    *)
(* written twice, whatever was retried, purged or cancelled, and a SEND that *)
(* was queued behind the TEARDOWN of its client is never written to it       *)
(* (worker_pop_send, worker_purge_send_for_id).                              *)
AckedOnce ==
    /\ \A r \in Requests : answer[r] = "acked" => sent[r] = 1
    /\ \A i \in Ids : sent[i] <= 1
    /\ \A i \in late : sent[i] = 0 /\ \A c \in Clients : i \notin buf[c]

(* No lost wakeup: while a mailbox is not empty, its worker is about to look *)
(* at it, or its fd is readable, or a thread that pushed is about to signal. *)
NotStranded ==
    \A w \in Workers : mail[w] # <<>> =>
        \/ w \in woken \/ pc[w] = "take" \/ (pc[w] = "batch" /\ w \in more)
        \/ apc = "signal" /\ Owner[amsg.to] = w
        \/ \E v \in Workers : pc[v] = "signal" /\ Peer(v) = w

(* While a REQUEST waits, its publisher is not freed: the handler holds a    *)
(* bare pointer to it.                                                       *)
PublisherKept ==
    \A w \in Workers : req[w] # NoId => state[From[req[w]]] # "gone"


=============================================================================
