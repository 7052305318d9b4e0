--------------------------- MODULE Subscriptions ---------------------------
(***************************************************************************)
(* The life of client connections in server/cmq_server.c: admission,         *)
(* CONNECT, SUBSCRIBE, UNSUBSCRIBE, the fan-out of PUBLISH, keepalive, and   *)
(* the ways a connection is closed and its subscriptions leave the trie.     *)
(*                                                                           *)
(* Every client belongs to one worker thread, which runs its handlers one at *)
(* a time: job[w] is the handler that worker w is in.  Handlers of different *)
(* workers interleave wherever they touch what they share: the trie, the     *)
(* account, the state of clients, and the mailboxes.  One step makes at most *)
(* one access to each of these.  The list of subscriptions of a client       *)
(* (c->subs) is private to its worker.                                       *)
(*                                                                           *)
(* All clients are in one account, whose permissions (module Accounts)       *)
(* refuse nothing; its counters of connections and subscriptions, which are  *)
(* credited and given back here, are in module Credits; the wakeup of a      *)
(* mailbox and the REQUEST wait are in module Mailbox.  A reply to the       *)
(* client changes nothing here and a handler that only refuses is not a      *)
(* step.                                                                     *)
(***************************************************************************)
EXTENDS Sublist

CONSTANTS
    Workers,        \* worker threads
    Clients,        \* connections, in the order of their ids never reused
    Owner,          \* Owner[c]: the worker that accept gave c to
    Sids,           \* subscription ids clients choose
    Interests,      \* what they subscribe to: a pattern and a queue group
    Topics,         \* subjects they publish to
    Inboxes,        \* the subjects under _INBOX.
    NoGroup,        \* no queue group
    NoClient, NoRef,
    MaxClients,     \* config.max_clients
    SubCap,         \* config.max_subs_per_client
    QueueMax,       \* CMQ_WORKER_MSG_QUEUE_MAX
    Slack,          \* CMQ_WORKER_TEARDOWN_SLACK
    MaxPub,         \* bound: publications
    MaxSub,         \* bound: SUBSCRIBEs accepted into the handler
    MaxAdmin,       \* bound: deletions and creations of the account
    MaxDoom,        \* bound: keepalive timeouts of clients in good standing
    MaxOOM,         \* bound: failed allocations
    MaxFaults       \* bound: the last three together

Ref  == [c : Clients, sid : Sids, pat : {i.pat : i \in Interests},
         grp : {i.grp : i \in Interests}]

ASSUME SubscriptionsAssumption ==
    /\ Owner \in [Clients -> Workers]
    /\ IsFiniteSet(Clients) /\ NoClient \notin Clients /\ NoRef \notin Ref
    /\ \A i \in Interests : i.pat \in Seq(STRING)
    /\ Topics \subseteq Seq(STRING) \ {<<>>}
    /\ 0 \notin Sids
    /\ {MaxClients, SubCap, QueueMax} \subseteq Nat \ {0}
    /\ {Slack, MaxPub, MaxSub, MaxAdmin, MaxDoom, MaxOOM, MaxFaults} \subseteq Nat

VARIABLES
    trie,       \* srv->sublist
    acc,        \* the account: active, epoch
    st,         \* st[c]: "none", then c->state, then "gone" (freed)
    ep,         \* ep[c]: c->account_epoch
    active,     \* srv->active_clients
    ent,        \* ent[c]: c->subs, the references it holds
    sub_count,  \* sub_count[c]: c->sub_count
    mail,       \* mail[w]: the mailbox of worker w
    job,        \* job[w]: the handler worker w runs, and its locals
    shut,       \* clients whose socket was shut down: their worker reads EOF
    got,        \* messages written to clients
    owed,       \* history: what matched and has stood since
    spent       \* bounded events so far

sessions == <<st, ep, active>>
lists    == <<ent, sub_count>>
vars     == <<trie, acc, sessions, lists, mail, job, shut, got, owed, spent>>

Idle == [pc |-> "idle", c |-> NoClient, ref |-> NoRef, old |-> NoRef,
         refs |-> {}, next |-> "idle", n |-> 0, t |-> <<>>, ep |-> 0]

Limit == [pub |-> MaxPub, sub |-> MaxSub, admin |-> MaxAdmin, doom |-> MaxDoom,
          oom |-> MaxOOM]

Spend(k) == /\ spent[k] < Limit[k]
            /\ k \in {"pub", "sub"} \/ spent.admin + spent.doom + spent.oom < MaxFaults
            /\ spent' = [spent EXCEPT ![k] = @ + 1]

Fresh ==
    /\ trie = EmptyTrie
    /\ acc = [active |-> TRUE, epoch |-> 1]
    /\ st = [c \in Clients |-> "none"]
    /\ ep = [c \in Clients |-> 0]
    /\ active = 0
    /\ ent = [c \in Clients |-> {}]
    /\ sub_count = [c \in Clients |-> 0]
    /\ mail = [w \in Workers |-> <<>>]
    /\ job = [w \in Workers |-> Idle]
    /\ shut = {} /\ got = {} /\ owed = {}

Init == Fresh /\ spent = [k \in DOMAIN Limit |-> 0]

-----------------------------------------------------------------------------
(* The account.                                                              *)

(* client_account_live, pub_account_epoch_live                               *)
LiveEpoch(e) == acc.active /\ acc.epoch = e
Live(c)      == LiveEpoch(ep[c])

Delete ==
    /\ acc.active /\ Spend("admin")
    /\ acc' = [active |-> FALSE, epoch |-> acc.epoch + 1]
    /\ UNCHANGED <<trie, sessions, lists, mail, job, shut, got>>

Create ==
    /\ ~acc.active /\ Spend("admin")
    /\ acc' = [active |-> TRUE, epoch |-> acc.epoch + 1]
    /\ UNCHANGED <<trie, sessions, lists, mail, job, shut, got>>

-----------------------------------------------------------------------------
(* Handlers and mailboxes.                                                   *)

At(w, p)    == job[w].pc = p
Go(w, p)    == job' = [job EXCEPT ![w].pc = p]
Done(w)     == job' = [job EXCEPT ![w] = Idle]
Start(w, j) == job[w] = Idle /\ job' = [job EXCEPT ![w] = j]
Job(p, c)   == [Idle EXCEPT !.pc = p, !.c = c]

(* The handler leaves c CLOSING; client_dispatch_parser then calls           *)
(* client_finish_closing.                                                    *)
Closing(w, c) ==
    /\ st' = [st EXCEPT ![c] = "closing"]
    /\ job' = [job EXCEPT ![w] = Job("finish", c)]

Send(r, n, t, e) == [kind |-> "SEND", to |-> r.c, ref |-> r, n |-> n, t |-> t, ep |-> e]
Farewell(c) == [kind |-> "DISCONNECT", to |-> c]
Teardown(c) == [kind |-> "TEARDOWN", to |-> c]

Sentenced(c) == \E k \in DOMAIN mail[Owner[c]] : mail[Owner[c]][k] = Teardown(c)

CanSend(c) == Len(mail[Owner[c]]) < QueueMax
Mailed(m)  == [mail EXCEPT ![Owner[m.to]] = Append(@, m)]

Hangup(c)   == shut' = IF st[c] = "gone" THEN shut ELSE shut \cup {c}

(* worker_teardown_or_shutdown, when ms is in the mailboxes: one TEARDOWN    *)
(* per client is enough; when the mailbox takes no more the socket is shut   *)
(* down.                                                                     *)
PushTeardown(c, ms) ==
    \/ Sentenced(c) /\ mail' = ms /\ UNCHANGED shut
    \/ /\ ~Sentenced(c) /\ Len(ms[Owner[c]]) < QueueMax + Slack
       /\ mail' = [ms EXCEPT ![Owner[c]] = Append(@, Teardown(c))]
       /\ UNCHANGED shut
    \/ /\ ~Sentenced(c) /\ Len(ms[Owner[c]]) >= QueueMax + Slack
       /\ mail' = ms /\ Hangup(c)

(* The same, where the message itself may not be allocated.                  *)
TeardownOrShutdown(c, ms) ==
    \/ PushTeardown(c, ms) /\ UNCHANGED spent
    \/ ~Sentenced(c) /\ Spend("oom") /\ mail' = ms /\ Hangup(c)

(* worker_purge_send_for_id on the letters of box, the mailbox of w: those    *)
(* for c go, the others keep their order.                                    *)
Purge(w, c, box) ==
    LET kept == {k \in DOMAIN box : box[k].kind = "TEARDOWN" \/ box[k].to # c}
    IN \E pos \in [1 .. Cardinality(kept) -> kept] :
          /\ \A i, k \in DOMAIN pos : i < k => pos[i] < pos[k]
          /\ mail' = [mail EXCEPT ![w] = [i \in DOMAIN pos |-> box[pos[i]]]]

-----------------------------------------------------------------------------
(* Admission and CONNECT.                                                    *)

Admit(c) ==
    /\ st[c] = "none" /\ active < MaxClients
    /\ st' = [st EXCEPT ![c] = "init"]
    /\ active' = active + 1
    /\ UNCHANGED <<trie, acc, ep, lists, mail, job, shut, got, spent>>

(* cmq_account_ensure and cmq_account_get: the session takes the epoch.      *)
Connect(w, c) ==
    /\ Owner[c] = w /\ st[c] = "init" /\ At(w, "idle")
    /\ \/ /\ acc.active
          /\ ep' = [ep EXCEPT ![c] = acc.epoch]
          /\ Start(w, Job("conn_credit", c))
          /\ UNCHANGED st
       \/ /\ ~acc.active /\ Closing(w, c) /\ UNCHANGED ep
    /\ UNCHANGED <<trie, acc, active, lists, mail, shut, got, spent>>

(* cmq_account_inc_connections: the last look of a credit finds the account  *)
(* live; at the limit, or when the account is not, the session is refused.   *)
ConnectCredit(w) ==
    LET c == job[w].c IN
    /\ At(w, "conn_credit")
    /\ \/ Live(c) /\ Go(w, "conn_live") /\ UNCHANGED <<st, ep>>
       \/ ep' = [ep EXCEPT ![c] = 0] /\ Closing(w, c)
    /\ UNCHANGED <<trie, acc, active, lists, mail, shut, got, spent>>

ConnectLive(w) ==
    LET c == job[w].c IN
    /\ At(w, "conn_live")
    /\ \/ /\ Live(c)
          /\ st' = [st EXCEPT ![c] = "connected"]
          /\ Go(w, "welcome") /\ UNCHANGED ep
       \/ /\ ~Live(c)
          /\ ep' = [ep EXCEPT ![c] = 0]
          /\ Closing(w, c)
    /\ UNCHANGED <<trie, acc, active, lists, mail, shut, got, spent>>

(* After INFO: the last check before CONNACK 0.                              *)
Welcome(w) ==
    LET c == job[w].c IN
    /\ At(w, "welcome")
    /\ \/ Live(c) /\ Done(w) /\ UNCHANGED <<st, shut>>
       \/ ~Live(c) /\ Closing(w, c) /\ shut' = shut \cup {c}
    /\ UNCHANGED <<trie, acc, ep, active, lists, mail, got, spent>>

-----------------------------------------------------------------------------
(* SUBSCRIBE.                                                                *)

SidOf(c, sid) == {r \in ent[c] : r.sid = sid}
Mine(w, c)    == Owner[c] = w /\ st[c] = "connected" /\ job[w] = Idle

(* handle_frame refuses the frames of a dead session and closes it.          *)
Denied(w, c) ==
    /\ Mine(w, c) /\ ~Live(c)
    /\ Closing(w, c)
    /\ UNCHANGED <<trie, acc, ep, active, lists, mail, shut, got, spent>>

AfterClaim(old) == IF old = NoRef THEN "credit" ELSE "unlink"

Subscribe(w, c, sid, i) ==
    LET ref == [c |-> c, sid |-> sid, pat |-> i.pat, grp |-> i.grp]
        old == IF SidOf(c, sid) = {} THEN NoRef ELSE CHOOSE r \in SidOf(c, sid) : TRUE
    IN /\ Mine(w, c) /\ Live(c) /\ Spend("sub")
       /\ old # NoRef \/ sub_count[c] < SubCap
       /\ Start(w, [Job(IF i.pat \in Inboxes THEN "claim" ELSE AfterClaim(old), c)
                       EXCEPT !.ref = ref, !.old = old])
       /\ UNCHANGED <<trie, acc, sessions, lists, mail, shut, got>>

(* The first-claim rule of _INBOX. subjects: a live holder refuses the       *)
(* SUBSCRIBE; dead ones are remembered and nudged.                           *)
SubClaim(w) ==
    LET j       == job[w]
        holders == {r \in Match(trie, j.ref.pat) : r.pat = j.ref.pat /\ r.c # j.c}
        dead    == {r \in holders : ~Live(r.c)}
    IN /\ At(w, "claim")
       /\ \/ /\ holders = dead
             /\ job' = [job EXCEPT ![w].refs = dead, ![w].pc = AfterClaim(j.old)]
          \/ /\ holders # dead
             /\ \E D \in SUBSET dead :
                    job' = [job EXCEPT ![w].refs = D, ![w].next = "idle",
                                       ![w].pc = "nudge"]
       /\ UNCHANGED <<trie, acc, sessions, lists, mail, shut, got, spent>>

(* cmq_account_inc_subscriptions: -2 at the limit refuses, -1 closes.        *)
SubCredit(w) ==
    LET c == job[w].c IN
    /\ At(w, "credit")
    /\ \/ Live(c) /\ Go(w, "recheck") /\ UNCHANGED st
       \/ Done(w) /\ UNCHANGED st
       \/ ~Live(c) /\ Closing(w, c)
    /\ UNCHANGED <<trie, acc, ep, active, lists, mail, shut, got, spent>>

SubRecheck(w) ==
    LET c == job[w].c IN
    /\ At(w, "recheck")
    /\ \/ Live(c) /\ Go(w, "insert") /\ UNCHANGED st
       \/ ~Live(c) /\ Closing(w, c)
    /\ UNCHANGED <<trie, acc, ep, active, lists, mail, shut, got, spent>>

(* A SUBSCRIBE with a known id replaces: the old reference goes first.       *)
SubUnlink(w) ==
    /\ At(w, "unlink")
    /\ trie' = Remove(trie, job[w].old.pat, job[w].old)
    /\ Go(w, "insert")
    /\ UNCHANGED <<acc, sessions, lists, mail, shut, got, spent>>

(* Mutant: the old entry stays in c->subs.                                   *)
SubInsert_KeepOld(w) ==
    LET j == job[w] IN
    /\ At(w, "insert")
    /\ trie' = Insert(trie, j.ref.pat, j.ref)
    /\ ent' = [ent EXCEPT ![j.c] = @ \cup {j.ref}]
    /\ job' = [job EXCEPT ![w].pc = "nudge", ![w].next = "confirm"]
    /\ UNCHANGED <<acc, sessions, sub_count, mail, shut, got, spent>>

SubInsert(w) ==
    LET j == job[w] IN
    /\ At(w, "insert")
    /\ trie' = Insert(trie, j.ref.pat, j.ref)
    /\ ent' = [ent EXCEPT ![j.c] = (@ \ {j.old}) \cup {j.ref}]
    /\ job' = [job EXCEPT ![w].pc = "nudge", ![w].next = "confirm"]
    /\ UNCHANGED <<acc, sessions, sub_count, mail, shut, got, spent>>

SubInsertFails(w) ==
    LET j == job[w] IN
    /\ At(w, "insert") /\ Spend("oom")
    /\ \E k \in 0 .. Len(j.ref.pat) : trie' = InsertFails(trie, j.ref.pat, k)
    /\ \/ j.old # NoRef /\ Go(w, "restore")
       \/ /\ j.old = NoRef
          /\ job' = [job EXCEPT ![w].pc = "nudge", ![w].next = "idle"]
    /\ UNCHANGED <<acc, sessions, lists, mail, shut, got>>

SubRestore(w) ==
    LET j == job[w] IN
    /\ At(w, "restore")
    /\ trie' = Insert(trie, j.old.pat, j.old)
    /\ job' = [job EXCEPT ![w].pc = "nudge", ![w].next = "idle"]
    /\ UNCHANGED <<acc, sessions, lists, mail, shut, got, spent>>

SubRestoreFails(w) ==
    LET j == job[w] IN
    /\ At(w, "restore") /\ Spend("oom")
    /\ \E k \in 0 .. Len(j.old.pat) : trie' = InsertFails(trie, j.old.pat, k)
    /\ job' = [job EXCEPT ![w].pc = "nudge", ![w].next = "ghost"]
    /\ UNCHANGED <<acc, sessions, lists, mail, shut, got>>

(* TEARDOWN of the dead holders of an inbox, one at a time                   *)
SubNudge(w) ==
    LET j == job[w] IN
    /\ At(w, "nudge")
    /\ \/ /\ j.refs = {}
          /\ IF j.next = "idle" THEN Done(w) ELSE Go(w, j.next)
          /\ UNCHANGED <<mail, shut, spent>>
       \/ \E r \in j.refs :
              /\ TeardownOrShutdown(r.c, mail)
              /\ job' = [job EXCEPT ![w].refs = @ \ {r}]
    /\ UNCHANGED <<trie, acc, sessions, lists, got>>

(* ghost_drop: neither the new nor the old reference is in the trie.         *)
SubGhost(w) ==
    LET j == job[w] IN
    /\ At(w, "ghost")
    /\ ent' = [ent EXCEPT ![j.c] = @ \ {j.old}]
    /\ sub_count' = [sub_count EXCEPT ![j.c] = IF @ > 0 THEN @ - 1 ELSE @]
    /\ shut' = shut \cup {j.c}
    /\ Closing(w, j.c)
    /\ UNCHANGED <<trie, acc, ep, active, mail, got, spent>>

(* The entry is counted; SUBACK 0, unless the account died meanwhile.        *)
SubConfirm(w) ==
    LET j == job[w] IN
    /\ At(w, "confirm")
    /\ sub_count' = [sub_count EXCEPT ![j.c] = IF j.old = NoRef THEN @ + 1 ELSE @]
    /\ IF Live(j.c) THEN Done(w) ELSE Go(w, "undo")
    /\ UNCHANGED <<trie, acc, sessions, ent, mail, shut, got, spent>>

SubUndo(w) ==
    LET j == job[w] IN
    /\ At(w, "undo")
    /\ trie' = Remove(trie, j.ref.pat, j.ref)
    /\ ent' = [ent EXCEPT ![j.c] = @ \ {j.ref}]
    /\ sub_count' = [sub_count EXCEPT ![j.c] = IF @ > 0 THEN @ - 1 ELSE @]
    /\ Closing(w, j.c)
    /\ UNCHANGED <<acc, ep, active, mail, shut, got, spent>>

-----------------------------------------------------------------------------
(* UNSUBSCRIBE.                                                              *)

Unsubscribe(w, c, r) ==
    /\ Mine(w, c) /\ Live(c) /\ r \in ent[c]
    /\ trie' = Remove(trie, r.pat, r)
    /\ ent' = [ent EXCEPT ![c] = @ \ {r}]
    /\ sub_count' = [sub_count EXCEPT ![c] = IF @ > 0 THEN @ - 1 ELSE @]
    /\ UNCHANGED <<acc, sessions, mail, job, shut, got, spent>>

-----------------------------------------------------------------------------
(* PUBLISH and its fan-out.                                                  *)

(* snapshot_deliver_targets skips dead and closing sessions.                 *)
Eligible(r) == Live(r.c) /\ st[r.c] = "connected"

Grouped(R)  == {r \in R : r.grp # NoGroup}
Groups(R)   == {[pat |-> r.pat, grp |-> r.grp] : r \in Grouped(R)}
Members(R, g) == {r \in R : r.pat = g.pat /\ r.grp = g.grp}

(* Mutant: a queue group with two members picks both.                        *)
Snapshots_NoGroups(R) == {R}

(* Every plain subscription, and one member of every queue group.            *)
Snapshots(R) ==
    {T \in SUBSET R : /\ R \ Grouped(R) \subseteq T
                      /\ \A g \in Groups(R) : Cardinality(Members(T, g)) = 1}

Publish(w, c, t) ==
    LET R == Match(trie, t) IN
    /\ Mine(w, c) /\ Live(c) /\ Spend("pub")
    /\ R # {}
    /\ Start(w, [Job("snap", c) EXCEPT !.refs = R, !.n = spent.pub + 1, !.t = t,
                                !.ep = ep[c]])
    /\ UNCHANGED <<trie, acc, sessions, lists, mail, shut, got>>

(* The references are read after the trie was unlocked: one that was freed   *)
(* meanwhile still shows its old contents, or is skipped.                    *)
PubSnapshot(w) ==
    LET j     == job[w]
        stale == j.refs \ Registered(trie)
    IN /\ At(w, "snap")
       /\ \E F \in SUBSET stale :
            \E T \in Snapshots({r \in j.refs \ stale : Eligible(r)} \cup F) :
                job' = [job EXCEPT ![w].refs = T, ![w].pc = "go"]
       /\ UNCHANGED <<trie, acc, sessions, lists, mail, shut, got, spent>>

(* No memory for the snapshot, for the frame, or for the copies a coroutine  *)
(* needs: nobody gets the publication.  The publisher is told, unless a      *)
(* route has it.                                                             *)
PubNoMemory(w) ==
    /\ At(w, "snap") \/ (At(w, "go") /\ Live(job[w].c))
    /\ Spend("oom")
    /\ Done(w)
    /\ UNCHANGED <<trie, acc, sessions, lists, mail, shut, got>>

PubGo(w) ==
    /\ At(w, "go")
    /\ \/ Live(job[w].c) /\ Go(w, "fan") /\ UNCHANGED st
       \/ ~Live(job[w].c) /\ Closing(w, job[w].c)
    /\ UNCHANGED <<trie, acc, ep, active, lists, mail, shut, got, spent>>

(* deliver_tgt_accepts_subject: inbox messages go to exact subscriptions.    *)
Accepts(r, t) == t \in Inboxes => r.pat = t

(* client_require_sub_ok, client_sub_covers                                  *)
Covers(c, sid, t) == \E r \in SidOf(c, sid) : SubjectMatch(r.pat, t)

Message(r, n, t) == [ref |-> r, n |-> n, t |-> t]

(* client_send_by_id on the worker that owns the target: what is checked     *)
(* under the lock ...                                                        *)
CheckHere(w, r, t) ==
    \/ /\ st[r.c] = "connected" /\ Live(r.c) /\ Covers(r.c, r.sid, t)
       /\ job' = [job EXCEPT ![w].refs = @ \ {r}, ![w].ref = r, ![w].pc = "send"]
       /\ UNCHANGED <<st, mail, shut, spent>>
    \/ /\ st[r.c] = "connected" /\ ~Live(r.c)
       /\ st' = [st EXCEPT ![r.c] = "closing"]
       /\ TeardownOrShutdown(r.c, mail)
       /\ job' = [job EXCEPT ![w].refs = @ \ {r}]
    \/ /\ st[r.c] # "connected" \/ (Live(r.c) /\ ~Covers(r.c, r.sid, t))
       /\ job' = [job EXCEPT ![w].refs = @ \ {r}]
       /\ UNCHANGED <<st, mail, shut, spent>>

(* ... and what follows after the unlock: the accounts again, and the write, *)
(* or no room in write_buf (FORCE_CLOSE).                                    *)
SendHere(w) ==
    LET j == job[w]
        c == j.ref.c
    IN /\ At(w, "send")
       /\ job' = [job EXCEPT ![w].ref = NoRef, ![w].pc = "fan"]
       /\ \/ /\ Live(c) /\ LiveEpoch(j.ep)
             /\ \/ got' = got \cup {Message(j.ref, j.n, j.t)} /\ UNCHANGED <<st, mail, shut, spent>>
                \/ /\ Spend("oom")
                   /\ st' = [st EXCEPT ![c] = "closing"]
                   /\ PushTeardown(c, mail) /\ UNCHANGED got
          \/ /\ ~Live(c)
             /\ st' = [st EXCEPT ![c] = "closing"]
             /\ TeardownOrShutdown(c, mail) /\ UNCHANGED got
          \/ Live(c) /\ ~LiveEpoch(j.ep) /\ UNCHANGED <<st, mail, shut, got, spent>>
       /\ UNCHANGED <<trie, acc, ep, active, lists>>

(* Mutant: a full mailbox drops the message and keeps the subscriber.        *)
SendThere_Drop(r, n, t, e) ==
    /\ mail' = IF CanSend(r.c) THEN Mailed(Send(r, n, t, e)) ELSE mail
    /\ UNCHANGED <<shut, spent>>

(* deliver_via_worker to another worker: after the retries the subscriber    *)
(* is torn down.                                                             *)
SendThere(r, n, t, e) ==
    \/ /\ CanSend(r.c)
       /\ mail' = Mailed(Send(r, n, t, e))
       /\ UNCHANGED <<shut, spent>>
    \/ /\ ~CanSend(r.c)
       /\ TeardownOrShutdown(r.c, mail)

(* deliver_targets_sync: one target                                          *)
PubFan(w) ==
    LET j == job[w] IN
    \E r \in j.refs :
       /\ At(w, "fan")
       /\ \/ /\ ~Accepts(r, j.t) \/ ~LiveEpoch(j.ep)
             /\ job' = [job EXCEPT ![w].refs = @ \ {r}]
             /\ UNCHANGED <<st, mail, shut, spent>>
          \/ /\ Accepts(r, j.t) /\ LiveEpoch(j.ep)
             /\ \/ Owner[r.c] = w /\ CheckHere(w, r, j.t)
                \/ /\ Owner[r.c] # w
                   /\ SendThere(r, j.n, j.t, j.ep)
                   /\ job' = [job EXCEPT ![w].refs = @ \ {r}]
                   /\ UNCHANGED st
       /\ UNCHANGED <<trie, acc, ep, active, lists, got>>

PubDone(w) ==
    LET c == job[w].c IN
    /\ At(w, "fan") /\ job[w].refs = {}
    /\ IF st[c] = "closing" THEN Closing(w, c) ELSE Done(w) /\ UNCHANGED st
    /\ UNCHANGED <<trie, acc, ep, active, lists, mail, shut, got, spent>>

-----------------------------------------------------------------------------
(* The mailbox, on the worker's own thread.                                  *)

(* worker_deliver_send_msg: the checks under the lock ...                    *)
MailSend(w, m) ==
    LET c == m.to
        open == st[c] \in {"init", "connected"}
    IN /\ m.kind = "SEND"
       /\ mail' = [mail EXCEPT ![w] = Tail(@)]
       /\ \/ open /\ ~Live(c) /\ Closing(w, c)
          \/ /\ open /\ Live(c) /\ Covers(c, m.ref.sid, m.t)
             /\ job' = [job EXCEPT ![w] = [Job("letter", c) EXCEPT
                           !.ref = m.ref, !.n = m.n, !.t = m.t, !.ep = m.ep]]
             /\ UNCHANGED st
          \/ /\ ~open \/ (Live(c) /\ ~Covers(c, m.ref.sid, m.t))
             /\ UNCHANGED <<st, job>>
       /\ UNCHANGED <<ep, active, got, spent>>

(* ... and after the unlock the accounts again, and the write.               *)
MailWrite(w) ==
    LET j == job[w]
        c == j.c
    IN /\ At(w, "letter")
       /\ \/ ~Live(c) /\ Closing(w, c) /\ UNCHANGED <<got, spent>>
          \/ /\ Live(c) /\ LiveEpoch(j.ep)
             /\ \/ /\ got' = got \cup {Message(j.ref, j.n, j.t)}
                   /\ Done(w) /\ UNCHANGED <<st, spent>>
                \/ Spend("oom") /\ Closing(w, c) /\ UNCHANGED got
          \/ Live(c) /\ ~LiveEpoch(j.ep) /\ Done(w) /\ UNCHANGED <<st, got, spent>>
       /\ UNCHANGED <<trie, acc, ep, active, lists, mail, shut>>

(* The DISCONNECT of keepalive needs no subscription and no permission.      *)
MailFarewell(w, m) ==
    /\ m.kind = "DISCONNECT"
    /\ mail' = [mail EXCEPT ![w] = Tail(@)]
    /\ \/ /\ st[m.to] \in {"init", "connected"} /\ ~Live(m.to)
          /\ Closing(w, m.to)
       \/ /\ st[m.to] \notin {"init", "connected"} \/ Live(m.to)
          /\ UNCHANGED <<st, job>>
    /\ UNCHANGED <<ep, active, got, spent>>

(* TEARDOWN: drop the letters still queued for c, then close it.             *)
MailTeardown(w, m) ==
    LET c == m.to IN
    /\ m.kind = "TEARDOWN"
    /\ Purge(w, c, Tail(mail[w]))
    /\ \/ st[c] \in {"init", "connected", "closing"} /\ Closing(w, c)
       \/ st[c] = "gone" /\ UNCHANGED <<st, job>>
    /\ UNCHANGED <<ep, active, got, spent>>

MailNext(w) ==
    /\ job[w] = Idle /\ mail[w] # <<>>
    /\ LET m == Head(mail[w])
       IN MailSend(w, m) \/ MailFarewell(w, m) \/ MailTeardown(w, m)
    /\ UNCHANGED <<trie, acc, lists, shut>>

-----------------------------------------------------------------------------
(* Closing.                                                                  *)

(* client_finish_closing: bytes not yet written keep the connection; the     *)
(* owner calls it again on the next event.                                   *)
Finish(w) ==
    /\ At(w, "finish")
    /\ Go(w, "teardown")
    /\ UNCHANGED <<trie, acc, sessions, lists, mail, shut, got, spent>>

FinishLater(w) ==
    /\ At(w, "finish") /\ job[w].c \notin shut
    /\ Done(w)
    /\ UNCHANGED <<trie, acc, sessions, lists, mail, shut, got, spent>>

(* client_read_cb in state CLOSING; EOF and read errors in any state; the    *)
(* DISCONNECT of the peer                                                    *)
Flush(w, c) ==
    /\ Owner[c] = w /\ st[c] = "closing" /\ job[w] = Idle
    /\ Start(w, Job("finish", c))
    /\ UNCHANGED <<trie, acc, sessions, lists, mail, shut, got, spent>>

Eof(w, c) ==
    /\ Owner[c] = w /\ st[c] \in {"init", "connected", "closing"}
    /\ Start(w, Job("teardown", c))
    /\ UNCHANGED <<trie, acc, sessions, lists, mail, shut, got, spent>>

Disconnect(w, c) ==
    /\ Mine(w, c) /\ Closing(w, c)
    /\ UNCHANGED <<trie, acc, ep, active, lists, mail, shut, got, spent>>

(* client_teardown *)
TearEnter(w) ==
    LET c == job[w].c IN
    /\ At(w, "teardown")
    /\ st' = [st EXCEPT ![c] = "closed"]
    /\ job' = [job EXCEPT ![w].pc = "tear", ![w].refs = ent[c]]
    /\ ent' = [ent EXCEPT ![c] = {}]
    /\ sub_count' = [sub_count EXCEPT ![c] = 0]
    /\ UNCHANGED <<trie, acc, ep, active, mail, shut, got, spent>>

TearSub(w) ==
    \E r \in job[w].refs :
    /\ At(w, "tear")
    /\ trie' = Remove(trie, r.pat, r)
    /\ job' = [job EXCEPT ![w].refs = @ \ {r}]
    /\ UNCHANGED <<acc, sessions, lists, mail, shut, got, spent>>

TearRelease(w) ==
    LET c == job[w].c IN
    /\ At(w, "tear") /\ job[w].refs = {}
    /\ st' = [st EXCEPT ![c] = "gone"]
    /\ Purge(w, c, mail[w])
    /\ active' = active - 1
    /\ shut' = shut \ {c}
    /\ Done(w)
    /\ UNCHANGED <<trie, acc, ep, lists, got, spent>>

-----------------------------------------------------------------------------
(* keepalive_timer_cb of the acceptor: DISCONNECT (sub id 0) if there is     *)
(* room, then TEARDOWN.                                                      *)

Parting(c) == IF CanSend(c) THEN Mailed(Farewell(c)) ELSE mail

(* A connected session of a dead account is doomed at once.                  *)
KeepaliveDead(c) ==
    /\ st[c] = "connected" /\ ~Live(c)
    /\ TeardownOrShutdown(c, Parting(c))
    /\ UNCHANGED <<trie, acc, sessions, lists, job, got>>

(* Idle and stalled ones when they time out, and again as long as the        *)
(* TEARDOWN has not been served.                                             *)
KeepaliveTimeout(c) ==
    /\ st[c] \in {"init", "connected", "closing"} /\ Spend("doom")
    /\ PushTeardown(c, Parting(c))
    /\ UNCHANGED <<trie, acc, sessions, lists, job, got>>

-----------------------------------------------------------------------------
(* The system.                                                               *)

Handler(w) ==
    \/ ConnectCredit(w) \/ ConnectLive(w) \/ Welcome(w)
    \/ SubClaim(w) \/ SubCredit(w) \/ SubRecheck(w) \/ SubUnlink(w)
    \/ SubInsert(w) \/ SubInsertFails(w) \/ SubRestore(w) \/ SubRestoreFails(w)
    \/ SubNudge(w) \/ SubGhost(w) \/ SubConfirm(w) \/ SubUndo(w)
    \/ PubSnapshot(w) \/ PubNoMemory(w) \/ PubGo(w) \/ PubFan(w) \/ SendHere(w)
    \/ PubDone(w) \/ MailWrite(w)
    \/ Finish(w) \/ FinishLater(w)
    \/ TearEnter(w) \/ TearSub(w) \/ TearRelease(w)

Frame(w, c) ==
    \/ Connect(w, c) \/ Denied(w, c) \/ Disconnect(w, c)
    \/ \E sid \in Sids, i \in Interests : Subscribe(w, c, sid, i)
    \/ \E r \in ent[c] : Unsubscribe(w, c, r)
    \/ \E t \in Topics : Publish(w, c, t)

Environment ==
    \/ Delete \/ Create
    \/ \E c \in Clients : Admit(c) \/ KeepaliveDead(c) \/ KeepaliveTimeout(c)

Step ==
    \/ \E w \in Workers :
           \/ Handler(w) \/ MailNext(w)
           \/ \E c \in Clients : Frame(w, c) \/ Flush(w, c) \/ Eof(w, c)
    \/ Environment

(* History: a plain subscription that matched a publication is owed it as    *)
(* long as subscription, session and the publisher's epoch stand, and the    *)
(* publication was not given up as a whole for want of memory.               *)
Standing(d) == /\ d.ref \in Registered(trie) /\ st[d.ref.c] = "connected"
               /\ Live(d.ref.c) /\ LiveEpoch(d.ep)

Matched(j) == {[n |-> j.n, ref |-> r, ep |-> j.ep] :
                  r \in {r \in j.refs : r.grp = NoGroup /\ Accepts(r, j.t)}}

GivenUp(n) == \E w \in Workers : /\ job[w].pc \in {"snap", "go"} /\ job[w].n = n
                                 /\ At(w, "idle")'

Owe == LET new == UNION {Matched(job'[w]) : w \in
                     {w \in Workers : ~At(w, "snap") /\ At(w, "snap")'}}
       IN owed' = {d \in owed \cup new : Standing(d)' /\ ~GivenUp(d.n)}

Next == Step /\ Owe

Spec == Init /\ [][Next]_vars

-----------------------------------------------------------------------------
(* Properties.                                                               *)

Working(c) == job[Owner[c]].c = c
Tearing(c) == Working(c) /\ At(Owner[c], "tear")

(* No subscription outlives its connection, and none is lost: a reference in *)
(* the trie belongs to a connection that still exists and lists it, and what *)
(* a connection lists is in the trie except while its own handler runs.      *)
InterestSound ==
    /\ \A r \in Registered(trie) :
           /\ st[r.c] \notin {"none", "gone"}
           /\ r \in ent[r.c] \/ (Tearing(r.c) /\ r \in job[Owner[r.c]].refs)
    /\ \A c \in Clients : Working(c) \/
           /\ ent[c] \subseteq Registered(trie)
           /\ sub_count[c] = Cardinality(ent[c])
           /\ \A r, q \in ent[c] : r.sid = q.sid => r = q

(* The topics, one token shorter and one token longer                        *)
Probes == UNION {{t, Tail(t), Append(t, t[1])} : t \in Topics}

(* The trie holds every reference at the node of its pattern and no node     *)
(* without use, its count is right, and a match finds exactly the patterns   *)
(* that sub_pattern_match accepts.                                           *)
TrieExact ==
    LET all == Registered(trie) IN
    /\ \A n \in Nodes(trie), r \in all : r \in trie.subs[n] <=> r.pat = n
    /\ Nodes(trie) = {<<>>} \cup UNION {Path(r.pat) : r \in all}
    /\ trie.count = Cardinality(all)
    /\ \A t \in Probes : Match(trie, t) = {r \in all : SubjectMatch(r.pat, t)}

(* A queue group gets one copy of a publication.                             *)
GroupOnce ==
    \A a, b \in got : /\ a.n = b.n /\ a.ref.grp = b.ref.grp /\ a.ref.grp # NoGroup
                       /\ a.ref.pat = b.ref.pat => a = b

(* What a publication matched is delivered, on its way, or its subscriber is *)
(* about to be closed: neither a full mailbox nor a failed write leaves a    *)
(* connected subscriber behind that does not know.  (A publication that is   *)
(* given up as a whole is owed to nobody.)                                   *)
NoSilentLoss ==
    \A d \in owed :
        \/ \E m \in got : m.n = d.n /\ m.ref = d.ref
        \/ \E w \in Workers :
               /\ job[w].n = d.n
               /\ d.ref \in job[w].refs
                    \/ (job[w].pc \in {"send", "letter"} /\ job[w].ref = d.ref)
        \/ \E k \in DOMAIN mail[Owner[d.ref.c]] :
               LET m == mail[Owner[d.ref.c]][k]
               IN m.kind = "SEND" /\ m.n = d.n /\ m.ref = d.ref
        \/ Sentenced(d.ref.c) \/ d.ref.c \in shut

=============================================================================
