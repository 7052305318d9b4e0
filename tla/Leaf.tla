-------------------------------- MODULE Leaf --------------------------------
(***************************************************************************)
(* The link of a leaf node to its hub (cluster/cmq_leaf.c).  Interest is   *)
(* kept locally and replayed, frame by frame, over every new connection;   *)
(* hub_io_lock is given back between two frames, so disconnect, subscribe, *)
(* unsubscribe and poll may run there.  What they do under hub_io_lock is  *)
(* one step here.  A connection is a descriptor number and a generation:   *)
(* numbers come back, generations do not.                                  *)
(***************************************************************************)
EXTENDS Integers, Sequences, FiniteSets, FiniteSetsExt, SequencesExt

CONSTANTS Subjects, Fds, Threads,
          MaxSubs,     \* CMQ_LEAF_MAX_SUBS: interest and pending UNSUBs
          MaxId,       \* subscription ids are 1..MaxId and wrap
          MaxDials, MaxCalls, MaxTrouble   \* bounds of the model

VARIABLES
  hub,      \* hub_fd, hub_gen, hub_dialing, connected
  subs,     \* the local interest, in the order of the array
  pending,  \* UNSUBs to flush at the next connect
  nextId,   \* next_sub_id
  sock,     \* sockets by number, with the interest the hub has recorded for each
  th,       \* the threads inside cmq_leaf_connect
  phase,    \* run, dying, freed
  used      \* how much of the bounds is used up

vars == <<hub, subs, pending, nextId, sock, th, phase, used>>

Idle == [op |-> "idle", fd |-> -1, gen |-> 0, flush |-> <<>>, replay |-> <<>>, old |-> FALSE]
Closed == [open |-> FALSE, alive |-> FALSE, seen |-> {}]
Dialled == [open |-> TRUE, alive |-> TRUE, seen |-> {}]

Ids(s) == {s[i].id : i \in DOMAIN s}
Names(s) == {s[i].name : i \in DOMAIN s}
Alive(f) == f >= 0 /\ sock[f].alive
MidReplay == hub.fd >= 0 /\ ~hub.up
Linked == hub.fd >= 0 /\ hub.up
Still(h) == hub.fd = h.fd /\ hub.gen = h.gen

\* The bounds of the model.
Spend(what, max) == used[what] < max /\ used' = [used EXCEPT ![what] = @ + 1]

\* leaf_mint_sub_id: the next id, in the order of the ring, that is neither live
\* nor waiting to be unsubscribed.
Mintable == (1..MaxId) \ (Ids(subs) \cup ToSet(pending))
RingDistance(i) == (i - nextId) % MaxId
Mint == CHOOSE i \in Mintable : \A j \in Mintable : RingDistance(i) <= RingDistance(j)
AfterMint == (Mint % MaxId) + 1

\* leaf_hub_drop: the socket is closed and forgotten; interest stays.
Without(s, f) == [g \in Fds |-> IF g = f THEN Closed ELSE s[g]]
HubGone == [hub EXCEPT !.fd = -1, !.up = FALSE]

\* One more pending UNSUB; the oldest makes room.
Queue(p, id) == Append(IF Len(p) >= MaxSubs THEN Tail(p) ELSE p, id)

\* What a failed flush could not send goes behind the newest of the others that fit.
Requeue(p, rest) ==
  LET room == MaxSubs - Len(rest)
  IN (IF Len(p) > room THEN SubSeq(p, Len(p) - room + 1, Len(p)) ELSE p) \o rest

-----------------------------------------------------------------------------
Init ==
  /\ hub = [fd |-> -1, gen |-> 0, dialing |-> FALSE, up |-> FALSE]
  /\ subs = <<>> /\ pending = <<>> /\ nextId = 1
  /\ sock = [f \in Fds |-> Closed]
  /\ th = [t \in Threads |-> Idle]
  /\ phase = "run"
  /\ used = [dials |-> 0, calls |-> 0, trouble |-> 0]

\* cmq_leaf_connect finds a dead hub and drops it before it dials.
ReapHub(t) ==
  /\ th[t].op = "idle" /\ phase = "run" /\ Linked /\ ~Alive(hub.fd)
  /\ sock' = Without(sock, hub.fd)
  /\ hub' = HubGone
  /\ th' = [th EXCEPT ![t].op = "reaped"]
  /\ UNCHANGED <<subs, pending, nextId, phase, used>>

\* The dial begins: nobody is replaying, nobody is dialling.  A thread that has
\* just reaped does not look for a replay again.
DialBegin(t) ==
  LET s1 == IF Linked THEN Without(sock, hub.fd) ELSE sock
      free == {f \in Fds : ~s1[f].open}
  IN /\ phase = "run" /\ Spend("dials", MaxDials)
     /\ \/ th[t].op = "idle" /\ hub.fd < 0
        \/ th[t].op = "reaped" /\ ~(Linked /\ Alive(hub.fd))
     /\ free # {} /\ ~hub.dialing
     /\ sock' = [s1 EXCEPT ![Min(free)] = Dialled]
     /\ hub' = [(IF Linked THEN HubGone ELSE hub) EXCEPT !.dialing = TRUE]
     /\ th' = [th EXCEPT ![t] = [Idle EXCEPT !.op = "dial", !.fd = Min(free), !.gen = hub.gen]]
     /\ UNCHANGED <<subs, pending, nextId, phase>>

\* A reaper that finds the hub linked, or another dial under way, returns.
ReaperReturns(t) ==
  /\ th[t].op = "reaped" /\ ((Linked /\ Alive(hub.fd)) \/ hub.dialing)
  /\ th' = [th EXCEPT ![t] = Idle]
  /\ UNCHANGED <<hub, subs, pending, nextId, sock, phase, used>>

\* The socket of a thread that may not publish it; hub_dialing is cleared in any case.
DialFails(t) ==
  /\ th[t].op = "dial"
  /\ sock' = Without(sock, th[t].fd)
  /\ hub' = [hub EXCEPT !.dialing = FALSE]
  /\ th' = [th EXCEPT ![t] = Idle]
  /\ UNCHANGED <<subs, pending, nextId, phase, used>>

\* After the handshake: a live link, a newer generation or a replay wins over this dial.
Superseded(t) == (Linked /\ Alive(hub.fd)) \/ hub.gen # th[t].gen \/ MidReplay

\* Publish the socket, claim the pending UNSUBs and take a copy of the interest.
Publish(t) ==
  /\ th[t].op = "dial" /\ ~Superseded(t)
  /\ sock' = IF Linked THEN Without(sock, hub.fd) ELSE sock
  /\ hub' = [fd |-> th[t].fd, gen |-> hub.gen + 1, dialing |-> FALSE, up |-> FALSE]
  /\ th' = [th EXCEPT ![t].op = "replay", ![t].gen = hub.gen + 1,
                      ![t].flush = pending, ![t].replay = subs]
  /\ pending' = <<>>
  /\ UNCHANGED <<subs, nextId, phase, used>>

\* No memory for the copies: nothing has been claimed yet.
PublishNoMemory(t) ==
  /\ th[t].op = "dial" /\ ~Superseded(t) /\ Spend("trouble", MaxTrouble)
  /\ sock' = LET s1 == IF Linked THEN Without(sock, hub.fd) ELSE sock IN Without(s1, th[t].fd)
  /\ hub' = [fd |-> -1, gen |-> hub.gen + 1, dialing |-> FALSE, up |-> FALSE]
  /\ th' = [th EXCEPT ![t] = Idle]
  /\ UNCHANGED <<subs, pending, nextId, phase>>

\* One UNSUB of the flush.
FlushFrame(t) ==
  /\ th[t].op = "replay" /\ th[t].flush # <<>> /\ Still(th[t]) /\ Alive(th[t].fd)
  /\ sock' = [sock EXCEPT ![th[t].fd].seen = {x \in @ : x.id # Head(th[t].flush)}]
  /\ th' = [th EXCEPT ![t].flush = Tail(@)]
  /\ UNCHANGED <<hub, subs, pending, nextId, phase, used>>

\* One SUB of the replay, with its SUBACK.
ReplayFrame(t) ==
  /\ th[t].op = "replay" /\ th[t].flush = <<>> /\ th[t].replay # <<>>
  /\ Still(th[t]) /\ Alive(th[t].fd)
  /\ sock' = [sock EXCEPT ![th[t].fd].seen = @ \cup {Head(th[t].replay)}]
  /\ th' = [th EXCEPT ![t].replay = Tail(@)]
  /\ UNCHANGED <<hub, subs, pending, nextId, phase, used>>

\* A frame could not be written, was refused, or the connection is no longer this
\* thread's: unsent UNSUBs are queued again, and only the owner closes.
ReplayFails(t) ==
  /\ th[t].op = "replay" /\ (th[t].flush # <<>> \/ th[t].replay # <<>>)
  /\ IF Still(th[t]) /\ Alive(th[t].fd) THEN Spend("trouble", MaxTrouble) ELSE UNCHANGED used
  /\ pending' = Requeue(pending, th[t].flush)
  /\ hub' = IF Still(th[t]) THEN HubGone ELSE hub
  /\ sock' = IF Still(th[t]) THEN Without(sock, th[t].fd) ELSE sock
  /\ th' = [th EXCEPT ![t] = Idle]
  /\ UNCHANGED <<subs, nextId, phase>>

\* Everything is replayed: the link is up, if it is still this one.
ReplayDone(t) ==
  /\ th[t].op = "replay" /\ th[t].flush = <<>> /\ th[t].replay = <<>>
  /\ hub' = IF Still(th[t]) THEN [hub EXCEPT !.up = TRUE] ELSE hub
  /\ th' = [th EXCEPT ![t] = Idle]
  /\ UNCHANGED <<subs, pending, nextId, sock, phase, used>>

-----------------------------------------------------------------------------
Disconnect ==
  /\ phase = "run" /\ Spend("calls", MaxCalls)
  /\ sock' = Without(sock, hub.fd)
  /\ hub' = [fd |-> -1, gen |-> hub.gen + 1, dialing |-> FALSE, up |-> FALSE]
  /\ th' = [t \in Threads |-> [th[t] EXCEPT !.old = th[t].op # "idle"]]
  /\ UNCHANGED <<subs, pending, nextId, phase>>

\* Mutant: also during a replay.
MaySubscribe_MidReplay(s) ==
  phase = "run" /\ s \notin Names(subs) /\ Len(subs) < MaxSubs /\ Mintable # {}

\* Not during a replay: its copy of the interest is already taken.
MaySubscribe(s) ==
  phase = "run" /\ ~MidReplay /\ s \notin Names(subs) /\ Len(subs) < MaxSubs /\ Mintable # {}

\* Recorded locally; a linked hub has acknowledged it.
Subscribe(s) ==
  /\ MaySubscribe(s) /\ (Linked => Alive(hub.fd)) /\ Spend("calls", MaxCalls)
  /\ subs' = Append(subs, [name |-> s, id |-> Mint]) /\ nextId' = AfterMint
  /\ sock' = IF Linked
             THEN [sock EXCEPT ![hub.fd].seen = @ \cup {[name |-> s, id |-> Mint]}] ELSE sock
  /\ UNCHANGED <<hub, pending, th, phase>>

\* The hub refuses or stays silent (an UNSUB takes the frame back), or the write
\* fails (the hub is dropped): the local entry goes again.
SubscribeFails(s, written) ==
  /\ MaySubscribe(s) /\ Linked
  /\ IF Alive(hub.fd) THEN Spend("trouble", MaxTrouble) ELSE ~written /\ UNCHANGED used
  /\ nextId' = AfterMint
  /\ hub' = IF written THEN hub ELSE HubGone
  /\ sock' = IF written THEN sock ELSE Without(sock, hub.fd)
  /\ UNCHANGED <<subs, pending, th, phase>>

Unsubscribe(i) ==
  /\ phase = "run" /\ ~MidReplay /\ i \in DOMAIN subs /\ Spend("calls", MaxCalls)
  /\ IF Linked
     THEN /\ Alive(hub.fd)
          /\ sock' = [sock EXCEPT ![hub.fd].seen = {x \in @ : x.id # subs[i].id}]
          /\ UNCHANGED pending
     ELSE Len(pending) < MaxSubs /\ pending' = Append(pending, subs[i].id) /\ UNCHANGED sock
  /\ subs' = RemoveAt(subs, i)
  /\ UNCHANGED <<hub, nextId, th, phase>>

\* The UNSUB cannot be written: it is queued for the next connection.
UnsubscribeFails(i) ==
  /\ phase = "run" /\ Linked /\ i \in DOMAIN subs
  /\ IF Alive(hub.fd) THEN Spend("trouble", MaxTrouble) ELSE UNCHANGED used
  /\ pending' = Queue(pending, subs[i].id)
  /\ subs' = RemoveAt(subs, i)
  /\ hub' = HubGone /\ sock' = Without(sock, hub.fd)
  /\ UNCHANGED <<nextId, th, phase>>

\* cmq_leaf_poll and is_connected: a dead hub, or one whose stream or PING fails, is dropped.
Poll ==
  /\ phase = "run" /\ Linked
  /\ IF Alive(hub.fd) THEN Spend("trouble", MaxTrouble) ELSE UNCHANGED used
  /\ hub' = HubGone /\ sock' = Without(sock, hub.fd)
  /\ UNCHANGED <<subs, pending, nextId, th, phase>>

HubDies(f) ==
  /\ sock[f].alive /\ Spend("trouble", MaxTrouble)
  /\ sock' = [sock EXCEPT ![f].alive = FALSE]
  /\ UNCHANGED <<hub, subs, pending, nextId, th, phase>>

\* Destroy waits for the calls in flight.
DestroyBegin ==
  /\ phase = "run" /\ phase' = "dying"
  /\ UNCHANGED <<hub, subs, pending, nextId, sock, th, used>>

DestroyEnd ==
  /\ phase = "dying" /\ \A t \in Threads : th[t].op = "idle"
  /\ phase' = "freed"
  /\ sock' = Without(sock, hub.fd) /\ hub' = HubGone /\ subs' = <<>>
  /\ UNCHANGED <<pending, nextId, th, used>>

Next ==
  \/ \E t \in Threads :
       \/ ReapHub(t) \/ DialBegin(t) \/ ReaperReturns(t) \/ DialFails(t) \/ Publish(t)
       \/ PublishNoMemory(t) \/ FlushFrame(t) \/ ReplayFrame(t) \/ ReplayFails(t) \/ ReplayDone(t)
  \/ \E s \in Subjects : Subscribe(s) \/ \E written \in BOOLEAN : SubscribeFails(s, written)
  \/ \E i \in 1..MaxSubs : Unsubscribe(i) \/ UnsubscribeFails(i)
  \/ \E f \in Fds : HubDies(f)
  \/ Disconnect \/ Poll \/ DestroyBegin \/ DestroyEnd

Spec == Init /\ [][Next]_vars

-----------------------------------------------------------------------------
\* While the link is up the hub's interest for this connection is the leaf's,
\* subject by subject and id by id, however subscribe, unsubscribe, disconnect
\* and failures fell between the frames of a replay.
InterestExact == Linked => sock[hub.fd].seen = ToSet(subs)

\* Every open socket has one owner, the hub link or one dialling thread, and the
\* link never refers to a number that was closed.
SocketsOwned ==
  /\ hub.fd >= 0 => sock[hub.fd].open
  /\ \A f \in Fds : sock[f].open =>
       Cardinality({t \in Threads : th[t].op = "dial" /\ th[t].fd = f})
         + (IF hub.fd = f THEN 1 ELSE 0) = 1

\* A connect that an explicit disconnect overtook neither publishes its socket nor
\* brings the link up.
NoResurrect ==
  [][\A t \in Threads : th[t].old /\ th[t].op \in {"dial", "replay"} /\ th'[t] # th[t] =>
       hub'.fd # th[t].fd \/ hub' = hub]_vars

=============================================================================
