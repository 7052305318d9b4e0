-------------------------------- MODULE Mqtt --------------------------------
(***************************************************************************)
(* The MQTT listener (enterprise/cmq_mqtt_server.c): one detached thread   *)
(* per connection, and the tables the threads share, each behind a lock of *)
(* its own: live connections with their filters and windows of unacknow-   *)
(* ledged messages, last wills, and saved sessions.  A step is one         *)
(* critical section, so the handlers of two connections interleave between *)
(* the tables.  A filter is the set of topics it matches.  A packet id     *)
(* stands for the slot of the window it was given to, which it names until *)
(* the 16-bit counter has gone round under an unacknowledged message.      *)
(***************************************************************************)
EXTENDS Integers, Sequences, FiniteSets, FiniteSetsExt, SequencesExt

CONSTANTS
  Conns,        \* connection threads
  ClientIds, NoId,
  Topics, Filters,
  Fds,
  MaxLive,      \* MQTT_LIVE_MAX
  MaxSubs,      \* CMQ_MQTT_SESSION_SUBS and MQTT_LIVE_FILTERS
  MaxSessions,  \* CMQ_MQTT_SESSIONS_MAX, of sessions and of wills
  Window,       \* CMQ_MQTT_INFLIGHT_MAX
  MaxConnects, MaxPackets, MaxTrouble   \* bounds of the model

VARIABLES
  conn,       \* thread -> its locals: where it is, client id, flags, filters, window
  open,       \* descriptor -> the thread that was accepted on it
  live,       \* the table of live connections, by slot: descriptor, owner, filters
  wills,      \* client id -> the connection that left a will
  sessions,   \* client id -> saved filters
  fired,      \* wills that were published
  gone,       \* connections that took their leave with DISCONNECT
  promise,    \* client id -> filters a persistent client may count on, if any
  used        \* bounds: connections, packets and irregular ends so far

vars == <<conn, open, live, wills, sessions, fired, gone, promise, used>>
tables == <<live, wills, sessions, fired>>

Unborn == [op |-> "none", n |-> 0, fd |-> 0, cid |-> NoId, clean |-> TRUE, subs |-> <<>>,
           attached |-> FALSE, win |-> [i \in 1..Window |-> "free"], will |-> 0,
           pend |-> {}, topic |-> 0]
NoOne == [fd |-> 0, owner |-> 0, filters |-> <<>>]
Void == [ok |-> FALSE, subs |-> <<>>]
Nothing == [kept |-> FALSE, subs |-> <<>>]

Init ==
  /\ conn = [c \in Conns |-> Unborn]
  /\ open = [f \in Fds |-> 0]
  /\ live = [i \in 1..MaxLive |-> NoOne]
  /\ wills = [x \in ClientIds |-> 0] /\ sessions = [x \in ClientIds |-> Nothing]
  /\ fired = {} /\ gone = {}
  /\ promise = [x \in ClientIds |-> [ok |-> TRUE, subs |-> <<>>]]
  /\ used = [connects |-> 0, packets |-> 0, trouble |-> 0]

Packet == used.packets < MaxPackets /\ used' = [used EXCEPT !.packets = @ + 1]
Trouble == used.trouble < MaxTrouble /\ used' = [used EXCEPT !.trouble = @ + 1]
At(c, op) == conn[c].op = op
Going(c, op) == conn' = [conn EXCEPT ![c].op = op]
Cut(s) == SubSeq(s, 1, Min({Len(s), MaxSubs}))
SlotOf(f) == {i \in 1..MaxLive : live[i].fd = f}
Others(c, x) == {d \in Conns \ {c} : conn[d].cid = x}

-----------------------------------------------------------------------------
\* The accept loop and mqtt_thread: the kernel gives the lowest free number.
Accept(c) ==
  LET F == {f \in Fds : open[f] = 0}
  IN /\ At(c, "none") /\ F # {} /\ used.connects < MaxConnects
     /\ used' = [used EXCEPT !.connects = @ + 1]
     /\ open' = [open EXCEPT ![Min(F)] = used.connects + 1]
     /\ conn' = [conn EXCEPT ![c] =
                   [Unborn EXCEPT !.op = "new", !.fd = Min(F), !.n = used.connects + 1]]
     /\ UNCHANGED <<tables, gone, promise>>

\* pthread_create fails and nobody looks: no thread serves or closes the descriptor.
\* (pthread_detach is then called with the handle of an earlier thread or with none.)
AcceptNoThread ==
  LET F == {f \in Fds : open[f] = 0}
  IN /\ F # {} /\ used.connects < MaxConnects /\ used.trouble < MaxTrouble
     /\ used' = [used EXCEPT !.connects = @ + 1, !.trouble = @ + 1]
     /\ open' = [open EXCEPT ![Min(F)] = used.connects + 1]
     /\ UNCHANGED <<conn, tables, gone, promise>>

\* CONNECT.  A clean session drops the saved filters, a persistent one takes them over.
\* (The promise is the model's: it is void once two connections use one client id.)
ConnectSession(c, x, clean) ==
  /\ At(c, "new") /\ Packet
  /\ sessions' = IF clean THEN [sessions EXCEPT ![x] = Nothing] ELSE sessions
  /\ conn' = [conn EXCEPT ![c].op = "will", ![c].cid = x, ![c].clean = clean,
                          ![c].subs = IF clean THEN <<>> ELSE sessions[x].subs]
  /\ promise' = [promise EXCEPT ![x] = IF Others(c, x) # {} THEN Void
                                       ELSE IF clean THEN [ok |-> TRUE, subs |-> <<>>] ELSE @]
  /\ UNCHANGED <<open, live, wills, fired, gone>>

\* A will replaces the one under the same client id; no will, or no memory for its
\* payload, clears it.
ConnectWill(c, will) ==
  LET x == conn[c].cid
      full == Cardinality({y \in ClientIds \ {x} : wills[y] # 0}) >= MaxSessions
  IN /\ At(c, "will")
     /\ wills' = [wills EXCEPT ![x] = IF ~will THEN 0 ELSE IF full THEN @ ELSE conn[c].n]
     /\ Going(c, "attach")
     /\ UNCHANGED <<open, live, sessions, fired, gone, promise, used>>

\* The first free slot is the connection's, with the restored filters at QoS 1; with
\* no free slot the connection goes on without one.  Each restored filter is added under
\* the lock again in the code; a message in between reaches the filters added so far,
\* which no property here tells from a later message.
ConnectAttach(c) ==
  LET I == {i \in 1..MaxLive : live[i].fd = 0}
      F == [j \in DOMAIN conn[c].subs |-> [f |-> conn[c].subs[j], qos |-> 1]]
  IN /\ At(c, "attach")
     /\ IF I = {} THEN UNCHANGED live
        ELSE live' = [live EXCEPT ![Min(I)] =
                        [fd |-> conn[c].fd, owner |-> conn[c].n, filters |-> F]]
     /\ conn' = [conn EXCEPT ![c].op = "up", ![c].attached = I # {}]
     /\ UNCHANGED <<open, wills, sessions, fired, gone, promise, used>>

\* SUBSCRIBE: the filter joins the connection's list and its slot, as far as they go,
\* and is granted in any case.
Subscribe(c, f, qos) ==
  LET x == conn[c].cid
      I == {i \in SlotOf(conn[c].fd) : Len(live[i].filters) < MaxSubs}
  IN /\ At(c, "up") /\ Packet
     /\ conn' = [conn EXCEPT ![c].subs = Cut(Append(@, f))]
     /\ live' = [i \in 1..MaxLive |->
                   IF i \in I THEN [live[i] EXCEPT !.filters = Append(@, [f |-> f, qos |-> qos])]
                   ELSE live[i]]
     /\ promise' = IF conn[c].clean THEN promise ELSE [promise EXCEPT ![x].subs = Cut(Append(@, f))]
     /\ UNCHANGED <<open, wills, sessions, fired, gone>>

-----------------------------------------------------------------------------
\* PUBLISH within the rate limit; the relay's queue is the module Relay's.
Publish(c, x) ==
  /\ At(c, "up") /\ Packet
  /\ conn' = [conn EXCEPT ![c].op = "fan", ![c].topic = x]
  /\ UNCHANGED <<open, tables, gone, promise>>

\* cmq_mqtt_fanout, under the lock: every live connection with a matching filter above
\* QoS 0 and room in its window gets a slot there, in its own thread's memory.
Grant(i, x) ==
  LET J == {j \in DOMAIN live[i].filters : x \in live[i].filters[j].f}
  IN Max({0} \cup {live[i].filters[j].qos : j \in J})
Room(d) == {k \in 1..Window : conn[d].win[k] = "free"}
Offer(d, qos) == [conn[d] EXCEPT !.win[Min(Room(d))] = IF qos = 1 THEN "qos1" ELSE "qos2"]
Fanout(c) ==
  LET x == conn[c].topic
      Slot(d) == {i \in 1..MaxLive : live[i].owner # 0 /\ live[i].owner = conn[d].n}
      Gets == {d \in Conns : Room(d) # {} /\ \E i \in Slot(d) : Grant(i, x) > 0}
      Sent == {<<live[i].fd, live[i].owner>> : i \in UNION {Slot(d) : d \in Gets}}
      Offered == [d \in Conns |->
                    IF d \in Gets THEN Offer(d, Max({Grant(i, x) : i \in Slot(d)})) ELSE conn[d]]
  IN /\ At(c, "fan")
     /\ conn' = [Offered EXCEPT ![c].op = "send", ![c].pend = Sent, ![c].topic = 0]
     /\ UNCHANGED <<open, tables, gone, promise, used>>

\* ... and after it: the packets go to the noted numbers, the answer to the sender.
Send(c) ==
  /\ At(c, "send")
  /\ conn' = [conn EXCEPT ![c].op = "up", ![c].pend = {}]
  /\ UNCHANGED <<open, tables, gone, promise, used>>

\* PUBACK and PUBCOMP both free the slot of the id: one for QoS 1, or one for QoS 2
\* that has seen its PUBREC.
Ack(c, k) ==
  /\ At(c, "up") /\ SlotOf(conn[c].fd) # {} /\ conn[c].win[k] \in {"qos1", "rec"}
  /\ conn' = [conn EXCEPT ![c].win[k] = "free"]
  /\ UNCHANGED <<open, tables, gone, promise, used>>

Rec(c, k) ==
  /\ At(c, "up") /\ SlotOf(conn[c].fd) # {} /\ conn[c].win[k] = "qos2"
  /\ conn' = [conn EXCEPT ![c].win[k] = "rec"]
  /\ UNCHANGED <<open, tables, gone, promise, used>>

-----------------------------------------------------------------------------
\* The ways out.  DISCONNECT clears the will; a lost connection fires it.
Full(c) == Cardinality({y \in ClientIds : sessions[y].kept} \cup {conn[c].cid}) > MaxSessions
\* Mutant: the filters are not saved.
Saved_Never(c) == sessions
Saved(c) == IF Full(c) THEN sessions
            ELSE [sessions EXCEPT ![conn[c].cid] = [kept |-> TRUE, subs |-> conn[c].subs]]
Kept(c) == IF Full(c) /\ ~conn[c].clean THEN [promise EXCEPT ![conn[c].cid] = Void] ELSE promise
Disconnect(c) ==
  /\ At(c, "up") /\ Packet
  /\ wills' = [wills EXCEPT ![conn[c].cid] = 0]
  /\ gone' = gone \cup {conn[c].n}
  /\ Going(c, "leave")
  /\ UNCHANGED <<open, live, sessions, fired, promise>>
DisconnectSession(c) ==
  /\ At(c, "leave")
  /\ sessions' = IF conn[c].clean THEN [sessions EXCEPT ![conn[c].cid] = Nothing] ELSE Saved(c)
  /\ promise' = Kept(c)
  /\ Going(c, "detach")
  /\ UNCHANGED <<open, live, wills, fired, gone, used>>

\* Mutant: cmq_mqtt_will_take leaves the will in the table.
Taken_Kept(c) == wills

\* cmq_mqtt_will_fire: the will is taken from the table under its lock ...
Taken(c) == [wills EXCEPT ![conn[c].cid] = 0]
Lost(c) ==
  LET w == wills[conn[c].cid]
  IN /\ At(c, "up") /\ Trouble
     /\ wills' = Taken(c)
     /\ conn' = [conn EXCEPT ![c].op = IF w = 0 THEN "lost" ELSE "fire", ![c].will = w]
     /\ UNCHANGED <<open, live, sessions, fired, gone, promise>>

\* ... and published later, retained and through the relay, and its payload freed
Fire(c) ==
  /\ At(c, "fire")
  /\ fired' = fired \cup {conn[c].will}
  /\ conn' = [conn EXCEPT ![c].op = "lost", ![c].will = 0]
  /\ UNCHANGED <<open, live, wills, sessions, gone, promise, used>>
LostSession(c) ==
  /\ At(c, "lost")
  /\ sessions' = IF conn[c].clean THEN sessions ELSE Saved(c)
  /\ promise' = Kept(c)
  /\ Going(c, "detach")
  /\ UNCHANGED <<open, live, wills, fired, gone, used>>

\* A malformed packet, a refused CONNECT, the rate limit or an answer that cannot be
\* sent: neither will nor session.
Dropped(c) ==
  /\ conn[c].op \in {"new", "attach", "up", "send"} /\ Trouble
  /\ Going(c, "detach")
  /\ promise' = [x \in ClientIds |-> IF x = conn[c].cid /\ ~conn[c].clean THEN Void ELSE promise[x]]
  /\ UNCHANGED <<open, tables, gone>>

\* MQTT_CLIENT_RET: the slot of the descriptor is cleared, then mqtt_thread closes it.
Detach(c) ==
  /\ At(c, "detach")
  /\ live' = IF conn[c].attached /\ SlotOf(conn[c].fd) # {}
             THEN [live EXCEPT ![Min(SlotOf(conn[c].fd))] = NoOne] ELSE live
  /\ Going(c, "close")
  /\ UNCHANGED <<open, wills, sessions, fired, gone, promise, used>>
Close(c) ==
  /\ At(c, "close")
  /\ open' = [open EXCEPT ![conn[c].fd] = 0]
  /\ conn' = [conn EXCEPT ![c] = Unborn]
  /\ UNCHANGED <<tables, gone, promise, used>>

Next ==
  \/ AcceptNoThread
  \/ \E c \in Conns :
    \/ Accept(c) \/ ConnectAttach(c) \/ Fanout(c) \/ Send(c)
    \/ Disconnect(c) \/ DisconnectSession(c)
    \/ Lost(c) \/ Fire(c) \/ LostSession(c) \/ Dropped(c) \/ Detach(c) \/ Close(c)
    \/ \E x \in ClientIds, clean \in BOOLEAN : ConnectSession(c, x, clean)
    \/ \E b \in BOOLEAN : ConnectWill(c, b)
    \/ \E f \in Filters, qos \in 0..2 : Subscribe(c, f, qos)
    \/ \E x \in Topics : Publish(c, x)
    \/ \E k \in 1..Window : Ack(c, k) \/ Rec(c, k)

Spec == Init /\ [][Next]_vars

-----------------------------------------------------------------------------
\* The live table never leads a fan-out to a window whose thread has returned or to a
\* descriptor that is not that thread's: every slot has a running owner, and no two
\* slots one descriptor.
LiveOwned ==
  \A i \in 1..MaxLive : live[i].fd # 0 =>
    /\ open[live[i].fd] = live[i].owner
    /\ \E c \in Conns : conn[c].n = live[i].owner /\ conn[c].fd = live[i].fd
    /\ SlotOf(live[i].fd) = {i}

\* A will has one owner: the table, or the thread that took it, or nobody once it was
\* published, so its payload is published and freed once however the connections of one
\* client id come and go; and none is taken on behalf of a connection that has sent
\* DISCONNECT ("not on DISCONNECT", docs/features/mqtt-server-stub.md:29).  A will that
\* another connection of the id has taken before the DISCONNECT is still published.
WillOnce ==
  \A w \in 1..MaxConnects :
    LET stored == {x \in ClientIds : wills[x] = w}
        taken == {c \in Conns : conn[c].will = w}
    IN /\ Cardinality(stored) + Cardinality(taken) <= IF w \in fired THEN 0 ELSE 1
       /\ w \in gone => stored = {}

\* A persistent client that uses its id alone and ends its connections with DISCONNECT
\* or by losing them finds all its granted filters again, up to the table's size.
SessionRestored ==
  \A c \in Conns : At(c, "will") /\ ~conn[c].clean /\ promise[conn[c].cid].ok =>
    conn[c].subs = promise[conn[c].cid].subs
=============================================================================
