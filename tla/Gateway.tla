------------------------------ MODULE Gateway ------------------------------
(***************************************************************************)
(* Connections to remote clusters (cluster/cmq_gateway.c).  gw->lock makes *)
(* the bookkeeping of a call one step; the dial, and the writes of a       *)
(* forward under the slot's io_lock alone, happen between such steps.      *)
(* A slot that is not empty is connected and has a socket: it is filled    *)
(* and cleared as a whole, so the slot record needs no further flag.       *)
(***************************************************************************)
EXTENDS Integers, Sequences, FiniteSets, FiniteSetsExt

CONSTANTS Clusters, Addrs, NoCluster, NoAddr, Fds, Threads,
          MaxConns,      \* CMQ_GW_MAX_CONNECTIONS
          MaxClusters,   \* CMQ_GW_MAX_CLUSTERS
          MaxDials, MaxSends, MaxTrouble   \* bounds of the model

VARIABLES
  conns,    \* the slots in use: cluster, endpoint and socket
  known,    \* the configured endpoint, cancel_gen and dialing of every cluster
  sock,     \* the sockets by descriptor number, and the cluster at the other end
  th,       \* the threads inside cmq_gateway_connect_remote
  peers,    \* the peers a forward or broadcast has yet to write to
  phase, used

vars == <<conns, known, sock, th, peers, phase, used>>

Idle == [op |-> "idle", name |-> NoCluster, addr |-> NoAddr, gen |-> 0,
         slot |-> 0, fd |-> -1, old |-> FALSE]
Closed == [st |-> "closed", name |-> NoCluster]
Empty == [name |-> NoCluster, addr |-> NoAddr, fd |-> -1]

Spend(what, max) == used[what] < max /\ used' = [used EXCEPT ![what] = @ + 1]
Dead(f) == sock[f].st = "dead"
Known == {c \in Clusters : known[c].addr # NoAddr}
Named(c) == {i \in DOMAIN conns : conns[i].name = c}
EmptySlots == {i \in DOMAIN conns : conns[i].fd < 0}
DeadSlots == {i \in DOMAIN conns : conns[i].fd >= 0 /\ Dead(conns[i].fd)}
HasLivePeer(c) == \E i \in Named(c) : ~Dead(conns[i].fd)

\* gw_slot_close_fd: the socket is closed and the slot emptied, identity included.
Emptied(I) == [i \in DOMAIN conns |-> IF i \in I THEN Empty ELSE conns[i]]
Shut(I) == [f \in Fds |-> IF \E i \in I : conns[i].fd = f THEN Closed ELSE sock[f]]

\* Trailing empty slots are given back.
Trim(c) == SubSeq(c, 1, Max({0} \cup {i \in DOMAIN c : c[i].fd >= 0}))

-----------------------------------------------------------------------------
Init ==
  /\ conns = <<>>
  /\ known = [c \in Clusters |-> [addr |-> NoAddr, gen |-> 0, dialing |-> FALSE]]
  /\ sock = [f \in Fds |-> Closed]
  /\ th = [t \in Threads |-> Idle]
  /\ peers = <<>>
  /\ phase = "run" /\ used = [dials |-> 0, sends |-> 0, trouble |-> 0]

\* A dial of c that a disconnect or a new endpoint has overtaken.
Overtaken(c) == [t \in Threads |-> [th[t] EXCEPT !.old = @ \/ th[t].name = c]]

\* cmq_gateway_add_remote: a new endpoint closes the old connections and cancels
\* the dials under way.
AddRemote(c, a) ==
  LET changed == c \in Known
  IN /\ phase = "run" /\ known[c].addr # a
     /\ changed \/ Cardinality(Known) < MaxClusters
     /\ IF changed THEN Spend("trouble", MaxTrouble) ELSE UNCHANGED used
     /\ known' = [known EXCEPT ![c] =
          IF changed THEN [addr |-> a, gen |-> @.gen + 1, dialing |-> FALSE]
                     ELSE [@ EXCEPT !.addr = a]]
     /\ conns' = Emptied(Named(c)) /\ sock' = Shut(Named(c))
     /\ th' = Overtaken(c)
     /\ UNCHANGED <<peers, phase>>

\* The slot a dial is meant for: one of the cluster that points elsewhere, or, in a
\* full table, the first reusable one, or the first dead one.  0 is any slot.
Elsewhere(c) == {i \in Named(c) : conns[i].addr # known[c].addr}
Reusable(c) == IF EmptySlots \cup Named(c) # {} THEN EmptySlots \cup Named(c) ELSE DeadSlots
MeantFor(c) ==
  CASE Elsewhere(c) # {} -> Min(Elsewhere(c))
    [] Elsewhere(c) = {} /\ Len(conns) >= MaxConns -> Min(Reusable(c))
    [] OTHER -> 0

\* cmq_gateway_connect_remote finds no live connection: its dead ones are closed and
\* a dial begins, unless the table is full of live connections or c is being dialled.
ConnectBegin(t, c) ==
  LET gone == Named(c) \cup (IF MeantFor(c) = 0 THEN {} ELSE {MeantFor(c)})
      free == {f \in Fds : Shut(gone)[f].st = "closed"}
      f == Min(free)
  IN /\ th[t].op = "idle" /\ phase = "run" /\ c \in Known /\ Spend("dials", MaxDials)
     /\ \A i \in Named(c) \ Elsewhere(c) : Dead(conns[i].fd)
     /\ Len(conns) < MaxConns \/ Reusable(c) # {}
     /\ free # {}
     /\ conns' = Emptied(gone)
     /\ IF known[c].dialing
        THEN sock' = Shut(gone) /\ UNCHANGED <<known, th>>
        ELSE /\ known' = [known EXCEPT ![c].dialing = TRUE]
             /\ sock' = [Shut(gone) EXCEPT ![f] = [st |-> "alive", name |-> c]]
             /\ th' = [th EXCEPT ![t] = [op |-> "dial", name |-> c, addr |-> known[c].addr,
                         gen |-> known[c].gen, slot |-> MeantFor(c), fd |-> f, old |-> FALSE]]
     /\ UNCHANGED <<peers, phase>>

DialEnd(t) ==
  /\ known' = [known EXCEPT ![th[t].name].dialing = FALSE]
  /\ th' = [th EXCEPT ![t] = Idle]

\* No connection, a failed handshake, or a dial that was cancelled.
CancelChanged(t) == known[th[t].name].gen # th[t].gen
DialFails(t) ==
  /\ th[t].op = "dial"
  /\ IF CancelChanged(t) THEN UNCHANGED used ELSE Spend("trouble", MaxTrouble)
  /\ sock' = [sock EXCEPT ![th[t].fd] = Closed]
  /\ DialEnd(t)
  /\ UNCHANGED <<conns, peers, phase>>

\* Somebody else's connection is live, the endpoint is another one, or every slot is
\* taken: dead slots of the cluster are closed all the same.
EndpointCurrent(t) == known[th[t].name].addr = th[t].addr
Claimable(c) == EmptySlots \cup Named(c) \cup DeadSlots
PlaceFor(t) ==
  CASE th[t].slot \in Claimable(th[t].name) -> th[t].slot
    [] th[t].slot \notin Claimable(th[t].name) /\ Claimable(th[t].name) # {}
         -> Min(Claimable(th[t].name))
    [] OTHER -> Len(conns) + 1

DialSurplus(t) ==
  LET c == th[t].name
      stale == {i \in Named(c) : Dead(conns[i].fd)}
  IN /\ th[t].op = "dial" /\ ~CancelChanged(t)
     /\ HasLivePeer(c) \/ ~EndpointCurrent(t) \/ PlaceFor(t) > MaxConns
     /\ conns' = Emptied(stale)
     /\ sock' = [Shut(stale) EXCEPT ![th[t].fd] = Closed]
     /\ DialEnd(t)
     /\ UNCHANGED <<peers, phase, used>>

\* gw_unlocked_dial_install: the dead slots of the cluster are closed, then the
\* socket goes where the dial was meant to, else to the first slot it may claim.
DialInstall(t) ==
  LET c == th[t].name
      new == [name |-> c, addr |-> th[t].addr, fd |-> th[t].fd]
      p == PlaceFor(t)
  IN /\ th[t].op = "dial" /\ ~CancelChanged(t) /\ ~HasLivePeer(c) /\ EndpointCurrent(t)
     /\ p <= MaxConns
     /\ conns' = IF p > Len(conns) THEN Append(conns, new)
                 ELSE [Emptied(Named(c)) EXCEPT ![p] = new]
     /\ sock' = Shut(Named(c) \cup ({p} \cap DOMAIN conns))
     /\ DialEnd(t)
     /\ UNCHANGED <<peers, phase, used>>

\* cmq_gateway_disconnect: every slot of the cluster is closed, dials are cancelled.
Disconnect(c) ==
  /\ phase = "run" /\ c \in Known /\ Spend("trouble", MaxTrouble)
  /\ known' = [known EXCEPT ![c].gen = @ + 1, ![c].dialing = FALSE]
  /\ conns' = Trim(Emptied(Named(c))) /\ sock' = Shut(Named(c))
  /\ th' = Overtaken(c)
  /\ UNCHANGED <<peers, phase>>

-----------------------------------------------------------------------------
\* cmq_gateway_forward (to one cluster) and broadcast (to all): the peers are noted
\* under gw->lock and written to later, one by one.
Peer(i) == [slot |-> i, fd |-> conns[i].fd, name |-> conns[i].name]
SendBegin(C) ==
  LET I == {i \in DOMAIN conns : conns[i].name \in C}
  IN /\ peers = <<>> /\ phase = "run" /\ Spend("sends", MaxSends)
     /\ peers' = [j \in 1..Cardinality(I) |->
                    Peer(CHOOSE i \in I : Cardinality({k \in I : k <= i}) = j)]
     /\ UNCHANGED <<conns, known, sock, th, phase>>

\* Mutant: only the descriptor is compared.
SamePeer_FdOnly(p) == p.slot \in DOMAIN conns /\ conns[p.slot].fd = p.fd

\* Under io_lock the slot must still hold the socket and the cluster that were noted.
SamePeer(p) ==
  p.slot \in DOMAIN conns /\ conns[p.slot].fd = p.fd /\ conns[p.slot].name = p.name

\* Written, deferred, or gone meanwhile; a failed write closes and empties the slot.
SendPeer(ok) ==
  /\ peers # <<>>
  /\ LET p == Head(peers)
     IN IF SamePeer(p) /\ ~ok
        THEN /\ IF Dead(p.fd) THEN UNCHANGED used ELSE Spend("trouble", MaxTrouble)
             /\ conns' = Emptied({p.slot}) /\ sock' = Shut({p.slot})
        ELSE ok /\ UNCHANGED <<conns, sock, used>>
  /\ peers' = Tail(peers)
  /\ UNCHANGED <<known, th, phase>>

PeerDies(f) ==
  /\ sock[f].st = "alive" /\ Spend("trouble", MaxTrouble)
  /\ sock' = [sock EXCEPT ![f].st = "dead"]
  /\ UNCHANGED <<conns, known, th, peers, phase>>

\* Destroy turns new calls away, waits for those in flight and closes every slot.
DestroyBegin ==
  /\ phase = "run" /\ phase' = "dying"
  /\ UNCHANGED <<conns, known, sock, th, peers, used>>

DestroyEnd ==
  /\ phase = "dying" /\ peers = <<>> /\ \A t \in Threads : th[t].op = "idle"
  /\ phase' = "freed" /\ conns' = Emptied(DOMAIN conns) /\ sock' = Shut(DOMAIN conns)
  /\ UNCHANGED <<known, th, peers, used>>

Next ==
  \/ \E c \in Clusters, a \in Addrs : AddRemote(c, a)
  \/ \E t \in Threads, c \in Clusters : ConnectBegin(t, c)
  \/ \E t \in Threads : DialFails(t) \/ DialSurplus(t) \/ DialInstall(t)
  \/ \E c \in Clusters : Disconnect(c) \/ SendBegin({c})
  \/ SendBegin(Clusters)
  \/ \E ok \in BOOLEAN : SendPeer(ok)
  \/ \E f \in Fds : PeerDies(f)
  \/ DestroyBegin \/ DestroyEnd

Spec == Init /\ [][Next]_vars

-----------------------------------------------------------------------------
\* Every open socket has one owner, a slot or a dialling thread; a slot's socket is
\* open, leads to the slot's cluster and was dialled at the endpoint configured now;
\* and a cluster has at most one connection, so no broadcast reaches it twice.
LinksOwned ==
  /\ \A f \in Fds :
       Cardinality({i \in DOMAIN conns : conns[i].fd = f})
         + Cardinality({t \in Threads : th[t].op = "dial" /\ th[t].fd = f})
       = IF sock[f].st = "closed" THEN 0 ELSE 1
  /\ \A i \in DOMAIN conns : conns[i].fd >= 0 =>
       /\ sock[conns[i].fd].name = conns[i].name
       /\ conns[i].addr = known[conns[i].name].addr
       /\ Named(conns[i].name) = {i}

\* Whatever passes the check a forward makes before it writes is an open connection
\* of the cluster the frame is for, though slots and descriptor numbers were given
\* to other clusters since the peers were noted.
ForwardSound ==
  \A j \in DOMAIN peers : SamePeer(peers[j]) =>
     sock[peers[j].fd].st # "closed" /\ sock[peers[j].fd].name = peers[j].name

\* A dial that a disconnect, or a new endpoint, has overtaken is not installed.
NoLateInstall ==
  [][\A t \in Threads : th[t].old /\ th'[t].op = "idle" => conns' = conns]_vars

=============================================================================
