------------------------------- MODULE Route -------------------------------
(***************************************************************************)
(* The life of the peer connections in the cluster route pool             *)
(* (cluster/cmq_route.c): the slot table, the configured endpoint of every *)
(* node, the cancel tokens that stop a dial overtaken by a disconnect, and *)
(* the sockets, whose descriptor numbers the kernel hands out again.       *)
(* The pool lock makes the bookkeeping of a call one step; dialling and    *)
(* the handshake run without it, so a connect is a step that begins the    *)
(* dial and a later one that installs what it brought.  A slot's liveness  *)
(* probe is repeated under both locks before the slot is reclaimed, so a   *)
(* reclaim is one step too.  The drain gate is an atomic outside the lock, *)
(* so looking at it and installing are two steps of the lock's holder.     *)
(***************************************************************************)
EXTENDS Integers, Sequences, FiniteSets, FiniteSetsExt

CONSTANTS Nodes, Addrs, NoNode, NoAddr,
          Fds,        \* the descriptor numbers of sockets: 0 is standard input
          Threads,    \* the threads that call connect and add_conn
          MaxConns,   \* CMQ_ROUTE_MAX_CONNS: slots and targets
          MaxTokens,  \* CMQ_ROUTE_MAX_CONNS too, but of the cancel tokens
          MaxWork,    \* bounds of the model: how many peers are dialled, added or
                      \* accepted,
          MaxTrouble, \* how many fail, are disconnected or get a new endpoint,
          MaxEvents   \* and how many there are of both kinds

VARIABLES
  conns,     \* the slots in use, conns[1..conn_count]
  target,    \* the endpoint each node is configured with
  dialing,   \* targets[].dialing
  gen,       \* the cancel tokens; 0 is a node without one
  epoch,     \* cancel_epoch
  sock,      \* the process's sockets, by descriptor number
  th,        \* what each thread holds while it runs without the lock
  phase,     \* run, drain (the dial gate is shut), dying, freed
  work, trouble   \* how much of the bounds is used up

vars == <<conns, target, dialing, gen, epoch, sock, th, phase, work, trouble>>
bounds == <<work, trouble>>

Idle == [op |-> "idle", node |-> NoNode, addr |-> NoAddr, fd |-> -1,
         gen |-> 0, epoch |-> 0, replace |-> 0, old |-> FALSE, passed |-> FALSE]
Closed == [open |-> FALSE, node |-> NoNode, alive |-> FALSE, by |-> "none", ph |-> "none"]
Open(n, by, ph) == [open |-> TRUE, node |-> n, alive |-> TRUE, by |-> by, ph |-> ph]

Slot(n, a, f, up, owned) == [id |-> n, addr |-> a, fd |-> f, up |-> up, owned |-> owned]
Zeroed == Slot(NoNode, NoAddr, 0, FALSE, FALSE)

FreeIn(s) == {f \in Fds : ~s[f].open}
Alive(f) == f \in Fds /\ sock[f].alive
Gated == phase # "run"

\* A thread has passed the checks of its install and still holds the pool lock.
Locked == \E t \in Threads : th[t].passed

-----------------------------------------------------------------------------
\* The slot table.

\* memset clears the whole slot, so a closed slot's fd is 0, not -1.
Wiped(c, I) == IF I = {} THEN c ELSE [i \in DOMAIN c |-> IF i \in I THEN Zeroed ELSE c[i]]

\* conn_drop_fd: an owned socket is closed, a borrowed one only shut down.
Dropped(s, c, I) ==
  IF I = {} THEN s ELSE [f \in Fds |->
     IF \E i \in I : c[i].fd = f /\ c[i].owned THEN Closed
     ELSE IF \E i \in I : c[i].fd = f THEN [s[f] EXCEPT !.alive = FALSE]
     ELSE s[f]]

Put(c, i, slot) == IF i > Len(c) THEN Append(c, slot) ELSE [c EXCEPT ![i] = slot]

Named(c, n) == {i \in DOMAIN c : c[i].id = n}
SlotsOf(f) == {i \in DOMAIN conns : conns[i].fd = f}

DeadSlots(c) == {i \in DOMAIN c : c[i].up /\ c[i].fd >= 0 /\ ~Alive(c[i].fd)}

\* Empty or fd < 0, and no placeholder that is marked connected.
VacantSlots(c) == {i \in DOMAIN c : c[i].fd < 0 /\ ~(c[i].id # NoNode /\ c[i].up)}

\* Where a peer without a slot goes; 0 when the pool is full of live peers.
Place(c) ==
  CASE VacantSlots(c) # {} -> Min(VacantSlots(c))
    [] VacantSlots(c) = {} /\ Len(c) < MaxConns -> Len(c) + 1
    [] VacantSlots(c) = {} /\ Len(c) >= MaxConns /\ DeadSlots(c) # {} -> Min(DeadSlots(c))
    [] OTHER -> 0

\* A pool so full that even a dial is pointless: neither a slot of the node nor an empty one.
NoRoom(c, n) ==
  /\ Len(c) >= MaxConns
  /\ \A i \in DOMAIN c : c[i].id \notin {n, NoNode} /\ (c[i].up \/ c[i].fd >= 0)

\* The first slot the full-pool scan stops at: not connected, or connected and dead.
Yielding(c) == {i \in DOMAIN c : ~c[i].up \/ c[i].fd < 0} \cup DeadSlots(c)

\* Trailing slots that are empty are given back.
Trim(c) ==
  SubSeq(c, 1, Max({0} \cup {i \in DOMAIN c : c[i].id # NoNode \/ c[i].up \/ c[i].fd >= 0}))

-----------------------------------------------------------------------------
\* Cancel tokens.

Tracked == {n \in Nodes : gen[n] > 0}
TableFull == Cardinality(Tracked) >= MaxTokens

\* A node with no token when the table is full cancels every dial there is.
Bumped(n) == IF gen[n] = 0 /\ TableFull THEN Tracked ELSE {n}

Flooded(n) == gen[n] = 0 /\ TableFull
BumpedGen(n) == [m \in Nodes |-> IF m \in Bumped(n) THEN gen[m] + 1 ELSE gen[m]]
BumpedEpoch(n) == IF Flooded(n) THEN epoch + 1 ELSE epoch
BumpedDialing(n) == [m \in Nodes |-> dialing[m] /\ m # n /\ ~Flooded(n)]

BumpCancel(n) ==
  gen' = BumpedGen(n) /\ epoch' = BumpedEpoch(n) /\ dialing' = BumpedDialing(n)

\* The bounds of the model.
Left(w, f) == /\ work + w <= MaxWork /\ trouble + f <= MaxTrouble
              /\ work + trouble + w + f <= MaxEvents
Works == Left(1, 0) /\ work' = work + 1 /\ UNCHANGED trouble
Fails == Left(0, 1) /\ trouble' = trouble + 1 /\ UNCHANGED work

\* The dials for a node that a disconnect or a new endpoint overtakes.
Overtaken(n) == [t \in Threads |-> [th[t] EXCEPT !.old = @ \/ th[t].node = n]]

\* Mutant: the epoch is not compared.
CancelChanged_NoEpoch(h) == gen[h.node] # h.gen
CancelChanged(h) == epoch # h.epoch \/ gen[h.node] # h.gen

-----------------------------------------------------------------------------
Init ==
  /\ conns = <<>>
  /\ target = [n \in Nodes |-> NoAddr]
  /\ dialing = [n \in Nodes |-> FALSE]
  /\ gen = [n \in Nodes |-> 0] /\ epoch = 0
  /\ sock = [f \in Fds |-> Closed]
  /\ th = [t \in Threads |-> Idle]
  /\ phase = "run"
  /\ work = 0 /\ trouble = 0

\* The part of cmq_route_connect under the lock: publish the endpoint, keep a
\* live peer, reclaim a dead one, make sure there is room, begin the dial.
ConnectBegin(t, n, a) ==
  LET moved == target[n] \notin {NoAddr, a}
      cut == IF moved THEN Named(conns, n) ELSE {}
      c1 == Wiped(conns, cut)
      mine == {i \in Named(c1, n) : c1[i].fd >= 0}
      first == {i \in mine : \A j \in mine : i <= j}
      kept == {i \in first : Alive(c1[i].fd) /\ c1[i].addr \in {NoAddr, a}}
      c2 == Wiped(c1, first \ kept)
      yields == IF kept = {} /\ NoRoom(c2, n) THEN Yielding(c2) ELSE {}
      spent == {i \in yields \cap DeadSlots(c2) : \A j \in yields : i <= j}
      gone == cut \cup (first \ kept) \cup spent
      s1 == Dropped(sock, conns, gone)
      d1 == IF moved THEN BumpedDialing(n) ELSE dialing
      o1 == IF moved THEN Overtaken(n) ELSE th
      dials == kept = {} /\ (NoRoom(c2, n) => yields # {}) /\ ~d1[n] /\ FreeIn(s1) # {}
      f == Min(FreeIn(s1))
  IN /\ th[t].op = "idle" /\ phase \in {"run", "drain"}
     /\ Left(1, IF moved THEN 1 ELSE 0) /\ work' = work + 1
     /\ target[n] = NoAddr => Cardinality({m \in Nodes : target[m] # NoAddr}) < MaxConns
     /\ target' = [target EXCEPT ![n] = a]
     /\ conns' = Wiped(conns, gone)
     /\ gen' = IF moved THEN BumpedGen(n) ELSE gen
     /\ epoch' = IF moved THEN BumpedEpoch(n) ELSE epoch
     /\ dialing' = IF dials THEN [d1 EXCEPT ![n] = TRUE] ELSE d1
     /\ sock' = IF dials THEN [s1 EXCEPT ![f] = Open(n, "pool", "none")] ELSE s1
     /\ th' = IF dials
              THEN [o1 EXCEPT ![t] = [Idle EXCEPT !.op = "connect", !.node = n, !.addr = a,
                                        !.fd = f, !.gen = gen'[n], !.epoch = epoch']]
              ELSE o1
     /\ trouble' = IF moved THEN trouble + 1 ELSE trouble
     /\ UNCHANGED phase

\* The thread gives up what it dialled: close, and let the node be dialled again.
GiveUp(t) ==
  /\ sock' = [f \in Fds |-> IF f = th[t].fd THEN Closed ELSE sock[f]]
  /\ dialing' = [dialing EXCEPT ![th[t].node] = @ /\ th[t].op # "connect"]
  /\ th' = [th EXCEPT ![t] = Idle]
  /\ UNCHANGED <<conns, target, gen, epoch, phase, bounds>>

\* TCP connect or the CONNECT/CONNACK handshake failed or timed out.
DialFails(t) == th[t].op # "idle" /\ GiveUp(t)

\* After the handshake, under the lock: a disconnect, a new endpoint or the drain in the
\* meantime bars the install.
Barred(h) ==
  \/ Gated \/ CancelChanged(h)
  \/ h.op = "connect" /\ target[h.node] # h.addr
Check(t) ==
  /\ th[t].op # "idle"
  /\ \/ Barred(th[t]) /\ GiveUp(t)
     \/ /\ ~Barred(th[t]) /\ th' = [th EXCEPT ![t].passed = TRUE]
        /\ UNCHANGED <<conns, target, dialing, gen, epoch, sock, phase, bounds>>

\* Put the thread's socket into slot i, after closing the slots in gone.
InstallAt(t, i, gone) ==
  LET h == th[t]
      s1 == Dropped(sock, conns, gone)
  IN /\ conns' = Put(Wiped(conns, gone), i, Slot(h.node, h.addr, h.fd, TRUE, h.fd >= 0))
     /\ sock' = s1
     /\ dialing' = [dialing EXCEPT ![h.node] = @ /\ h.op # "connect"]
     /\ th' = [th EXCEPT ![t] = Idle]
     /\ UNCHANGED <<target, gen, epoch, phase, bounds>>

\* The part of cmq_route_connect after the checks: slots of the peer in the order of the
\* table, dead ones reclaimed, until one is live or has no socket.
ConnectInstall(t) ==
  LET h == th[t]
      named == Named(conns, h.node)
      dead == {i \in named : conns[i].fd >= 0
                 /\ ~(Alive(conns[i].fd) /\ conns[i].addr \in {NoAddr, h.addr})}
      solid == named \ dead
      gone == {i \in dead : \A j \in solid : i < j}
      c1 == Wiped(conns, gone)
      at == IF solid # {} THEN Min(solid) ELSE Place(c1)
  IN /\ h.op = "connect" /\ h.passed
     /\ \/ solid # {} /\ conns[at].fd < 0 /\ InstallAt(t, at, gone \cup {at})
        \/ solid = {} /\ at > 0
           /\ InstallAt(t, at, gone \cup ({at} \cap DOMAIN conns))
        \/ /\ (solid # {} /\ conns[at].fd >= 0) \/ at = 0
           /\ conns' = c1
           /\ sock' = [Dropped(sock, conns, gone) EXCEPT ![h.fd] = Closed]
           /\ dialing' = [dialing EXCEPT ![h.node] = FALSE]
           /\ th' = [th EXCEPT ![t] = Idle]
           /\ UNCHANGED <<target, gen, epoch, phase, bounds>>

\* cmq_route_add_conn takes a connected socket, or none for a placeholder; a
\* full pool is refused before the handshake.
AddBegin(t, n, given) ==
  LET dead == {i \in DOMAIN conns : conns[i].id = NoNode \/ (~conns[i].up /\ conns[i].fd < 0)}
      tight == Named(conns, n) = {} /\ dead = {} /\ Len(conns) >= MaxConns
      spent == {i \in DeadSlots(conns) : tight /\ \A j \in Yielding(conns) : i <= j}
      s1 == Dropped(sock, conns, spent)
      f == IF given THEN Min(FreeIn(sock)) ELSE -1
  IN /\ th[t].op = "idle" /\ phase = "run" /\ Works
     /\ given => FreeIn(sock) # {}
     /\ tight => Yielding(conns) # {}
     /\ conns' = Wiped(conns, spent)
     /\ sock' = IF given THEN [s1 EXCEPT ![f] = Open(n, "pool", "none")] ELSE s1
     /\ th' = [th EXCEPT ![t] = [Idle EXCEPT !.op = "add", !.node = n, !.fd = f,
                                   !.gen = gen[n], !.epoch = epoch,
                                   !.replace = Min(Named(conns, n) \cup {MaxConns + 1})]]
     /\ UNCHANGED <<target, dialing, gen, epoch, phase>>

\* A staged or a live peer of the node is kept and the new socket closed.
AddInstall(t) ==
  LET h == th[t]
      named == Named(conns, h.node)
      at == IF h.replace \in named THEN h.replace
            ELSE IF named # {} THEN Min(named) ELSE Place(conns)
      held == named # {} /\ conns[at].fd >= 0
      kept == held /\ (~conns[at].up \/ Alive(conns[at].fd))
  IN /\ h.op = "add" /\ h.passed
     /\ \/ (at = 0 \/ kept) /\ GiveUp(t)
        \/ at > 0 /\ ~kept /\ InstallAt(t, at, {at} \cap DOMAIN conns)

-----------------------------------------------------------------------------
\* The server's side of a peer: an inbound client borrows its socket to the
\* pool, an outbound one is adopted from it.

\* Unmark and detach find the slot by descriptor number.
Detached(c, f) ==
  [i \in DOMAIN c |-> IF i \in SlotsOf(f)
                      THEN [c[i] EXCEPT !.fd = -1, !.up = FALSE, !.owned = FALSE, !.id = NoNode]
                      ELSE c[i]]

\* An accepted CONNECT of a peer: cmq_route_attach_inbound stages it, unless the
\* node has a live or a staged peer already; a refused client is shut down.
AttachInbound(n) ==
  LET named == Named(conns, n)
      at == IF named # {} THEN Min(named) ELSE Place(conns)
      kept == named # {} /\ conns[at].fd >= 0 /\ (~conns[at].up \/ Alive(conns[at].fd))
      gone == {at} \cap DOMAIN conns
      s1 == Dropped(sock, conns, gone)
      f == Min(FreeIn(sock))
  IN /\ phase \in {"run", "drain"} /\ FreeIn(sock) # {} /\ Works
     /\ \/ /\ ~Gated /\ ~kept /\ at > 0
           /\ conns' = Put(Wiped(conns, gone), at, Slot(n, NoAddr, f, FALSE, FALSE))
           /\ sock' = [s1 EXCEPT ![f] = Open(n, "server", "staged")]
        \/ /\ Gated \/ kept \/ at = 0
           /\ sock' = [sock EXCEPT ![f] = [Open(n, "server", "closing") EXCEPT !.alive = FALSE]]
           /\ UNCHANGED conns
     /\ UNCHANGED <<target, dialing, gen, epoch, th, phase>>

\* The CONNACK is on the wire: promote the slot, or detach and shut down.
MarkConnected(f) ==
  /\ sock[f].ph = "staged"
  /\ IF ~Gated /\ SlotsOf(f) # {}
     THEN /\ conns' = [conns EXCEPT ![Min(SlotsOf(f))].up = TRUE]
          /\ sock' = [sock EXCEPT ![f].ph = "up"]
     ELSE /\ conns' = Detached(conns, f)
          /\ sock' = [sock EXCEPT ![f].ph = "closing", ![f].alive = FALSE]
  /\ UNCHANGED <<target, dialing, gen, epoch, th, phase, bounds>>

\* The server decides to close the client: it stops being a broadcast target.
ForceClosing(f) ==
  /\ sock[f].ph = "up"
  /\ conns' = [i \in DOMAIN conns |-> IF i \in SlotsOf(f) THEN [conns[i] EXCEPT !.up = FALSE]
                                      ELSE conns[i]]
  /\ sock' = [sock EXCEPT ![f].ph = "closing"]
  /\ UNCHANGED <<target, dialing, gen, epoch, th, phase>> /\ Fails

\* client_teardown: detach from the pool, then close.
Teardown(f) ==
  /\ sock[f].by = "server" /\ (sock[f].ph = "closing" \/ ~sock[f].alive)
  /\ conns' = Detached(conns, f)
  /\ sock' = [sock EXCEPT ![f] = Closed]
  /\ UNCHANGED <<target, dialing, gen, epoch, th, phase, bounds>>

\* route_bind_egress_reader: a reader client takes over an owned socket.
AdoptFd(i) ==
  /\ i \in DOMAIN conns /\ conns[i].owned /\ conns[i].id # NoNode
  /\ conns' = [conns EXCEPT ![i].owned = FALSE]
  /\ sock' = [sock EXCEPT ![conns[i].fd].by = "server", ![conns[i].fd].ph = "up"]
  /\ UNCHANGED <<target, dialing, gen, epoch, th, phase, bounds>>

\* The reader could not be bound: the egress is dropped if it is still the owned one.
DisconnectIfOwned(i) ==
  /\ i \in DOMAIN conns /\ conns[i].owned /\ conns[i].id # NoNode
  /\ BumpCancel(conns[i].id)
  /\ conns' = Trim(Wiped(conns, {i}))
  /\ sock' = Dropped(sock, conns, {i})
  /\ UNCHANGED <<target, th, phase>> /\ Fails

-----------------------------------------------------------------------------
\* Disconnect closes every slot of the node and cancels its dials.
Disconnect(n) ==
  /\ phase \in {"run", "drain"} /\ BumpCancel(n)
  /\ conns' = Trim(Wiped(conns, Named(conns, n)))
  /\ sock' = Dropped(sock, conns, Named(conns, n))
  /\ th' = Overtaken(n)
  /\ UNCHANGED <<target, phase>> /\ Fails

\* A broadcast's write failed: the slot is emptied under its io lock alone.
WriteFails(i) ==
  /\ i \in DOMAIN conns /\ conns[i].up /\ conns[i].fd >= 0
  /\ conns' = [conns EXCEPT ![i] = [@ EXCEPT !.fd = -1, !.up = FALSE, !.owned = FALSE,
                                            !.id = NoNode]]
  /\ sock' = Dropped(sock, conns, {i})
  /\ UNCHANGED <<target, dialing, gen, epoch, th, phase>> /\ Fails

\* live_count, get_conn and peer_live reclaim a slot whose peer is gone.
Reclaim(i) ==
  /\ i \in DOMAIN conns /\ conns[i].id # NoNode /\ conns[i].fd >= 0 /\ ~Alive(conns[i].fd)
  /\ conns' = Wiped(conns, {i})
  /\ sock' = Dropped(sock, conns, {i})
  /\ UNCHANGED <<target, dialing, gen, epoch, th, phase, bounds>>

\* The peer of a socket closes its end.
PeerDies(f) ==
  /\ sock[f].alive
  /\ sock' = [sock EXCEPT ![f].alive = FALSE]
  /\ UNCHANGED <<conns, target, dialing, gen, epoch, th, phase>> /\ Fails

Drain ==
  /\ phase = "run" /\ phase' = "drain"
  /\ UNCHANGED <<conns, target, dialing, gen, epoch, sock, th, bounds>>

\* Destroy refuses new calls, waits for those in flight, then closes every slot;
\* the server has torn its clients down by then.
DestroyBegin ==
  /\ phase = "drain" /\ phase' = "dying"
  /\ \A f \in Fds : sock[f].by # "server"
  /\ UNCHANGED <<conns, target, dialing, gen, epoch, sock, th, bounds>>

DestroyEnd ==
  /\ phase = "dying" /\ \A t \in Threads : th[t].op = "idle"
  /\ phase' = "freed"
  /\ conns' = <<>>
  /\ sock' = Dropped(sock, conns, DOMAIN conns)
  /\ UNCHANGED <<target, dialing, gen, epoch, th, bounds>>

\* The calls that take the pool lock.
LockedCalls ==
  \/ \E t \in Threads, n \in Nodes, a \in Addrs : ConnectBegin(t, n, a)
  \/ \E t \in Threads, n \in Nodes, given \in BOOLEAN : AddBegin(t, n, given)
  \/ \E t \in Threads : DialFails(t) \/ Check(t)
  \/ \E n \in Nodes : AttachInbound(n) \/ Disconnect(n)
  \/ \E f \in Fds : MarkConnected(f) \/ ForceClosing(f) \/ Teardown(f)
  \/ \E i \in 1..MaxConns : AdoptFd(i) \/ DisconnectIfOwned(i) \/ Reclaim(i)

Next ==
  \/ ~Locked /\ LockedCalls
  \/ \E t \in Threads : ConnectInstall(t) \/ AddInstall(t)
  \/ \E f \in Fds : PeerDies(f)
  \/ \E i \in 1..MaxConns : WriteFails(i)
  \/ Drain \/ DestroyBegin \/ DestroyEnd

Spec == Init /\ [][Next]_vars

-----------------------------------------------------------------------------
\* A descriptor number in the pool always means the socket that was put there:
\* it is open, it leads to the node the slot names, and the party that will
\* close it is the one the slot says.  A socket the pool owns is in one slot or
\* in the hands of one dialling thread, so it is closed once and never leaks.
SocketsOwned ==
  /\ \A i \in DOMAIN conns : conns[i].fd \in Fds =>
       /\ sock[conns[i].fd].open /\ sock[conns[i].fd].node = conns[i].id
       /\ sock[conns[i].fd].by = IF conns[i].owned THEN "pool" ELSE "server"
  /\ \A f \in Fds : sock[f].by = "pool" =>
       Cardinality(SlotsOf(f)) + Cardinality({t \in Threads : th[t].fd = f}) = 1

\* No node has two slots with a socket: a broadcast would reach it twice.  A
\* slot dialled to an endpoint is on the endpoint the node is configured with.
OneLink ==
  /\ \A i, j \in DOMAIN conns :
       conns[i].id = conns[j].id /\ conns[i].id # NoNode
         /\ conns[i].fd >= 0 /\ conns[j].fd >= 0 => i = j
  /\ \A i \in DOMAIN conns : conns[i].id # NoNode /\ conns[i].addr # NoAddr =>
       conns[i].addr = target[conns[i].id]

\* A dial or a handshake that a disconnect or a new endpoint overtook is never
\* installed, nor is one that had not passed its last look at the drain gate when this
\* was shut; the one that had, by then in the lock, still is.
NoResurrect ==
  [][\A t \in Threads : th[t].fd >= 0 /\ (th[t].old \/ (Gated /\ ~th[t].passed)) =>
       \A i \in DOMAIN conns' : conns'[i].fd # th[t].fd]_vars

=============================================================================
