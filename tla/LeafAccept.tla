----------------------------- MODULE LeafAccept -----------------------------
(***************************************************************************)
(* The hub's side of leaf nodes (cluster/cmq_leaf.c): the table of         *)
(* accepted leaves.  The handshake of an accept runs without leaf->lock,   *)
(* and a remove may come meanwhile: every remove moves a cancel token on.  *)
(***************************************************************************)
EXTENDS Integers, Sequences, FiniteSets, FiniteSetsExt, SequencesExt

CONSTANTS LeafIds, NoLeaf, Fds, Threads,
          MaxLeaves,                \* CMQ_LEAF_MAX_CONNECTIONS, of leaves
          MaxTokens,                \* and of cancel tokens
          MaxAccepts, MaxTrouble    \* bounds of the model

VARIABLES
  leaves,   \* the array, compacted: leaf_id and fd, -1 for a placeholder
  gen,      \* the cancel tokens; 0 is an id without one
  epoch,    \* cancel_epoch
  sock,     \* closed, alive or dead, by descriptor number
  th,       \* the threads inside cmq_leaf_accept
  phase, used

vars == <<leaves, gen, epoch, sock, th, phase, used>>

Idle == [op |-> "idle", id |-> NoLeaf, fd |-> -1, gen |-> 0, epoch |-> 0, old |-> FALSE]

Spend(what, max) == used[what] < max /\ used' = [used EXCEPT ![what] = @ + 1]
Shut(s, f) == IF f = -1 THEN s ELSE [s EXCEPT ![f] = "closed"]
Held(l, id) == {i \in DOMAIN l : l[i].id = id}
DeadLeaves(l) == {i \in DOMAIN l : l[i].fd >= 0 /\ sock[l[i].fd] = "dead"}

\* leaf_ensure_accept_slot: in a full table without the id, the first dead leaf goes.
Evicted(id) ==
  IF Len(leaves) >= MaxLeaves /\ Held(leaves, id) = {} THEN DeadLeaves(leaves) ELSE {}
Ensured(id) == IF Evicted(id) = {} THEN leaves ELSE RemoveAt(leaves, Min(Evicted(id)))
\* Mutant: the evicted leaf keeps its socket open.
EnsuredSock_Leaks(id) == sock
EnsuredSock(id) == IF Evicted(id) = {} THEN sock ELSE Shut(sock, leaves[Min(Evicted(id))].fd)
Room(id) == Len(Ensured(id)) < MaxLeaves \/ Held(leaves, id) # {}

\* leaf_bump_cancel: without a free token every accept there is gets cancelled.
Tracked == {id \in LeafIds : gen[id] > 0}
Flooded(id) == gen[id] = 0 /\ Cardinality(Tracked) >= MaxTokens
Bumped(id) == IF Flooded(id) THEN Tracked ELSE {id}
CancelChanged(t) == epoch # th[t].epoch \/ gen[th[t].id] # th[t].gen

-----------------------------------------------------------------------------
Init ==
  /\ leaves = <<>> /\ gen = [id \in LeafIds |-> 0] /\ epoch = 0
  /\ sock = [f \in Fds |-> "closed"]
  /\ th = [t \in Threads |-> Idle]
  /\ phase = "run" /\ used = [accepts |-> 0, trouble |-> 0]

\* A new socket, or a placeholder, is offered; the table may make room for it.
AcceptBegin(t, id, f) ==
  /\ th[t].op = "idle" /\ phase = "run" /\ Spend("accepts", MaxAccepts)
  /\ f >= 0 => sock[f] = "closed"
  /\ leaves' = Ensured(id)
  /\ IF Room(id)
     THEN /\ sock' = IF f >= 0 THEN [EnsuredSock(id) EXCEPT ![f] = "alive"] ELSE EnsuredSock(id)
          /\ th' = [th EXCEPT ![t] = [op |-> "accept", id |-> id, fd |-> f,
                                      gen |-> gen[id], epoch |-> epoch, old |-> FALSE]]
     ELSE sock' = EnsuredSock(id) /\ UNCHANGED th
  /\ UNCHANGED <<gen, epoch, phase>>

HandshakeFails(t) ==
  /\ th[t].op = "accept" /\ th[t].fd >= 0 /\ Spend("trouble", MaxTrouble)
  /\ sock' = Shut(sock, th[t].fd)
  /\ th' = [th EXCEPT ![t] = Idle]
  /\ UNCHANGED <<leaves, gen, epoch, phase>>

\* A remove came meanwhile, or the table has filled up.
AcceptRefused(t) ==
  /\ th[t].op = "accept" /\ (CancelChanged(t) \/ ~Room(th[t].id))
  /\ leaves' = IF CancelChanged(t) THEN leaves ELSE Ensured(th[t].id)
  /\ sock' = Shut(IF CancelChanged(t) THEN sock ELSE EnsuredSock(th[t].id), th[t].fd)
  /\ th' = [th EXCEPT ![t] = Idle]
  /\ UNCHANGED <<gen, epoch, phase, used>>

\* The same id again takes over its entry and closes the socket that was there.
AcceptInstall(t) ==
  LET id == th[t].id
      mine == Held(leaves, id)
      i == Min(mine)
  IN /\ th[t].op = "accept" /\ ~CancelChanged(t) /\ Room(id)
     /\ IF mine # {}
        THEN /\ leaves' = [leaves EXCEPT ![i].fd = th[t].fd]
             /\ sock' = Shut(sock, leaves[i].fd)
        ELSE /\ leaves' = Append(Ensured(id), [id |-> id, fd |-> th[t].fd])
             /\ sock' = EnsuredSock(id)
     /\ th' = [th EXCEPT ![t] = Idle]
     /\ UNCHANGED <<gen, epoch, phase, used>>

\* cmq_leaf_remove: the token moves on whether or not the leaf is in the table.
RemoveLeaf(id) ==
  LET mine == Held(leaves, id)
  IN /\ phase = "run" /\ Spend("trouble", MaxTrouble)
     /\ gen' = [x \in LeafIds |-> IF x \in Bumped(id) THEN gen[x] + 1 ELSE gen[x]]
     /\ epoch' = IF Flooded(id) THEN epoch + 1 ELSE epoch
     /\ leaves' = IF mine = {} THEN leaves ELSE RemoveAt(leaves, Min(mine))
     /\ sock' = IF mine = {} THEN sock ELSE Shut(sock, leaves[Min(mine)].fd)
     /\ th' = [t \in Threads |-> [th[t] EXCEPT !.old = @ \/ (th[t].op = "accept" /\ th[t].id = id)]]
     /\ UNCHANGED phase

LeafDies(f) ==
  /\ sock[f] = "alive" /\ Spend("trouble", MaxTrouble)
  /\ sock' = [sock EXCEPT ![f] = "dead"]
  /\ UNCHANGED <<leaves, gen, epoch, th, phase>>

\* Destroy turns new calls away, waits for those in flight and closes every leaf.
DestroyBegin ==
  /\ phase = "run" /\ phase' = "dying"
  /\ UNCHANGED <<leaves, gen, epoch, sock, th, used>>

DestroyEnd ==
  /\ phase = "dying" /\ \A t \in Threads : th[t].op = "idle"
  /\ phase' = "freed" /\ leaves' = <<>>
  /\ sock' = [f \in Fds |-> IF \E i \in DOMAIN leaves : leaves[i].fd = f
                            THEN "closed" ELSE sock[f]]
  /\ UNCHANGED <<gen, epoch, th, used>>

Next ==
  \/ \E t \in Threads :
       \/ \E id \in LeafIds, f \in Fds \cup {-1} : AcceptBegin(t, id, f)
       \/ HandshakeFails(t) \/ AcceptRefused(t) \/ AcceptInstall(t)
  \/ \E id \in LeafIds : RemoveLeaf(id)
  \/ \E f \in Fds : LeafDies(f)
  \/ DestroyBegin \/ DestroyEnd

Spec == Init /\ [][Next]_vars

-----------------------------------------------------------------------------
\* One entry per leaf id, one owner per open socket (an entry or an accept under
\* way), and no entry or accept that refers to a closed number, through takeovers
\* by the same id, evictions of dead leaves and removes.
LeavesOwned ==
  /\ Len(leaves) <= MaxLeaves
  /\ \A i, j \in DOMAIN leaves : leaves[i].id = leaves[j].id => i = j
  /\ \A f \in Fds :
       Cardinality({i \in DOMAIN leaves : leaves[i].fd = f})
         + Cardinality({t \in Threads : th[t].op = "accept" /\ th[t].fd = f})
       = IF sock[f] = "closed" THEN 0 ELSE 1

\* An accept whose leaf was removed during the handshake is never installed, even
\* when the leaf had no token and the table of tokens was full.
NoLateAccept ==
  [][\A t \in Threads : th[t].old /\ th'[t].op = "idle" => leaves' = leaves]_vars

=============================================================================
