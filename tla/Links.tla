------------------------------- MODULE Links --------------------------------
(***************************************************************************)
(* The gateway and the leaf's hub link of one node, beside the relay of    *)
(* its MQTT listener.  Each has tables, locks and sockets of its own: a    *)
(* step is a step of one of them, of several at once, or of something else *)
(* in the node.  Names stand for clusters, addresses for endpoints and     *)
(* also for subjects.                                                      *)
(***************************************************************************)
EXTENDS Relay, TLC

CONSTANTS PeerNames, Addrs, NoName, NoAddr,
          Fds, Ports,          \* descriptor numbers, for the gateway and for the others
          MaxConns, MaxClusters,
          MaxDials, MaxSends, MaxSubs, MaxId, MaxCalls

\* Names and addresses are not the marks for none of them, descriptors are numbers, and
\* the leaf has room for a subscription and an id for it.
ASSUME LinksAssumption ==
  /\ NoName \notin PeerNames /\ NoAddr \notin Addrs
  /\ Fds \subseteq Nat /\ Ports \subseteq Nat /\ MaxConns \in Nat
  /\ {MaxSubs, MaxId} \subseteq Nat \ {0}

VARIABLES
  side,         \* which of the components a behaviour of the run is about
  gConns, gKnown, gSock, gTh, gPeers, gPhase, gUsed,
  hub, subs, pending, nextId, hSock, hTh, hPhase, hUsed

gatewayVars == <<gConns, gKnown, gSock, gTh, gPeers, gPhase, gUsed>>
leafVars == <<hub, subs, pending, nextId, hSock, hTh, hPhase, hUsed>>

Gate == INSTANCE Gateway WITH
  Clusters <- PeerNames, NoCluster <- NoName,
  conns <- gConns, known <- gKnown, sock <- gSock, th <- gTh, peers <- gPeers,
  phase <- gPhase, used <- gUsed
Hub == INSTANCE Leaf WITH
  Subjects <- Addrs, Fds <- Ports,
  sock <- hSock, th <- hTh, phase <- hPhase, used <- hUsed

LinksNext ==
  /\ Gate!Next \/ UNCHANGED gatewayVars
  /\ Hub!Next \/ UNCHANGED leafVars

LinksSpec == Gate!Init /\ Hub!Init /\ [][LinksNext]_<<gatewayVars, leafVars>>

-----------------------------------------------------------------------------
\* What a forward or a broadcast of the gateway writes goes to the cluster it was meant
\* for (module Gateway, cmq_gateway_forward).
ForwardSound == side = "gateway" => Gate!ForwardSound

\* Once a connect has replayed it, the hub holds exactly the leaf's interest (module
\* Leaf, cmq_leaf_connect and cmq_leaf_subscribe).
InterestExact == side = "leaf" => Hub!InterestExact

=============================================================================
