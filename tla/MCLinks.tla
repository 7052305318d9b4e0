------------------------------ MODULE MCLinks -------------------------------
(***************************************************************************)
(* The connections to other programs for model checking: the route pool,   *)
(* the gateway, the leaf's hub link, the hub's table of leaves, the MQTT   *)
(* bridge, and the MQTT listener with its relay and its packet formats.    *)
(* Each has tables, locks and sockets of its own, so a behaviour picks one *)
(* of them and leaves the others as they start.  The model values are      *)
(* shared: names stand for peers, addresses also for subjects, client ids  *)
(* and buffers, threads for connection threads too.                        *)
(***************************************************************************)
EXTENDS Links

CONSTANTS MaxWork, MaxPackets, Sizes, Totals, Levels, Chars, MaxLevels, ItemSizes, MaxItems

VARIABLES
  rConns, rTarget, rDialing, rGen, rEpoch, rSock, rTh, rPhase, rWork, rTrouble,
  leaves, aGen, aEpoch, aSock, aTh, aPhase, aUsed,
  br, maps, pid, bSock, bTh, bPhase, bUsed,
  conn, open, live, wills, sessions, fired, gone, promise, mUsed,
  input

routeVars == <<rConns, rTarget, rDialing, rGen, rEpoch, rSock, rTh, rPhase, rWork, rTrouble>>
acceptVars == <<leaves, aGen, aEpoch, aSock, aTh, aPhase, aUsed>>
bridgeVars == <<br, maps, pid, bSock, bTh, bPhase, bUsed>>
mqttVars == <<conn, open, live, wills, sessions, fired, gone, promise, mUsed>>

Pool == INSTANCE Route WITH
  Nodes <- PeerNames, NoNode <- NoName, Fds <- Ports, MaxTokens <- 1, MaxEvents <- 4,
  conns <- rConns, target <- rTarget, dialing <- rDialing, gen <- rGen, epoch <- rEpoch,
  sock <- rSock, th <- rTh, phase <- rPhase, work <- rWork, trouble <- rTrouble
Leaves == INSTANCE LeafAccept WITH
  LeafIds <- PeerNames, NoLeaf <- NoName, MaxLeaves <- MaxConns, MaxTokens <- 1,
  MaxAccepts <- MaxDials,
  gen <- aGen, epoch <- aEpoch, sock <- aSock, th <- aTh, phase <- aPhase, used <- aUsed
Out == INSTANCE Bridge WITH
  Subjects <- {1}, MqttTopics <- {1, 2}, Fds <- Ports, MaxMaps <- 1, PidMax <- 2,
  MaxCalls <- 3, sock <- bSock, th <- bTh, phase <- bPhase, used <- bUsed
Broker == INSTANCE Mqtt WITH
  Conns <- Threads, ClientIds <- Addrs, NoId <- NoAddr, Topics <- {1}, Filters <- {{1}},
  Fds <- Ports, MaxLive <- 2, MaxSubs <- 1, MaxSessions <- 1, Window <- 1,
  MaxConnects <- MaxDials, MaxTrouble <- 2, used <- mUsed
Wire == INSTANCE MqttWire

MCInit ==
  /\ side \in {"route", "gateway", "leaf", "accept", "bridge", "mqtt", "relay", "wire"}
  /\ Pool!Init /\ Gate!Init /\ Hub!Init /\ Leaves!Init
  /\ Out!Init /\ Broker!Init /\ Init /\ Wire!Init

RouteNext == /\ side = "route" /\ Pool!Next
             /\ UNCHANGED <<side, gatewayVars, leafVars, acceptVars,
                             bridgeVars, mqttVars, vars, input>>
GatewayNext == /\ side = "gateway" /\ Gate!Next
               /\ UNCHANGED <<side, routeVars, leafVars, acceptVars,
                               bridgeVars, mqttVars, vars, input>>
LeafNext == /\ side = "leaf" /\ Hub!Next
            /\ UNCHANGED <<side, routeVars, gatewayVars, acceptVars,
                            bridgeVars, mqttVars, vars, input>>
AcceptNext == /\ side = "accept" /\ Leaves!Next
              /\ UNCHANGED <<side, routeVars, gatewayVars, leafVars,
                              bridgeVars, mqttVars, vars, input>>
BridgeNext == /\ side = "bridge" /\ Out!Next
              /\ UNCHANGED <<side, routeVars, gatewayVars, leafVars,
                              acceptVars, mqttVars, vars, input>>
MqttNext == /\ side = "mqtt" /\ Broker!Next
            /\ UNCHANGED <<side, routeVars, gatewayVars, leafVars,
                            acceptVars, bridgeVars, vars, input>>
RelayNext == /\ side = "relay" /\ Next
             /\ UNCHANGED <<side, routeVars, gatewayVars, leafVars,
                             acceptVars, bridgeVars, mqttVars, input>>
WireNext == /\ side = "wire" /\ Wire!Next
            /\ UNCHANGED <<side, routeVars, gatewayVars, leafVars, acceptVars,
                            bridgeVars, mqttVars, vars>>
MCNext == \/ RouteNext \/ GatewayNext \/ LeafNext \/ AcceptNext
          \/ BridgeNext \/ MqttNext \/ RelayNext \/ WireNext

Sym == Permutations(Threads) \cup Permutations(PeerNames) \cup Permutations(Addrs)

-----------------------------------------------------------------------------
\* Every open socket of the route pool, the gateway, the hub link, the leaf table, the
\* bridge and the MQTT listener has exactly one owner, no slot holds a closed one, and
\* no two slots of the pool lead to one peer (route_slot_close, gw_slot_claim_install,
\* leaf_hub_drop, leaf_reclaim_one_sticky_dead, mqtt_disconnect_unlocked,
\* cmq_mqtt_session_detach).
LinksOwned ==
  CASE side = "route" -> Pool!SocketsOwned /\ Pool!OneLink
    [] side = "gateway" -> Gate!LinksOwned
    [] side = "leaf" -> Hub!SocketsOwned
    [] side = "accept" -> Leaves!LeavesOwned
    [] side = "bridge" -> Out!BridgeOwned
    [] side = "mqtt" -> Broker!LiveOwned
    [] OTHER -> TRUE

\* No dial or handshake that a disconnect, a removal or a new endpoint overtook installs
\* its connection afterwards (route_cancel_changed, gw_cluster_cancel_changed,
\* leaf_cancel_changed, hub_gen of the leaf, cancel_gen of the bridge).
NoResurrect ==
  /\ Pool!NoResurrect /\ Gate!NoLateInstall /\ Hub!NoResurrect
  /\ Leaves!NoLateAccept /\ Out!BridgeStaysDown

\* A persistent MQTT client finds its filters again (module Mqtt,
\* cmq_mqtt_session_save and cmq_mqtt_session_attach).
SessionRestored == side = "mqtt" => Broker!SessionRestored

\* A last will is published at most once, its payload has one owner, and no will of a
\* client that took its leave is still in the table (module Mqtt, cmq_mqtt_will_store,
\* cmq_mqtt_will_take and cmq_mqtt_will_clear).
WillOnce == side = "mqtt" => Broker!WillOnce

\* What is written is read back, and a filter matches what MQTT says it does (module
\* MqttWire, decode_remaining_length, cmq_mqtt_publish_payload_off,
\* cmq_mqtt_topic_to_subject, cmq_mqtt_topic_match).
WireSound == side = "wire" => Wire!PacketsReadBack /\ Wire!MatchExact
=============================================================================
