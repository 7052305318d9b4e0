------------------------------- MODULE Bridge -------------------------------
(***************************************************************************)
(* The outgoing MQTT bridge (enterprise/cmq_mqtt.c): one connection to a   *)
(* broker, dialled without the lock; a table of subject-to-topic mappings; *)
(* and publish, which notes the descriptor under the lock, writes to it    *)
(* without the lock and looks at the bridge again afterwards.              *)
(***************************************************************************)
EXTENDS Integers, Sequences, FiniteSets, FiniteSetsExt, SequencesExt

CONSTANTS Addrs, NoAddr, Subjects, MqttTopics, Fds, Threads,
          MaxMaps,        \* CMQ_MQTT_MAX_MAPPINGS
          PidMax,         \* packet ids are 1..PidMax and wrap past 0
          MaxDials, MaxCalls, MaxTrouble   \* bounds of the model

VARIABLES
  br,      \* fd, addr, cancel_gen, dialing; connected is fd >= 0
  maps,    \* the mappings in order: subject and topic
  pid,     \* next_pid
  sock,    \* sockets by number: closed, alive or dead
  th,      \* the threads inside connect or publish
  phase, used

vars == <<br, maps, pid, sock, th, phase, used>>

Idle == [op |-> "idle", fd |-> -1, addr |-> NoAddr, gen |-> 0, old |-> FALSE]

Spend(what, max) == used[what] < max /\ used' = [used EXCEPT ![what] = @ + 1]
Shut(s, f) == IF f < 0 THEN s ELSE [s EXCEPT ![f] = "closed"]
Up == br.fd >= 0
Dead == Up /\ sock[br.fd] = "dead"
Gone(b) == [b EXCEPT !.fd = -1]

-----------------------------------------------------------------------------
Init ==
  /\ br = [fd |-> -1, addr |-> NoAddr, gen |-> 0, dialing |-> FALSE]
  /\ maps = <<>> /\ pid = 0
  /\ sock = [f \in Fds |-> "closed"]
  /\ th = [t \in Threads |-> Idle]
  /\ phase = "run" /\ used = [dials |-> 0, calls |-> 0, trouble |-> 0]

\* cmq_mqtt_bridge_connect, also behind reload_endpoint and reload_attach: a live
\* connection to the endpoint is kept; another one is dropped, even when the dial
\* cannot begin because one is under way.
ConnectBegin(t, a) ==
  LET s1 == Shut(sock, br.fd)
      free == {f \in Fds : s1[f] = "closed"}
  IN /\ th[t].op = "idle" /\ phase = "run" /\ Spend("dials", MaxDials)
     /\ ~(Up /\ ~Dead /\ br.addr = a)
     /\ IF br.dialing
        THEN sock' = s1 /\ br' = Gone(br) /\ UNCHANGED th
        ELSE /\ free # {}
             /\ sock' = [s1 EXCEPT ![Min(free)] = "alive"]
             /\ br' = [Gone(br) EXCEPT !.dialing = TRUE]
             /\ th' = [th EXCEPT ![t] = [Idle EXCEPT !.op = "dial", !.fd = Min(free), !.addr = a,
                                           !.gen = br.gen]]
     /\ UNCHANGED <<maps, pid, phase>>

\* No connection, a CONNECT that is not answered, or a disconnect meanwhile; whatever
\* dial it is, it clears the flag.
Cancelled(t) == br.gen # th[t].gen
DialFails(t) ==
  /\ th[t].op = "dial"
  /\ IF Cancelled(t) THEN UNCHANGED used ELSE Spend("trouble", MaxTrouble)
  /\ sock' = Shut(sock, th[t].fd)
  /\ br' = [br EXCEPT !.dialing = FALSE]
  /\ th' = [th EXCEPT ![t] = Idle]
  /\ UNCHANGED <<maps, pid, phase>>

\* Another connect was faster and its connection is alive: this one is closed.
DialSurplus(t) ==
  /\ th[t].op = "dial" /\ ~Cancelled(t) /\ Up /\ ~Dead
  /\ sock' = Shut(sock, th[t].fd)
  /\ br' = [br EXCEPT !.dialing = FALSE]
  /\ th' = [th EXCEPT ![t] = Idle]
  /\ UNCHANGED <<maps, pid, phase, used>>

\* The connection is the bridge's.
DialInstall(t) ==
  /\ th[t].op = "dial" /\ ~Cancelled(t) /\ (Up => Dead)
  /\ sock' = Shut(sock, br.fd)
  /\ br' = [br EXCEPT !.fd = th[t].fd, !.addr = th[t].addr, !.dialing = FALSE]
  /\ th' = [th EXCEPT ![t] = Idle]
  /\ UNCHANGED <<maps, pid, phase, used>>

Disconnect ==
  /\ phase = "run" /\ Spend("calls", MaxCalls)
  /\ sock' = Shut(sock, br.fd)
  /\ br' = [Gone(br) EXCEPT !.gen = @ + 1, !.dialing = FALSE]
  /\ th' = [t \in Threads |-> [th[t] EXCEPT !.old = @ \/ th[t].op = "dial"]]
  /\ UNCHANGED <<maps, pid, phase>>

\* is_connected and info probe the connection and drop a dead one.
Probe ==
  /\ phase = "run" /\ Dead
  /\ sock' = Shut(sock, br.fd) /\ br' = Gone(br)
  /\ UNCHANGED <<maps, pid, th, phase, used>>

-----------------------------------------------------------------------------
\* The mappings: one per topic, updated in place, removed by compaction, or
\* replaced as a whole by a reload.
Mapped(x) == {i \in DOMAIN maps : maps[i].topic = x}

AddMapping(s, x) ==
  /\ phase = "run" /\ Spend("calls", MaxCalls)
  /\ IF Mapped(x) # {}
     THEN maps' = [maps EXCEPT ![Min(Mapped(x))].subject = s]
     ELSE Len(maps) < MaxMaps /\ maps' = Append(maps, [subject |-> s, topic |-> x])
  /\ UNCHANGED <<br, pid, sock, th, phase>>

RemoveMapping(x) ==
  /\ phase = "run" /\ Mapped(x) # {} /\ Spend("calls", MaxCalls)
  /\ maps' = RemoveAt(maps, Min(Mapped(x)))
  /\ UNCHANGED <<br, pid, sock, th, phase>>

ReloadMaps(s, x) ==
  /\ phase = "run" /\ Spend("calls", MaxCalls)
  /\ maps' = <<[subject |-> s, topic |-> x]>>
  /\ UNCHANGED <<br, pid, sock, th, phase>>

-----------------------------------------------------------------------------
\* publish: the first mapping of the subject gives the topic, and a packet id that
\* is never 0 when it asks for an acknowledgement.
NextPid == IF pid = PidMax THEN 1 ELSE pid + 1
PublishBegin(t, s, acked) ==
  LET I == {i \in DOMAIN maps : maps[i].subject = s}
  IN /\ th[t].op = "idle" /\ phase = "run" /\ Up /\ I # {} /\ Spend("calls", MaxCalls)
     /\ th' = [th EXCEPT ![t] = [Idle EXCEPT !.op = "write", !.fd = br.fd]]
     /\ pid' = IF acked THEN NextPid ELSE pid
     /\ UNCHANGED <<br, maps, sock, phase>>

\* The write goes to whatever the number stands for by now.
WriteOk(t) ==
  /\ th[t].op = "write" /\ sock[th[t].fd] = "alive"
  /\ th' = [th EXCEPT ![t] = Idle]
  /\ UNCHANGED <<br, maps, pid, sock, phase, used>>

\* A failed write is noted here and acted upon when the lock is taken again.
WriteFails(t) ==
  /\ th[t].op = "write"
  /\ IF sock[th[t].fd] = "alive" THEN Spend("trouble", MaxTrouble) ELSE UNCHANGED used
  /\ th' = [th EXCEPT ![t].op = "failed"]
  /\ UNCHANGED <<br, maps, pid, sock, phase>>

PublishFailed(t) ==
  /\ th[t].op = "failed"
  /\ IF br.fd = th[t].fd THEN sock' = Shut(sock, br.fd) /\ br' = Gone(br)
                         ELSE UNCHANGED <<sock, br>>
  /\ th' = [th EXCEPT ![t] = Idle]
  /\ UNCHANGED <<maps, pid, phase, used>>

BrokerDies(f) ==
  /\ sock[f] = "alive" /\ Spend("trouble", MaxTrouble)
  /\ sock' = [sock EXCEPT ![f] = "dead"]
  /\ UNCHANGED <<br, maps, pid, th, phase>>

\* Destroy turns new calls away, waits for those in flight and disconnects.
DestroyBegin ==
  /\ phase = "run" /\ phase' = "dying"
  /\ UNCHANGED <<br, maps, pid, sock, th, used>>

DestroyEnd ==
  /\ phase = "dying" /\ \A t \in Threads : th[t].op = "idle"
  /\ phase' = "freed" /\ sock' = Shut(sock, br.fd) /\ br' = Gone(br)
  /\ UNCHANGED <<maps, pid, th, used>>

Next ==
  \/ \E t \in Threads :
       \/ \E a \in Addrs : ConnectBegin(t, a)
       \/ DialFails(t) \/ DialSurplus(t) \/ DialInstall(t)
       \/ \E s \in Subjects, acked \in BOOLEAN : PublishBegin(t, s, acked)
       \/ WriteOk(t) \/ WriteFails(t) \/ PublishFailed(t)
  \/ \E s \in Subjects, x \in MqttTopics : AddMapping(s, x) \/ ReloadMaps(s, x)
  \/ \E x \in MqttTopics : RemoveMapping(x)
  \/ \E f \in Fds : BrokerDies(f)
  \/ Disconnect \/ Probe \/ DestroyBegin \/ DestroyEnd

Spec == Init /\ [][Next]_vars

-----------------------------------------------------------------------------
\* Every open socket has one owner, the bridge or a dialling thread; nothing refers
\* to a closed one but a publish that noted the number earlier.
BridgeOwned ==
  \A f \in Fds :
    (IF br.fd = f THEN 1 ELSE 0) + Cardinality({t \in Threads : th[t].op = "dial" /\ th[t].fd = f})
    = IF sock[f] = "closed" THEN 0 ELSE 1

\* A dial that a disconnect overtook does not become the bridge's connection.
BridgeStaysDown ==
  [][\A t \in Threads : th[t].old /\ th'[t].op = "idle" => br'.fd # th[t].fd]_vars

=============================================================================
