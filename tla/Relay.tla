------------------------------- MODULE Relay --------------------------------
(***************************************************************************)
(* The queue between the MQTT listener and the server's own subscribers    *)
(* (enterprise/cmq_mqtt_server.c, "bridge relay"): connection threads put  *)
(* a topic and a copy of the payload into a ring, one relay thread takes   *)
(* them out and publishes them, and payload buffers are kept for reuse.    *)
(* A message is a number.  The relay thread takes the payload with it and  *)
(* leaves the topic in its slot, where a later message overwrites it.      *)
(***************************************************************************)
EXTENDS Integers, Sequences, FiniteSets, FiniteSetsExt, SequencesExt

CONSTANTS
  Threads,      \* connection threads
  Bufs,         \* payload buffers of the heap
  NoBuf,        \* no payload: an empty PUBLISH
  RingSize,     \* 256 in the code
  FreeMax,      \* 64 in the code
  MaxMsgs, MaxTrouble   \* bounds of the model

ASSUME RelayAssumption == RingSize \in Nat \ {0}

VARIABLES
  slots, head, tail, count,   \* the ring
  freelist,                   \* buffers kept for reuse
  heap,                       \* buffer -> is it allocated?
  pub,                        \* thread -> the PUBLISH it is about to enqueue
  relay,                      \* what the relay thread has taken out
  dying,                      \* cmq_mqtt_bridge_shutdown: "no", "yes" or "done"
  taken, sent, used           \* accepted messages, those handed over; bounds

vars == <<slots, head, tail, count, freelist, heap, pub, relay, dying, taken, sent, used>>
ring == <<slots, head, tail, count, taken>>

Idle == [op |-> "idle", buf |-> NoBuf, msg |-> 0]
Resting == [op |-> "idle", buf |-> NoBuf, msg |-> 0, at |-> 0]
Empty == [msg |-> 0, buf |-> NoBuf]
Spend(what, max) == used[what] < max /\ used' = [used EXCEPT ![what] = @ + 1]
Freed(h, b) == IF b = NoBuf THEN h ELSE [h EXCEPT ![b] = FALSE]
After(i) == (i + 1) % RingSize

\* Mutant: one message too many.
Room_OneMore == count <= RingSize
Room == count < RingSize

Init ==
  /\ slots = [i \in 0..RingSize - 1 |-> Empty] /\ head = 0 /\ tail = 0 /\ count = 0
  /\ freelist = <<>> /\ heap = [b \in Bufs |-> FALSE]
  /\ pub = [t \in Threads |-> Idle] /\ relay = Resting
  /\ dying = "no" /\ taken = <<>> /\ sent = <<>>
  /\ used = [msgs |-> 0, trouble |-> 0]

-----------------------------------------------------------------------------
\* A PUBLISH is copied: into a buffer of the free list, or else a new one.
Copied(b) == [op |-> "copied", buf |-> b, msg |-> used.msgs + 1]
PublishCopy(t) ==
  /\ pub[t].op = "idle" /\ Spend("msgs", MaxMsgs)
  /\ \/ /\ freelist # <<>>
        /\ freelist' = Front(freelist)
        /\ pub' = [pub EXCEPT ![t] = Copied(Last(freelist))]
        /\ UNCHANGED heap
     \/ /\ freelist = <<>>
        /\ \E b \in {b \in Bufs : ~heap[b]} :
             /\ heap' = [heap EXCEPT ![b] = TRUE]
             /\ pub' = [pub EXCEPT ![t] = Copied(b)]
        /\ UNCHANGED freelist
     \/ /\ pub' = [pub EXCEPT ![t] = Copied(NoBuf)]
        /\ UNCHANGED <<freelist, heap>>
  /\ UNCHANGED <<ring, relay, dying, sent>>

\* ... and enqueued, unless the ring is full.
Enqueued(m, b) ==
  /\ slots' = [slots EXCEPT ![head] = [msg |-> m, buf |-> b]]
  /\ head' = After(head) /\ count' = count + 1
  /\ taken' = Append(taken, m)
  /\ UNCHANGED tail
PublishEnqueue(t) ==
  /\ pub[t].op = "copied"
  /\ IF Room
     THEN Enqueued(pub[t].msg, pub[t].buf) /\ UNCHANGED heap
     ELSE heap' = Freed(heap, pub[t].buf) /\ UNCHANGED ring
  /\ pub' = [pub EXCEPT ![t] = Idle]
  /\ UNCHANGED <<freelist, relay, dying, sent, used>>

\* mqtt_bridge_push, for a last will: one critical section and a buffer of its own.
WillPush(t) ==
  /\ pub[t].op = "idle" /\ Room /\ Spend("msgs", MaxMsgs)
  /\ \/ Enqueued(used.msgs + 1, NoBuf) /\ UNCHANGED heap
     \/ \E b \in {b \in Bufs : ~heap[b]} :
          Enqueued(used.msgs + 1, b) /\ heap' = [heap EXCEPT ![b] = TRUE]
  /\ UNCHANGED <<freelist, pub, relay, dying, sent>>

-----------------------------------------------------------------------------
\* cmq_mqtt_bridge_relay: the thread looks at the flag, waits for an entry and takes the
\* oldest one out, a last one too when the flag went up meanwhile; the topic stays in
\* its slot.
RelayLoop ==
  /\ relay.op = "idle"
  /\ relay' = [Resting EXCEPT !.op = IF dying = "no" THEN "wait" ELSE "gone"]
  /\ UNCHANGED <<ring, freelist, heap, pub, dying, sent, used>>
RelayTake ==
  /\ relay.op = "wait" /\ count > 0
  /\ relay' = [op |-> "taken", buf |-> slots[tail].buf, msg |-> slots[tail].msg, at |-> tail]
  /\ tail' = After(tail) /\ count' = count - 1
  /\ UNCHANGED <<slots, head, freelist, heap, pub, dying, taken, sent, used>>
RelayLeaves ==
  /\ relay.op = "wait" /\ count = 0 /\ dying # "no"
  /\ relay' = [Resting EXCEPT !.op = "gone"]
  /\ UNCHANGED <<ring, freelist, heap, pub, dying, sent, used>>

\* cmq_bridge_publish_adapter: the topic is read from the slot now; nothing is published
\* for an empty payload; the buffer is freed in any case.
RelayPublish ==
  /\ relay.op = "taken"
  /\ heap' = Freed(heap, relay.buf)
  /\ sent' = Append(sent, [msg |-> relay.msg, topic |-> slots[relay.at].msg,
                             full |-> count = RingSize])
  /\ \/ relay' = Resting /\ UNCHANGED used
     \/ /\ relay.buf # NoBuf /\ Spend("trouble", MaxTrouble)
        /\ relay' = [relay EXCEPT !.op = "refused"]
  /\ UNCHANGED <<ring, freelist, pub, dying>>

\* What could not be published leaves its buffer to the free list.
RelayKeeps ==
  /\ relay.op = "refused"
  /\ IF Len(freelist) < FreeMax
     THEN freelist' = Append(freelist, relay.buf) /\ UNCHANGED heap
     ELSE heap' = Freed(heap, relay.buf) /\ UNCHANGED freelist
  /\ relay' = Resting
  /\ UNCHANGED <<ring, pub, dying, sent, used>>

\* cmq_mqtt_bridge_shutdown: raise the flag, wait for the thread, and reset the ring
\* with whatever is in it.
ShutdownBegin ==
  /\ dying = "no" /\ dying' = "yes"
  /\ UNCHANGED <<ring, freelist, heap, pub, relay, sent, used>>
ShutdownEnd ==
  /\ dying = "yes" /\ relay.op = "gone"
  /\ dying' = "done" /\ head' = 0 /\ tail' = 0 /\ count' = 0
  /\ UNCHANGED <<slots, freelist, heap, pub, relay, taken, sent, used>>

Next ==
  \/ \E t \in Threads : PublishCopy(t) \/ PublishEnqueue(t) \/ WillPush(t)
  \/ RelayLoop \/ RelayTake \/ RelayLeaves \/ RelayPublish \/ RelayKeeps
  \/ ShutdownBegin \/ ShutdownEnd

Spec == Init /\ [][Next]_vars

-----------------------------------------------------------------------------
\* Until the ring is reset, the payloads leave the ring in the order in which it took
\* them, each once and none overwritten: what was handed over, what the thread holds
\* and what is in the ring make up what was accepted.  Each is handed over with its own
\* topic, except while the ring is full: then the topic of the message in hand has been
\* overwritten by the newest one (cmq_mqtt_bridge_relay).
Given == [i \in DOMAIN sent |-> sent[i].msg]
Held == IF relay.op = "taken" THEN <<relay.msg>> ELSE <<>>
InRing == [i \in 1..count |-> slots[(tail + i - 1) % RingSize].msg]
RelayFifo ==
  /\ dying # "done" => Given \o Held \o InRing = taken
  /\ \A i \in DOMAIN sent : sent[i].topic = sent[i].msg \/ sent[i].full

=============================================================================
