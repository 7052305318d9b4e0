------------------------------ MODULE MqttWire ------------------------------
(***************************************************************************)
(* The MQTT packet formats of the listener (enterprise/cmq_mqtt_server.c)  *)
(* and of the bridge (enterprise/cmq_mqtt.c), as operators: the remaining  *)
(* length, the offsets at which a PUBLISH and a property list are taken    *)
(* apart, topic filters, and the mapping of topics to subjects.  A field   *)
(* is its size in bytes; a topic is a sequence of levels for the matcher   *)
(* and of characters for the mapping, as these read it.  The one variable  *)
(* is the input that the properties look at.                               *)
(***************************************************************************)
EXTENDS Integers, Sequences, FiniteSets, FiniteSetsExt, SequencesExt

CONSTANTS
  Sizes,       \* sizes that a topic or a payload may have
  Totals,      \* remaining lengths to encode
  Levels,      \* topic levels; "" is the empty one
  MaxLevels,
  Chars,       \* characters of a topic, the separators and wildcards of both sides
  ItemSizes,   \* sizes of a property, its identifier included
  MaxItems

VARIABLE input

Refused == -1
Null == <<Refused>>
Total(s) == FoldLeft(LAMBDA a, b : a + b, 0, s)

-----------------------------------------------------------------------------
\* encode_remaining_length (both files): seven bits a byte, the lowest first.
Digits(n) == Min({k \in 1..4 : n < 128 ^ k})
EncodeLength(n) ==
  [i \in 1..Digits(n) |-> [low |-> (n \div (128 ^ (i - 1))) % 128, more |-> i < Digits(n)]]

\* decode_remaining_length: at most four bytes, none beyond the buffer.
DecodeLength(b) ==
  LET Ends == {i \in 1..Min({4, Len(b)}) : ~b[i].more}
      n == Min(Ends)
  IN IF Ends = {} THEN [used |-> Refused, value |-> 0]
     ELSE [used |-> n, value |-> Total([i \in 1..n |-> b[i].low * (128 ^ (i - 1))])]

-----------------------------------------------------------------------------
\* cmq_mqtt_props_decode: a length, then properties of known kinds that end exactly
\* where the length says.  "items" is what stands in the packet from there on.
PropsDecode(items, declared, avail) ==
  IF /\ Digits(declared) + declared <= avail
     /\ \E n \in 0..Len(items) :
          /\ Total([i \in 1..n |-> items[i].size]) = declared
          /\ \A i \in 1..n : items[i].known
  THEN Digits(declared) + declared ELSE Refused

\* cmq_mqtt_publish_payload_off: topic, packet id, properties, and the rest is payload.
PayloadOffset(tlen, qos, v5, items, declared, vhLen) ==
  LET afterId == 2 + tlen + (IF qos > 0 THEN 2 ELSE 0)
      props == IF v5 THEN PropsDecode(items, declared, vhLen - afterId) ELSE 0
  IN IF vhLen < 2 \/ afterId > vhLen \/ props = Refused THEN Refused ELSE afterId + props

\* Mutant: the packet id is not counted.
BridgePublishLength_NoId(tlen, plen, qos) == 2 + tlen + plen

\* cmq_mqtt_encode_publish: the remaining length that the bridge writes.
BridgePublishLength(tlen, plen, qos) == 2 + tlen + plen + (IF qos > 0 THEN 2 ELSE 0)

\* cmq_mqtt_inflight_offer and _encode: what the window takes and what fits a packet.
OfferTakes(tlen, plen) == tlen \in 1..127 /\ plen <= 1024
EncodeFits(tlen, plen) ==
  LET rem == 2 + tlen + 2 + plen IN 1 + Digits(rem) + rem <= 1280

-----------------------------------------------------------------------------
\* cmq_mqtt_topic_match, level by level.  The cursors stand on characters, so an
\* empty last level looks like the end of the string.
AtEnd(s, i) == i > Len(s) \/ (i = Len(s) /\ s[i] = "")
TopicMatch(p, t) ==
  LET Stops == {i \in 1..Len(p) + 1 : \/ AtEnd(p, i) \/ p[i] = "#" \/ AtEnd(t, i)
                                      \/ p[i] # "+" /\ p[i] # t[i]}
      i == Min(Stops)
  IN /\ \A j \in 1..Len(p) - 1 : p[j] # "#"
     /\ IF AtEnd(p, i) THEN AtEnd(t, i) ELSE p[i] = "#"

\* cmq_mqtt_topic_to_subject and cmq_mqtt_subject_to_topic into a buffer of cap bytes:
\* separators and wildcards are exchanged, other characters kept; NULL if cut short.
Mapped(s, cap, pairs) ==
  IF cap = 0 \/ Len(s) > cap - 1 THEN Null
  ELSE [i \in DOMAIN s |-> IF s[i] \in DOMAIN pairs THEN pairs[s[i]] ELSE s[i]]
ToSubject(t, cap) ==
  Mapped(t, cap, [c \in {"/", "+", "#"} |-> CASE c = "/" -> "." [] c = "+" -> "*" [] OTHER -> ">"])
ToTopic(s, cap) ==
  Mapped(s, cap, [c \in {".", "*", ">"} |-> CASE c = "." -> "/" [] c = "*" -> "+" [] OTHER -> "#"])

-----------------------------------------------------------------------------
Topics == UNION {[1..n -> Levels] : n \in 1..MaxLevels}
ItemSeqs == UNION {[1..n -> [size : ItemSizes, known : BOOLEAN]] : n \in 0..MaxItems}
Names == UNION {[1..n -> Chars] : n \in 0..MaxLevels}
Inputs ==
  [kind : {"len"}, n : Totals]
  \cup [kind : {"pub"}, tlen : Sizes, plen : Sizes, qos : 0..2, v5 : BOOLEAN, items : ItemSeqs]
  \cup [kind : {"map"}, name : Names, cap : 0..MaxLevels + 1]
  \cup [kind : {"match"}, p : Topics, t : Topics]
  \cup [kind : {"none"}]

Init == input = [kind |-> "none"]
Pick == input.kind = "none" /\ input' \in Inputs
Again == input.kind # "none" /\ input' = [kind |-> "none"]
Next == Pick \/ Again
Spec == Init /\ [][Next]_input

-----------------------------------------------------------------------------
\* What is written is read back.  A remaining length comes back as it was, and no
\* shorter buffer is taken for a whole one; the payload of a PUBLISH starts where the
\* sender put it, behind the bridge's header for 3.1.1 and behind the properties for
\* 5.0, and what the inflight window accepts fits the packet buffer.  A topic or a
\* subject that fits the buffer survives the way to the other side and back exactly if
\* it has none of that side's separators and wildcards ("v1.0/t" comes back as
\* "v1/0/t").
Size(items) == Total([i \in DOMAIN items |-> items[i].size])
LengthReadBack(n) ==
  LET b == EncodeLength(n)
  IN /\ DecodeLength(b) = [used |-> Len(b), value |-> n]
     /\ \A k \in 0..Len(b) - 1 : DecodeLength(SubSeq(b, 1, k)).used = Refused
PayloadFound(x) ==
  LET P == Size(x.items)
      vh == BridgePublishLength(x.tlen, x.plen, x.qos) + (IF x.v5 THEN Digits(P) + P ELSE 0)
      known == \A i \in DOMAIN x.items : x.items[i].known
  IN /\ PayloadOffset(x.tlen, x.qos, x.v5, x.items, P, vh)
          = IF x.v5 /\ ~known THEN Refused ELSE vh - x.plen
     /\ OfferTakes(x.tlen, x.plen) => EncodeFits(x.tlen, x.plen)
MappedBack(s, cap) ==
  Len(s) < cap =>
    /\ (ToTopic(ToSubject(s, cap), cap) = s) <=> \A i \in DOMAIN s : s[i] \notin {".", "*", ">"}
    /\ (ToSubject(ToTopic(s, cap), cap) = s) <=> \A i \in DOMAIN s : s[i] \notin {"/", "+", "#"}
PacketsReadBack ==
  /\ input.kind = "len" => LengthReadBack(input.n)
  /\ input.kind = "pub" => PayloadFound(input)
  /\ input.kind = "map" => MappedBack(input.name, input.cap)

\* A filter matches what MQTT says it does: '+' stands for one level and a closing
\* '#' for any number of them, none included.  (Filters and topics that end with a
\* '/' are left out: the matcher takes their empty last level for the end.)
LevelMatches(x, y) == x = "+" \/ x = y
MatchExact ==
  input.kind = "match" /\ Last(input.p) # "" /\ Last(input.t) # "" =>
    LET p == input.p
        t == input.t
        n == Len(p) - 1
    IN TopicMatch(p, t) <=>
         /\ \A i \in 1..n : p[i] # "#"
         /\ \/ Len(p) = Len(t) /\ \A i \in DOMAIN p : LevelMatches(p[i], t[i])
            \/ /\ p[Len(p)] = "#" /\ Len(t) >= n
               /\ \A i \in 1..n : LevelMatches(p[i], t[i])

=============================================================================
