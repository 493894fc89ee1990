------------------------------- MODULE Codec --------------------------------
(***************************************************************************)
(* MQTTCommon: packets as bytes.  A packet is a header byte, the length of *)
(* the rest in at most four digits of base Base (128), and the rest.  A    *)
(* byte has two values for each digit, so that the upper half can say that *)
(* more digits follow.                                                     *)
(*                                                                         *)
(* Positions in a buffer count from 1, as sequences do.                    *)
(***************************************************************************)
EXTENDS Integers, Sequences

CONSTANT Base  \* 128

ASSUME BaseAssumption == Base \in Nat \ {0, 1}

ByteValues == 0..2 * Base - 1

(* lengths of four digits *)
Lengths == 0..Base * Base * Base * Base - 1

-----------------------------------------------------------------------------
(* MQTTPacket_encode, of a length of at most four digits: the loop would   *)
(* go on for an int that is larger, and no packet is that long             *)
Continued(n) == (n % Base) + Base

Encode(n) ==
    LET n2 == n \div Base
        n3 == n2 \div Base
        n4 == n3 \div Base
    IN  IF n2 = 0 THEN <<n>>
        ELSE IF n3 = 0 THEN <<Continued(n), n2>>
        ELSE IF n4 = 0 THEN <<Continued(n), Continued(n2), n3>>
        ELSE <<Continued(n), Continued(n2), Continued(n3), n4>>

(* MQTTPacket_decode from the position at on: what it returns, one more    *)
(* than the four bytes it reads when those do not end the length, and the  *)
(* value                                                                   *)
Digits(buf, at) ==
    IF buf[at] < Base THEN 1
    ELSE IF buf[at + 1] < Base THEN 2
    ELSE IF buf[at + 2] < Base THEN 3
    ELSE IF buf[at + 3] < Base THEN 4
    ELSE 5

Decode(buf, at) ==
    LET Digit(i) == buf[at + i] % Base
        d == Digits(buf, at)
    IN    Digit(0)
        + (IF d > 1 THEN Digit(1) * Base ELSE 0)
        + (IF d > 2 THEN Digit(2) * Base * Base ELSE 0)
        + (IF d > 3 THEN Digit(3) * Base * Base * Base ELSE 0)

(* MQTTPacket_len; the header byte is counted before the length is looked  *)
(* at                                                                      *)
PacketLen(rem_len) ==
    LET n == rem_len + 1
    IN  n + (IF n < Base THEN 1
             ELSE IF n < Base * Base THEN 2
             ELSE IF n < Base * Base * Base - 1 THEN 3
             ELSE 4)

(* the high byte is cut to a byte *)
WriteInt(n) == <<(n \div (2 * Base)) % (2 * Base), n % (2 * Base)>>

ReadInt(buf, at) == 2 * Base * buf[at] + buf[at + 1]

WriteString(s) == WriteInt(Len(s)) \o s

(* what fits in the two bytes *)
Ints == 0..(2 * Base) * (2 * Base) - 1

-----------------------------------------------------------------------------
(* the bits of a header byte *)
Header(type, dup, qos, retain) == type * 16 + dup * 8 + qos * 2 + retain

TypeOf(byte) == byte \div 16

DupOf(byte) == (byte \div 8) % 2

QosOf(byte) == (byte \div 2) % 4

RetainOf(byte) == byte % 2

CONNECT_MSG == 1
PUBLISH_MSG == 3
PUBREL_MSG == 6
SUBSCRIBE_MSG == 8
UNSUBSCRIBE_MSG == 10

(* header, the announced length, and what is written after them *)
Packet(header, rem_len, rest) == <<header>> \o Encode(rem_len) \o rest

-----------------------------------------------------------------------------
(* what is published; the packet id means nothing at QoS 0 *)
PublishMessages ==
    [dup : 0..1, qos : 0..2, retained : 0..1, packetid : Ints,
     topicName : Seq(ByteValues), payload : Seq(ByteValues)]

PublishLength(m) == 2 + Len(m.topicName) + Len(m.payload) + (IF m.qos > 0 THEN 2 ELSE 0)

PublishRest(m) ==
    WriteString(m.topicName) \o (IF m.qos > 0 THEN WriteInt(m.packetid) ELSE <<>>) \o m.payload

SerializePublish(m) ==
    Packet(Header(PUBLISH_MSG, m.dup, m.qos, m.retained), PublishLength(m), PublishRest(m))

(* MQTTSerialize_ack, and MQTTSerialize_puback, pubrel and pubcomp *)
SerializeAck(packettype, dup, packetid) ==
    Packet(Header(packettype, dup, IF packettype = PUBREL_MSG THEN 1 ELSE 0, 0), 2, WriteInt(packetid))

(* MQTTSerialize_subscribe and MQTTSerialize_unsubscribe, with the one     *)
(* topic filter the client gives them                                      *)
SubscribeLength(topicFilter) == 2 + 2 + Len(topicFilter) + 1

SubscribeRest(packetid, topicFilter, qos) ==
    WriteInt(packetid) \o WriteString(topicFilter) \o <<qos>>

SerializeSubscribe(dup, packetid, topicFilter, qos) ==
    Packet(Header(SUBSCRIBE_MSG, dup, 1, 0), SubscribeLength(topicFilter),
           SubscribeRest(packetid, topicFilter, qos))

UnsubscribeLength(topicFilter) == 2 + 2 + Len(topicFilter)

UnsubscribeRest(packetid, topicFilter) == WriteInt(packetid) \o WriteString(topicFilter)

SerializeUnsubscribe(dup, packetid, topicFilter) ==
    Packet(Header(UNSUBSCRIBE_MSG, dup, 1, 0), UnsubscribeLength(topicFilter),
           UnsubscribeRest(packetid, topicFilter))

-----------------------------------------------------------------------------
(* the options of a connect packet; hasUsername and hasPassword say that   *)
(* the pointers are not NULL.  Version 4 is MQTT 3.1.1, 3 is MQTT 3.1      *)
ConnectOptions ==
    [MQTTVersion : {3, 4}, cleansession : 0..1, keepAliveInterval : Ints,
     clientID : Seq(ByteValues), willFlag : 0..1, willQoS : 0..2, willRetain : 0..1,
     willTopic : Seq(ByteValues), willMessage : Seq(ByteValues),
     hasUsername : 0..1, username : Seq(ByteValues),
     hasPassword : 0..1, password : Seq(ByteValues)]

ConnectLength(o) ==
      (IF o.MQTTVersion = 3 THEN 12 ELSE 10)
    + Len(o.clientID) + 2
    + (IF o.willFlag = 1 THEN Len(o.willTopic) + 2 + Len(o.willMessage) + 2 ELSE 0)
    + (IF o.hasUsername = 1 THEN Len(o.username) + 2 ELSE 0)
    + (IF o.hasPassword = 1 THEN Len(o.password) + 2 ELSE 0)

ConnectFlags(o) ==
      o.cleansession * 2
    + (IF o.willFlag = 1 THEN 4 + o.willQoS * 8 + o.willRetain * 32 ELSE 0)
    + o.hasPassword * 64 + o.hasUsername * 128

(* "MQIsdp" and "MQTT" in ASCII *)
ProtocolName(version) ==
    WriteString(IF version = 4 THEN <<77, 81, 84, 84>> ELSE <<77, 81, 73, 115, 100, 112>>)

ConnectRest(o) ==
       ProtocolName(o.MQTTVersion) \o <<o.MQTTVersion, ConnectFlags(o)>>
    \o WriteInt(o.keepAliveInterval)
    \o WriteString(o.clientID)
    \o (IF o.willFlag = 1 THEN WriteString(o.willTopic) \o WriteString(o.willMessage) ELSE <<>>)
    \o (IF o.hasUsername = 1 THEN WriteString(o.username) ELSE <<>>)
    \o (IF o.hasPassword = 1 THEN WriteString(o.password) ELSE <<>>)

SerializeConnect(o) == Packet(Header(CONNECT_MSG, 0, 0, 0), ConnectLength(o), ConnectRest(o))

-----------------------------------------------------------------------------
(* The deserializing functions: where the rest starts and where it ends.   *)
Start(buf) == 2 + Digits(buf, 2)

End(buf) == Start(buf) + Decode(buf, 2)

(* MQTTDeserialize_ack; a rest that is too short is left alone, and the    *)
(* result is then what MQTTPacket_decodeBuf returned                       *)
AckIsRead(buf) == End(buf) - Start(buf) >= 2

AckResult(buf) == IF AckIsRead(buf) THEN 1 ELSE Digits(buf, 2)

DeserializeAck(buf) ==
    [packettype |-> TypeOf(buf[1]), dup |-> DupOf(buf[1]), packetid |-> ReadInt(buf, Start(buf))]

(* MQTTDeserialize_publish, which fails in the same way; the packet id is  *)
(* left as it was at QoS 0                                                 *)
TopicLength(buf) == ReadInt(buf, Start(buf))

PublishIsRead(buf) ==
    /\ TypeOf(buf[1]) = PUBLISH_MSG
    /\ End(buf) - Start(buf) > 1
    /\ Start(buf) + 2 + TopicLength(buf) <= End(buf)

PublishResult(buf) ==
    IF PublishIsRead(buf) THEN 1
    ELSE IF TypeOf(buf[1]) = PUBLISH_MSG THEN Digits(buf, 2)
    ELSE 0

DeserializePublish(buf, packetid) ==
    LET qos   == QosOf(buf[1])
        topic == Start(buf) + 2
        id    == topic + TopicLength(buf)
        data  == IF qos > 0 THEN id + 2 ELSE id
    IN  [dup |-> DupOf(buf[1]), qos |-> qos, retained |-> RetainOf(buf[1]),
         packetid |-> IF qos > 0 THEN ReadInt(buf, id) ELSE packetid,
         topicName |-> SubSeq(buf, topic, id - 1),
         payload |-> SubSeq(buf, data, End(buf) - 1)]

=============================================================================
