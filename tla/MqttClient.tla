----------------------------- MODULE MqttClient -----------------------------
(***************************************************************************)
(* The MQTT client library of the firmware: MQTTClient.c, the Cayenne      *)
(* wrappers of CayenneMQTTClient.c that change state, and the application  *)
(* loop of tmp/examples/CayenneClient.c that drives them.                  *)
(*                                                                         *)
(* The library is single threaded and blocking.  A call that waits for an  *)
(* acknowledgement runs waitfor -> cycle -> readPacket; a PUBLISH read by  *)
(* cycle runs the application's message handler, which may itself publish  *)
(* and wait.  "stack" is that C call stack, one frame per waiting call.    *)
(*                                                                         *)
(* Time is counted in ticks.  A Timer is the number of ticks it has left,  *)
(* 0 when expired.  The broker and the TCP connection are external.        *)
(***************************************************************************)
EXTENDS Integers, Sequences

CONSTANTS
    MaxPacketId,     \* MAX_PACKET_ID (65535)
    CommandTimeout,  \* command_timeout_ms (30 s), in ticks
    KeepAlive,       \* keepAliveInterval (60 s), in ticks
    YieldTime,       \* the argument of CayenneMQTTYield, in ticks
    Topics,          \* topics the application subscribes to
    NoTopic,         \* UNDEFINED_TOPIC, the mark of a free handler slot
    MaxHandlers,     \* CAYENNE_MAX_MESSAGE_HANDLERS (5)
    Values,          \* payloads of the messages the broker publishes
    Ops,             \* the calls the application makes
    InboundQoS,      \* QoS levels of the messages the broker publishes
    LinkFaults,      \* ways in which the TCP connection may fail
    MaxDepth,        \* bound: nesting of waiting calls
    MaxQueue         \* bound: packets in flight before new ones are started

AckTypes == {"CONNACK", "SUBACK", "UNSUBACK", "PUBACK", "PUBCOMP"}

WaitingOps == {"connect", "subscribe", "unsubscribe", "publish1", "publish2"}

ASSUME ConstantsAssumption ==
    /\ MaxPacketId \in Nat \ {0}
    /\ CommandTimeout \in Nat \ {0}
    /\ KeepAlive \in Nat \ {0}
    /\ YieldTime \in Nat
    /\ MaxHandlers \in Nat
    /\ MaxDepth \in Nat \ {0}
    /\ MaxQueue \in Nat \ {0}
    /\ NoTopic \notin Topics
    /\ Values # {}
    /\ InboundQoS \subseteq 0..2
    /\ LinkFaults \subseteq {"closed", "silent", "stuck"}

(* The default keep-alive interval (60 s) exceeds the command timeout      *)
(* (30 s) CayenneMQTTClientInit gives the client.                          *)
ASSUME TimingAssumption == CommandTimeout < KeepAlive

VARIABLES
    isconnected,          \* MQTTClient.isconnected
    ping_outstanding,     \* MQTTClient.ping_outstanding
    next_packetid,        \* MQTTClient.next_packetid
    received,             \* the *AckReceived / pubCompReceived flags that are set
    readbuf,              \* the packet whose first bytes are in MQTTClient.readbuf
    payload,              \* the payload bytes in readbuf: those of the last PUBLISH
    ping_timer,           \* MQTTClient.ping_timer
    last_received_timer,  \* MQTTClient.last_received_timer
    ping_response_timer,  \* MQTTClient.ping_response_timer
    messageHandlers,      \* CayenneMQTTClient.messageHandlers
    stack,                \* the waiting calls, innermost last
    connected,            \* Network.connected
    link,                 \* the TCP connection
    c2b,                  \* packets on their way to the broker
    b2c,                  \* packets on their way to the client
    accepted              \* the broker accepted a CONNECT on this TCP connection

clientVars == <<isconnected, ping_outstanding, next_packetid, received, readbuf,
                payload, ping_timer, last_received_timer, ping_response_timer,
                messageHandlers>>
netVars == <<connected, link, c2b, b2c, accepted>>
vars == <<clientVars, stack, netVars>>

PacketTypes ==
    {"NONE", "CONNECT", "CONNACK", "PUBLISH", "PUBACK", "PUBREC", "PUBREL",
     "PUBCOMP", "SUBSCRIBE", "SUBACK", "UNSUBSCRIBE", "UNSUBACK", "PINGREQ",
     "PINGRESP", "DISCONNECT"}

AValue == CHOOSE v \in Values : TRUE

(* code: the QoS of a PUBLISH, the return code of a CONNACK or a SUBACK.   *)
Packet == [type : PacketTypes, id : 0..MaxPacketId, code : {0, 1, 2, 5, 128},
           val : Values]

Pkt(t, i, c, v) == [type |-> t, id |-> i, code |-> c, val |-> v]

Simple(t, i) == Pkt(t, i, 0, AValue)

(* pc is where the call stands: at the top of waitfor's (or MQTTYield's)   *)
(* loop, in cycle's readPacket, in the message handler, in the handler     *)
(* after its response was published, or about to acknowledge the message.  *)
(* seen is a history variable: the acknowledgements of the call's kind     *)
(* read since the call began to wait and not taken by a nested call.       *)
Frame == [op : WaitingOps \cup {"yield"}, id : 0..MaxPacketId,
          topic : Topics \cup {NoTopic}, timer : Nat,
          pc : {"wait", "cycle", "deliver", "echo", "ack"},
          msg : Packet, seen : SUBSET Packet]

AckOf(op) ==
    CASE op = "connect"     -> "CONNACK"
      [] op = "subscribe"   -> "SUBACK"
      [] op = "unsubscribe" -> "UNSUBACK"
      [] op = "publish1"    -> "PUBACK"
      [] op = "publish2"    -> "PUBCOMP"
      [] OTHER              -> "NONE"

InFlight == Len(c2b) + Len(b2c)

Idle == stack = <<>>
Top == stack[Len(stack)]
Pop == SubSeq(stack, 1, Len(stack) - 1)
Goto(label) == [stack EXCEPT ![Len(stack)].pc = label]
Deliver(m) == [stack EXCEPT ![Len(stack)] = [@ EXCEPT !.pc = "deliver", !.msg = m]]

NewFrame(op, i, t, ticks, label) ==
    [op |-> op, id |-> i, topic |-> t, timer |-> ticks, pc |-> label,
     msg |-> Simple("NONE", 0), seen |-> {}]

Init ==
    /\ isconnected = FALSE
    /\ ping_outstanding = FALSE
    /\ next_packetid = 1
    /\ received = {}
    /\ readbuf = Simple("NONE", 0)
    /\ payload = AValue
    /\ ping_timer = 0
    /\ last_received_timer = 0
    /\ ping_response_timer = 0
    /\ messageHandlers = [i \in 1..MaxHandlers |-> NoTopic]
    /\ stack = <<>>
    /\ connected = FALSE
    /\ link = "none"
    /\ c2b = <<>>
    /\ b2c = <<>>
    /\ accepted = FALSE

-----------------------------------------------------------------------------
(* sendPacket.  It writes nothing once its timer has expired.  What is     *)
(* written to a connection that has failed is lost: a "silent" one still   *)
(* takes the bytes, a "closed" one may, and when it does not the error is  *)
(* one that clears Network.connected; on a "stuck" one every write fails   *)
(* with an error esp32_write does not look for (a full send buffer, an     *)
(* aborted connection).                                                    *)

SendSucceeds(ticks) == ticks > 0 /\ link \in {"up", "silent", "closed"}

SendFails(ticks) == ticks = 0 \/ link \notin {"up", "silent"}

Sent(queue, m) == IF link = "up" THEN Append(queue, m) ELSE queue

AfterFailedSend(cn, ticks) == cn /\ ~(ticks > 0 /\ link = "closed")

(* (mutant: the identifier is not wrapped) *)
PacketIdNotWrapped == next_packetid + 1

getNextPacketId == IF next_packetid = MaxPacketId THEN 1 ELSE next_packetid + 1

(* waitfor clears the flag it waits for when it starts and when it returns *)
(* (mutant: it does not).                                                  *)
FlagKept(op) == received

FlagCleared(op) == received \ {AckOf(op)}

(* keepalive looks at the last send and at the last receive (mutants: it   *)
(* looks one tick early; it looks at the last send only).                  *)
PingDueEarly(pt, lr) == pt <= 1 \/ lr <= 1

PingDueAfterSends(pt, lr) == pt = 0

PingDue(pt, lr) == pt = 0 \/ lr = 0

(* keepalive, called at the end of cycle with the values cycle has left in *)
(* ping_timer, last_received_timer, ping_outstanding, the send queue and   *)
(* Network.connected.                                                      *)
keepalive(pt, lr, po, queue, cn) ==
    \/ /\ ~PingDue(pt, lr)
       /\ ping_timer' = pt /\ ping_outstanding' = po
       /\ c2b' = queue /\ connected' = cn
       /\ UNCHANGED <<isconnected, ping_response_timer>>
    \/ /\ PingDue(pt, lr)
       /\ ~po /\ SendSucceeds(1)
       /\ c2b' = Sent(queue, Simple("PINGREQ", 0)) /\ connected' = cn
       /\ ping_timer' = KeepAlive
       /\ ping_response_timer' = KeepAlive
       /\ ping_outstanding' = TRUE
       /\ UNCHANGED isconnected
    \/ /\ PingDue(pt, lr)
       /\ ~po /\ SendFails(1)
       /\ c2b' = queue /\ connected' = AfterFailedSend(cn, 1)
       /\ ping_timer' = pt /\ ping_outstanding' = po
       /\ UNCHANGED <<isconnected, ping_response_timer>>
    \/ /\ PingDue(pt, lr)
       /\ po
       /\ \/ ping_response_timer = 0 /\ isconnected' = FALSE
          \/ ping_response_timer > 0 /\ UNCHANGED isconnected
       /\ c2b' = queue /\ connected' = cn
       /\ ping_timer' = pt /\ ping_outstanding' = po
       /\ UNCHANGED ping_response_timer

-----------------------------------------------------------------------------
(* The application's calls.  A call is made by the main loop, when nothing *)
(* is waiting, or by the message handler; while the client is not          *)
(* connected it fails at once and changes nothing.                         *)

(* NetworkDisconnect: what was in flight is lost. *)
NetworkDisconnect ==
    /\ link' = "none" /\ connected' = FALSE
    /\ c2b' = <<>> /\ b2c' = <<>> /\ accepted' = FALSE

(* connectClient: NetworkConnect, then MQTTConnect up to its wait for the  *)
(* CONNACK.  When the CONNECT cannot be written the connection is dropped. *)
connectClient ==
    /\ Idle /\ link = "none"
    /\ ping_timer' = KeepAlive
    /\ \/ /\ link' = "up" /\ connected' = TRUE /\ accepted' = FALSE
          /\ c2b' = <<Simple("CONNECT", 0)>> /\ b2c' = <<>>
          /\ last_received_timer' = KeepAlive
          /\ received' = FlagCleared("connect")
          /\ stack' = <<NewFrame("connect", 0, NoTopic, CommandTimeout, "wait")>>
       \/ /\ NetworkDisconnect
          /\ UNCHANGED <<last_received_timer, received, stack>>
    /\ UNCHANGED <<isconnected, ping_outstanding, next_packetid, readbuf, payload,
                   ping_response_timer, messageHandlers>>

(* Sends a request and starts waiting for its acknowledgement; below is    *)
(* the stack without the new frame.                                        *)
Request(op, t, m, below) ==
    /\ Len(stack) < MaxDepth /\ InFlight < MaxQueue
    /\ next_packetid' = m.id
    /\ \/ /\ SendSucceeds(CommandTimeout)
          /\ c2b' = Sent(c2b, m) /\ ping_timer' = KeepAlive
          /\ received' = FlagCleared(op)
          /\ stack' = Append(below, NewFrame(op, m.id, t, CommandTimeout, "wait"))
          /\ UNCHANGED connected
       \/ /\ SendFails(CommandTimeout)
          /\ connected' = AfterFailedSend(connected, CommandTimeout)
          /\ stack' = below
          /\ UNCHANGED <<c2b, ping_timer, received>>
    /\ UNCHANGED <<isconnected, ping_outstanding, readbuf, payload,
                   last_received_timer, ping_response_timer, messageHandlers,
                   link, b2c, accepted>>

(* MQTTPublish at QoS 0 waits for nothing. *)
SendQoS0(v, st) ==
    /\ stack' = st
    /\ \/ /\ SendSucceeds(CommandTimeout)
          /\ c2b' = Sent(c2b, Pkt("PUBLISH", 0, 0, v)) /\ ping_timer' = KeepAlive
          /\ UNCHANGED connected
       \/ /\ SendFails(CommandTimeout)
          /\ connected' = AfterFailedSend(connected, CommandTimeout)
          /\ UNCHANGED <<c2b, ping_timer>>
    /\ UNCHANGED <<isconnected, ping_outstanding, next_packetid, received, readbuf,
                   payload, last_received_timer, ping_response_timer,
                   messageHandlers, link, b2c, accepted>>

PublishOp(q) == IF q = 1 THEN "publish1" ELSE "publish2"

MQTTPublish(q, below) ==
    /\ isconnected
    /\ Request(PublishOp(q), NoTopic,
               Pkt("PUBLISH", getNextPacketId, q, AValue), below)

PublishData ==
    /\ "publish0" \in Ops /\ Idle /\ isconnected
    /\ InFlight < MaxQueue
    /\ SendQoS0(AValue, stack)

Publish(q) ==
    /\ PublishOp(q) \in Ops /\ Idle
    /\ MQTTPublish(q, stack)

MQTTSubscribe(t) ==
    /\ "subscribe" \in Ops /\ Idle /\ isconnected
    /\ Request("subscribe", t, Simple("SUBSCRIBE", getNextPacketId), stack)

MQTTUnsubscribe(t) ==
    /\ "unsubscribe" \in Ops /\ Idle /\ isconnected
    /\ Request("unsubscribe", t, Simple("UNSUBSCRIBE", getNextPacketId), stack)

(* MQTTYield, called in the main loop only. *)
MQTTYield ==
    /\ Idle /\ link # "none"
    /\ stack' = <<NewFrame("yield", 0, NoTopic, YieldTime, "cycle")>>
    /\ UNCHANGED <<clientVars, netVars>>

(* What MQTTDisconnect leaves of the session (mutant: the outstanding ping *)
(* is not forgotten).                                                      *)
SessionHalfReset == isconnected' = FALSE /\ UNCHANGED ping_outstanding

SessionReset == isconnected' = FALSE /\ ping_outstanding' = FALSE

(* The main loop: "Check that we are still connected, if not, reconnect."  *)
(* The socket is closed first, so MQTTDisconnect sends nothing.            *)
Reconnect ==
    /\ Idle /\ link # "none"
    /\ ~connected \/ ~isconnected
    /\ NetworkDisconnect
    /\ SessionReset
    /\ UNCHANGED <<next_packetid, received, readbuf, payload, ping_timer,
                   last_received_timer, ping_response_timer, messageHandlers, stack>>

(* main, on its way out: CayenneMQTTDisconnect, then NetworkDisconnect;    *)
(* the DISCONNECT packet, once written, re-arms ping_timer.                *)
MQTTDisconnect ==
    /\ "disconnect" \in Ops
    /\ Idle /\ isconnected
    /\ ping_timer' \in (IF SendSucceeds(CommandTimeout) THEN {KeepAlive} ELSE {})
                    \cup (IF SendFails(CommandTimeout) THEN {ping_timer} ELSE {})
    /\ NetworkDisconnect
    /\ SessionReset
    /\ UNCHANGED <<next_packetid, received, readbuf, payload,
                   last_received_timer, ping_response_timer, messageHandlers, stack>>

-----------------------------------------------------------------------------
(* waitfor, and what each call does once its acknowledgement is there.     *)

AckArrived == AckOf(Top.op) \in received

(* waitfor and MQTTYield stop when their timer has expired (mutant: only   *)
(* MQTTYield does).                                                        *)
OnlyYieldTimesOut == Top.op = "yield" /\ Top.timer = 0

TimedOut == Top.timer = 0

(* MQTTConnect's return code; 255 stands for MQTT_FAILURE (mutant: the     *)
(* return code in the CONNACK is not looked at).                           *)
AnyConnackRc == IF readbuf.type = "CONNACK" THEN 0 ELSE 255

ConnectRc == IF readbuf.type = "CONNACK" THEN readbuf.code ELSE 255

(* MQTTSubscribe's: a readbuf that holds no SUBACK leaves sendPacket's 0   *)
(* (mutant: the granted QoS is not looked at).                             *)
AnySubackRc == 0

SubscribeRc == IF readbuf.type = "SUBACK" THEN readbuf.code ELSE 0

(* connectClient publishes two QoS 0 messages after an accepted CONNACK    *)
ConnectReturns ==
    /\ Top.op = "connect"
    /\ \/ /\ ConnectRc = 0
          /\ isconnected' = TRUE
          /\ \/ /\ SendSucceeds(CommandTimeout)
                /\ c2b' = LET m == Pkt("PUBLISH", 0, 0, AValue)
                          IN  Sent(Sent(c2b, m), m)
                /\ ping_timer' = KeepAlive
                /\ UNCHANGED connected
             \/ /\ SendFails(CommandTimeout)
                /\ connected' = AfterFailedSend(connected, CommandTimeout)
                /\ UNCHANGED <<c2b, ping_timer>>
          /\ UNCHANGED <<link, b2c, accepted>>
       \/ /\ ConnectRc # 0
          /\ NetworkDisconnect
          /\ UNCHANGED <<isconnected, ping_timer>>
    /\ UNCHANGED messageHandlers

FreeSlots == {i \in 1..MaxHandlers : messageHandlers[i] = NoTopic}

(* CayenneMQTTSubscribe takes the first free slot, if there is one. *)
SubscribeReturns ==
    /\ Top.op = "subscribe"
    /\ messageHandlers' =
         [i \in 1..MaxHandlers |->
            IF /\ SubscribeRc = 0
               /\ i \in FreeSlots /\ \A j \in FreeSlots : i <= j
            THEN Top.topic ELSE messageHandlers[i]]
    /\ UNCHANGED <<isconnected, ping_timer, netVars>>

(* CayenneMQTTUnsubscribe frees every slot of the topic. *)
UnsubscribeReturns ==
    /\ Top.op = "unsubscribe"
    /\ messageHandlers' =
         [i \in 1..MaxHandlers |->
            IF messageHandlers[i] = Top.topic THEN NoTopic ELSE messageHandlers[i]]
    /\ UNCHANGED <<isconnected, ping_timer, netVars>>

PublishReturns ==
    /\ Top.op \in {"publish1", "publish2"}
    /\ UNCHANGED <<isconnected, ping_timer, messageHandlers, netVars>>

(* An acknowledgement that ended one call no longer speaks for another.    *)
Taken(st, op) ==
    [i \in 1..Len(st) |-> IF st[i].op = op THEN [st[i] EXCEPT !.seen = {}] ELSE st[i]]

(* waitfor finds its flag set: it clears it and the call returns. *)
WaitDone ==
    /\ ~Idle /\ Top.pc = "wait" /\ AckArrived
    /\ received' = FlagCleared(Top.op)
    /\ stack' = Taken(Pop, Top.op)
    /\ ConnectReturns \/ SubscribeReturns \/ UnsubscribeReturns \/ PublishReturns
    /\ UNCHANGED <<ping_outstanding, next_packetid, readbuf, payload,
                   last_received_timer, ping_response_timer>>

(* The timer has expired: the call fails (MQTTYield simply ends), and a    *)
(* failed connectClient drops the connection.                              *)
WaitTimedOut ==
    /\ ~Idle /\ Top.pc = "wait" /\ ~AckArrived /\ TimedOut
    /\ stack' = Pop
    /\ IF Top.op = "connect" THEN NetworkDisconnect ELSE UNCHANGED netVars
    /\ UNCHANGED clientVars

WaitMore ==
    /\ ~Idle /\ Top.pc = "wait" /\ ~AckArrived /\ ~TimedOut
    /\ stack' = Goto("cycle")
    /\ UNCHANGED <<clientVars, netVars>>

-----------------------------------------------------------------------------
(* cycle: read one packet, act on its type, then keepalive.                *)

(* the frames below, with the acknowledgement m added to what they saw     *)
Witnessed(st, m) ==
    [i \in 1..Len(st) |->
       IF AckOf(st[i].op) = m.type THEN [st[i] EXCEPT !.seen = @ \cup {m}] ELSE st[i]]

(* A failed send of an acknowledgement leaves cycle before keepalive:      *)
(* MQTTYield returns the failure, waitfor ignores it.                      *)
CycleFails ==
    /\ stack' = IF Top.op = "yield" THEN Pop ELSE Goto("wait")
    /\ SendFails(Top.timer)
    /\ connected' = AfterFailedSend(connected, Top.timer)
    /\ UNCHANGED <<isconnected, ping_outstanding, ping_timer, ping_response_timer, c2b>>

(* m is answered by packet r before keepalive *)
CycleAnswers(r, lr) ==
    \/ /\ SendSucceeds(Top.timer)
       /\ stack' = Goto("wait")
       /\ keepalive(KeepAlive, lr, ping_outstanding, Sent(c2b, r), connected)
    \/ CycleFails

CycleRead ==
    /\ ~Idle /\ Top.pc = "cycle"
    /\ connected /\ b2c # <<>>
    /\ readbuf' = Head(b2c)
    /\ b2c' = Tail(b2c)
    /\ last_received_timer' = KeepAlive
    /\ LET m == Head(b2c)
           Alive(po) == keepalive(ping_timer, KeepAlive, po, c2b, connected)
       IN \/ /\ m.type \in AckTypes
             /\ received' = received \cup {m.type}
             /\ stack' = Witnessed(Goto("wait"), m)
             /\ Alive(ping_outstanding)
             /\ UNCHANGED payload
          \/ /\ m.type = "PINGRESP"
             /\ stack' = Goto("wait")
             /\ Alive(FALSE)
             /\ UNCHANGED <<received, payload>>
          \/ /\ m.type = "PUBREC"
             /\ CycleAnswers(Simple("PUBREL", m.id), KeepAlive)
             /\ UNCHANGED <<received, payload>>
          \/ /\ m.type = "PUBREL"
             /\ stack' = Goto("wait")
             /\ Alive(ping_outstanding)
             /\ UNCHANGED <<received, payload>>
          \/ /\ m.type = "PUBLISH"
             /\ payload' = m.val
             /\ stack' = Deliver(m)
             /\ UNCHANGED <<received, isconnected, ping_outstanding, ping_timer,
                            ping_response_timer, c2b, connected>>
    /\ UNCHANGED <<next_packetid, messageHandlers, link, accepted>>

(* readPacket fails: the timeout of the read has passed, or the connection *)
(* was closed, which the read reports at once.                             *)
CycleReadFails ==
    /\ ~Idle /\ Top.pc = "cycle"
    /\ \/ Top.timer = 0
       \/ ~connected \/ link = "stuck"
       \/ link = "closed" /\ b2c = <<>>
    /\ stack' = Goto("wait")
    /\ keepalive(ping_timer, last_received_timer, ping_outstanding, c2b,
                 connected /\ ~(link = "closed" /\ b2c = <<>>))
    /\ UNCHANGED <<next_packetid, received, readbuf, payload, last_received_timer,
                   messageHandlers, link, b2c, accepted>>

(* deliverMessage: no handler is interested in the message, or (below) the *)
(* application's messageArrived answers a command with a QoS 1 response... *)
Ignore ==
    /\ ~Idle /\ Top.pc = "deliver"
    /\ stack' = Goto("ack")
    /\ UNCHANGED <<clientVars, netVars>>

Respond ==
    /\ "respond" \in Ops
    /\ ~Idle /\ Top.pc = "deliver"
    /\ MQTTPublish(1, Goto("echo"))

(* ... and then publishes the value of the command at QoS 0.  The value is *)
(* a pointer into readbuf.                                                 *)
Echo ==
    /\ ~Idle /\ Top.pc = "echo"
    /\ \/ isconnected /\ SendQoS0(payload, Goto("ack"))
       \/ ~isconnected /\ stack' = Goto("ack") /\ UNCHANGED <<clientVars, netVars>>

(* cycle, after deliverMessage *)
Acknowledge ==
    /\ ~Idle /\ Top.pc = "ack"
    /\ \/ /\ Top.msg.code = 0
          /\ stack' = Goto("wait")
          /\ keepalive(ping_timer, last_received_timer, ping_outstanding, c2b, connected)
       \/ /\ Top.msg.code = 1
          /\ CycleAnswers(Simple("PUBACK", Top.msg.id), last_received_timer)
       \/ /\ Top.msg.code = 2
          /\ CycleAnswers(Simple("PUBREC", Top.msg.id), last_received_timer)
    /\ UNCHANGED <<next_packetid, received, readbuf, payload, last_received_timer,
                   messageHandlers, link, b2c, accepted>>

-----------------------------------------------------------------------------
(* The environment: the broker, the TCP connection and the clock.          *)

BrokerAnswers(m) ==
    CASE m.type = "CONNECT"     -> {<<Pkt("CONNACK", 0, c, AValue)>> : c \in {0, 5}}
      [] m.type = "SUBSCRIBE"   -> {<<Pkt("SUBACK", m.id, c, AValue)>> : c \in {0, 128}}
      [] m.type = "UNSUBSCRIBE" -> {<<Simple("UNSUBACK", m.id)>>}
      [] m.type = "PUBLISH"     -> {CASE m.code = 0 -> <<>>
                                      [] m.code = 1 -> <<Simple("PUBACK", m.id)>>
                                      [] OTHER      -> <<Simple("PUBREC", m.id)>>}
      [] m.type = "PUBREC"      -> {<<Simple("PUBREL", m.id)>>}
      [] m.type = "PUBREL"      -> {<<Simple("PUBCOMP", m.id)>>}
      [] m.type = "PINGREQ"     -> {<<Simple("PINGRESP", 0)>>}
      [] OTHER                  -> {<<>>}

BrokerReceives ==
    /\ link = "up" /\ c2b # <<>>
    /\ c2b' = Tail(c2b)
    /\ \E answer \in BrokerAnswers(Head(c2b)) :
         /\ b2c' = b2c \o answer
         /\ accepted' = (accepted \/ answer = <<Simple("CONNACK", 0)>>)
    /\ UNCHANGED <<clientVars, stack, connected, link>>

BrokerPublishes(q, v) ==
    /\ link = "up" /\ accepted
    /\ InFlight < MaxQueue
    /\ b2c' = Append(b2c, Pkt("PUBLISH", IF q = 0 THEN 0 ELSE 1, q, v))
    /\ UNCHANGED <<clientVars, stack, connected, link, c2b, accepted>>

(* The connection fails: closed by the peer, silently, or with errors.     *)
(* Only what had arrived can still be read.                                *)
LinkFails(kind) ==
    /\ link = "up" \/ (link = "silent" /\ kind = "stuck")
    /\ link' = kind
    /\ c2b' = <<>>
    /\ \E k \in 0..Len(b2c) : b2c' = SubSeq(b2c, 1, k)
    /\ UNCHANGED <<clientVars, stack, connected, accepted>>

Countdown(ticks) == IF ticks = 0 THEN 0 ELSE ticks - 1

Ticked(st) == [i \in 1..Len(st) |-> [st[i] EXCEPT !.timer = Countdown(@)]]

(* A tick is long compared with the code between two blocking reads, and a *)
(* read returns when its timeout has passed: no time passes while the      *)
(* innermost call runs on an expired timer.                                *)
Tick ==
    /\ ~Idle => Top.timer > 0
    /\ ping_timer' = Countdown(ping_timer)
    /\ last_received_timer' = Countdown(last_received_timer)
    /\ ping_response_timer' = Countdown(ping_response_timer)
    /\ stack' = Ticked(stack)
    /\ UNCHANGED <<isconnected, ping_outstanding, next_packetid, received, readbuf,
                   payload, messageHandlers, netVars>>

(* the library's own steps, once a call is in progress *)
Progress ==
    \/ WaitDone \/ WaitTimedOut \/ WaitMore
    \/ CycleRead \/ CycleReadFails
    \/ Ignore \/ Respond \/ Echo \/ Acknowledge

Next ==
    \/ connectClient
    \/ PublishData
    \/ \E q \in {1, 2} : Publish(q)
    \/ \E t \in Topics : MQTTSubscribe(t) \/ MQTTUnsubscribe(t)
    \/ MQTTYield
    \/ Reconnect
    \/ MQTTDisconnect
    \/ Progress
    \/ BrokerReceives
    \/ \E q \in InboundQoS, v \in Values : BrokerPublishes(q, v)
    \/ \E kind \in LinkFaults : LinkFails(kind)
    \/ Tick

Spec == Init /\ [][Next]_vars

-----------------------------------------------------------------------------
FlagsOK ==
    /\ isconnected \in BOOLEAN
    /\ ping_outstanding \in BOOLEAN
    /\ connected \in BOOLEAN
    /\ accepted \in BOOLEAN

CountersOK ==
    /\ next_packetid \in 1..MaxPacketId
    /\ ping_timer \in 0..KeepAlive
    /\ last_received_timer \in 0..KeepAlive
    /\ ping_response_timer \in 0..KeepAlive

ClientOK ==
    /\ received \in SUBSET AckTypes
    /\ readbuf \in Packet
    /\ payload \in Values
    /\ messageHandlers \in [1..MaxHandlers -> Topics \cup {NoTopic}]

NetworkOK ==
    /\ link \in {"none", "up", "closed", "silent", "stuck"}
    /\ c2b \in Seq(Packet)
    /\ b2c \in Seq(Packet)

(* Every variable has the type its C counterpart has: in particular packet *)
(* identifiers are never 0 and no timer is armed beyond its interval.      *)
TypeOK ==
    /\ FlagsOK
    /\ CountersOK
    /\ ClientOK
    /\ stack \in Seq(Frame)
    /\ NetworkOK

(* While MQTTClient.isconnected is set, the broker has accepted a CONNECT  *)
(* on the TCP connection in use: MQTTConnect sets it from the CONNACK it   *)
(* decoded out of readbuf, and no later TCP connection inherits it.        *)
ConnectedIsAccepted == isconnected => accepted

(* The first thing the broker gets on a TCP connection is the CONNECT, and *)
(* nothing follows it before the broker has accepted it: no call sends     *)
(* while isconnected is 0, and keepalive, which cycle runs even inside     *)
(* MQTTConnect's own waitfor, has nothing due there because both timers it *)
(* looks at were re-armed for longer than the command timeout.             *)
ConnectComesFirst ==
    ~accepted => c2b \in {<<>>, <<Simple("CONNECT", 0)>>}

Positions(queue, type) == {i \in 1..Len(queue) : queue[i].type = type}

(* On a connection that is up, ping_outstanding says exactly that one ping *)
(* is on its way: one PINGREQ not yet answered, or one PINGRESP not yet    *)
(* read, never two, and none when it is clear.  A stale ping_outstanding   *)
(* would make keepalive drop a healthy connection without having pinged.   *)
PingAccounted ==
    link = "up" =>
      LET pings == Positions(c2b, "PINGREQ")
          pongs == Positions(b2c, "PINGRESP")
      IN  /\ \A i, j \in pings : i = j
          /\ \A i, j \in pongs : i = j
          /\ pings = {} \/ pongs = {}
          /\ ping_outstanding <=> (pings # {} \/ pongs # {})

(* A call about to return because waitfor found its flag set has had an    *)
(* acknowledgement of its kind read since it began to wait, and no nested  *)
(* call of the same kind has returned on the strength of that one.         *)
SuccessHasOwnAck ==
    ~Idle /\ Top.pc = "wait" /\ AckArrived => Top.seen # {}

Connecting == \E i \in 1..Len(stack) : stack[i].op = "connect"

(* Both timers keepalive looks at have longer to go than MQTTConnect's.    *)
Outlasted(wait, pt, lr) ==
    /\ wait <= CommandTimeout
    /\ pt >= wait + (KeepAlive - CommandTimeout)
    /\ lr >= wait + (KeepAlive - CommandTimeout)

NothingButConnect(queue) == queue \in {<<>>, <<Simple("CONNECT", 0)>>}

OnlyRefusals(queue) ==
    \A i \in 1..Len(queue) : queue[i].type = "CONNACK" /\ queue[i].code # 0

(* Why the connection is never used before it is accepted: MQTTConnect's   *)
(* wait runs alone, on a live connection and with isconnected clear; while *)
(* it runs neither timer keepalive looks at can expire; until the broker   *)
(* has accepted, it is all that runs, nothing but the CONNECT is sent and  *)
(* nothing but refusals can be read; so a CONNACK flag found set with an   *)
(* accepting readbuf is the broker's; and with no TCP connection nothing   *)
(* waits and nothing is in flight.                                         *)
ConnectInv ==
    /\ Connecting =>
         /\ Len(stack) = 1 /\ ~isconnected /\ link # "none"
         /\ Outlasted(stack[1].timer, ping_timer, last_received_timer)
         /\ "CONNACK" \in received =>
              stack[1].pc = "wait" /\ (ConnectRc = 0 => accepted)
    /\ ~accepted =>
         /\ NothingButConnect(c2b) /\ OnlyRefusals(b2c)
         /\ link # "none" => Connecting /\ stack[1].pc \in {"wait", "cycle"}
    /\ link = "none" => Idle /\ ~isconnected /\ c2b = <<>> /\ b2c = <<>>
    /\ isconnected => accepted

(* The acknowledgement flags tell of acknowledgements read during the wait *)
(* of every waiting call of that kind, not only of the innermost.          *)
FlagsAreWitnessed ==
    \A i \in 1..Len(stack) : AckOf(stack[i].op) \in received => stack[i].seen # {}

(* MQTTClient.h documents MQTTPublish as "send an MQTT publish packet and  *)
(* wait for all acks to complete": a successful QoS 1 publish has read the *)
(* PUBACK of the packet it sent.  (The code never compares packet ids.)    *)
PublishAckIsItsOwn ==
    ~Idle /\ Top.op = "publish1" /\ Top.pc = "wait" /\ AckArrived =>
      \E m \in Top.seen : m.id = Top.id

(* The comment in waitfor says that a QoS 1 message can be published while *)
(* waiting for a SUBACK: MQTTSubscribe then still reports success only for *)
(* a subscription that the broker granted.                                 *)
SubscribeSuccessIsGranted ==
    ~Idle /\ Top.op = "subscribe" /\ Top.pc = "wait" /\ AckArrived /\ SubscribeRc = 0
      => \E m \in Top.seen : m.code = 0

-----------------------------------------------------------------------------
(* Liveness.  The task that runs the client is scheduled (Progress), time  *)
(* passes, and the main loop calls CayenneMQTTYield on every iteration and *)
(* reconnects when it sees the connection gone.                            *)
Fairness ==
    /\ WF_vars(Progress)
    /\ WF_vars(Tick)
    /\ SF_vars(MQTTYield)
    /\ SF_vars(Reconnect)

FairSpec == Spec /\ Fairness

(* Every blocking call returns: waitfor and MQTTYield look at their timer  *)
(* after each cycle, and so does every call nested in a message handler.   *)
CallsReturn == ~Idle ~> Idle

(* CayenneMQTTConnected is documented as "Check if the client is connected *)
(* to the Cayenne server": a connection that fails does not stay           *)
(* "connected".  The reads or writes report a closed one, and keepalive    *)
(* misses the PINGRESP of a silent one.  (A PINGREQ that cannot be written *)
(* clears nothing: the property fails once a connection may be stuck.)     *)
FailureIsDetected == (link \notin {"up", "none"}) ~> ~isconnected

=============================================================================
