-------------------------- MODULE MqttClientProofs --------------------------
(***************************************************************************)
(* Proofs about the MQTT client for every value of the constants: type     *)
(* correctness, what the acknowledgement flags and readbuf say of the      *)
(* waiting calls, that the connection is not used before the broker has    *)
(* accepted it, and that one ping is outstanding at a time.                *)
(***************************************************************************)
EXTENDS MqttClient, SequenceTheorems, TLAPS

Labels == {"wait", "cycle", "deliver", "echo", "ack"}

-----------------------------------------------------------------------------
(* What the operators the model is built from return.                      *)

(* The value a packet without a payload carries is one of Values. *)
LEMMA AValueType == AValue \in Values
BY ConstantsAssumption DEF AValue

(* Packets built by the constructors are packets. *)
LEMMA PktType ==
    ASSUME NEW t \in PacketTypes, NEW i \in 0..MaxPacketId,
           NEW c \in {0, 1, 2, 5, 128}, NEW v \in Values
    PROVE  Pkt(t, i, c, v) \in Packet
BY DEF Pkt, Packet

(* A packet that has a type and an id only is a packet. *)
LEMMA SimpleType ==
    ASSUME NEW t \in PacketTypes, NEW i \in 0..MaxPacketId
    PROVE  Simple(t, i) \in Packet /\ Simple(t, i).type = t
BY AValueType DEF Simple, Pkt, Packet

(* getNextPacketId stays within 1..MAX_PACKET_ID. *)
LEMMA NextIdType ==
    ASSUME next_packetid \in 1..MaxPacketId
    PROVE  getNextPacketId \in 1..MaxPacketId
BY ConstantsAssumption DEF getNextPacketId

(* A packet appended by sendPacket leaves a sequence of packets. *)
LEMMA SentType ==
    ASSUME NEW queue \in Seq(Packet), NEW m \in Packet
    PROVE  Sent(queue, m) \in Seq(Packet)
BY AppendProperties DEF Sent

(* The frame of a call that begins to wait is a frame. *)
LEMMA NewFrameType ==
    ASSUME NEW op \in WaitingOps \cup {"yield"}, NEW i \in 0..MaxPacketId,
           NEW t \in Topics \cup {NoTopic}, NEW ticks \in Nat, NEW label \in Labels
    PROVE  /\ NewFrame(op, i, t, ticks, label) \in Frame
           /\ NewFrame(op, i, t, ticks, label).op = op
           /\ NewFrame(op, i, t, ticks, label).pc = label
           /\ NewFrame(op, i, t, ticks, label).timer = ticks
<1>1. Simple("NONE", 0) \in Packet
  BY SimpleType, ConstantsAssumption DEF PacketTypes
<1> QED  BY <1>1 DEF NewFrame, Frame, Labels

(* Moving the innermost call to another label changes only its pc. *)
LEMMA GotoFacts ==
    ASSUME stack \in Seq(Frame), ~Idle, NEW label \in Labels
    PROVE  /\ Len(stack) \in Nat \ {0}
           /\ Top \in Frame
           /\ Goto(label) \in Seq(Frame)
           /\ Len(Goto(label)) = Len(stack)
           /\ \A i \in 1..Len(stack) :
                /\ Goto(label)[i].op = stack[i].op
                /\ Goto(label)[i].timer = stack[i].timer
                /\ Goto(label)[i].seen = stack[i].seen
                /\ Goto(label)[i].pc = IF i = Len(stack) THEN label ELSE stack[i].pc
<1>1. Len(stack) \in Nat \ {0}
  BY EmptySeq DEF Idle
<1>2. \A i \in 1..Len(stack) : stack[i] \in Frame
  BY ElementOfSeq
<1>3. Top \in Frame /\ Len(stack) \in 1..Len(stack)
  BY <1>1, <1>2 DEF Top
<1>4. /\ [Top EXCEPT !.pc = label] \in Frame
      /\ [Top EXCEPT !.pc = label].op = Top.op
      /\ [Top EXCEPT !.pc = label].timer = Top.timer
      /\ [Top EXCEPT !.pc = label].seen = Top.seen
      /\ [Top EXCEPT !.pc = label].pc = label
  <2> DEFINE f == Top
  <2>1. f \in Frame
    BY <1>3
  <2> HIDE DEF f
  <2>2. [f EXCEPT !.pc = label] \in Frame
    BY <2>1 DEF Frame, Labels
  <2>3. /\ [f EXCEPT !.pc = label].op = f.op /\ [f EXCEPT !.pc = label].timer = f.timer
        /\ [f EXCEPT !.pc = label].seen = f.seen /\ [f EXCEPT !.pc = label].pc = label
    BY <2>1 DEF Frame
  <2> QED  BY <2>2, <2>3, Zenon DEF f
<1>5. Goto(label) = [stack EXCEPT ![Len(stack)] = [Top EXCEPT !.pc = label]]
  BY DEF Goto, Top
<1>6. /\ Goto(label) \in Seq(Frame)
      /\ Len(Goto(label)) = Len(stack)
      /\ \A i \in 1..Len(stack) : Goto(label)[i] =
            IF i = Len(stack) THEN [Top EXCEPT !.pc = label] ELSE stack[i]
  BY <1>3, <1>4, <1>5, ExceptSeq
<1>7. ASSUME NEW i \in 1..Len(stack)
      PROVE  /\ Goto(label)[i].op = stack[i].op
             /\ Goto(label)[i].timer = stack[i].timer
             /\ Goto(label)[i].seen = stack[i].seen
             /\ Goto(label)[i].pc = IF i = Len(stack) THEN label ELSE stack[i].pc
  <2>1. CASE i = Len(stack)
    <3>1. stack[i] = Top  BY <2>1 DEF Top
    <3>2. Goto(label)[i] = [Top EXCEPT !.pc = label]  BY <2>1, <1>6
    <3> QED  BY <2>1, <3>1, <3>2, <1>4
  <2>2. CASE i # Len(stack)
    BY <2>2, <1>6
  <2> QED  BY <2>1, <2>2
<1> QED  BY <1>1, <1>3, <1>6, <1>7

(* Returning from the innermost call removes its frame and no other. *)
LEMMA PopFacts ==
    ASSUME stack \in Seq(Frame), ~Idle
    PROVE  /\ Pop \in Seq(Frame)
           /\ Len(Pop) = Len(stack) - 1
           /\ \A i \in 1..Len(Pop) : Pop[i] = stack[i]
<1>1. Len(stack) \in Nat \ {0}
  BY EmptySeq DEF Idle
<1>2. \A i \in 1..(Len(stack) - 1) : stack[i] \in Frame
  BY <1>1, ElementOfSeq
<1> DEFINE n == Len(stack) - 1
           p == SubSeq(stack, 1, n)
<1>3. n \in Nat  BY <1>1
<1>4. /\ p \in Seq(Frame)
      /\ Len(p) = IF 1 <= n THEN n - 1 + 1 ELSE 0
      /\ \A i \in 1..(n - 1 + 1) : p[i] = stack[1 + i - 1]
  <2>1. 1 \in Int /\ n \in Int  BY <1>3
  <2>2. \A i \in 1..n : stack[i] \in Frame  BY <1>2
  <2> QED  BY <2>1, <2>2, SubSeqProperties
<1>5. Pop = p  BY DEF Pop
<1> HIDE DEF p, n
<1>6. Len(p) = n  BY <1>3, <1>4
<1>7. ASSUME NEW i \in 1..n
      PROVE  p[i] = stack[i]
  BY <1>3, <1>4
<1> QED  BY <1>4, <1>5, <1>6, <1>7 DEF n

(* Changing every frame of the stack keeps its length. *)
LEMMA MappedStack ==
    ASSUME NEW st \in Seq(Frame), NEW f, f \in [1..Len(st) -> Frame]
    PROVE  f \in Seq(Frame) /\ Len(f) = Len(st)
<1>1. Len(st) \in Nat  BY LenProperties
<1> QED  BY <1>1, SeqDef

(* Recording a read acknowledgement changes only what calls have seen. *)
LEMMA WitnessedFacts ==
    ASSUME NEW st \in Seq(Frame), NEW m \in Packet
    PROVE  /\ Witnessed(st, m) \in Seq(Frame)
           /\ Len(Witnessed(st, m)) = Len(st)
           /\ \A i \in 1..Len(st) :
                /\ Witnessed(st, m)[i].op = st[i].op
                /\ Witnessed(st, m)[i].timer = st[i].timer
                /\ Witnessed(st, m)[i].pc = st[i].pc
                /\ Witnessed(st, m)[i].seen =
                     IF AckOf(st[i].op) = m.type THEN st[i].seen \cup {m} ELSE st[i].seen
<1> DEFINE g(i) == IF AckOf(st[i].op) = m.type
                   THEN [st[i] EXCEPT !.seen = @ \cup {m}] ELSE st[i]
<1>1. ASSUME NEW i \in 1..Len(st)
      PROVE  /\ g(i) \in Frame
             /\ g(i).op = st[i].op /\ g(i).timer = st[i].timer /\ g(i).pc = st[i].pc
             /\ g(i).seen = IF AckOf(st[i].op) = m.type THEN st[i].seen \cup {m} ELSE st[i].seen
  <2>1. st[i] \in Frame  BY ElementOfSeq
  <2> QED  BY <2>1, Zenon DEF Frame
<1>2. Witnessed(st, m) = [i \in 1..Len(st) |-> g(i)]
  BY DEF Witnessed
<1> HIDE DEF g
<1>3. Witnessed(st, m) \in [1..Len(st) -> Frame]
  BY <1>1, <1>2, Zenon
<1> QED  BY <1>1, <1>2, <1>3, MappedStack, Zenon

(* Taking an acknowledgement flag changes only what calls have seen. *)
LEMMA TakenFacts ==
    ASSUME NEW st \in Seq(Frame), NEW op
    PROVE  /\ Taken(st, op) \in Seq(Frame)
           /\ Len(Taken(st, op)) = Len(st)
           /\ \A i \in 1..Len(st) :
                /\ Taken(st, op)[i].op = st[i].op
                /\ Taken(st, op)[i].timer = st[i].timer
                /\ Taken(st, op)[i].pc = st[i].pc
                /\ st[i].op = op => Taken(st, op)[i].seen = {}
                /\ st[i].op # op => Taken(st, op)[i].seen = st[i].seen
<1> DEFINE g(i) == IF st[i].op = op THEN [st[i] EXCEPT !.seen = {}] ELSE st[i]
<1>1. ASSUME NEW i \in 1..Len(st)
      PROVE  /\ g(i) \in Frame
             /\ g(i).op = st[i].op /\ g(i).timer = st[i].timer /\ g(i).pc = st[i].pc
             /\ st[i].op = op => g(i).seen = {}
             /\ st[i].op # op => g(i).seen = st[i].seen
  <2>1. st[i] \in Frame  BY ElementOfSeq
  <2> QED  BY <2>1 DEF Frame
<1>2. Taken(st, op) = [i \in 1..Len(st) |-> g(i)]
  BY DEF Taken
<1> HIDE DEF g
<1>3. Taken(st, op) \in [1..Len(st) -> Frame]
  BY <1>1, <1>2
<1> QED  BY <1>1, <1>2, <1>3, MappedStack

(* When the innermost call returns, the others stay as they were but for   *)
(* what those of its kind had seen.                                        *)
LEMMA ReturnFacts ==
    ASSUME stack \in Seq(Frame), ~Idle, NEW op, stack' = Taken(Pop, op)
    PROVE  /\ stack' \in Seq(Frame) /\ Len(stack') = Len(stack) - 1
           /\ \A i \in 1..Len(stack') :
                /\ stack'[i].op = stack[i].op
                /\ stack[i].op # op => stack'[i].seen = stack[i].seen
<1> DEFINE p == Pop
           t == Taken(p, op)
<1>1. p \in Seq(Frame) /\ Len(p) = Len(stack) - 1 /\ \A i \in 1..Len(p) : p[i] = stack[i]
  BY PopFacts, Zenon
<1>2. stack' = t
  BY Zenon
<1> HIDE DEF p
<1>3. t \in Seq(Frame) /\ Len(t) = Len(p)
  BY <1>1, TakenFacts, Zenon
<1>4. \A i \in 1..Len(p) : t[i].op = p[i].op
  <2>1. p \in Seq(Frame)
    BY <1>1, Zenon
  <2> QED  BY ONLY <2>1, TakenFacts
<1>5. \A i \in 1..Len(p) : p[i].op # op => t[i].seen = p[i].seen
  BY <1>1, TakenFacts, Zenon
<1> HIDE DEF t
<1>6. \A i \in 1..Len(p) :
        t[i].op = stack[i].op /\ (stack[i].op # op => t[i].seen = stack[i].seen)
  BY <1>1, <1>4, <1>5, Zenon
<1> QED  BY <1>1, <1>2, <1>3, <1>6, Zenon

(* A tick changes only the timers of the waiting calls. *)
LEMMA TickedFacts ==
    ASSUME NEW st \in Seq(Frame)
    PROVE  /\ Ticked(st) \in Seq(Frame)
           /\ Len(Ticked(st)) = Len(st)
           /\ \A i \in 1..Len(st) :
                /\ Ticked(st)[i].op = st[i].op
                /\ Ticked(st)[i].timer = Countdown(st[i].timer)
                /\ Ticked(st)[i].pc = st[i].pc
                /\ Ticked(st)[i].seen = st[i].seen
<1> DEFINE g(i) == [st[i] EXCEPT !.timer = Countdown(@)]
<1>1. ASSUME NEW i \in 1..Len(st)
      PROVE  /\ g(i) \in Frame
             /\ g(i).op = st[i].op /\ g(i).timer = Countdown(st[i].timer)
             /\ g(i).pc = st[i].pc /\ g(i).seen = st[i].seen
  <2>1. st[i] \in Frame  BY ElementOfSeq
  <2>2. Countdown(st[i].timer) \in Nat  BY <2>1 DEF Countdown, Frame
  <2> QED  BY <2>1, <2>2, Zenon DEF Frame
<1>2. Ticked(st) = [i \in 1..Len(st) |-> g(i)]
  BY DEF Ticked
<1> HIDE DEF g
<1>3. Ticked(st) \in [1..Len(st) -> Frame]
  BY <1>1, <1>2
<1> QED  BY <1>1, <1>2, <1>3, MappedStack

(* deliverMessage changes the innermost call: its label and message. *)
LEMMA DeliverFacts ==
    ASSUME stack \in Seq(Frame), ~Idle, NEW m \in Packet
    PROVE  /\ Deliver(m) \in Seq(Frame)
           /\ Len(Deliver(m)) = Len(stack)
           /\ \A i \in 1..Len(stack) :
                /\ Deliver(m)[i].op = stack[i].op
                /\ Deliver(m)[i].timer = stack[i].timer
                /\ Deliver(m)[i].seen = stack[i].seen
                /\ Deliver(m)[i].pc = IF i = Len(stack) THEN "deliver" ELSE stack[i].pc
<1> DEFINE f == [Top EXCEPT !.pc = "deliver", !.msg = m]
<1>1. Len(stack) \in 1..Len(stack)
  BY EmptySeq DEF Idle
<1>2. Top \in Frame
  BY <1>1, ElementOfSeq DEF Top
<1>3. /\ f \in Frame
      /\ f.op = Top.op /\ f.timer = Top.timer /\ f.seen = Top.seen /\ f.pc = "deliver"
  <2> HIDE DEF Top
  <2> QED  BY <1>2, Zenon DEF Frame
<1>4. Deliver(m) = [stack EXCEPT ![Len(stack)] = f]
  BY DEF Deliver, Top
<1> HIDE DEF f
<1>5. /\ Deliver(m) \in Seq(Frame)
      /\ Len(Deliver(m)) = Len(stack)
      /\ \A i \in 1..Len(stack) : Deliver(m)[i] = IF i = Len(stack) THEN f ELSE stack[i]
  BY <1>1, <1>3, <1>4, ExceptSeq
<1>6. ASSUME NEW i \in 1..Len(stack)
      PROVE  /\ Deliver(m)[i].op = stack[i].op
             /\ Deliver(m)[i].timer = stack[i].timer
             /\ Deliver(m)[i].seen = stack[i].seen
             /\ Deliver(m)[i].pc = IF i = Len(stack) THEN "deliver" ELSE stack[i].pc
  <2>1. CASE i = Len(stack)
    <3>1. stack[i] = Top  BY <2>1 DEF Top
    <3>2. Deliver(m)[i] = f  BY <2>1, <1>5
    <3> QED  BY <2>1, <3>1, <3>2, <1>3
  <2>2. CASE i # Len(stack)
    BY <2>2, <1>5
  <2> QED  BY <2>1, <2>2
<1> QED  BY <1>5, <1>6

(* keepalive never connects, never shortens ping_timer, and sends at most  *)
(* one packet, a PINGREQ that is due.                                      *)
LEMMA KeepaliveFacts ==
    ASSUME TypeOK,
           NEW pt \in 0..KeepAlive, NEW lr \in 0..KeepAlive, NEW po \in BOOLEAN,
           NEW queue \in Seq(Packet), NEW cn \in BOOLEAN,
           keepalive(pt, lr, po, queue, cn)
    PROVE  /\ isconnected' \in BOOLEAN
           /\ isconnected' => isconnected
           /\ ping_outstanding' \in BOOLEAN
           /\ ping_timer' \in 0..KeepAlive
           /\ ping_timer' >= pt
           /\ ping_response_timer' \in 0..KeepAlive
           /\ connected' \in BOOLEAN
           /\ c2b' \in Seq(Packet)
           /\ \/ c2b' = queue
              \/ PingDue(pt, lr) /\ c2b' = Sent(queue, Simple("PINGREQ", 0))
<1>1. Sent(queue, Simple("PINGREQ", 0)) \in Seq(Packet)
  BY SimpleType, SentType, ConstantsAssumption DEF PacketTypes
<1>2. /\ isconnected \in BOOLEAN /\ ping_response_timer \in 0..KeepAlive
      /\ KeepAlive \in Nat
  BY ConstantsAssumption DEF TypeOK, FlagsOK, CountersOK
<1>3. AfterFailedSend(cn, 1) \in BOOLEAN
  BY DEF AfterFailedSend
<1>4. /\ ping_timer' \in 0..KeepAlive
      /\ ping_timer' >= pt
      /\ ping_response_timer' \in 0..KeepAlive
  BY <1>2 DEF keepalive
<1>5. /\ isconnected' \in BOOLEAN
      /\ isconnected' => isconnected
  <2>1. isconnected' = isconnected \/ isconnected' = FALSE
    BY DEF keepalive
  <2>2. isconnected' \in BOOLEAN
    BY <2>1, <1>2, Zenon
  <2>3. CASE isconnected' = isconnected
    BY <2>2, <2>3
  <2>4. CASE isconnected' = FALSE
    BY <2>2, <2>4
  <2> QED  BY <2>1, <2>2, <2>3, <2>4
<1>6. ping_outstanding' \in BOOLEAN
  BY Zenon DEF keepalive
<1>7. connected' \in BOOLEAN
  BY <1>3 DEF keepalive
<1>8. \/ c2b' = queue
      \/ PingDue(pt, lr) /\ c2b' = Sent(queue, Simple("PINGREQ", 0))
  BY DEF keepalive
<1> QED  BY <1>1, <1>4, <1>5, <1>6, <1>7, <1>8

-----------------------------------------------------------------------------
(* Type correctness, action by action.                                     *)

(* MQTTClientInit establishes the type invariant. *)
LEMMA TypeInit == Init => TypeOK
<1> SUFFICES ASSUME Init PROVE TypeOK
  OBVIOUS
<1>1. FlagsOK
  BY Zenon DEF Init, FlagsOK
<1>2. CountersOK
  BY ConstantsAssumption DEF Init, CountersOK
<1>3. ClientOK
  <2>1. Simple("NONE", 0) \in Packet
    BY SimpleType, ConstantsAssumption DEF PacketTypes
  <2> QED  BY <2>1, AValueType DEF Init, ClientOK
<1>4. stack \in Seq(Frame) /\ NetworkOK
  BY EmptySeq DEF Init, NetworkOK
<1> QED  BY <1>1, <1>2, <1>3, <1>4 DEF TypeOK

(* connectClient keeps the types. *)
LEMMA TypeConnectClient ==
    ASSUME TypeOK, connectClient
    PROVE  TypeOK'
<1>1. FlagsOK'
  BY Zenon DEF TypeOK, FlagsOK, connectClient, NetworkDisconnect
<1>2. CountersOK'
  BY ConstantsAssumption DEF TypeOK, CountersOK, connectClient
<1>3. ClientOK'
  BY DEF TypeOK, ClientOK, connectClient, FlagCleared
<1>4. stack' \in Seq(Frame)
  <2>1. <<NewFrame("connect", 0, NoTopic, CommandTimeout, "wait")>> \in Seq(Frame)
    BY NewFrameType, ConstantsAssumption DEF WaitingOps, Labels
  <2> QED  BY <2>1, Zenon DEF TypeOK, connectClient
<1>5. NetworkOK'
  <2>1. <<>> \in Seq(Packet) /\ <<Simple("CONNECT", 0)>> \in Seq(Packet)
    BY SimpleType, EmptySeq, ConstantsAssumption DEF PacketTypes
  <2> QED  BY <2>1, Zenon DEF connectClient, NetworkDisconnect, NetworkOK
<1> QED  BY <1>1, <1>2, <1>3, <1>4, <1>5 DEF TypeOK

(* A request sent on top of a well-typed stack. *)
LEMMA TypeRequest ==
    ASSUME TypeOK, NEW op \in WaitingOps, NEW t \in Topics \cup {NoTopic},
           NEW m \in Packet, m.id \in 1..MaxPacketId,
           NEW below \in Seq(Frame), Request(op, t, m, below)
    PROVE  TypeOK'
<1>1. FlagsOK'
  <2>1. AfterFailedSend(connected, CommandTimeout) \in BOOLEAN
    BY DEF AfterFailedSend
  <2> QED  BY <2>1 DEF TypeOK, FlagsOK, Request
<1>2. CountersOK'
  BY ConstantsAssumption DEF TypeOK, CountersOK, Request
<1>3. ClientOK'
  BY DEF TypeOK, ClientOK, Request, FlagCleared
<1>4. stack' \in Seq(Frame)
  <2>1. Append(below, NewFrame(op, m.id, t, CommandTimeout, "wait")) \in Seq(Frame)
    BY NewFrameType, AppendProperties, ConstantsAssumption DEF Labels
  <2> QED  BY <2>1 DEF Request
<1>5. NetworkOK'
  <2>1. Sent(c2b, m) \in Seq(Packet)
    BY SentType DEF TypeOK, NetworkOK
  <2> QED  BY <2>1 DEF TypeOK, NetworkOK, Request
<1> QED  BY <1>1, <1>2, <1>3, <1>4, <1>5 DEF TypeOK

(* A QoS 0 publish, sent and not waited for, keeps the types. *)
LEMMA TypeSendQoS0 ==
    ASSUME TypeOK, NEW v \in Values, NEW st \in Seq(Frame), SendQoS0(v, st)
    PROVE  TypeOK'
<1>1. FlagsOK'
  <2>1. AfterFailedSend(connected, CommandTimeout) \in BOOLEAN
    BY DEF AfterFailedSend
  <2> QED  BY <2>1 DEF TypeOK, FlagsOK, SendQoS0
<1>2. CountersOK'
  BY ConstantsAssumption DEF TypeOK, CountersOK, SendQoS0
<1>3. ClientOK' /\ stack' \in Seq(Frame)
  BY DEF TypeOK, ClientOK, SendQoS0
<1>4. NetworkOK'
  <2>1. Sent(c2b, Pkt("PUBLISH", 0, 0, v)) \in Seq(Packet)
    BY PktType, SentType, ConstantsAssumption DEF TypeOK, NetworkOK, PacketTypes
  <2> QED  BY <2>1 DEF TypeOK, NetworkOK, SendQoS0
<1> QED  BY <1>1, <1>2, <1>3, <1>4 DEF TypeOK

(* MQTTPublish keeps the types, from the main loop and from the handler. *)
LEMMA TypePublish ==
    ASSUME TypeOK, NEW q \in {1, 2}, NEW below \in Seq(Frame), MQTTPublish(q, below)
    PROVE  TypeOK'
<1> DEFINE m == Pkt("PUBLISH", getNextPacketId, q, AValue)
<1>1. getNextPacketId \in 1..MaxPacketId
  BY NextIdType DEF TypeOK, CountersOK
<1>2. m \in Packet
  <2>1. getNextPacketId \in 0..MaxPacketId  BY <1>1, ConstantsAssumption
  <2> QED  BY <2>1, AValueType, PktType DEF PacketTypes
<1>3. m.id = getNextPacketId
  BY DEF Pkt
<1>4. PublishOp(q) \in WaitingOps
  BY DEF PublishOp, WaitingOps
<1>5. Request(PublishOp(q), NoTopic, m, below)
  BY DEF MQTTPublish
<1> HIDE DEF m
<1> QED  BY <1>1, <1>2, <1>3, <1>4, <1>5, TypeRequest, Zenon

(* MQTTSubscribe and MQTTUnsubscribe keep the types. *)
LEMMA TypeSubscribe ==
    ASSUME TypeOK, NEW t \in Topics, MQTTSubscribe(t) \/ MQTTUnsubscribe(t)
    PROVE  TypeOK'
<1>1. getNextPacketId \in 1..MaxPacketId
  BY NextIdType DEF TypeOK, CountersOK
<1>2. \A type \in {"SUBSCRIBE", "UNSUBSCRIBE"} :
        /\ Simple(type, getNextPacketId) \in Packet
        /\ Simple(type, getNextPacketId).id = getNextPacketId
  <2>1. getNextPacketId \in 0..MaxPacketId  BY <1>1, ConstantsAssumption
  <2> QED  BY <2>1, SimpleType DEF PacketTypes, Simple, Pkt
<1>3. stack \in Seq(Frame)
  BY DEF TypeOK
<1> QED  BY <1>1, <1>2, <1>3, TypeRequest
         DEF MQTTSubscribe, MQTTUnsubscribe, WaitingOps

(* Disconnecting and reconnecting keep the types. *)
LEMMA TypeLeave ==
    ASSUME TypeOK, Reconnect \/ MQTTDisconnect
    PROVE  TypeOK'
<1>1. FlagsOK'
  BY Zenon DEF Reconnect, MQTTDisconnect, SessionReset, NetworkDisconnect, FlagsOK
<1>2. CountersOK'
  BY ConstantsAssumption DEF TypeOK, CountersOK, Reconnect, MQTTDisconnect
<1>3. ClientOK' /\ stack' \in Seq(Frame)
  BY DEF TypeOK, ClientOK, Reconnect, MQTTDisconnect
<1>4. NetworkOK'
  BY EmptySeq, Zenon DEF NetworkOK, Reconnect, MQTTDisconnect, NetworkDisconnect
<1> QED  BY <1>1, <1>2, <1>3, <1>4 DEF TypeOK

(* A wait that ends with its acknowledgement keeps the types. *)
LEMMA TypeWaitDone ==
    ASSUME TypeOK, WaitDone
    PROVE  TypeOK'
<1>0. stack \in Seq(Frame) /\ ~Idle
  BY DEF TypeOK, WaitDone
<1>1. FlagsOK'
  <2>1. AfterFailedSend(connected, CommandTimeout) \in BOOLEAN
    BY DEF AfterFailedSend
  <2> QED  BY <2>1, Zenon DEF TypeOK, FlagsOK, WaitDone, ConnectReturns, SubscribeReturns,
                    UnsubscribeReturns, PublishReturns, NetworkDisconnect, netVars
<1>2. CountersOK'
  BY ConstantsAssumption DEF TypeOK, CountersOK, WaitDone, ConnectReturns,
       SubscribeReturns, UnsubscribeReturns, PublishReturns
<1>3. ClientOK'
  <2>1. Top.topic \in Topics \cup {NoTopic}
    BY <1>0, GotoFacts DEF Frame, Labels
  <2>2. messageHandlers' \in [1..MaxHandlers -> Topics \cup {NoTopic}]
    BY <2>1 DEF TypeOK, ClientOK, WaitDone, ConnectReturns, SubscribeReturns,
                UnsubscribeReturns, PublishReturns
  <2> QED  BY <2>2 DEF TypeOK, ClientOK, WaitDone, FlagCleared
<1>4. stack' \in Seq(Frame)
  BY <1>0, ReturnFacts, Zenon DEF WaitDone
<1>5. NetworkOK'
  <2> DEFINE m == Pkt("PUBLISH", 0, 0, AValue)
  <2>1. m \in Packet
    BY PktType, AValueType, ConstantsAssumption DEF PacketTypes
  <2>2. Sent(Sent(c2b, m), m) \in Seq(Packet)
    BY <2>1, SentType DEF TypeOK, NetworkOK
  <2> HIDE DEF m
  <2>3. CASE ConnectReturns
    BY <2>2, <2>3, EmptySeq, Zenon DEF TypeOK, NetworkOK, ConnectReturns, NetworkDisconnect, m
  <2>4. CASE ~ConnectReturns
    BY <2>4 DEF TypeOK, NetworkOK, WaitDone, SubscribeReturns, UnsubscribeReturns,
                PublishReturns, netVars
  <2> QED  BY <2>3, <2>4
<1> QED  BY <1>1, <1>2, <1>3, <1>4, <1>5 DEF TypeOK

(* Steps of waitfor that change only the stack, or drop the connection. *)
LEMMA TypeWait ==
    ASSUME TypeOK, WaitTimedOut \/ WaitMore \/ Ignore
    PROVE  TypeOK'
<1>0. stack \in Seq(Frame) /\ ~Idle
  BY DEF TypeOK, WaitTimedOut, WaitMore, Ignore
<1>1. FlagsOK'
  BY Zenon DEF TypeOK, FlagsOK, WaitTimedOut, WaitMore, Ignore, clientVars, netVars,
         NetworkDisconnect
<1>2. CountersOK' /\ ClientOK'
  BY DEF TypeOK, CountersOK, ClientOK, WaitTimedOut, WaitMore, Ignore, clientVars
<1>3. stack' \in Seq(Frame)
  BY <1>0, PopFacts, GotoFacts DEF WaitTimedOut, WaitMore, Ignore, Labels
<1>4. NetworkOK'
  BY EmptySeq, Zenon DEF TypeOK, NetworkOK, WaitTimedOut, WaitMore, Ignore, netVars,
                  NetworkDisconnect
<1> QED  BY <1>1, <1>2, <1>3, <1>4 DEF TypeOK

(* The part of the state that cycle changes after it has looked at a       *)
(* packet: by keepalive, or by leaving early when an answer was not sent.  *)
CycleTyped ==
    /\ isconnected' \in BOOLEAN /\ ping_outstanding' \in BOOLEAN
    /\ connected' \in BOOLEAN
    /\ ping_timer' \in 0..KeepAlive /\ ping_response_timer' \in 0..KeepAlive
    /\ c2b' \in Seq(Packet)
    /\ stack' \in Seq(Frame)

(* keepalive keeps the types. *)
LEMMA TypeKeepalive ==
    ASSUME TypeOK, ~Idle, stack' \in Seq(Frame),
           NEW pt \in 0..KeepAlive, NEW lr \in 0..KeepAlive, NEW po \in BOOLEAN,
           NEW queue \in Seq(Packet), NEW cn \in BOOLEAN,
           keepalive(pt, lr, po, queue, cn)
    PROVE  CycleTyped
BY KeepaliveFacts DEF CycleTyped

(* The PUBREL or PUBCOMP that cycle sends keeps the types. *)
LEMMA TypeCycleAnswers ==
    ASSUME TypeOK, ~Idle, NEW r \in Packet, NEW lr \in 0..KeepAlive,
           CycleAnswers(r, lr)
    PROVE  CycleTyped
<1>1. Goto("wait") \in Seq(Frame) /\ Pop \in Seq(Frame)
  BY GotoFacts, PopFacts DEF TypeOK, Labels
<1>2. CASE CycleFails
  <2>1. AfterFailedSend(connected, Top.timer) \in BOOLEAN
    BY DEF AfterFailedSend
  <2>2. stack' \in Seq(Frame)
    BY <1>1, <1>2 DEF CycleFails
  <2> QED  BY <1>2, <2>1, <2>2 DEF CycleFails, CycleTyped, TypeOK, FlagsOK,
                                  CountersOK, NetworkOK
<1>3. CASE ~CycleFails
  <2>1. Sent(c2b, r) \in Seq(Packet)
    BY SentType DEF TypeOK, NetworkOK
  <2>2. /\ KeepAlive \in 0..KeepAlive
        /\ ping_outstanding \in BOOLEAN /\ connected \in BOOLEAN
    BY ConstantsAssumption DEF TypeOK, FlagsOK
  <2>3. /\ stack' = Goto("wait")
        /\ keepalive(KeepAlive, lr, ping_outstanding, Sent(c2b, r), connected)
    BY <1>3 DEF CycleAnswers
  <2> QED  BY <1>1, <2>1, <2>2, <2>3, TypeKeepalive
<1> QED  BY <1>2, <1>3

(* Reading a packet in cycle keeps the types. *)
LEMMA TypeCycleRead ==
    ASSUME TypeOK, CycleRead
    PROVE  TypeOK'
<1> DEFINE m == Head(b2c)
<1>1. /\ ~Idle /\ stack \in Seq(Frame) /\ b2c \in Seq(Packet) /\ b2c # <<>>
      /\ KeepAlive \in 0..KeepAlive /\ ping_timer \in 0..KeepAlive
      /\ ping_outstanding \in BOOLEAN /\ connected \in BOOLEAN /\ c2b \in Seq(Packet)
  BY ConstantsAssumption DEF TypeOK, FlagsOK, CountersOK, NetworkOK, CycleRead
<1>2. m \in Packet /\ Tail(b2c) \in Seq(Packet)
  BY <1>1, HeadTailProperties
<1>3. /\ m.type \in PacketTypes /\ m.id \in 0..MaxPacketId /\ m.val \in Values
  BY <1>2, SMT DEF Packet
<1>4. /\ Goto("wait") \in Seq(Frame) /\ Deliver(m) \in Seq(Frame)
      /\ Witnessed(Goto("wait"), m) \in Seq(Frame)
  <2>1. Goto("wait") \in Seq(Frame)
    BY <1>1, GotoFacts DEF Labels
  <2>2. Deliver(m) \in Seq(Frame)
    BY <1>1, <1>2, DeliverFacts, Zenon
  <2>3. Witnessed(Goto("wait"), m) \in Seq(Frame)
    BY <1>2, <2>1, WitnessedFacts, Zenon
  <2> QED  BY <2>1, <2>2, <2>3, Zenon
<1>5. CycleTyped /\ received' \in SUBSET AckTypes /\ payload' \in Values
  <2> DEFINE Alive(po) == keepalive(ping_timer, KeepAlive, po, c2b, connected)
  <2>0. received \in SUBSET AckTypes /\ payload \in Values
    BY DEF TypeOK, ClientOK
  <2>1. CASE /\ m.type \in AckTypes
             /\ received' = received \cup {m.type}
             /\ stack' = Witnessed(Goto("wait"), m)
             /\ Alive(ping_outstanding)
             /\ UNCHANGED payload
    <3>1. CycleTyped
      BY <2>1, <1>1, <1>4, TypeKeepalive
    <3> QED  BY <2>0, <2>1, <3>1
  <2>2. CASE /\ m.type = "PINGRESP"
             /\ stack' = Goto("wait")
             /\ Alive(FALSE)
             /\ UNCHANGED <<received, payload>>
    <3>1. CycleTyped
      BY <2>2, <1>1, <1>4, TypeKeepalive, Zenon
    <3> QED  BY <2>0, <2>2, <3>1
  <2>3. CASE /\ m.type = "PUBREC"
             /\ CycleAnswers(Simple("PUBREL", m.id), KeepAlive)
             /\ UNCHANGED <<received, payload>>
    <3>1. Simple("PUBREL", m.id) \in Packet
      BY <1>3, SimpleType DEF PacketTypes
    <3>2. CycleTyped
      BY <2>3, <3>1, <1>1, TypeCycleAnswers
    <3> QED  BY <2>0, <2>3, <3>2
  <2>4. CASE /\ m.type = "PUBREL"
             /\ stack' = Goto("wait")
             /\ Alive(ping_outstanding)
             /\ UNCHANGED <<received, payload>>
    <3>1. CycleTyped
      BY <2>4, <1>1, <1>4, TypeKeepalive
    <3> QED  BY <2>0, <2>4, <3>1
  <2>5. CASE /\ m.type = "PUBLISH"
             /\ payload' = m.val
             /\ stack' = Deliver(m)
             /\ UNCHANGED <<received, isconnected, ping_outstanding, ping_timer,
                            ping_response_timer, c2b, connected>>
    <3>1. CycleTyped
      BY <2>5, <1>4, SMT DEF CycleTyped, TypeOK, FlagsOK, CountersOK, NetworkOK
    <3> QED  BY <2>0, <2>5, <3>1, <1>3
  <2> QED  BY <2>1, <2>2, <2>3, <2>4, <2>5, Zenon DEF CycleRead
<1>6. FlagsOK'
  BY <1>5, SMT DEF CycleTyped, FlagsOK, TypeOK, CycleRead
<1>7. CountersOK'
  BY <1>1, <1>5, Zenon DEF CycleTyped, CountersOK, TypeOK, CycleRead
<1>8. ClientOK'
  BY <1>2, <1>5, Zenon DEF ClientOK, TypeOK, CycleRead
<1>9. NetworkOK'
  BY <1>2, <1>5 DEF CycleTyped, NetworkOK, TypeOK, CycleRead
<1> QED  BY <1>5, <1>6, <1>7, <1>8, <1>9 DEF TypeOK, CycleTyped

(* A read that finds nothing, or an error, keeps the types. *)
LEMMA TypeCycleReadFails ==
    ASSUME TypeOK, CycleReadFails
    PROVE  TypeOK'
<1> DEFINE cn == connected /\ ~(link = "closed" /\ b2c = <<>>)
<1>1. CycleTyped
  <2>1. /\ ~Idle /\ stack \in Seq(Frame) /\ cn \in BOOLEAN
        /\ ping_timer \in 0..KeepAlive /\ last_received_timer \in 0..KeepAlive
        /\ ping_outstanding \in BOOLEAN /\ c2b \in Seq(Packet)
    BY DEF TypeOK, FlagsOK, CountersOK, NetworkOK, CycleReadFails
  <2>2. stack' \in Seq(Frame)
    BY <2>1, GotoFacts DEF CycleReadFails, Labels
  <2>3. keepalive(ping_timer, last_received_timer, ping_outstanding, c2b, cn)
    BY DEF CycleReadFails
  <2> HIDE DEF cn
  <2> QED  BY <2>1, <2>2, <2>3, TypeKeepalive
<1>2. FlagsOK'
  BY <1>1 DEF CycleTyped, FlagsOK, TypeOK, CycleReadFails
<1>3. CountersOK' /\ ClientOK'
  BY <1>1 DEF CycleTyped, CountersOK, ClientOK, TypeOK, CycleReadFails
<1>4. NetworkOK'
  BY <1>1, SMT DEF CycleTyped, NetworkOK, TypeOK, CycleReadFails
<1> QED  BY <1>1, <1>2, <1>3, <1>4 DEF TypeOK, CycleTyped

(* The PUBACK or PUBREC for a delivered message keeps the types. *)
LEMMA TypeAcknowledge ==
    ASSUME TypeOK, Acknowledge
    PROVE  TypeOK'
<1>1. CycleTyped
  <2>1. /\ ~Idle /\ stack \in Seq(Frame) /\ connected \in BOOLEAN
        /\ ping_timer \in 0..KeepAlive /\ last_received_timer \in 0..KeepAlive
        /\ ping_outstanding \in BOOLEAN /\ c2b \in Seq(Packet)
    BY DEF TypeOK, FlagsOK, CountersOK, NetworkOK, Acknowledge
  <2>2. Goto("wait") \in Seq(Frame) /\ Top \in Frame
    BY <2>1, GotoFacts DEF Labels
  <2>3. Simple("PUBACK", Top.msg.id) \in Packet /\ Simple("PUBREC", Top.msg.id) \in Packet
    <3>1. Top.msg \in Packet
      BY <2>2 DEF Frame
    <3>2. Top.msg.id \in 0..MaxPacketId
      BY <3>1 DEF Packet
    <3> QED  BY <3>2, SimpleType DEF PacketTypes
  <2>4. CASE stack' = Goto("wait") /\ keepalive(ping_timer, last_received_timer,
                                                ping_outstanding, c2b, connected)
    BY <2>1, <2>2, <2>4, TypeKeepalive
  <2>5. CASE CycleAnswers(Simple("PUBACK", Top.msg.id), last_received_timer)
    BY <2>1, <2>3, <2>5, TypeCycleAnswers
  <2>6. CASE CycleAnswers(Simple("PUBREC", Top.msg.id), last_received_timer)
    BY <2>1, <2>3, <2>6, TypeCycleAnswers
  <2> QED  BY <2>4, <2>5, <2>6 DEF Acknowledge
<1>2. FlagsOK'
  BY <1>1 DEF CycleTyped, FlagsOK, TypeOK, Acknowledge
<1>3. CountersOK' /\ ClientOK'
  BY <1>1 DEF CycleTyped, CountersOK, ClientOK, TypeOK, Acknowledge
<1>4. NetworkOK'
  BY <1>1 DEF CycleTyped, NetworkOK, TypeOK, Acknowledge
<1> QED  BY <1>1, <1>2, <1>3, <1>4 DEF TypeOK, CycleTyped

(* The message handler keeps the types. *)
LEMMA TypeHandler ==
    ASSUME TypeOK, Respond \/ Echo
    PROVE  TypeOK'
<1>1. ~Idle /\ stack \in Seq(Frame) /\ payload \in Values
  BY DEF TypeOK, ClientOK, Respond, Echo
<1>2. Goto("echo") \in Seq(Frame) /\ Goto("ack") \in Seq(Frame)
  BY <1>1, GotoFacts DEF Labels
<1>3. CASE Respond
  BY <1>2, <1>3, TypePublish DEF Respond
<1>4. CASE SendQoS0(payload, Goto("ack"))
  BY <1>1, <1>2, <1>4, TypeSendQoS0
<1>5. CASE stack' = Goto("ack") /\ UNCHANGED <<clientVars, netVars>>
  <2>1. FlagsOK' /\ CountersOK'
    BY <1>5 DEF TypeOK, FlagsOK, CountersOK, clientVars, netVars
  <2>2. ClientOK' /\ NetworkOK'
    BY <1>5 DEF TypeOK, ClientOK, NetworkOK, clientVars, netVars
  <2> QED  BY <1>2, <1>5, <2>1, <2>2 DEF TypeOK
<1> QED  BY <1>3, <1>4, <1>5 DEF Echo

(* What the broker receives and answers keeps the types. *)
LEMMA TypeBroker ==
    ASSUME TypeOK, BrokerReceives
    PROVE  TypeOK'
<1> DEFINE m == Head(c2b)
<1>1. c2b \in Seq(Packet) /\ b2c \in Seq(Packet) /\ c2b # <<>>
  BY DEF TypeOK, NetworkOK, BrokerReceives
<1>2. m \in Packet /\ Tail(c2b) \in Seq(Packet)
  BY <1>1, HeadTailProperties
<1>3. m.id \in 0..MaxPacketId
  BY <1>2 DEF Packet
<1> HIDE DEF m
<1>4. BrokerAnswers(m) \subseteq Seq(Packet)
  <2>1. \A c \in {0, 5} : Pkt("CONNACK", 0, c, AValue) \in Packet
    BY PktType, AValueType, ConstantsAssumption DEF PacketTypes
  <2>2. \A c \in {0, 128} : Pkt("SUBACK", m.id, c, AValue) \in Packet
    BY <1>3, PktType, AValueType DEF PacketTypes
  <2>3. /\ Simple("UNSUBACK", m.id) \in Packet /\ Simple("PUBACK", m.id) \in Packet
        /\ Simple("PUBREC", m.id) \in Packet /\ Simple("PUBREL", m.id) \in Packet
        /\ Simple("PUBCOMP", m.id) \in Packet /\ Simple("PINGRESP", 0) \in Packet
    BY <1>3, SimpleType, ConstantsAssumption DEF PacketTypes
  <2>4. <<>> \in Seq(Packet) /\ \A p \in Packet : <<p>> \in Seq(Packet)
    OBVIOUS
  <2>5. CASE m.type = "CONNECT"
    BY <2>1, <2>4, <2>5, Zenon DEF BrokerAnswers
  <2>6. CASE m.type = "SUBSCRIBE"
    BY <2>2, <2>4, <2>6, Zenon DEF BrokerAnswers
  <2>7. CASE m.type = "PUBLISH"
    BY <2>3, <2>4, <2>7 DEF BrokerAnswers
  <2>8. CASE m.type \in {"UNSUBSCRIBE", "PUBREC", "PUBREL", "PINGREQ"}
    BY <2>3, <2>4, <2>8, Zenon DEF BrokerAnswers
  <2>9. CASE m.type \notin {"CONNECT", "SUBSCRIBE", "PUBLISH", "UNSUBSCRIBE",
                           "PUBREC", "PUBREL", "PINGREQ"}
    BY <2>4, <2>9, Zenon DEF BrokerAnswers
  <2> QED  BY <2>5, <2>6, <2>7, <2>8, <2>9
<1>5. NetworkOK'
  <2>1. PICK answer \in BrokerAnswers(m) : b2c' = b2c \o answer
    BY SMT DEF BrokerReceives, m
  <2>2. answer \in Seq(Packet)
    BY <1>4, <2>1
  <2>3. b2c' \in Seq(Packet)
    BY <1>1, <2>1, <2>2, ConcatProperties
  <2> QED  BY <1>2, <2>3 DEF TypeOK, NetworkOK, BrokerReceives
<1>6. FlagsOK'
  BY DEF TypeOK, FlagsOK, BrokerReceives, clientVars
<1>7. CountersOK' /\ ClientOK' /\ stack' \in Seq(Frame)
  BY DEF TypeOK, CountersOK, ClientOK, BrokerReceives, clientVars
<1> QED  BY <1>5, <1>6, <1>7 DEF TypeOK

(* Messages from the broker and failures of the link keep the types. *)
LEMMA TypeEnvironment ==
    ASSUME TypeOK,
           \/ \E q \in InboundQoS, v \in Values : BrokerPublishes(q, v)
           \/ \E kind \in LinkFaults : LinkFails(kind)
    PROVE  TypeOK'
<1>1. CASE \E q \in InboundQoS, v \in Values : BrokerPublishes(q, v)
  <2>1. PICK q \in InboundQoS, v \in Values : BrokerPublishes(q, v)
    BY <1>1
  <2>2. Pkt("PUBLISH", IF q = 0 THEN 0 ELSE 1, q, v) \in Packet
    BY PktType, ConstantsAssumption, SMT DEF PacketTypes
  <2>3. NetworkOK'
    BY <2>1, <2>2, AppendProperties DEF BrokerPublishes, TypeOK, NetworkOK
  <2>4. FlagsOK'
    BY <2>1 DEF TypeOK, FlagsOK, BrokerPublishes, clientVars
  <2>5. CountersOK' /\ ClientOK' /\ stack' \in Seq(Frame)
    BY <2>1 DEF TypeOK, CountersOK, ClientOK, BrokerPublishes, clientVars
  <2> QED  BY <2>3, <2>4, <2>5 DEF TypeOK
<1>2. CASE \E kind \in LinkFaults : LinkFails(kind)
  <2>1. PICK kind \in LinkFaults : LinkFails(kind)
    BY <1>2
  <2>2. kind \in {"closed", "silent", "stuck"}
    BY ConstantsAssumption
  <2>3. b2c' \in Seq(Packet)
    <3>1. PICK k \in 0..Len(b2c) : b2c' = SubSeq(b2c, 1, k)
      BY <2>1 DEF LinkFails
    <3> QED  BY <3>1, SubSeqProperties DEF TypeOK, NetworkOK
  <2>4. NetworkOK'
    BY <2>1, <2>2, <2>3 DEF LinkFails, NetworkOK
  <2>5. FlagsOK'
    BY <2>1 DEF TypeOK, FlagsOK, LinkFails, clientVars
  <2>6. CountersOK' /\ ClientOK' /\ stack' \in Seq(Frame)
    BY <2>1 DEF TypeOK, CountersOK, ClientOK, LinkFails, clientVars
  <2> QED  BY <2>4, <2>5, <2>6 DEF TypeOK
<1> QED  BY <1>1, <1>2

(* The passing of time keeps the types. *)
LEMMA TypeTick ==
    ASSUME TypeOK, Tick
    PROVE  TypeOK'
<1>1. stack' \in Seq(Frame)
  BY TickedFacts DEF TypeOK, Tick
<1>2. CountersOK'
  BY ConstantsAssumption DEF TypeOK, CountersOK, Tick, Countdown
<1>3. FlagsOK' /\ ClientOK' /\ NetworkOK'
  <2>1. FlagsOK'
    BY DEF TypeOK, FlagsOK, Tick, netVars
  <2>2. ClientOK' /\ NetworkOK'
    BY DEF TypeOK, ClientOK, NetworkOK, Tick, netVars
  <2> QED  BY <2>1, <2>2
<1> QED  BY <1>1, <1>2, <1>3, SMT DEF TypeOK

(* PublishData and MQTTYield keep the types. *)
LEMMA TypeMainLoop ==
    ASSUME TypeOK, PublishData \/ MQTTYield
    PROVE  TypeOK'
<1>1. CASE PublishData
  BY <1>1, AValueType, TypeSendQoS0 DEF PublishData, TypeOK
<1>2. CASE MQTTYield
  <2>1. stack' \in Seq(Frame)
    BY <1>2, NewFrameType, ConstantsAssumption DEF MQTTYield, Labels
  <2>2. FlagsOK' /\ CountersOK'
    BY <1>2 DEF MQTTYield, TypeOK, FlagsOK, CountersOK, clientVars, netVars
  <2>3. ClientOK' /\ NetworkOK'
    BY <1>2 DEF MQTTYield, TypeOK, ClientOK, NetworkOK, clientVars, netVars
  <2> QED  BY <2>1, <2>2, <2>3 DEF TypeOK
<1> QED  BY <1>1, <1>2

(* A step that changes nothing keeps the types. *)
LEMMA TypeStutter ==
    ASSUME TypeOK, UNCHANGED vars
    PROVE  TypeOK'
<1>1. FlagsOK' /\ CountersOK'
  BY DEF TypeOK, FlagsOK, CountersOK, vars, clientVars, netVars
<1>2. ClientOK' /\ NetworkOK' /\ stack' \in Seq(Frame)
  BY DEF TypeOK, ClientOK, NetworkOK, vars, clientVars, netVars
<1> QED  BY <1>1, <1>2 DEF TypeOK

(* Every variable keeps the type of its C counterpart: packet identifiers  *)
(* stay within 1..MAX_PACKET_ID, no timer is armed beyond its interval.    *)
THEOREM TypeCorrect == Spec => []TypeOK
<1>1. ASSUME TypeOK, [Next]_vars
      PROVE  TypeOK'
  <2>1. CASE connectClient
    BY <1>1, <2>1, TypeConnectClient
  <2>2. CASE PublishData \/ MQTTYield
    BY <1>1, <2>2, TypeMainLoop
  <2>3. CASE \E q \in {1, 2} : Publish(q)
    <3>1. stack \in Seq(Frame)
      BY <1>1 DEF TypeOK
    <3> QED  BY <1>1, <2>3, <3>1, TypePublish DEF Publish
  <2>4. CASE \E t \in Topics : MQTTSubscribe(t) \/ MQTTUnsubscribe(t)
    BY <1>1, <2>4, TypeSubscribe
  <2>5. CASE Reconnect \/ MQTTDisconnect
    BY <1>1, <2>5, TypeLeave
  <2>6. CASE Progress
    BY <1>1, <2>6, TypeWaitDone, TypeWait, TypeCycleRead, TypeCycleReadFails,
       TypeHandler, TypeAcknowledge DEF Progress
  <2>7. CASE BrokerReceives
    BY <1>1, <2>7, TypeBroker
  <2>8. CASE \/ \E q \in InboundQoS, v \in Values : BrokerPublishes(q, v)
             \/ \E kind \in LinkFaults : LinkFails(kind)
    BY <1>1, <2>8, TypeEnvironment
  <2>9. CASE Tick
    BY <1>1, <2>9, TypeTick
  <2>10. CASE UNCHANGED vars
    BY <1>1, <2>10, TypeStutter
  <2> QED  BY <1>1, <2>1, <2>2, <2>3, <2>4, <2>5, <2>6, <2>7, <2>8, <2>9, <2>10 DEF Next
<1> QED  BY <1>1, TypeInit, PTL DEF Spec


-----------------------------------------------------------------------------
(* Steps that leave the waiting calls as they are, or return from some.    *)

CallsKept ==
    /\ Len(stack') <= Len(stack)
    /\ \A i \in 1..Len(stack') :
         stack'[i].op = stack[i].op /\ stack'[i].seen = stack[i].seen

(* Moving the innermost call on, or returning from it, keeps the others.   *)
LEMMA GotoPopKeepCalls ==
    ASSUME stack \in Seq(Frame), ~Idle,
           \/ \E label \in Labels : stack' = Goto(label)
           \/ stack' = Pop
    PROVE  CallsKept
<1>1. CASE \E label \in Labels : stack' = Goto(label)
  BY <1>1, GotoFacts DEF CallsKept
<1>2. CASE stack' = Pop
  <2>1. Len(stack) \in Nat
    BY LenProperties
  <2> QED  BY <1>2, <2>1, PopFacts DEF CallsKept
<1> QED  BY <1>1, <1>2

(* Answering a packet inside cycle keeps the calls: it moves the innermost *)
(* one on, or ends it when the answer could not be sent.                   *)
LEMMA AnswerKeepsCalls ==
    ASSUME TypeOK, ~Idle, NEW r, NEW lr, CycleAnswers(r, lr)
    PROVE  CallsKept
<1>1. stack' = Goto("wait") \/ stack' = Pop
  BY DEF CycleAnswers, CycleFails
<1>2. "wait" \in Labels
  BY SMT DEF Labels
<1> QED  BY <1>1, <1>2, GotoPopKeepCalls DEF TypeOK

(* What cycle does with the packet it has read, by the packet's type.      *)
LEMMA CycleReadCases ==
    ASSUME CycleRead
    PROVE  \/ /\ Head(b2c).type \in AckTypes
              /\ received' = received \cup {Head(b2c).type}
              /\ stack' = Witnessed(Goto("wait"), Head(b2c))
              /\ keepalive(ping_timer, KeepAlive, ping_outstanding, c2b, connected)
           \/ /\ Head(b2c).type \in {"PINGRESP", "PUBREL"}
              /\ received' = received
              /\ stack' = Goto("wait")
              /\ \E po \in {FALSE, ping_outstanding} :
                   keepalive(ping_timer, KeepAlive, po, c2b, connected)
           \/ /\ Head(b2c).type = "PUBREC"
              /\ received' = received
              /\ CycleAnswers(Simple("PUBREL", Head(b2c).id), KeepAlive)
           \/ /\ Head(b2c).type = "PUBLISH"
              /\ received' = received
              /\ stack' = Deliver(Head(b2c))
              /\ UNCHANGED <<isconnected, ping_timer, c2b>>
<1> DEFINE m == Head(b2c)
           Alive(po) == keepalive(ping_timer, KeepAlive, po, c2b, connected)
<1>1. CASE /\ m.type \in AckTypes
           /\ received' = received \cup {m.type}
           /\ stack' = Witnessed(Goto("wait"), m)
           /\ Alive(ping_outstanding)
           /\ UNCHANGED payload
  BY <1>1
<1>2. CASE /\ m.type = "PINGRESP"
           /\ stack' = Goto("wait")
           /\ Alive(FALSE)
           /\ UNCHANGED <<received, payload>>
  <2>1. m.type \in {"PINGRESP", "PUBREL"} /\ received' = received
    BY <1>2
  <2> QED  BY <1>2, <2>1, Zenon
<1>3. CASE /\ m.type = "PUBREC"
           /\ CycleAnswers(Simple("PUBREL", m.id), KeepAlive)
           /\ UNCHANGED <<received, payload>>
  BY <1>3, Zenon
<1>4. CASE /\ m.type = "PUBREL"
           /\ stack' = Goto("wait")
           /\ Alive(ping_outstanding)
           /\ UNCHANGED <<received, payload>>
  <2>1. m.type \in {"PINGRESP", "PUBREL"} /\ received' = received
    BY <1>4
  <2> QED  BY <1>4, <2>1, Zenon
<1>5. CASE /\ m.type = "PUBLISH"
           /\ payload' = m.val
           /\ stack' = Deliver(m)
           /\ UNCHANGED <<received, isconnected, ping_outstanding, ping_timer,
                          ping_response_timer, c2b, connected>>
  BY <1>5, Zenon
<1> QED  BY <1>1, <1>2, <1>3, <1>4, <1>5, Zenon DEF CycleRead

(* The steps of a call other than reading an acknowledgement, starting a   *)
(* nested call and returning with success keep the calls, and the flags.   *)
LEMMA StepsKeepCalls ==
    ASSUME TypeOK,
           \/ WaitTimedOut \/ WaitMore \/ CycleReadFails \/ Ignore \/ Echo
           \/ Acknowledge \/ Tick
           \/ (CycleRead /\ Head(b2c).type \notin AckTypes)
    PROVE  CallsKept /\ received' = received
<1>0. stack \in Seq(Frame) /\ Len(stack) \in Nat
  BY LenProperties DEF TypeOK
<1>1. "wait" \in Labels /\ "cycle" \in Labels /\ "ack" \in Labels
  BY DEF Labels
<1>2. CASE WaitTimedOut \/ WaitMore \/ Ignore
  BY <1>0, <1>1, <1>2, GotoPopKeepCalls DEF WaitTimedOut, WaitMore, Ignore, clientVars
<1>3. CASE CycleReadFails
  BY <1>0, <1>1, <1>3, GotoPopKeepCalls DEF CycleReadFails
<1>4. CASE Echo
  BY <1>0, <1>1, <1>4, GotoPopKeepCalls DEF Echo, SendQoS0, clientVars
<1>5. CASE Acknowledge
  BY <1>0, <1>1, <1>5, GotoPopKeepCalls, AnswerKeepsCalls, Zenon DEF Acknowledge
<1>6. CASE Tick
  <2>1. stack' = Ticked(stack) /\ received' = received
    BY <1>6, Zenon DEF Tick
  <2>2. /\ Len(stack') = Len(stack)
        /\ \A i \in 1..Len(stack) :
             stack'[i].op = stack[i].op /\ stack'[i].seen = stack[i].seen
    BY <1>0, <2>1, TickedFacts, Zenon
  <2>3. Len(stack') <= Len(stack)
    BY <1>0, <2>2
  <2> QED  BY <2>1, <2>2, <2>3, Zenon DEF CallsKept
<1>7. CASE CycleRead /\ Head(b2c).type \notin AckTypes
  <2>1. ~Idle /\ Head(b2c) \in Packet
    BY <1>7, HeadTailProperties, Zenon DEF CycleRead, TypeOK, NetworkOK
  <2>2. received' = received
    BY <1>7, CycleReadCases, Zenon
  <2>3. \/ stack' = Goto("wait")
        \/ CycleAnswers(Simple("PUBREL", Head(b2c).id), KeepAlive)
        \/ stack' = Deliver(Head(b2c))
    BY <1>7, CycleReadCases, Zenon
  <2>4. CASE stack' = Deliver(Head(b2c))
    <3>1. /\ Len(stack') = Len(stack)
          /\ \A i \in 1..Len(stack) :
               stack'[i].op = stack[i].op /\ stack'[i].seen = stack[i].seen
      BY <1>0, <2>1, <2>4, DeliverFacts, Zenon
    <3>2. Len(stack') <= Len(stack)
      BY <1>0, <3>1
    <3> QED  BY <2>2, <3>1, <3>2, Zenon DEF CallsKept
  <2> QED  BY <1>0, <1>1, <2>1, <2>2, <2>3, <2>4, GotoPopKeepCalls, AnswerKeepsCalls, SMT
<1> QED  BY <1>2, <1>3, <1>4, <1>5, <1>6, <1>7

(* The steps outside the client, and the main loop's that start no wait.   *)
LEMMA OthersKeepCalls ==
    ASSUME TypeOK,
           \/ PublishData \/ Reconnect \/ MQTTDisconnect
           \/ BrokerReceives \/ UNCHANGED vars
           \/ \E q \in InboundQoS, v \in Values : BrokerPublishes(q, v)
           \/ \E kind \in LinkFaults : LinkFails(kind)
    PROVE  CallsKept /\ received' = received /\ stack' = stack
<1>1. Len(stack) \in Nat
  BY LenProperties DEF TypeOK
<1>2. stack' = stack /\ received' = received
  BY DEF PublishData, SendQoS0, Reconnect, MQTTDisconnect, BrokerReceives,
         BrokerPublishes, LinkFails, vars, clientVars
<1> QED  BY <1>1, <1>2 DEF CallsKept

-----------------------------------------------------------------------------
(* The acknowledgement flags.                                              *)

(* A step that keeps the calls and the flags keeps FlagsAreWitnessed. *)
LEMMA KeptCallsKeepWitnesses ==
    ASSUME TypeOK, FlagsAreWitnessed, CallsKept, received' = received
    PROVE  FlagsAreWitnessed'
<1>1. Len(stack) \in Nat
  BY LenProperties DEF TypeOK
<1>2. \A i \in 1..Len(stack') : i \in 1..Len(stack)
  BY <1>1 DEF CallsKept
<1> QED  BY <1>2, Zenon DEF FlagsAreWitnessed, CallsKept

(* A new call starts with its flag clear. *)
LEMMA RequestKeepsWitnesses ==
    ASSUME TypeOK, FlagsAreWitnessed, NEW op, NEW t, NEW m, NEW below \in Seq(Frame),
           Len(below) = Len(stack),
           \A i \in 1..Len(stack) :
             below[i].op = stack[i].op /\ below[i].seen = stack[i].seen,
           Request(op, t, m, below)
    PROVE  FlagsAreWitnessed'
<1>0. Len(stack) \in Nat
  BY LenProperties, Zenon DEF TypeOK
<1>1. CASE stack' = below /\ received' = received
  BY <1>0, <1>1 DEF FlagsAreWitnessed
<1>2. CASE /\ received' = FlagCleared(op)
           /\ stack' = Append(below, NewFrame(op, m.id, t, CommandTimeout, "wait"))
  <2> DEFINE f == NewFrame(op, m.id, t, CommandTimeout, "wait")
  <2>1. /\ Len(stack') = Len(stack) + 1
        /\ \A i \in 1..Len(stack) : stack'[i] = below[i]
        /\ stack'[Len(stack) + 1] = f
    <3> HIDE DEF f
    <3>1. stack' = Append(below, f)
      BY <1>2 DEF f
    <3> QED  BY <1>0, <3>1
  <2>2. f.op = op
    BY DEF NewFrame
  <2>3. received' \subseteq received /\ AckOf(op) \notin received'
    BY <1>2 DEF FlagCleared
  <2> HIDE DEF f
  <2>4. ASSUME NEW i \in 1..Len(stack'), AckOf(stack'[i].op) \in received'
        PROVE  stack'[i].seen # {}
    <3>1. i \in 1..Len(stack)
      <4>1. i \in 1..Len(stack) \/ i = Len(stack) + 1
        BY <1>0, <2>1
      <4>2. i # Len(stack) + 1
        BY <2>1, <2>2, <2>3, <2>4, Zenon
      <4> QED  BY <4>1, <4>2, Zenon
    <3> QED  BY <2>1, <2>3, <2>4, <3>1 DEF FlagsAreWitnessed
  <2> QED  BY <2>4 DEF FlagsAreWitnessed
<1> QED  BY <1>1, <1>2, Zenon DEF Request

(* The calls of the main loop and the handler keep FlagsAreWitnessed. *)
LEMMA CallsKeepWitnesses ==
    ASSUME TypeOK, FlagsAreWitnessed,
           \/ \E q \in {1, 2} : Publish(q)
           \/ \E t \in Topics : MQTTSubscribe(t) \/ MQTTUnsubscribe(t)
           \/ Respond
    PROVE  FlagsAreWitnessed'
<1>0. stack \in Seq(Frame)
  BY DEF TypeOK
<1>1. CASE Respond
  <2>1. ~Idle /\ \E op, t, m : Request(op, t, m, Goto("echo"))
    BY <1>1 DEF Respond, MQTTPublish
  <2>2. "echo" \in Labels
    BY DEF Labels
  <2> QED  BY <1>0, <2>1, <2>2, GotoFacts, RequestKeepsWitnesses
<1>2. CASE ~Respond
  <2>1. \E op, t, m : Request(op, t, m, stack)
    BY <1>2 DEF Publish, MQTTPublish, MQTTSubscribe, MQTTUnsubscribe
  <2> QED  BY <1>0, <2>1, RequestKeepsWitnesses
<1> QED  BY <1>1, <1>2

(* The first call of the main loop to wait: connectClient and MQTTYield.   *)
LEMMA FirstCallsKeepWitnesses ==
    ASSUME TypeOK, FlagsAreWitnessed, connectClient \/ MQTTYield
    PROVE  FlagsAreWitnessed'
<1>1. CASE connectClient
  <2>1. CASE /\ received' = FlagCleared("connect")
             /\ stack' = <<NewFrame("connect", 0, NoTopic, CommandTimeout, "wait")>>
    <3>1. Len(stack') = 1 /\ stack'[1].op = "connect"
      BY <2>1 DEF NewFrame
    <3>2. AckOf("connect") \notin received'
      BY <2>1 DEF FlagCleared
    <3> QED  BY <3>1, <3>2 DEF FlagsAreWitnessed
  <2>2. CASE UNCHANGED <<received, stack>>
    BY <2>2 DEF FlagsAreWitnessed
  <2> QED  BY <1>1, <2>1, <2>2 DEF connectClient
<1>2. CASE MQTTYield
  <2>1. Len(stack') = 1 /\ stack'[1].op = "yield" /\ received' = received
    BY <1>2 DEF MQTTYield, NewFrame, clientVars
  <2>2. AckOf("yield") \notin received
    BY DEF AckOf, TypeOK, ClientOK, AckTypes
  <2> QED  BY <2>1, <2>2, SMT DEF FlagsAreWitnessed
<1> QED  BY <1>1, <1>2

(* A call that returns with success clears the flag, and with it what the  *)
(* outer calls of its kind have seen.                                      *)
LEMMA ReturnKeepsWitnesses ==
    ASSUME TypeOK, FlagsAreWitnessed, WaitDone
    PROVE  FlagsAreWitnessed'
<1>0. stack \in Seq(Frame) /\ Len(stack) \in Nat /\ ~Idle
  BY LenProperties DEF TypeOK, WaitDone
<1> DEFINE op == Top.op
<1>1. stack' = Taken(Pop, op) /\ received' = FlagCleared(op)
  BY Zenon DEF WaitDone
<1> HIDE DEF op
<1>2. /\ Len(stack') = Len(stack) - 1
      /\ \A i \in 1..Len(stack') :
           /\ stack'[i].op = stack[i].op
           /\ stack[i].op # op => stack'[i].seen = stack[i].seen
  BY <1>0, <1>1, ReturnFacts, Zenon
<1>3. received' \subseteq received /\ AckOf(op) \notin received'
  BY <1>1 DEF FlagCleared
<1>4. \A i \in 1..Len(stack') : i \in 1..Len(stack)
  BY <1>0, <1>2
<1> QED  BY <1>2, <1>3, <1>4, Zenon DEF FlagsAreWitnessed

(* Reading an acknowledgement sets the flag for every waiting call of its  *)
(* kind.                                                                   *)
LEMMA AckKeepsWitnesses ==
    ASSUME TypeOK, FlagsAreWitnessed, CycleRead, Head(b2c).type \in AckTypes
    PROVE  FlagsAreWitnessed'
<1> DEFINE m == Head(b2c)
<1>1. stack \in Seq(Frame) /\ ~Idle /\ m \in Packet /\ "wait" \in Labels
  BY HeadTailProperties DEF TypeOK, NetworkOK, CycleRead, Labels
<1>2. received' = received \cup {m.type} /\ stack' = Witnessed(Goto("wait"), m)
  <2>1. m.type \notin {"PINGRESP", "PUBREL", "PUBREC", "PUBLISH"}
    BY DEF AckTypes
  <2> QED  BY <2>1, CycleReadCases, Zenon
<1> HIDE DEF m
<1>3. /\ Goto("wait") \in Seq(Frame) /\ Len(Goto("wait")) = Len(stack)
      /\ \A i \in 1..Len(stack) : /\ Goto("wait")[i].op = stack[i].op
                                  /\ Goto("wait")[i].seen = stack[i].seen
  BY <1>1, GotoFacts
<1>4. /\ Len(stack') = Len(stack)
      /\ \A i \in 1..Len(stack) :
           /\ stack'[i].op = stack[i].op
           /\ stack'[i].seen = IF AckOf(stack[i].op) = m.type
                               THEN stack[i].seen \cup {m} ELSE stack[i].seen
  <2> DEFINE w == Goto("wait")
  <2>1. /\ w \in Seq(Frame) /\ Len(w) = Len(stack) /\ stack' = Witnessed(w, m)
        /\ \A i \in 1..Len(stack) : w[i].op = stack[i].op /\ w[i].seen = stack[i].seen
    BY <1>2, <1>3
  <2> HIDE DEF w
  <2>2. /\ Len(stack') = Len(w)
        /\ \A i \in 1..Len(w) :
             /\ stack'[i].op = w[i].op
             /\ stack'[i].seen = IF AckOf(w[i].op) = m.type
                                 THEN w[i].seen \cup {m} ELSE w[i].seen
    BY <1>1, <2>1, WitnessedFacts, Zenon
  <2> QED  BY <2>1, <2>2, Zenon
<1> QED  BY <1>2, <1>4, Zenon DEF FlagsAreWitnessed

(* For every value of the constants: a call that waitfor ends because its  *)
(* flag is set has had an acknowledgement of its kind read since it began  *)
(* to wait, and one that no nested call has returned on.                   *)
THEOREM SuccessIsAcknowledged == Spec => []SuccessHasOwnAck
<1>1. Init => FlagsAreWitnessed
  BY DEF Init, FlagsAreWitnessed
<1>2. ASSUME TypeOK, FlagsAreWitnessed, [Next]_vars
      PROVE  FlagsAreWitnessed'
  <2>1. CASE connectClient \/ MQTTYield
    BY <1>2, <2>1, FirstCallsKeepWitnesses
  <2>2. CASE \/ \E q \in {1, 2} : Publish(q)
             \/ \E t \in Topics : MQTTSubscribe(t) \/ MQTTUnsubscribe(t)
             \/ Respond
    BY <1>2, <2>2, CallsKeepWitnesses
  <2>3. CASE WaitDone
    BY <1>2, <2>3, ReturnKeepsWitnesses
  <2>4. CASE CycleRead /\ Head(b2c).type \in AckTypes
    BY <1>2, <2>4, AckKeepsWitnesses
  <2>5. CASE \/ WaitTimedOut \/ WaitMore \/ CycleReadFails \/ Ignore \/ Echo
             \/ Acknowledge \/ Tick
             \/ (CycleRead /\ Head(b2c).type \notin AckTypes)
    BY <1>2, <2>5, StepsKeepCalls, KeptCallsKeepWitnesses
  <2>6. CASE \/ PublishData \/ Reconnect \/ MQTTDisconnect
             \/ BrokerReceives \/ UNCHANGED vars
             \/ \E q \in InboundQoS, v \in Values : BrokerPublishes(q, v)
             \/ \E kind \in LinkFaults : LinkFails(kind)
    BY <1>2, <2>6, OthersKeepCalls, KeptCallsKeepWitnesses
  <2> QED  BY <1>2, <2>1, <2>2, <2>3, <2>4, <2>5, <2>6 DEF Next, Progress
<1>3. TypeOK /\ FlagsAreWitnessed => SuccessHasOwnAck
  <2> SUFFICES ASSUME TypeOK, FlagsAreWitnessed, ~Idle, Top.pc = "wait", AckArrived
               PROVE  Top.seen # {}
    BY DEF SuccessHasOwnAck
  <2>1. Len(stack) \in 1..Len(stack)
    BY EmptySeq DEF TypeOK, Idle
  <2> QED  BY <2>1 DEF FlagsAreWitnessed, Top, AckArrived
<1> QED  BY <1>1, <1>2, <1>3, TypeCorrect, PTL DEF Spec

-----------------------------------------------------------------------------
(* Subscribing, when no message handler publishes a response: calls do not *)
(* nest, and a SUBACK flag that is found set is that of the SUBACK which   *)
(* readbuf still holds.                                                    *)
GrantInv ==
    /\ Len(stack) <= 1
    /\ ~Idle /\ Top.op = "subscribe" /\ "SUBACK" \in received =>
         Top.pc = "wait" /\ readbuf.type = "SUBACK" /\ readbuf \in Top.seen

(* Nothing to show for a subscription that waits without its flag. *)
LEMMA GrantNone ==
    ASSUME TypeOK', Len(stack') <= 1, ~Idle' => stack'[1].op # "subscribe" \/ "SUBACK" \notin received'
    PROVE  GrantInv'
<1>1. ~Idle' => Len(stack') = 1
  BY EmptySeq, LenProperties DEF TypeOK, Idle
<1> QED  BY <1>1 DEF GrantInv, Top

(* The main loop's calls clear the flag before they wait. *)
LEMMA CallsKeepGrant ==
    ASSUME TypeOK', Idle,
           \/ connectClient \/ MQTTYield
           \/ \E q \in {1, 2} : Publish(q)
           \/ \E t \in Topics : MQTTSubscribe(t) \/ MQTTUnsubscribe(t)
    PROVE  GrantInv'
<1>1. CASE connectClient \/ MQTTYield
  <2>1. Idle' \/ (Len(stack') = 1 /\ stack'[1].op \in {"connect", "yield"})
    <3>1. \/ stack' = stack
          \/ stack' = <<NewFrame("connect", 0, NoTopic, CommandTimeout, "wait")>>
          \/ stack' = <<NewFrame("yield", 0, NoTopic, YieldTime, "cycle")>>
      BY <1>1, Zenon DEF connectClient, MQTTYield
    <3>2. /\ NewFrame("connect", 0, NoTopic, CommandTimeout, "wait").op = "connect"
          /\ NewFrame("yield", 0, NoTopic, YieldTime, "cycle").op = "yield"
      BY DEF NewFrame
    <3>3. stack' = stack => Idle'
      BY DEF Idle
    <3> QED  BY <3>1, <3>2, <3>3
  <2>2. Len(stack') <= 1 /\ (~Idle' => stack'[1].op # "subscribe")
    BY <2>1 DEF Idle
  <2> QED  BY <2>2, GrantNone, SMT
<1>2. ASSUME NEW op, NEW t, NEW m, Request(op, t, m, stack) PROVE GrantInv'
  <2> DEFINE f == NewFrame(op, m.id, t, CommandTimeout, "wait")
  <2>1. f.op = op
    BY DEF NewFrame
  <2>2. stack' = <<>> \/ (stack' = Append(stack, f) /\ received' = received \ {AckOf(op)})
    BY <1>2 DEF Request, FlagCleared, Idle
  <2> HIDE DEF f
  <2>3. stack' = <<>> \/ (Len(stack') = 1 /\ stack'[1] = f)
    BY <2>2 DEF Idle
  <2>4. op = "subscribe" => AckOf(op) = "SUBACK"
    BY DEF AckOf
  <2>5. Len(stack') <= 1 /\ (~Idle' => Len(stack') = 1 /\ stack'[1] = f)
    BY <2>3 DEF Idle
  <2>6. ~Idle' => stack'[1].op # "subscribe" \/ "SUBACK" \notin received'
    <3>1. stack' = <<>> => Idle'
      BY DEF Idle
    <3> QED  BY <2>1, <2>2, <2>4, <2>5, <3>1
  <2> QED  BY <2>5, <2>6, GrantNone
<1> QED  BY <1>1, <1>2 DEF Publish, MQTTPublish, MQTTSubscribe, MQTTUnsubscribe

(* Once the flag is set, the call returns before anything else is read. *)
LEMMA ReadKeepsGrant ==
    ASSUME TypeOK, GrantInv, TypeOK', CycleRead
    PROVE  GrantInv'
<1>1. /\ stack \in Seq(Frame) /\ Len(stack) = 1 /\ ~Idle /\ Top = stack[1] /\ Top.pc = "cycle"
      /\ Head(b2c) \in Packet /\ "wait" \in Labels
  <2>1. Len(stack) = 1 /\ ~Idle
    <3>1. stack \in Seq(Frame) /\ ~Idle /\ Len(stack) <= 1
      BY Zenon DEF TypeOK, GrantInv, CycleRead
    <3>2. Len(stack) \in Nat /\ Len(stack) # 0
      BY <3>1, EmptySeq, LenProperties DEF Idle
    <3>3. \A n \in Nat : n # 0 /\ n <= 1 => n = 1
      OBVIOUS
    <3> QED  BY <3>1, <3>2, <3>3, Zenon
  <2> QED  BY <2>1, HeadTailProperties, Zenon DEF TypeOK, NetworkOK, CycleRead, Labels, Top
<1>2. Top.op = "subscribe" => "SUBACK" \notin received
  BY <1>1 DEF GrantInv
<1>3. CASE Head(b2c).type \in AckTypes
  <2>1. /\ stack' = Witnessed(Goto("wait"), Head(b2c)) /\ readbuf' = Head(b2c)
        /\ received' = received \cup {Head(b2c).type}
    BY <1>3, Zenon DEF CycleRead, AckTypes
  <2>2. /\ Goto("wait") \in Seq(Frame) /\ Len(Goto("wait")) = 1
        /\ Goto("wait")[1].op = Top.op /\ Goto("wait")[1].pc = "wait"
    BY <1>1, GotoFacts
  <2>3. /\ Len(stack') = 1 /\ stack'[1].op = Top.op /\ stack'[1].pc = "wait"
        /\ AckOf(Top.op) = Head(b2c).type => Head(b2c) \in stack'[1].seen
    <3> DEFINE st == Goto("wait")
               m == Head(b2c)
    <3>1. /\ Len(Witnessed(st, m)) = 1
          /\ Witnessed(st, m)[1].op = st[1].op /\ Witnessed(st, m)[1].pc = st[1].pc
          /\ Witnessed(st, m)[1].seen = IF AckOf(st[1].op) = m.type THEN st[1].seen \cup {m} ELSE st[1].seen
      <4> HIDE DEF st, m
      <4>1. st \in Seq(Frame) /\ m \in Packet /\ 1 \in 1..Len(st) /\ Len(st) = 1
        BY <1>1, <2>2 DEF st, m
      <4> QED  BY <4>1, WitnessedFacts, Zenon
    <3> HIDE DEF st, m
    <3>2. Len(stack') = 1 /\ stack'[1].op = Top.op /\ stack'[1].pc = "wait"
      BY <2>1, <2>2, <3>1 DEF st, m
    <3>3. AckOf(Top.op) = m.type => m \in stack'[1].seen
      BY <2>1, <2>2, <3>1 DEF st, m
    <3> QED  BY <3>2, <3>3 DEF m
  <2>4. Top.op = "subscribe" => AckOf(Top.op) = "SUBACK"
    BY DEF AckOf
  <2>5. Top' = stack'[1]
    BY <2>3 DEF Top
  <2>6. ASSUME Top.op = "subscribe", "SUBACK" \in received'
        PROVE  readbuf'.type = "SUBACK" /\ readbuf' \in stack'[1].seen
    <3>1. Head(b2c).type = "SUBACK"
      BY <1>2, <2>1, <2>6
    <3> QED  BY <2>1, <2>3, <2>4, <2>6, <3>1
  <2> QED  BY <2>3, <2>5, <2>6 DEF GrantInv
<1>4. CASE Head(b2c).type \notin AckTypes
  <2>1. CallsKept /\ received' = received
    BY <1>4, StepsKeepCalls
  <2>2. Len(stack') \in Nat
    BY LenProperties DEF TypeOK
  <2>3. ~Idle' => Len(stack') = 1
    BY <1>1, <2>1, <2>2, EmptySeq DEF CallsKept, Idle, TypeOK
  <2>4. ~Idle' => stack'[1].op = Top.op
    BY <1>1, <2>1, <2>3 DEF CallsKept
  <2> QED  BY <1>1, <1>2, <2>1, <2>4, GrantNone DEF CallsKept
<1> QED  BY <1>3, <1>4

(* The other steps of a call find the flag clear, or leave it as it is. *)
LEMMA StepsKeepGrant ==
    ASSUME TypeOK, GrantInv, TypeOK', ~Idle,
           \/ WaitDone \/ WaitTimedOut \/ WaitMore \/ CycleReadFails \/ Ignore \/ Echo \/ Acknowledge
    PROVE  GrantInv'
<1>1. stack \in Seq(Frame) /\ Len(stack) = 1 /\ Top = stack[1]
  <2>1. Len(stack) = 1
    <3>1. stack \in Seq(Frame) /\ ~Idle /\ Len(stack) <= 1
      BY DEF TypeOK, GrantInv
    <3>2. Len(stack) \in Nat /\ Len(stack) # 0
      BY <3>1, EmptySeq, LenProperties DEF Idle
    <3>3. \A n \in Nat : n # 0 /\ n <= 1 => n = 1
      OBVIOUS
    <3> QED  BY <3>1, <3>2, <3>3, Zenon
  <2> QED  BY <2>1 DEF TypeOK, Top
<1>2. CASE WaitDone \/ WaitTimedOut
  <2>1. stack' = Taken(Pop, Top.op) \/ stack' = Pop
    BY <1>2 DEF WaitDone, WaitTimedOut
  <2>2. Len(stack') = 0
    <3>1. Pop \in Seq(Frame) /\ Len(Pop) = 0
      BY <1>1, PopFacts
    <3>2. Len(Taken(Pop, Top.op)) = 0
      BY <3>1, TakenFacts, Zenon
    <3> QED  BY <2>1, <3>1, <3>2
  <2>3. Idle'
    BY <2>2, EmptySeq DEF TypeOK, Idle
  <2> QED  BY <2>2, <2>3, GrantNone
<1>3. CASE \/ WaitMore \/ CycleReadFails \/ Ignore \/ Echo \/ Acknowledge
  <2>1. CallsKept /\ received' = received
    BY <1>3, StepsKeepCalls
  <2>2. Top.op = "subscribe" => "SUBACK" \notin received
    <3>1. Top.op = "subscribe" => AckOf(Top.op) = "SUBACK"
      BY DEF AckOf
    <3>2. Top.pc # "wait" \/ ~AckArrived
      BY <1>3, Zenon DEF WaitMore, CycleReadFails, Ignore, Echo, Acknowledge
    <3> QED  BY <3>1, <3>2 DEF GrantInv, AckArrived
  <2>3. Len(stack') \in Nat
    BY LenProperties DEF TypeOK
  <2>4. ~Idle' => stack'[1].op = Top.op
    <3>1. ~Idle' => Len(stack') = 1
      BY <1>1, <2>1, <2>3, EmptySeq DEF CallsKept, Idle, TypeOK
    <3> QED  BY <1>1, <2>1, <3>1 DEF CallsKept
  <2> QED  BY <1>1, <2>1, <2>2, <2>4, GrantNone DEF CallsKept
<1> QED  BY <1>2, <1>3

(* The clock, and the steps that concern no call. *)
LEMMA OthersKeepGrant ==
    ASSUME TypeOK, GrantInv, TypeOK',
           \/ Tick \/ PublishData \/ Reconnect \/ MQTTDisconnect
           \/ BrokerReceives \/ UNCHANGED vars
           \/ \E q \in InboundQoS, v \in Values : BrokerPublishes(q, v)
           \/ \E kind \in LinkFaults : LinkFails(kind)
    PROVE  GrantInv'
<1>1. received' = received /\ readbuf' = readbuf
  BY DEF Tick, PublishData, SendQoS0, Reconnect, MQTTDisconnect, BrokerReceives, BrokerPublishes,
         LinkFails, vars, clientVars
<1>2. CASE Tick
  <2>1. /\ Len(stack') = Len(stack)
        /\ \A i \in 1..Len(stack) : /\ stack'[i].op = stack[i].op /\ stack'[i].pc = stack[i].pc
                                    /\ stack'[i].seen = stack[i].seen
    BY <1>2, TickedFacts, Zenon DEF Tick, TypeOK
  <2>2. (Idle' <=> Idle) /\ (~Idle => Len(stack) \in 1..Len(stack))
    BY <2>1, EmptySeq, LenProperties, SMT DEF TypeOK, Idle
  <2>3. ~Idle => Top'.op = Top.op /\ Top'.pc = Top.pc /\ Top'.seen = Top.seen
    BY <2>1, <2>2 DEF Top
  <2> QED  BY <1>1, <2>1, <2>2, <2>3, Zenon DEF GrantInv
<1>3. CASE ~Tick
  <2>1. stack' = stack
    BY <1>3, OthersKeepCalls
  <2> QED  BY <1>1, <2>1, Zenon DEF GrantInv, Idle, Top
<1> QED  BY <1>2, <1>3, SMT

(* When no message handler publishes a response, MQTTSubscribe reports     *)
(* success only for a subscription that the broker granted: the SUBACK it  *)
(* decodes out of readbuf is one read while it waited, for every value of  *)
(* the constants.  (With responses from handlers it is not so.)            *)
THEOREM SubscribeIsGranted ==
    ASSUME "respond" \notin Ops
    PROVE  Spec => []SubscribeSuccessIsGranted
<1>1. Init => GrantInv
  BY EmptySeq DEF Init, GrantInv, Idle
<1>2. ASSUME TypeOK, GrantInv, TypeOK', [Next]_vars PROVE GrantInv'
  <2>1. ~Respond
    BY DEF Respond
  <2>2. CASE \/ connectClient \/ MQTTYield
             \/ \E q \in {1, 2} : Publish(q)
             \/ \E t \in Topics : MQTTSubscribe(t) \/ MQTTUnsubscribe(t)
    <3>1. Idle
      BY <2>2 DEF connectClient, MQTTYield, Publish, MQTTSubscribe, MQTTUnsubscribe
    <3> QED  BY <1>2, <2>2, <3>1, CallsKeepGrant
  <2>3. CASE \/ WaitDone \/ WaitTimedOut \/ WaitMore \/ CycleReadFails \/ Ignore \/ Echo \/ Acknowledge
    <3>1. ~Idle
      BY <2>3, Zenon DEF WaitDone, WaitTimedOut, WaitMore, CycleReadFails, Ignore, Echo, Acknowledge
    <3> QED  BY <1>2, <2>3, <3>1, StepsKeepGrant
  <2>4. CASE CycleRead
    BY <1>2, <2>4, ReadKeepsGrant
  <2>5. CASE \/ Tick \/ PublishData \/ Reconnect \/ MQTTDisconnect
             \/ BrokerReceives \/ UNCHANGED vars
             \/ \E q \in InboundQoS, v \in Values : BrokerPublishes(q, v)
             \/ \E kind \in LinkFaults : LinkFails(kind)
    BY <1>2, <2>5, OthersKeepGrant
  <2> QED  BY <1>2, <2>1, <2>2, <2>3, <2>4, <2>5 DEF Next, Progress
<1>3. TypeOK /\ GrantInv => SubscribeSuccessIsGranted
  <2> SUFFICES ASSUME TypeOK, GrantInv, ~Idle, Top.op = "subscribe", Top.pc = "wait", AckArrived, SubscribeRc = 0
               PROVE  \E m \in Top.seen : m.code = 0
    BY DEF SubscribeSuccessIsGranted
  <2>1. "SUBACK" \in received
    BY DEF AckArrived, AckOf
  <2> QED  BY <2>1 DEF GrantInv, SubscribeRc
<1> QED  BY <1>1, <1>2, <1>3, TypeCorrect, PTL DEF Spec

-----------------------------------------------------------------------------
(* Connecting.  First what ConnectInv's own operators say.                 *)

(* MQTTConnect starts with both timers of keepalive armed for longer. *)
LEMMA OutlastedAtStart == Outlasted(CommandTimeout, KeepAlive, KeepAlive)
BY ConstantsAssumption DEF Outlasted

(* Arming either of them again keeps it so. *)
LEMMA OutlastedWhenArmed ==
    ASSUME NEW w \in Nat, NEW pt \in Nat, NEW lr \in Nat, Outlasted(w, pt, lr)
    PROVE  /\ Outlasted(w, KeepAlive, lr) /\ Outlasted(w, pt, KeepAlive)
           /\ Outlasted(w, KeepAlive, KeepAlive)
BY ConstantsAssumption DEF Outlasted

(* So does the passing of time, until the wait is over. *)
LEMMA OutlastedAfterTick ==
    ASSUME NEW w \in Nat, NEW pt \in Nat, NEW lr \in Nat, Outlasted(w, pt, lr), w > 0
    PROVE  Outlasted(Countdown(w), Countdown(pt), Countdown(lr))
BY ConstantsAssumption, TimingAssumption DEF Outlasted, Countdown

(* And keepalive has nothing due. *)
LEMMA OutlastedNotDue ==
    ASSUME NEW w \in Nat, NEW pt \in Nat, NEW lr \in Nat, Outlasted(w, pt, lr)
    PROVE  ~PingDue(pt, lr)
BY ConstantsAssumption, TimingAssumption DEF Outlasted, PingDue

(* Of refusals, reading one leaves refusals. *)
LEMMA RefusalRead ==
    ASSUME NEW S, NEW q \in Seq(S), q # <<>>, OnlyRefusals(q)
    PROVE  /\ Head(q).type = "CONNACK" /\ Head(q).code # 0
           /\ OnlyRefusals(Tail(q))
<1>1. Len(q) \in Nat \ {0} /\ Head(q) = q[1]
  BY EmptySeq, LenProperties
<1>2. Len(Tail(q)) = Len(q) - 1 /\ \A i \in 1..(Len(q) - 1) : Tail(q)[i] = q[i + 1]
  BY <1>1, HeadTailProperties
<1> QED  BY <1>1, <1>2 DEF OnlyRefusals

(* A further refusal may follow them. *)
LEMMA RefusalSent ==
    ASSUME NEW S, NEW q \in Seq(S), OnlyRefusals(q),
           NEW a \in S, a.type = "CONNACK", a.code # 0
    PROVE  OnlyRefusals(q \o <<a>>)
<1>1. Len(q) \in Nat
  BY LenProperties
<1>2. /\ Len(q \o <<a>>) = Len(q) + 1
      /\ \A i \in 1..Len(q) : (q \o <<a>>)[i] = q[i]
      /\ (q \o <<a>>)[Len(q) + 1] = a
  BY <1>1
<1> QED  BY <1>1, <1>2 DEF OnlyRefusals

(* When the connection fails, some of them are lost. *)
LEMMA RefusalsLost ==
    ASSUME NEW S, NEW q \in Seq(S), OnlyRefusals(q), NEW k \in 0..Len(q)
    PROVE  OnlyRefusals(SubSeq(q, 1, k))
<1>1. Len(q) \in Nat
  BY LenProperties
<1>2. Len(SubSeq(q, 1, k)) = k /\ \A i \in 1..k : SubSeq(q, 1, k)[i] = q[i]
  BY <1>1
<1> QED  BY <1>1, <1>2 DEF OnlyRefusals

(* A step leads to one of three kinds of state: the client is down, it is  *)
(* past MQTTConnect, or it is still in it.                                 *)

(* ConnectInv holds of a client that is down. *)
LEMMA DownSuffices ==
    ASSUME Idle', ~isconnected', c2b' = <<>>, b2c' = <<>>, link' = "none"
    PROVE  ConnectInv'
<1>1. ~Connecting'
  BY DEF Connecting, Idle
<1>2. NothingButConnect(c2b')
  BY Zenon DEF NothingButConnect
<1>3. OnlyRefusals(b2c')
  BY DEF OnlyRefusals
<1> QED  BY <1>1, <1>2, <1>3, Zenon DEF ConnectInv

(* ConnectInv holds of a client that is past MQTTConnect. *)
LEMMA PastSuffices ==
    ASSUME ~Connecting', accepted', link' # "none"
    PROVE  ConnectInv'
BY Zenon DEF ConnectInv

(* ConnectInv holds of a client that waits in MQTTConnect. *)
LEMMA StillConnectingSuffices ==
    ASSUME Len(stack') = 1, stack'[1].op = "connect", ~isconnected', link' # "none",
           Outlasted(stack'[1].timer, ping_timer', last_received_timer'),
           "CONNACK" \in received' =>
             stack'[1].pc = "wait" /\ (ConnectRc' = 0 => accepted'),
           ~accepted' =>
             /\ NothingButConnect(c2b') /\ OnlyRefusals(b2c')
             /\ stack'[1].pc \in {"wait", "cycle"}
    PROVE  ConnectInv'
<1>1. 1 \in 1..1
  OBVIOUS
<1>2. Connecting'
  BY <1>1, Zenon DEF Connecting
<1> QED  BY <1>2, Zenon DEF ConnectInv

(* What ConnectInv says while MQTTConnect waits. *)
LEMMA ConnectingFacts ==
    ASSUME TypeOK, ConnectInv, Connecting
    PROVE  /\ Len(stack) = 1 /\ ~Idle /\ Top = stack[1]
           /\ stack \in Seq(Frame) /\ stack[1].op = "connect"
           /\ stack[1].timer \in Nat
           /\ ping_timer \in Nat /\ last_received_timer \in Nat
           /\ ~isconnected /\ link # "none"
           /\ Outlasted(stack[1].timer, ping_timer, last_received_timer)
           /\ AckOf(Top.op) = "CONNACK"
           /\ "CONNACK" \in received =>
                stack[1].pc = "wait" /\ (ConnectRc = 0 => accepted)
<1>1. /\ Len(stack) = 1 /\ ~isconnected /\ link # "none"
      /\ Outlasted(stack[1].timer, ping_timer, last_received_timer)
      /\ "CONNACK" \in received =>
           stack[1].pc = "wait" /\ (ConnectRc = 0 => accepted)
  BY Zenon DEF ConnectInv
<1>2. stack \in Seq(Frame) /\ ping_timer \in 0..KeepAlive /\ last_received_timer \in 0..KeepAlive
  BY Zenon DEF TypeOK, CountersOK
<1>3. stack[1] \in Frame
  <2>1. 1 \in 1..Len(stack)
    BY <1>1
  <2> QED  BY <1>2, <2>1, ElementOfSeq, Zenon
<1>4. stack[1].op = "connect"
  <2>1. PICK i \in 1..Len(stack) : stack[i].op = "connect"
    BY Zenon DEF Connecting
  <2>2. i = 1
    BY <1>1, <2>1
  <2> QED  BY <2>1, <2>2, Zenon
<1>5. ~Idle /\ Top = stack[1]
  BY <1>1 DEF Idle, Top
<1>6. AckOf(Top.op) = "CONNACK"
  BY <1>4, <1>5 DEF AckOf
<1>7. stack[1].timer \in Nat
  BY <1>3 DEF Frame
<1>8. ping_timer \in Nat /\ last_received_timer \in Nat
  BY <1>2, ConstantsAssumption
<1> QED  BY <1>1, <1>2, <1>4, <1>5, <1>6, <1>7, <1>8, Zenon

(* While MQTTConnect waits keepalive has nothing due, whichever of its     *)
(* timers cycle has just armed again.                                      *)
LEMMA ConnectingNotDue ==
    ASSUME TypeOK, ConnectInv, Connecting
    PROVE  /\ ~PingDue(ping_timer, last_received_timer) /\ ~PingDue(ping_timer, KeepAlive)
           /\ ~PingDue(KeepAlive, KeepAlive) /\ ~PingDue(KeepAlive, last_received_timer)
<1>1. KeepAlive \in Nat
  BY ConstantsAssumption
<1> QED  BY <1>1, ConnectingFacts, OutlastedWhenArmed, OutlastedNotDue, Zenon

(* What ConnectInv says until the broker has accepted. *)
LEMMA UnacceptedFacts ==
    ASSUME ConnectInv, ~accepted
    PROVE  /\ NothingButConnect(c2b) /\ OnlyRefusals(b2c)
           /\ link # "none" => Connecting /\ stack[1].pc \in {"wait", "cycle"}
BY Zenon DEF ConnectInv

(* What it says of any other state with a TCP connection. *)
LEMMA PastFacts ==
    ASSUME ConnectInv, ~Connecting, link # "none"
    PROVE  accepted
BY Zenon DEF ConnectInv

(* isconnected is set past MQTTConnect only. *)
LEMMA ConnectedFacts ==
    ASSUME ConnectInv, isconnected
    PROVE  accepted /\ ~Connecting /\ link # "none"
BY Zenon DEF ConnectInv

(* A call waits only over a TCP connection. *)
LEMMA WaitingHasLink ==
    ASSUME ConnectInv, ~Idle
    PROVE  link # "none"
BY Zenon DEF ConnectInv

(* keepalive with nothing due changes nothing but what cycle has changed.  *)
LEMMA KeepaliveNotDue ==
    ASSUME NEW pt, NEW lr, NEW po, NEW queue, NEW cn,
           ~PingDue(pt, lr), keepalive(pt, lr, po, queue, cn)
    PROVE  ping_timer' = pt /\ c2b' = queue /\ isconnected' = isconnected
BY Zenon DEF keepalive

(* A step that keeps the calls does not lead back into MQTTConnect. *)
LEMMA KeptCallsKeepPast ==
    ASSUME TypeOK, ConnectInv, ~Connecting, link # "none", TypeOK',
           Len(stack') <= Len(stack), \A i \in 1..Len(stack') : stack'[i].op = stack[i].op,
           accepted' = accepted, link' = link
    PROVE  ConnectInv'
<1>1. Len(stack) \in Nat /\ Len(stack') \in Nat
  BY LenProperties DEF TypeOK
<1>2. \A i \in 1..Len(stack') : i \in 1..Len(stack)
  BY <1>1
<1>3. ~Connecting'
  BY <1>2, Zenon DEF Connecting
<1>4. accepted
  BY PastFacts, Zenon
<1> QED  BY <1>3, <1>4, PastSuffices, Zenon

(* connectClient starts MQTTConnect alone, on a new connection. *)
LEMMA ConnectClientKeepsInv ==
    ASSUME TypeOK, ConnectInv, connectClient
    PROVE  ConnectInv'
<1>1. Idle /\ ~isconnected /\ isconnected' = isconnected
  BY Zenon DEF connectClient, ConnectInv
<1>2. CASE NetworkDisconnect /\ stack' = stack
  <2>1. Idle'
    BY <1>1, <1>2, Zenon DEF Idle
  <2>2. ~isconnected'
    BY <1>1, Zenon
  <2> QED  BY <1>2, <2>1, <2>2, DownSuffices, Zenon DEF NetworkDisconnect
<1>3. CASE /\ link' = "up" /\ accepted' = FALSE
           /\ c2b' = <<Simple("CONNECT", 0)>> /\ b2c' = <<>>
           /\ ping_timer' = KeepAlive /\ last_received_timer' = KeepAlive
           /\ received' = FlagCleared("connect")
           /\ stack' = <<NewFrame("connect", 0, NoTopic, CommandTimeout, "wait")>>
  <2> DEFINE f == NewFrame("connect", 0, NoTopic, CommandTimeout, "wait")
  <2>1. f.op = "connect" /\ f.timer = CommandTimeout /\ f.pc = "wait"
    BY DEF NewFrame
  <2>2. stack' = <<f>>
    BY <1>3, Zenon
  <2> HIDE DEF f
  <2>3. Len(stack') = 1 /\ stack'[1] = f
    BY <2>2
  <2>4. "CONNACK" \notin received'
    BY <1>3 DEF FlagCleared, AckOf
  <2>5. Outlasted(stack'[1].timer, ping_timer', last_received_timer')
    BY <1>3, <2>1, <2>3, OutlastedAtStart, Zenon
  <2>6. NothingButConnect(c2b')
    BY <1>3, Zenon DEF NothingButConnect
  <2>7. OnlyRefusals(b2c')
    BY <1>3 DEF OnlyRefusals
  <2>8. stack'[1].op = "connect" /\ stack'[1].pc \in {"wait", "cycle"}
    BY <2>1, <2>3, Zenon
  <2>9. ~isconnected' /\ link' # "none"
    BY <1>1, <1>3, Zenon
  <2> QED  BY <2>3, <2>4, <2>5, <2>6, <2>7, <2>8, <2>9, StillConnectingSuffices, Zenon
<1> QED  BY <1>2, <1>3, Zenon DEF connectClient

(* Calls are made on an accepted connection, after MQTTConnect. *)
LEMMA RequestKeepsInv ==
    ASSUME TypeOK, ConnectInv, TypeOK', isconnected,
           NEW op, op # "connect", NEW t, NEW m, NEW below \in Seq(Frame),
           Len(below) = Len(stack),
           \A i \in 1..Len(stack) : below[i].op = stack[i].op,
           Request(op, t, m, below)
    PROVE  ConnectInv'
<1>0. Len(stack) \in Nat
  BY LenProperties DEF TypeOK
<1>1. accepted /\ ~Connecting /\ link # "none"
  BY ConnectedFacts, Zenon
<1>2. accepted' = accepted /\ link' = link
  BY Zenon DEF Request
<1>3. CASE stack' = below
  <2>1. Len(stack') <= Len(stack) /\ \A i \in 1..Len(stack') : stack'[i].op = stack[i].op
    BY <1>0, <1>3
  <2> QED  BY <1>1, <1>2, <2>1, KeptCallsKeepPast, Zenon
<1>4. CASE stack' = Append(below, NewFrame(op, m.id, t, CommandTimeout, "wait"))
  <2> DEFINE f == NewFrame(op, m.id, t, CommandTimeout, "wait")
  <2>1. f.op = op
    BY DEF NewFrame
  <2>2. stack' = Append(below, f)
    BY <1>4, Zenon
  <2> HIDE DEF f
  <2>3. /\ Len(stack') = Len(stack) + 1 /\ stack'[Len(stack) + 1] = f
        /\ \A i \in 1..Len(stack) : stack'[i] = below[i]
    BY <1>0, <2>2
  <2>4. \A i \in 1..Len(stack') : i \in 1..Len(stack) \/ i = Len(stack) + 1
    BY <1>0, <2>3
  <2>5. ~Connecting'
    BY <1>1, <2>1, <2>3, <2>4, Zenon DEF Connecting
  <2> QED  BY <1>1, <1>2, <2>5, PastSuffices, Zenon
<1> QED  BY <1>3, <1>4, Zenon DEF Request

(* Publishing, subscribing and unsubscribing keep ConnectInv. *)
LEMMA CallsKeepInv ==
    ASSUME TypeOK, ConnectInv, TypeOK',
           \/ \E q \in {1, 2} : Publish(q)
           \/ \E t \in Topics : MQTTSubscribe(t) \/ MQTTUnsubscribe(t)
           \/ Respond
    PROVE  ConnectInv'
<1>0. stack \in Seq(Frame)
  BY Zenon DEF TypeOK
<1>1. \A q : PublishOp(q) # "connect"
  BY DEF PublishOp
<1>2. CASE Respond
  <2>1. ~Idle /\ isconnected /\ \E op, t, m : op # "connect" /\ Request(op, t, m, Goto("echo"))
    BY <1>1, <1>2, Zenon DEF Respond, MQTTPublish
  <2>2. "echo" \in Labels
    BY Zenon DEF Labels
  <2>3. /\ Goto("echo") \in Seq(Frame) /\ Len(Goto("echo")) = Len(stack)
        /\ \A i \in 1..Len(stack) : Goto("echo")[i].op = stack[i].op
    BY <1>0, <2>1, <2>2, GotoFacts, Zenon
  <2> QED  BY <2>1, <2>3, RequestKeepsInv, Zenon
<1>3. CASE ~Respond
  <2>1. isconnected /\ \E op, t, m : op # "connect" /\ Request(op, t, m, stack)
    BY <1>1, <1>3, Zenon DEF Publish, MQTTPublish, MQTTSubscribe, MQTTUnsubscribe
  <2> QED  BY <1>0, <2>1, RequestKeepsInv, Zenon
<1> QED  BY <1>2, <1>3, Zenon

(* Yielding, disconnecting and reconnecting keep ConnectInv. *)
LEMMA MainLoopKeepsInv ==
    ASSUME TypeOK, ConnectInv, TypeOK', PublishData \/ MQTTYield \/ Reconnect \/ MQTTDisconnect
    PROVE  ConnectInv'
<1>1. CASE PublishData
  <2>1. isconnected /\ stack' = stack /\ accepted' = accepted /\ link' = link
    BY <1>1, Zenon DEF PublishData, SendQoS0
  <2>2. ~Connecting' /\ accepted' /\ link' # "none"
    BY <2>1, ConnectedFacts, Zenon DEF Connecting
  <2> QED  BY <2>2, PastSuffices, Zenon
<1>2. CASE MQTTYield
  <2> DEFINE f == NewFrame("yield", 0, NoTopic, YieldTime, "cycle")
  <2>1. Idle /\ link # "none" /\ accepted' = accepted /\ link' = link /\ stack' = <<f>>
    BY <1>2, Zenon DEF MQTTYield, netVars
  <2>2. f.op = "yield"
    BY DEF NewFrame
  <2>3. ~Connecting
    BY <2>1 DEF Idle, Connecting
  <2> HIDE DEF f
  <2>4. ~Connecting'
    BY <2>1, <2>2 DEF Connecting
  <2> QED  BY <2>1, <2>3, <2>4, PastFacts, PastSuffices, Zenon
<1>3. CASE Reconnect \/ MQTTDisconnect
  <2>1. NetworkDisconnect /\ SessionReset /\ Idle /\ stack' = stack
    BY <1>3, Zenon DEF Reconnect, MQTTDisconnect
  <2>2. Idle'
    BY <2>1, Zenon DEF Idle
  <2> QED  BY <2>1, <2>2, DownSuffices, Zenon DEF NetworkDisconnect, SessionReset
<1> QED  BY <1>1, <1>2, <1>3, Zenon

(* The innermost call is not MQTTConnect when that is not waiting. *)
LEMMA PastTop ==
    ASSUME stack \in Seq(Frame), ~Idle, ~Connecting
    PROVE  Top.op # "connect"
<1>1. Len(stack) \in 1..Len(stack)
  BY EmptySeq, LenProperties DEF Idle
<1> QED  BY <1>1, Zenon DEF Connecting, Top

(* MQTTConnect sets isconnected from the CONNACK it decoded from readbuf;  *)
(* when the broker refused, connectClient drops the connection.            *)
LEMMA ReturnKeepsInv ==
    ASSUME TypeOK, ConnectInv, TypeOK', WaitDone
    PROVE  ConnectInv'
<1>0. stack \in Seq(Frame) /\ stack' \in Seq(Frame) /\ ~Idle
  BY Zenon DEF TypeOK, WaitDone
<1>1. /\ Len(stack') = Len(stack) - 1 /\ Len(stack) \in Nat \ {0}
      /\ \A i \in 1..Len(stack') : stack'[i].op = stack[i].op
  <2>1. stack' = Taken(Pop, Top.op)
    BY Zenon DEF WaitDone
  <2>2. Len(stack) \in Nat \ {0}
    BY <1>0, EmptySeq, LenProperties DEF Idle
  <2> QED  BY <1>0, <2>1, <2>2, ReturnFacts, Zenon
<1>2. CASE Connecting
  <2>1. /\ Len(stack) = 1 /\ ~isconnected /\ link # "none"
        /\ Top.op = "connect" /\ AckOf(Top.op) = "CONNACK"
    BY <1>2, ConnectingFacts, Zenon
  <2>2. ConnectRc = 0 => accepted
    BY <1>2, <2>1, ConnectingFacts, Zenon DEF WaitDone, AckArrived
  <2>3. Idle'
    BY <1>0, <1>1, <2>1, EmptySeq DEF Idle
  <2>4. ~Connecting'
    BY <2>3 DEF Idle, Connecting
  <2>5. ConnectReturns
    BY <2>1, Zenon DEF WaitDone, SubscribeReturns, UnsubscribeReturns, PublishReturns
  <2>6. CASE ConnectRc = 0 /\ UNCHANGED <<link, b2c, accepted>>
    <3>1. link' # "none" /\ accepted'
      BY <2>1, <2>2, <2>6
    <3> QED  BY <2>4, <3>1, PastSuffices, Zenon
  <2>7. CASE NetworkDisconnect /\ isconnected' = isconnected
    BY <2>1, <2>3, <2>7, DownSuffices, Zenon DEF NetworkDisconnect
  <2> QED  BY <2>5, <2>6, <2>7, Zenon DEF ConnectReturns
<1>3. CASE ~Connecting
  <2>1. Top.op # "connect"
    BY <1>0, <1>3, PastTop, Zenon
  <2>2. accepted' = accepted /\ link' = link
    BY <2>1, Zenon DEF WaitDone, ConnectReturns, SubscribeReturns, UnsubscribeReturns,
                       PublishReturns, netVars
  <2>3. link # "none"
    BY <1>0, WaitingHasLink, Zenon
  <2>4. Len(stack') <= Len(stack)
    BY <1>1
  <2> QED  BY <1>1, <1>3, <2>2, <2>3, <2>4, KeptCallsKeepPast, Zenon
<1> QED  BY <1>2, <1>3, Zenon

(* A CONNECT that is not answered in time: connectClient drops the         *)
(* connection.  Other calls leave it alone.                                *)
LEMMA TimeoutKeepsInv ==
    ASSUME TypeOK, ConnectInv, TypeOK', WaitTimedOut
    PROVE  ConnectInv'
<1>0. stack \in Seq(Frame) /\ stack' \in Seq(Frame) /\ ~Idle /\ stack' = Pop
  BY Zenon DEF TypeOK, WaitTimedOut
<1>1. /\ Len(stack') = Len(stack) - 1 /\ Len(stack) \in Nat \ {0}
      /\ \A i \in 1..Len(stack') : stack'[i].op = stack[i].op
  <2>1. Len(stack) \in Nat \ {0}
    BY <1>0, EmptySeq, LenProperties DEF Idle
  <2> QED  BY <1>0, <2>1, PopFacts, Zenon
<1>2. CASE Connecting
  <2>1. Len(stack) = 1 /\ ~isconnected /\ Top.op = "connect"
    BY <1>2, ConnectingFacts, Zenon
  <2>2. Idle'
    BY <1>0, <1>1, <2>1, EmptySeq DEF Idle
  <2>3. NetworkDisconnect /\ isconnected' = isconnected
    BY <2>1, Zenon DEF WaitTimedOut, clientVars
  <2> QED  BY <2>1, <2>2, <2>3, DownSuffices, Zenon DEF NetworkDisconnect
<1>3. CASE ~Connecting
  <2>1. Top.op # "connect"
    BY <1>0, <1>3, PastTop, Zenon
  <2>2. accepted' = accepted /\ link' = link
    BY <2>1, Zenon DEF WaitTimedOut, netVars
  <2>3. link # "none"
    BY <1>0, WaitingHasLink, Zenon
  <2>4. Len(stack') <= Len(stack)
    BY <1>1
  <2> QED  BY <1>1, <1>3, <2>2, <2>3, <2>4, KeptCallsKeepPast, Zenon
<1> QED  BY <1>2, <1>3, Zenon

(* Past MQTTConnect, the steps of a call that change neither the TCP       *)
(* connection nor what the broker has accepted.                            *)
LEMMA PastStepsKeepInv ==
    ASSUME TypeOK, ConnectInv, TypeOK', ~Connecting,
           \/ WaitMore \/ CycleReadFails \/ Ignore \/ Echo \/ Acknowledge \/ CycleRead
    PROVE  ConnectInv'
<1>1. ~Idle /\ stack \in Seq(Frame)
  BY Zenon DEF WaitMore, CycleReadFails, Ignore, Echo, Acknowledge, CycleRead, TypeOK
<1>2. link # "none"
  BY <1>1, WaitingHasLink, Zenon
<1>3. accepted' = accepted /\ link' = link
  BY Zenon DEF WaitMore, CycleReadFails, Ignore, Echo, SendQoS0, Acknowledge, CycleRead, netVars
<1>4. Len(stack') <= Len(stack) /\ \A i \in 1..Len(stack') : stack'[i].op = stack[i].op
  <2>1. CASE CycleRead /\ Head(b2c).type \in AckTypes
    <3> DEFINE w == Goto("wait")
    <3>1. stack' = Witnessed(w, Head(b2c))
      <4>1. Head(b2c).type \notin {"PINGRESP", "PUBREL", "PUBREC", "PUBLISH"}
        BY <2>1 DEF AckTypes
      <4> QED  BY <2>1, <4>1, CycleReadCases, Zenon
    <3>2. "wait" \in Labels
      BY Zenon DEF Labels
    <3>3. /\ w \in Seq(Frame) /\ Len(w) = Len(stack) /\ Len(stack) \in Nat \ {0}
          /\ \A i \in 1..Len(stack) : w[i].op = stack[i].op
      BY <1>1, <3>2, GotoFacts, Zenon
    <3>4. Head(b2c) \in Packet
      BY <2>1, HeadTailProperties, Zenon DEF TypeOK, NetworkOK, CycleRead
    <3> HIDE DEF w
    <3>5. /\ Len(stack') = Len(w)
          /\ \A i \in 1..Len(w) : stack'[i].op = w[i].op
      BY <3>1, <3>3, <3>4, WitnessedFacts, Zenon
    <3>6. Len(stack') <= Len(stack)
      BY <3>3, <3>5
    <3> QED  BY <3>3, <3>5, <3>6, Zenon
  <2>2. CASE ~(CycleRead /\ Head(b2c).type \in AckTypes)
    BY <2>2, StepsKeepCalls, Zenon DEF CallsKept
  <2> QED  BY <2>1, <2>2, Zenon
<1> QED  BY <1>2, <1>3, <1>4, KeptCallsKeepPast, Zenon

(* Moving MQTTConnect to another label leaves it connecting. *)
LEMMA GotoConnecting ==
    ASSUME TypeOK, ConnectInv, Connecting, NEW label \in Labels
    PROVE  /\ Goto(label) \in Seq(Frame)
           /\ Len(Goto(label)) = 1
           /\ Goto(label)[1].op = "connect"
           /\ Goto(label)[1].timer = stack[1].timer
           /\ Goto(label)[1].pc = label
<1>1. stack \in Seq(Frame) /\ ~Idle /\ Len(stack) = 1 /\ stack[1].op = "connect"
  BY ConnectingFacts, Zenon
<1>2. 1 \in 1..Len(stack)
  BY <1>1
<1>3. /\ Goto(label) \in Seq(Frame) /\ Len(Goto(label)) = Len(stack)
      /\ Goto(label)[1].op = stack[1].op /\ Goto(label)[1].timer = stack[1].timer
  BY <1>1, <1>2, GotoFacts, Zenon
<1>4. Goto(label)[1].pc = IF 1 = Len(stack) THEN label ELSE stack[1].pc
  BY <1>1, <1>2, GotoFacts, Zenon
<1> QED  BY <1>1, <1>3, <1>4, Zenon

(* MQTTConnect waits for its CONNACK. *)
LEMMA ConnectingWaitsKeepInv ==
    ASSUME TypeOK, ConnectInv, Connecting, WaitMore \/ CycleReadFails
    PROVE  ConnectInv'
<1>1. PICK label \in {"wait", "cycle"} : stack' = Goto(label)
  BY Zenon DEF WaitMore, CycleReadFails
<1>2. /\ Len(stack') = 1 /\ stack'[1].op = "connect"
      /\ stack'[1].timer = stack[1].timer /\ stack'[1].pc = label
  <2>1. label \in Labels
    BY <1>1, Zenon DEF Labels
  <2> QED  BY <1>1, <2>1, GotoConnecting, Zenon
<1>3. "CONNACK" \notin received
  <2>1. CASE WaitMore
    BY <2>1, ConnectingFacts, Zenon DEF WaitMore, AckArrived
  <2>2. CASE CycleReadFails
    <3>1. stack[1].pc = "cycle"
      BY <2>2, ConnectingFacts, Zenon DEF CycleReadFails
    <3> QED  BY <3>1, ConnectingFacts, Zenon
  <2> QED  BY <2>1, <2>2, Zenon
<1>4. /\ received' = received /\ accepted' = accepted /\ link' = link /\ b2c' = b2c
      /\ last_received_timer' = last_received_timer
      /\ ping_timer' = ping_timer /\ c2b' = c2b /\ isconnected' = isconnected
  <2>1. CASE WaitMore
    BY <2>1, Zenon DEF WaitMore, clientVars, netVars
  <2>2. CASE CycleReadFails
    BY <2>2, ConnectingNotDue, KeepaliveNotDue, Zenon DEF CycleReadFails
  <2> QED  BY <2>1, <2>2, Zenon
<1>5. ~accepted' => /\ NothingButConnect(c2b') /\ OnlyRefusals(b2c')
                    /\ stack'[1].pc \in {"wait", "cycle"}
  BY <1>1, <1>2, <1>4, UnacceptedFacts, Zenon
<1>6. Outlasted(stack'[1].timer, ping_timer', last_received_timer')
  BY <1>2, <1>4, ConnectingFacts, Zenon
<1>7. ~isconnected' /\ link' # "none" /\ "CONNACK" \notin received'
  BY <1>3, <1>4, ConnectingFacts, Zenon
<1> QED  BY <1>2, <1>5, <1>6, <1>7, StillConnectingSuffices, Zenon

(* It handles a message that came after the CONNACK's acceptance, without  *)
(* answering it: isconnected is not set yet.                               *)
LEMMA ConnectingDeliversKeepInv ==
    ASSUME TypeOK, ConnectInv, Connecting, Ignore \/ Echo \/ Acknowledge
    PROVE  ConnectInv'
<1>1. stack[1].pc \in {"deliver", "echo", "ack"}
  <2>1. Top.pc \in {"deliver", "echo", "ack"}
    BY Zenon DEF Ignore, Echo, Acknowledge
  <2> QED  BY <2>1, ConnectingFacts, Zenon
<1>2. accepted /\ "CONNACK" \notin received
  <2>1. stack[1].pc # "wait" /\ stack[1].pc # "cycle"
    BY <1>1
  <2>2. stack[1].pc \notin {"wait", "cycle"}
    BY <2>1, Zenon
  <2> QED  BY <2>1, <2>2, ConnectingFacts, UnacceptedFacts, Zenon
<1>3. /\ received' = received /\ accepted' = accepted /\ link' = link
      /\ last_received_timer' = last_received_timer
  BY Zenon DEF Ignore, Echo, SendQoS0, Acknowledge, clientVars, netVars
<1>4. /\ stack' = Goto("ack") \/ stack' = Goto("wait")
      /\ isconnected' = isconnected
      /\ ping_timer' = ping_timer \/ ping_timer' = KeepAlive
  <2>1. ~isconnected /\ Top.op = "connect"
    BY ConnectingFacts, Zenon
  <2>2. CASE Ignore \/ Echo
    BY <2>1, <2>2, Zenon DEF Ignore, Echo, clientVars
  <2>3. CASE Acknowledge
    <3>1. ~PingDue(ping_timer, last_received_timer) /\ ~PingDue(KeepAlive, last_received_timer)
      BY ConnectingNotDue, Zenon
    <3>2. \/ /\ stack' = Goto("wait")
             /\ keepalive(ping_timer, last_received_timer, ping_outstanding, c2b, connected)
          \/ \E r : CycleAnswers(r, last_received_timer)
      BY <2>3, Zenon DEF Acknowledge
    <3>3. ASSUME NEW r, CycleAnswers(r, last_received_timer)
          PROVE  /\ stack' = Goto("wait") /\ isconnected' = isconnected
                 /\ ping_timer' = ping_timer \/ ping_timer' = KeepAlive
      BY <2>1, <3>1, <3>3, KeepaliveNotDue, Zenon DEF CycleAnswers, CycleFails
    <3> QED  BY <3>1, <3>2, <3>3, KeepaliveNotDue, Zenon
  <2> QED  BY <2>2, <2>3, Zenon
<1>5. Len(stack') = 1 /\ stack'[1].op = "connect" /\ stack'[1].timer = stack[1].timer
  <2>1. "ack" \in Labels /\ "wait" \in Labels
    BY Zenon DEF Labels
  <2>2. PICK label \in Labels : stack' = Goto(label)
    BY <1>4, <2>1, Zenon
  <2> QED  BY <2>2, GotoConnecting, Zenon
<1>6. Outlasted(stack'[1].timer, ping_timer', last_received_timer')
  BY <1>3, <1>4, <1>5, ConnectingFacts, OutlastedWhenArmed, Zenon
<1>7. ~isconnected' /\ link' # "none" /\ "CONNACK" \notin received'
  BY <1>2, <1>3, <1>4, ConnectingFacts, Zenon
<1>8. accepted'
  BY <1>2, <1>3
<1> QED  BY <1>5, <1>6, <1>7, <1>8, StillConnectingSuffices, Zenon

(* It reads a packet.  Before the broker has accepted, that can only be    *)
(* its refusal.                                                            *)
LEMMA ConnectingReadKeepsInv ==
    ASSUME TypeOK, ConnectInv, Connecting, CycleRead
    PROVE  ConnectInv'
<1> DEFINE m == Head(b2c)
<1>1. /\ b2c \in Seq(Packet) /\ b2c # <<>> /\ Top.pc = "cycle"
      /\ readbuf' = m /\ b2c' = Tail(b2c) /\ last_received_timer' = KeepAlive
      /\ link' = link /\ accepted' = accepted
  BY Zenon DEF TypeOK, NetworkOK, CycleRead
<1>2. m \in Packet
  BY <1>1, HeadTailProperties, Zenon
<1>3. "CONNACK" \notin received
  <2>1. stack[1].pc = "cycle"
    BY <1>1, ConnectingFacts, Zenon
  <2> QED  BY <2>1, ConnectingFacts, Zenon
<1>4. ~accepted => m.type = "CONNACK" /\ m.code # 0 /\ OnlyRefusals(b2c')
  BY <1>1, UnacceptedFacts, RefusalRead, Zenon
<1>5. "wait" \in Labels
  BY Zenon DEF Labels
<1> DEFINE w == Goto("wait")
<1>6. /\ w \in Seq(Frame) /\ Len(w) = 1 /\ w[1].op = "connect"
      /\ w[1].timer = stack[1].timer /\ w[1].pc = "wait"
  BY <1>5, GotoConnecting, Zenon
<1>7. ~accepted => m.type \in AckTypes /\ m.type \notin {"PINGRESP", "PUBREL", "PUBREC", "PUBLISH"}
  BY <1>4 DEF AckTypes
<1>8. ~PingDue(ping_timer, KeepAlive) /\ ~PingDue(KeepAlive, KeepAlive)
  BY ConnectingNotDue, Zenon
<1> HIDE DEF m, w
<1>9. ASSUME NEW st, stack' = st, Len(st) = 1, st[1].op = "connect",
             st[1].timer = stack[1].timer, isconnected' = isconnected,
             ping_timer' = ping_timer \/ ping_timer' = KeepAlive,
             "CONNACK" \in received' => st[1].pc = "wait",
             ~accepted => st[1].pc = "wait" /\ c2b' = c2b
      PROVE  ConnectInv'
  <2>1. Outlasted(stack'[1].timer, ping_timer', last_received_timer')
    BY <1>1, <1>9, ConnectingFacts, OutlastedWhenArmed, Zenon
  <2>2. ~isconnected' /\ link' # "none"
    BY <1>1, <1>9, ConnectingFacts, Zenon
  <2>3. ~accepted' <=> ~accepted
    BY <1>1
  <2>4. ~accepted => ConnectRc' # 0
    BY <1>1, <1>4 DEF ConnectRc
  <2>5. "CONNACK" \in received' => stack'[1].pc = "wait" /\ (ConnectRc' = 0 => accepted')
    BY <1>9, <2>3, <2>4, Zenon
  <2>6. ~accepted' => /\ NothingButConnect(c2b') /\ OnlyRefusals(b2c')
                      /\ stack'[1].pc \in {"wait", "cycle"}
    BY <1>4, <1>9, <2>3, UnacceptedFacts, Zenon
  <2>7. Len(stack') = 1 /\ stack'[1].op = "connect"
    BY <1>9, Zenon
  <2> QED  BY <2>1, <2>2, <2>5, <2>6, <2>7, StillConnectingSuffices, Zenon
<1>10. CASE /\ m.type \in AckTypes
            /\ stack' = Witnessed(w, m)
            /\ keepalive(ping_timer, KeepAlive, ping_outstanding, c2b, connected)
  <2> DEFINE st == Witnessed(w, m)
  <2>1. /\ Len(st) = Len(w)
        /\ \A i \in 1..Len(w) : /\ st[i].op = w[i].op
                               /\ st[i].timer = w[i].timer /\ st[i].pc = w[i].pc
    BY <1>2, <1>6, WitnessedFacts, Zenon
  <2>2. 1 \in 1..1
    OBVIOUS
  <2>3. stack' = st
    BY <1>10, Zenon
  <2> HIDE DEF st
  <2>4. /\ Len(st) = 1 /\ st[1].op = "connect"
        /\ st[1].timer = stack[1].timer /\ st[1].pc = "wait"
    BY <1>6, <2>1, <2>2, Zenon
  <2>5. ping_timer' = ping_timer /\ c2b' = c2b /\ isconnected' = isconnected
    BY <1>8, <1>10, KeepaliveNotDue, Zenon
  <2> QED  BY <1>9, <2>3, <2>4, <2>5, Zenon
<1>11. CASE /\ m.type \in {"PINGRESP", "PUBREL"} /\ received' = received
            /\ stack' = w
            /\ \E po \in {FALSE, ping_outstanding} :
                 keepalive(ping_timer, KeepAlive, po, c2b, connected)
  <2>1. ping_timer' = ping_timer /\ c2b' = c2b /\ isconnected' = isconnected
    BY <1>8, <1>11, KeepaliveNotDue, Zenon
  <2> QED  BY <1>6, <1>9, <1>11, <2>1, Zenon
<1>12. CASE /\ m.type = "PUBREC" /\ received' = received
            /\ CycleAnswers(Simple("PUBREL", m.id), KeepAlive)
  <2>1. /\ stack' = w /\ isconnected' = isconnected
        /\ ping_timer' = ping_timer \/ ping_timer' = KeepAlive
    BY <1>8, <1>12, ConnectingFacts, KeepaliveNotDue, Zenon DEF CycleAnswers, CycleFails, w
  <2>2. accepted
    BY <1>7, <1>12, Zenon
  <2> QED  BY <1>6, <1>9, <1>12, <2>1, <2>2, Zenon
<1>13. CASE /\ m.type = "PUBLISH" /\ received' = received
            /\ stack' = Deliver(m) /\ UNCHANGED <<isconnected, ping_timer, c2b>>
  <2>1. stack \in Seq(Frame) /\ ~Idle /\ Len(stack) = 1 /\ stack[1].op = "connect"
    BY ConnectingFacts, Zenon
  <2>2. /\ Len(Deliver(m)) = Len(stack)
        /\ \A i \in 1..Len(stack) : /\ Deliver(m)[i].op = stack[i].op
                                   /\ Deliver(m)[i].timer = stack[i].timer
    BY <1>2, <2>1, DeliverFacts, Zenon
  <2>3. 1 \in 1..1
    OBVIOUS
  <2>4. /\ Len(Deliver(m)) = 1
        /\ Deliver(m)[1].op = "connect" /\ Deliver(m)[1].timer = stack[1].timer
    BY <2>1, <2>2, <2>3, Zenon
  <2>5. accepted
    BY <1>7, <1>13, Zenon
  <2>6. isconnected' = isconnected /\ ping_timer' = ping_timer
    BY <1>13, Zenon
  <2> QED  BY <1>3, <1>9, <1>13, <2>4, <2>5, <2>6, Zenon
<1> QED  BY <1>10, <1>11, <1>12, <1>13, CycleReadCases, Zenon DEF m, w

-----------------------------------------------------------------------------
(* The environment's steps.                                                *)

(* What the broker has not accepted it refuses: only a refusal can follow  *)
(* the CONNECT.                                                            *)
LEMMA BrokerRefuses ==
    ASSUME TypeOK, ConnectInv, BrokerReceives, ~accepted, ~accepted'
    PROVE  NothingButConnect(c2b') /\ OnlyRefusals(b2c')
<1> DEFINE k == Simple("CONNECT", 0)
           a(c) == Pkt("CONNACK", 0, c, AValue)
<1>1. /\ b2c \in Seq(Packet) /\ OnlyRefusals(b2c) /\ NothingButConnect(c2b)
      /\ c2b # <<>> /\ c2b' = Tail(c2b)
  BY UnacceptedFacts, Zenon DEF TypeOK, NetworkOK, BrokerReceives
<1>2. c2b = <<k>>
  BY <1>1, Zenon DEF NothingButConnect
<1>3. k.type = "CONNECT"
  BY DEF Simple, Pkt
<1>4. c2b' = <<>> /\ Head(c2b) = k
  <2> HIDE DEF k
  <2> QED  BY <1>1, <1>2
<1>5. BrokerAnswers(k) = {<<a(c)>> : c \in {0, 5}}
  BY <1>3 DEF BrokerAnswers
<1>6. PICK c \in {0, 5} :
        /\ b2c' = b2c \o <<a(c)>>
        /\ accepted' = (accepted \/ <<a(c)>> = <<Simple("CONNACK", 0)>>)
  BY <1>4, <1>5, Zenon DEF BrokerReceives
<1>7. c # 0
  BY <1>6, Zenon DEF Simple
<1>8. a(c).type = "CONNACK" /\ a(c).code # 0
  BY <1>7 DEF Pkt
<1>9. a(c) \in Packet
  BY <1>6, PktType, AValueType, ConstantsAssumption DEF PacketTypes
<1>10. OnlyRefusals(b2c')
  <2> HIDE DEF a
  <2> QED  BY <1>1, <1>6, <1>8, <1>9, RefusalSent, Zenon
<1>11. NothingButConnect(c2b')
  BY <1>4, Zenon DEF NothingButConnect
<1> QED  BY <1>10, <1>11, Zenon

(* The broker, and a connection that fails, leave the client's own state   *)
(* alone.                                                                  *)
LEMMA NetworkKeepsInv ==
    ASSUME TypeOK, ConnectInv,
           \/ BrokerReceives
           \/ \E q \in InboundQoS, v \in Values : BrokerPublishes(q, v)
           \/ \E kind \in LinkFaults : LinkFails(kind)
    PROVE  ConnectInv'
<1>1. /\ stack' = stack /\ isconnected' = isconnected /\ ping_timer' = ping_timer
      /\ last_received_timer' = last_received_timer
      /\ received' = received /\ readbuf' = readbuf
  BY Zenon DEF BrokerReceives, BrokerPublishes, LinkFails, clientVars
<1>2. link # "none" /\ link' # "none"
  <2>1. CASE BrokerReceives
    BY <2>1, Zenon DEF BrokerReceives
  <2>2. CASE \E q \in InboundQoS, v \in Values : BrokerPublishes(q, v)
    BY <2>2, Zenon DEF BrokerPublishes
  <2>3. CASE \E kind \in LinkFaults : LinkFails(kind)
    <3>1. PICK kind \in LinkFaults : LinkFails(kind)
      BY <2>3, Zenon
    <3>2. kind # "none"
      BY ConstantsAssumption
    <3> QED  BY <3>1, <3>2 DEF LinkFails
  <2> QED  BY <2>1, <2>2, <2>3, Zenon
<1>3. accepted => accepted'
  BY Zenon DEF BrokerReceives, BrokerPublishes, LinkFails
<1>4. ASSUME ~accepted' PROVE NothingButConnect(c2b') /\ OnlyRefusals(b2c')
  <2>1. ~accepted
    BY <1>3, <1>4, Zenon
  <2>2. CASE BrokerReceives
    BY <1>4, <2>1, <2>2, BrokerRefuses, Zenon
  <2>3. CASE \E q \in InboundQoS, v \in Values : BrokerPublishes(q, v)
    BY <2>1, <2>3, Zenon DEF BrokerPublishes
  <2>4. CASE \E kind \in LinkFaults : LinkFails(kind)
    <3>1. PICK k \in 0..Len(b2c) : b2c' = SubSeq(b2c, 1, k)
      BY <2>4, Zenon DEF LinkFails
    <3>2. b2c \in Seq(Packet) /\ OnlyRefusals(b2c) /\ c2b' = <<>>
      BY <2>1, <2>4, UnacceptedFacts, Zenon DEF TypeOK, NetworkOK, LinkFails
    <3>3. OnlyRefusals(b2c')
      BY <3>1, <3>2, RefusalsLost, Zenon
    <3> QED  BY <3>2, <3>3, Zenon DEF NothingButConnect
  <2> QED  BY <2>2, <2>3, <2>4, Zenon
<1>5. ConnectRc' = ConnectRc
  BY <1>1, Zenon DEF ConnectRc
<1>6. CASE Connecting
  <2>1. /\ Len(stack') = 1 /\ stack'[1].op = "connect" /\ ~isconnected'
        /\ Outlasted(stack'[1].timer, ping_timer', last_received_timer')
        /\ "CONNACK" \in received' => stack'[1].pc = "wait" /\ (ConnectRc' = 0 => accepted')
    BY <1>1, <1>3, <1>5, <1>6, ConnectingFacts, Zenon
  <2>2. ~accepted' => stack'[1].pc \in {"wait", "cycle"}
    BY <1>1, <1>2, <1>3, UnacceptedFacts, Zenon
  <2> QED  BY <1>2, <1>4, <2>1, <2>2, StillConnectingSuffices, Zenon
<1>7. CASE ~Connecting
  <2>1. ~Connecting'
    BY <1>1, <1>7, Zenon DEF Connecting
  <2> QED  BY <1>2, <1>3, <1>7, <2>1, PastFacts, PastSuffices, Zenon
<1> QED  BY <1>6, <1>7, Zenon

(* Time passes for all timers alike, and not once the innermost call's     *)
(* timer has expired: MQTTConnect's wait ends before a ping is due.        *)
LEMMA TickKeepsInv ==
    ASSUME TypeOK, ConnectInv, TypeOK', Tick
    PROVE  ConnectInv'
<1>0. stack \in Seq(Frame) /\ stack' \in Seq(Frame) /\ Len(stack) \in Nat
  BY LenProperties DEF TypeOK
<1>1. /\ Len(stack') = Len(stack)
      /\ \A i \in 1..Len(stack) : /\ stack'[i].op = stack[i].op
                                  /\ stack'[i].pc = stack[i].pc
                                  /\ stack'[i].timer = Countdown(stack[i].timer)
  BY <1>0, TickedFacts, Zenon DEF Tick
<1>2. /\ isconnected' = isconnected /\ received' = received /\ readbuf' = readbuf
      /\ accepted' = accepted /\ link' = link /\ c2b' = c2b /\ b2c' = b2c
      /\ ping_timer' = Countdown(ping_timer)
      /\ last_received_timer' = Countdown(last_received_timer)
  BY Zenon DEF Tick, netVars
<1>3. ConnectRc' = ConnectRc
  BY <1>2, Zenon DEF ConnectRc
<1>4. CASE Connecting
  <2>1. 1 \in 1..1
    OBVIOUS
  <2>2. /\ Len(stack') = 1 /\ stack'[1].op = "connect" /\ stack'[1].pc = stack[1].pc
        /\ stack'[1].timer = Countdown(stack[1].timer)
    BY <1>1, <1>4, <2>1, ConnectingFacts, Zenon
  <2>3. stack[1].timer > 0
    BY <1>4, ConnectingFacts, Zenon DEF Tick
  <2>4. Outlasted(stack'[1].timer, ping_timer', last_received_timer')
    BY <1>2, <1>4, <2>2, <2>3, ConnectingFacts, OutlastedAfterTick, Zenon
  <2>5. ~isconnected' /\ link' # "none"
    BY <1>2, <1>4, ConnectingFacts, Zenon
  <2>6. "CONNACK" \in received' =>
          stack'[1].pc = "wait" /\ (ConnectRc' = 0 => accepted')
    BY <1>2, <1>3, <1>4, <2>2, ConnectingFacts, Zenon
  <2>7. ~accepted' => /\ NothingButConnect(c2b') /\ OnlyRefusals(b2c')
                      /\ stack'[1].pc \in {"wait", "cycle"}
    BY <1>2, <2>2, <2>5, UnacceptedFacts, Zenon
  <2> QED  BY <2>2, <2>4, <2>5, <2>6, <2>7, StillConnectingSuffices, Zenon
<1>5. CASE ~Connecting /\ link # "none"
  <2>1. Len(stack') = Len(stack)
    BY <1>1, Zenon
  <2>2. Len(stack') <= Len(stack)
    BY <1>0, <2>1
  <2> QED  BY <1>1, <1>2, <1>5, <2>1, <2>2, KeptCallsKeepPast, Zenon
<1>6. CASE link = "none"
  <2>1. Idle /\ ~isconnected /\ c2b = <<>> /\ b2c = <<>>
    BY <1>6, Zenon DEF ConnectInv
  <2>2. Idle'
    BY <1>0, <1>1, <2>1, EmptySeq DEF Idle
  <2>3. ~isconnected' /\ c2b' = <<>> /\ b2c' = <<>> /\ link' = "none"
    BY <1>2, <1>6, <2>1, Zenon
  <2> QED  BY <2>2, <2>3, DownSuffices, Zenon
<1> QED  BY <1>4, <1>5, <1>6, Zenon

(* A step that changes nothing keeps ConnectInv. *)
LEMMA StutterKeepsInv ==
    ASSUME ConnectInv, UNCHANGED vars
    PROVE  ConnectInv'
<1>1. /\ isconnected' = isconnected /\ received' = received /\ readbuf' = readbuf
      /\ ping_timer' = ping_timer /\ last_received_timer' = last_received_timer
      /\ stack' = stack /\ accepted' = accepted /\ link' = link /\ c2b' = c2b /\ b2c' = b2c
  BY Zenon DEF vars, clientVars, netVars
<1>2. (Connecting' <=> Connecting) /\ ConnectRc' = ConnectRc /\ (Idle' <=> Idle)
  BY <1>1, Zenon DEF Connecting, ConnectRc, Idle
<1>3. CASE Connecting
  BY <1>1, <1>2, <1>3, Zenon DEF ConnectInv
<1>4. CASE ~Connecting
  BY <1>1, <1>2, <1>4, Zenon DEF ConnectInv
<1> QED  BY <1>3, <1>4, Zenon

-----------------------------------------------------------------------------
(* For every value of the constants with a command timeout below the       *)
(* keep-alive interval, ConnectInv holds in every reachable state.         *)
THEOREM ConnectInvariant == Spec => []ConnectInv
<1>1. Init => ConnectInv
  <2> SUFFICES ASSUME Init PROVE ConnectInv
    OBVIOUS
  <2>1. ~Connecting /\ Idle
    BY DEF Init, Connecting, Idle
  <2>2. NothingButConnect(c2b) /\ OnlyRefusals(b2c)
    BY DEF Init, NothingButConnect, OnlyRefusals
  <2> QED  BY <2>1, <2>2, Zenon DEF Init, ConnectInv
<1>2. ASSUME TypeOK, ConnectInv, TypeOK', [Next]_vars
      PROVE  ConnectInv'
  <2>1. CASE connectClient
    BY <1>2, <2>1, ConnectClientKeepsInv
  <2>2. CASE \/ \E q \in {1, 2} : Publish(q)
             \/ \E t \in Topics : MQTTSubscribe(t) \/ MQTTUnsubscribe(t)
             \/ Respond
    BY <1>2, <2>2, CallsKeepInv
  <2>3. CASE PublishData \/ MQTTYield \/ Reconnect \/ MQTTDisconnect
    BY <1>2, <2>3, MainLoopKeepsInv
  <2>4. CASE WaitDone
    BY <1>2, <2>4, ReturnKeepsInv
  <2>5. CASE WaitTimedOut
    BY <1>2, <2>5, TimeoutKeepsInv
  <2>6. CASE \/ WaitMore \/ CycleReadFails \/ Ignore \/ Echo \/ Acknowledge \/ CycleRead
    <3>1. CASE Connecting
      BY <1>2, <2>6, <3>1, ConnectingWaitsKeepInv, ConnectingDeliversKeepInv,
         ConnectingReadKeepsInv
    <3>2. CASE ~Connecting
      BY <1>2, <2>6, <3>2, PastStepsKeepInv
    <3> QED  BY <3>1, <3>2
  <2>7. CASE \/ BrokerReceives
             \/ \E q \in InboundQoS, v \in Values : BrokerPublishes(q, v)
             \/ \E kind \in LinkFaults : LinkFails(kind)
    BY <1>2, <2>7, NetworkKeepsInv
  <2>8. CASE Tick
    BY <1>2, <2>8, TickKeepsInv
  <2>9. CASE UNCHANGED vars
    BY <1>2, <2>9, StutterKeepsInv
  <2> QED  BY <1>2, <2>1, <2>2, <2>3, <2>4, <2>5, <2>6, <2>7, <2>8, <2>9 DEF Next, Progress
<1> QED  BY <1>1, <1>2, TypeCorrect, PTL DEF Spec

(* isconnected is only ever set on a TCP connection whose CONNECT the      *)
(* broker has accepted, and never survives into another one.               *)
THEOREM ConnectedOnlyIfAccepted == Spec => []ConnectedIsAccepted
<1>1. ConnectInv => ConnectedIsAccepted
  BY Zenon DEF ConnectInv, ConnectedIsAccepted
<1> QED  BY <1>1, ConnectInvariant, PTL

(* Nothing but the CONNECT is sent before the broker has accepted it.      *)
THEOREM NothingBeforeConnect == Spec => []ConnectComesFirst
<1>1. ConnectInv => ConnectComesFirst
  BY Zenon DEF ConnectInv, ConnectComesFirst, NothingButConnect
<1> QED  BY <1>1, ConnectInvariant, PTL

-----------------------------------------------------------------------------
(* The ping.  A packet of a kind is not in a queue, or it is there once.   *)
None(queue, type) == \A i \in 1..Len(queue) : queue[i].type # type

Once(queue, type) ==
    \E k \in 1..Len(queue) :
      /\ queue[k].type = type
      /\ \A i \in 1..Len(queue) : queue[i].type = type => i = k

(* ping_outstanding is po, out is on its way to the broker and in to the   *)
(* client.                                                                 *)
PingState(po, out, in) ==
    \/ ~po /\ None(out, "PINGREQ") /\ None(in, "PINGRESP")
    \/ po /\ Once(out, "PINGREQ") /\ None(in, "PINGRESP")
    \/ po /\ None(out, "PINGREQ") /\ Once(in, "PINGRESP")

(* A new connection starts with ping_outstanding clear: MQTTConnect itself *)
(* never pings, and what ends any other connection clears it.              *)
PingInv ==
    /\ link = "up" => PingState(ping_outstanding, c2b, b2c)
    /\ link = "none" \/ Connecting => ~ping_outstanding

(* A packet put at the end of a queue. *)
LEMMA QueueAppend ==
    ASSUME NEW queue \in Seq(Packet), NEW m \in Packet, NEW type
    PROVE  /\ m.type # type /\ None(queue, type) => None(Append(queue, m), type)
           /\ m.type # type /\ Once(queue, type) => Once(Append(queue, m), type)
           /\ m.type = type /\ None(queue, type) => Once(Append(queue, m), type)
<1> DEFINE a == Append(queue, m)
<1>1. /\ Len(queue) \in Nat /\ Len(a) = Len(queue) + 1 /\ a[Len(queue) + 1] = m
      /\ \A i \in 1..Len(queue) : a[i] = queue[i]
  BY AppendProperties, LenProperties
<1> HIDE DEF a
<1>2. \A i \in 1..Len(a) : i = Len(queue) + 1 \/ i \in 1..Len(queue)
  BY <1>1
<1>3. ASSUME m.type # type, None(queue, type) PROVE None(a, type)
  BY <1>1, <1>2, <1>3 DEF None
<1>4. ASSUME m.type # type, Once(queue, type) PROVE Once(a, type)
  <2>1. PICK k \in 1..Len(queue) :
          /\ queue[k].type = type
          /\ \A i \in 1..Len(queue) : queue[i].type = type => i = k
    BY <1>4 DEF Once
  <2>2. k \in 1..Len(a) /\ a[k].type = type
    BY <1>1, <2>1
  <2>3. \A i \in 1..Len(a) : a[i].type = type => i = k
    BY <1>1, <1>2, <1>4, <2>1
  <2> QED  BY <2>2, <2>3 DEF Once
<1>5. ASSUME m.type = type, None(queue, type) PROVE Once(a, type)
  <2>1. Len(queue) + 1 \in 1..Len(a) /\ a[Len(queue) + 1].type = type
    BY <1>1, <1>5
  <2>2. \A i \in 1..Len(a) : a[i].type = type => i = Len(queue) + 1
    BY <1>1, <1>2, <1>5 DEF None
  <2> QED  BY <2>1, <2>2 DEF Once
<1> QED  BY <1>3, <1>4, <1>5 DEF a

(* The first packet taken from a queue. *)
LEMMA QueueTail ==
    ASSUME NEW queue \in Seq(Packet), queue # <<>>, NEW type
    PROVE  /\ None(queue, type) => None(Tail(queue), type) /\ Head(queue).type # type
           /\ Once(queue, type) /\ Head(queue).type # type => Once(Tail(queue), type)
           /\ Once(queue, type) /\ Head(queue).type = type => None(Tail(queue), type)
<1> DEFINE t == Tail(queue)
<1>1. /\ Len(queue) \in Nat \ {0} /\ Len(t) = Len(queue) - 1 /\ Head(queue) = queue[1]
      /\ \A i \in 1..Len(t) : t[i] = queue[i + 1]
  BY HeadTailProperties, EmptySeq, SMT
<1> HIDE DEF t
<1>2. 1 \in 1..Len(queue) /\ \A i \in 1..Len(t) : i + 1 \in 1..Len(queue) /\ i + 1 # 1
  BY <1>1
<1>3. ASSUME None(queue, type) PROVE None(t, type) /\ Head(queue).type # type
  BY <1>1, <1>2, <1>3 DEF None
<1>4. ASSUME Once(queue, type) PROVE /\ Head(queue).type # type => Once(t, type)
                                     /\ Head(queue).type = type => None(t, type)
  <2>1. PICK k \in 1..Len(queue) :
          /\ queue[k].type = type
          /\ \A i \in 1..Len(queue) : queue[i].type = type => i = k
    BY <1>4 DEF Once
  <2>2. CASE Head(queue).type # type
    <3>1. PICK j \in 1..Len(t) : k = j + 1
      <4>1. k - 1 \in 1..Len(t) /\ k = (k - 1) + 1
        BY <1>1, <2>1, <2>2
      <4> QED  BY <4>1
    <3>2. t[j].type = type
      BY <1>1, <2>1, <3>1
    <3>3. ASSUME NEW i \in 1..Len(t), t[i].type = type PROVE i = j
      <4>1. i + 1 = k
        BY <1>1, <1>2, <2>1, <3>3
      <4> QED  BY <3>1, <4>1
    <3> QED  BY <2>2, <3>2, <3>3, Zenon DEF Once
  <2>3. CASE Head(queue).type = type
    <3>1. k = 1
      BY <1>1, <1>2, <2>1, <2>3
    <3> QED  BY <1>1, <1>2, <2>1, <2>3, <3>1 DEF None
  <2> QED  BY <2>2, <2>3
<1> QED  BY <1>3, <1>4 DEF t

(* Packets of the client other than a PINGREQ leave the ping alone.        *)
LEMMA PingSend ==
    ASSUME NEW po, NEW out \in Seq(Packet), NEW in, NEW m \in Packet,
           m.type # "PINGREQ", PingState(po, out, in)
    PROVE  PingState(po, Sent(out, m), in)
<1>1. CASE link = "up"
  <2>1. /\ None(out, "PINGREQ") => None(Append(out, m), "PINGREQ")
        /\ Once(out, "PINGREQ") => Once(Append(out, m), "PINGREQ")
    BY QueueAppend
  <2> QED  BY <1>1, <2>1, Zenon DEF PingState, Sent
<1>2. CASE link # "up"
  BY <1>2, Zenon DEF Sent
<1> QED  BY <1>1, <1>2

(* keepalive sends a ping only when none is outstanding, and notes it.     *)
LEMMA PingKeepalive ==
    ASSUME NEW pt, NEW lr, NEW po, NEW out \in Seq(Packet), NEW in, NEW cn,
           link = "up", PingState(po, out, in), keepalive(pt, lr, po, out, cn)
    PROVE  PingState(ping_outstanding', c2b', in)
<1>1. CASE ping_outstanding' = po /\ c2b' = out
  BY <1>1, Zenon
<1>2. CASE ~po /\ ping_outstanding' = TRUE /\ c2b' = Sent(out, Simple("PINGREQ", 0))
  <2>1. Simple("PINGREQ", 0) \in Packet /\ Simple("PINGREQ", 0).type = "PINGREQ"
    <3>1. "PINGREQ" \in PacketTypes /\ 0 \in 0..MaxPacketId
      BY ConstantsAssumption DEF PacketTypes
    <3> QED  BY <3>1, SimpleType, Zenon
  <2>2. None(out, "PINGREQ") => Once(Append(out, Simple("PINGREQ", 0)), "PINGREQ")
    BY <2>1, QueueAppend
  <2>3. c2b' = Append(out, Simple("PINGREQ", 0))
    BY <1>2 DEF Sent
  <2>4. None(out, "PINGREQ") /\ None(in, "PINGRESP")
    BY <1>2, Zenon DEF PingState
  <2>5. Once(c2b', "PINGREQ")
    BY <2>2, <2>3, <2>4, Zenon
  <2> QED  BY <1>2, <2>4, <2>5, Zenon DEF PingState
<1>3. \/ ping_outstanding' = po /\ c2b' = out
      \/ ~po /\ ping_outstanding' = TRUE /\ c2b' = Sent(out, Simple("PINGREQ", 0))
  BY Zenon DEF keepalive
<1> QED  BY <1>1, <1>2, <1>3, Zenon

(* Whatever ends with ping_outstanding clear and the connection gone. *)
LEMMA PingDown ==
    ASSUME ~ping_outstanding', link' # "up"
    PROVE  PingInv'
  BY DEF PingInv

(* A step that reads nothing and sends no ping. *)
LEMMA PingKept ==
    ASSUME TypeOK, PingInv, UNCHANGED <<ping_outstanding, link, b2c>>, Connecting' => Connecting,
           c2b' = c2b \/ \E m \in Packet : m.type # "PINGREQ" /\ c2b' = Sent(c2b, m)
    PROVE  PingInv'
<1>1. ASSUME link = "up" PROVE PingState(ping_outstanding, c2b', b2c)
  <2>1. PingState(ping_outstanding, c2b, b2c) /\ c2b \in Seq(Packet)
    BY <1>1 DEF PingInv, TypeOK, NetworkOK
  <2> QED  BY <2>1, PingSend, Zenon
<1>2. link' = "up" => PingState(ping_outstanding', c2b', b2c')
  BY <1>1, Zenon
<1>3. link' = "none" \/ Connecting' => ~ping_outstanding'
  BY Zenon DEF PingInv
<1> QED  BY <1>2, <1>3, Zenon DEF PingInv

(* A connected client's call that waits, or sends and returns. *)
LEMMA CallsKeepPing ==
    ASSUME TypeOK, PingInv, ConnectInv',
           \/ \E q \in {1, 2} : Publish(q)
           \/ \E t \in Topics : MQTTSubscribe(t) \/ MQTTUnsubscribe(t)
           \/ Respond \/ PublishData
    PROVE  PingInv'
<1>0. getNextPacketId \in 0..MaxPacketId /\ AValue \in Values /\ 0 \in 0..MaxPacketId
  <2>1. getNextPacketId \in 1..MaxPacketId
    BY NextIdType DEF TypeOK, CountersOK
  <2> QED  BY <2>1, AValueType, ConstantsAssumption
<1>1. /\ \A q \in {0, 1, 2} : Pkt("PUBLISH", getNextPacketId, q, AValue) \in Packet
      /\ Pkt("PUBLISH", 0, 0, AValue) \in Packet
      /\ Simple("SUBSCRIBE", getNextPacketId) \in Packet
      /\ Simple("UNSUBSCRIBE", getNextPacketId) \in Packet
  BY <1>0 DEF Pkt, Simple, Packet, PacketTypes
<1>2. /\ \A i, q, v : Pkt("PUBLISH", i, q, v).type # "PINGREQ"
      /\ \A i : Simple("SUBSCRIBE", i).type # "PINGREQ" /\ Simple("UNSUBSCRIBE", i).type # "PINGREQ"
  BY SMT DEF Pkt, Simple
<1>3. isconnected /\ isconnected' = isconnected /\ UNCHANGED <<ping_outstanding, link, b2c>>
  BY DEF Publish, MQTTPublish, MQTTSubscribe, MQTTUnsubscribe, Respond, PublishData, SendQoS0, Request
<1>4. ~Connecting'
  BY <1>3, Zenon DEF ConnectInv
<1>5. c2b' = c2b \/ \E m \in Packet : m.type # "PINGREQ" /\ c2b' = Sent(c2b, m)
  <2>1. CASE PublishData
    BY <1>1, <1>2, <2>1 DEF PublishData, SendQoS0
  <2>2. CASE (\E q \in {1, 2} : Publish(q)) \/ Respond
    <3>1. PICK q, op, t, below :
             q \in {1, 2} /\ Request(op, t, Pkt("PUBLISH", getNextPacketId, q, AValue), below)
      BY <2>2 DEF Publish, MQTTPublish, Respond
    <3>2. Pkt("PUBLISH", getNextPacketId, q, AValue) \in Packet
      BY <1>1, <3>1, SMT
    <3> QED  BY <1>2, <3>1, <3>2 DEF Request
  <2>3. CASE \E t \in Topics : MQTTSubscribe(t) \/ MQTTUnsubscribe(t)
    BY <1>1, <1>2, <2>3 DEF MQTTSubscribe, MQTTUnsubscribe, Request
  <2> QED  BY <2>1, <2>2, <2>3
<1> QED  BY <1>3, <1>4, <1>5, PingKept

(* connectClient starts with nothing outstanding and nothing in flight. *)
LEMMA ConnectKeepsPing ==
    ASSUME PingInv, connectClient
    PROVE  PingInv'
<1>1. ~ping_outstanding' /\ ping_outstanding' = ping_outstanding
  BY DEF PingInv, connectClient
<1>2. CASE link' = "none"
  BY <1>1, <1>2, PingDown
<1>3. CASE c2b' = <<Simple("CONNECT", 0)>> /\ b2c' = <<>>
  <2>1. None(c2b', "PINGREQ")
    BY <1>3 DEF None, Simple, Pkt
  <2>2. None(b2c', "PINGRESP")
    BY <1>3 DEF None
  <2> QED  BY <1>1, <2>1, <2>2, Zenon DEF PingInv, PingState
<1> QED  BY <1>2, <1>3 DEF connectClient, NetworkDisconnect

(* A call that returns, with success or not. *)
LEMMA ReturnKeepsPing ==
    ASSUME TypeOK, ConnectInv, PingInv, WaitDone \/ WaitTimedOut
    PROVE  PingInv'
<1>0. stack \in Seq(Frame) /\ Len(stack) \in Nat \ {0} /\ ~Idle
  BY EmptySeq, LenProperties, SMT DEF TypeOK, WaitDone, WaitTimedOut, Idle
<1>1. /\ Len(stack') = Len(stack) - 1
      /\ \A i \in 1..Len(stack') : stack'[i].op = stack[i].op
  <2>1. CASE WaitDone
    <3>1. stack' = Taken(Pop, Top.op)
      BY <2>1, Zenon DEF WaitDone
    <3> QED  BY <1>0, <3>1, ReturnFacts, Zenon
  <2>2. CASE WaitTimedOut
    <3>1. stack' = Pop
      BY <2>2, Zenon DEF WaitTimedOut
    <3> QED  BY <1>0, <3>1, PopFacts, Zenon
  <2> QED  BY <2>1, <2>2, Zenon
<1>2. Connecting' => Connecting
  BY <1>0, <1>1 DEF Connecting
<1>3. ping_outstanding' = ping_outstanding
  BY DEF WaitDone, WaitTimedOut, clientVars
<1>4. CASE NetworkDisconnect /\ Top.op = "connect"
  <2>1. Connecting
    BY <1>0, <1>4 DEF Connecting, Top
  <2>2. ~ping_outstanding'
    BY <1>3, <2>1, Zenon DEF PingInv
  <2> QED  BY <1>4, <2>2, PingDown DEF NetworkDisconnect
<1>5. CASE UNCHANGED netVars
  BY <1>2, <1>3, <1>5, PingKept DEF netVars
<1>6. CASE ConnectReturns /\ ~NetworkDisconnect /\ UNCHANGED <<link, b2c>> /\ c2b' # c2b
  <2> DEFINE m == Pkt("PUBLISH", 0, 0, AValue)
  <2>1. m \in Packet /\ m.type # "PINGREQ"
    <3>1. /\ "PUBLISH" \in PacketTypes /\ 0 \in 0..MaxPacketId
          /\ 0 \in {0, 1, 2, 5, 128}
      BY ConstantsAssumption DEF PacketTypes
    <3>2. m.type # "PINGREQ"
      BY DEF Pkt
    <3> QED  BY <3>1, <3>2, PktType, AValueType, Zenon
  <2>2. c2b' = Sent(Sent(c2b, m), m)
    BY <1>6 DEF ConnectReturns
  <2> HIDE DEF m
  <2>3. ASSUME link = "up" PROVE PingState(ping_outstanding, c2b', b2c)
    <3>1. PingState(ping_outstanding, c2b, b2c) /\ c2b \in Seq(Packet)
      BY <2>3 DEF PingInv, TypeOK, NetworkOK
    <3>2. PingState(ping_outstanding, Sent(c2b, m), b2c) /\ Sent(c2b, m) \in Seq(Packet)
      BY <2>1, <3>1, PingSend, SentType
    <3>3. PingState(ping_outstanding, Sent(Sent(c2b, m), m), b2c)
      BY <2>1, <3>2, PingSend
    <3> QED  BY <2>2, <3>3
  <2>4. link' = "up" => PingState(ping_outstanding', c2b', b2c')
    BY <1>3, <1>6, <2>3, Zenon
  <2>5. link' = "none" \/ Connecting' => ~ping_outstanding'
    BY <1>2, <1>3, <1>6, Zenon DEF PingInv
  <2> QED  BY <2>4, <2>5, Zenon DEF PingInv
<1>7. CASE UNCHANGED <<link, b2c>> /\ c2b' = c2b
  BY <1>2, <1>3, <1>7, PingKept
<1> QED  BY <1>4, <1>5, <1>6, <1>7, Zenon DEF WaitDone, WaitTimedOut, ConnectReturns, SubscribeReturns,
            UnsubscribeReturns, PublishReturns, netVars

(* Reading a packet starts no call. *)
LEMMA ReadOps ==
    ASSUME TypeOK, CycleRead
    PROVE  Connecting' => Connecting
<1>1. stack \in Seq(Frame) /\ Len(stack) \in Nat /\ ~Idle /\ Head(b2c) \in Packet /\ "wait" \in Labels
  BY LenProperties, HeadTailProperties DEF TypeOK, NetworkOK, CycleRead, Labels
<1>2. CASE Head(b2c).type \in AckTypes
  <2>1. stack' = Witnessed(Goto("wait"), Head(b2c))
    BY <1>2, Zenon DEF CycleRead, AckTypes
  <2>2. /\ Len(stack') = Len(stack)
        /\ \A i \in 1..Len(stack) : stack'[i].op = stack[i].op
    <3>1. /\ Goto("wait") \in Seq(Frame) /\ Len(Goto("wait")) = Len(stack)
          /\ \A i \in 1..Len(stack) : Goto("wait")[i].op = stack[i].op
      BY <1>1, GotoFacts, Zenon
    <3>2. /\ Len(stack') = Len(Goto("wait"))
          /\ \A i \in 1..Len(Goto("wait")) : stack'[i].op = Goto("wait")[i].op
      BY <1>1, <2>1, <3>1, WitnessedFacts, Zenon
    <3> QED  BY <3>1, <3>2
  <2> QED  BY <2>2 DEF Connecting
<1>3. CASE Head(b2c).type \notin AckTypes
  <2>1. CallsKept
    BY <1>3, StepsKeepCalls
  <2> QED  BY <1>1, <2>1 DEF CallsKept, Connecting
<1> QED  BY <1>2, <1>3

(* A step that keeps the calls does not start MQTTConnect. *)
LEMMA KeptCallsConnecting ==
    ASSUME TypeOK, CallsKept
    PROVE  Connecting' => Connecting
<1>1. Len(stack) \in Nat
  BY LenProperties DEF TypeOK
<1>2. \A i \in 1..Len(stack') : i \in 1..Len(stack)
  BY <1>1 DEF CallsKept
<1> QED  BY <1>2, Zenon DEF CallsKept, Connecting

(* The steps of a call in which it neither returns nor runs keepalive, and *)
(* the clock.                                                              *)
LEMMA WaitsKeepPing ==
    ASSUME TypeOK, PingInv, WaitMore \/ Ignore \/ Echo \/ Tick \/ MQTTYield \/ UNCHANGED vars
    PROVE  PingInv'
<1>1. ping_outstanding' = ping_outstanding /\ link' = link /\ b2c' = b2c
  BY Zenon DEF WaitMore, Ignore, Echo, SendQoS0, Tick, MQTTYield, vars, clientVars, netVars
<1>2. c2b' = c2b \/ \E m \in Packet : m.type # "PINGREQ" /\ c2b' = Sent(c2b, m)
  <2>1. Pkt("PUBLISH", 0, 0, payload) \in Packet /\ Pkt("PUBLISH", 0, 0, payload).type # "PINGREQ"
    <3>1. /\ "PUBLISH" \in PacketTypes /\ 0 \in 0..MaxPacketId
          /\ 0 \in {0, 1, 2, 5, 128}
      BY ConstantsAssumption DEF PacketTypes
    <3>2. payload \in Values
      BY Zenon DEF TypeOK, ClientOK
    <3>3. Pkt("PUBLISH", 0, 0, payload).type # "PINGREQ"
      BY DEF Pkt
    <3> QED  BY <3>1, <3>2, <3>3, PktType, Zenon
  <2> QED  BY <2>1 DEF WaitMore, Ignore, Echo, SendQoS0, Tick, MQTTYield, vars, clientVars, netVars
<1>3. Connecting' => Connecting
  <2>1. CASE MQTTYield
    <3> DEFINE f == NewFrame("yield", 0, NoTopic, YieldTime, "cycle")
    <3>1. stack' = <<f>>
      BY <2>1, Zenon DEF MQTTYield
    <3>2. f.op = "yield"
      BY DEF NewFrame
    <3> HIDE DEF f
    <3> QED  BY <3>1, <3>2 DEF Connecting
  <2>2. CASE ~MQTTYield
    <3>1. CallsKept
      BY <2>2, StepsKeepCalls, OthersKeepCalls, Zenon
    <3> QED  BY <3>1, KeptCallsConnecting, Zenon
  <2> QED  BY <2>1, <2>2
<1> QED  BY <1>1, <1>2, <1>3, PingKept, SMT

(* keepalive with nothing due, as everywhere in MQTTConnect. *)
LEMMA PingNotDue ==
    ASSUME NEW pt, NEW lr, NEW po, NEW out, NEW cn, ~PingDue(pt, lr), keepalive(pt, lr, po, out, cn)
    PROVE  ping_outstanding' = po
  BY DEF keepalive

(* What cycle and keepalive do to the ping when they have read a packet m. *)
LEMMA ReadCases ==
    ASSUME CycleRead
    PROVE  LET m == Head(b2c)
           IN \/ m.type # "PINGRESP" /\ UNCHANGED <<ping_outstanding, c2b>>
              \/ m.type # "PINGRESP" /\ keepalive(ping_timer, KeepAlive, ping_outstanding, c2b, connected)
              \/ /\ m.type # "PINGRESP"
                 /\ keepalive(KeepAlive, KeepAlive, ping_outstanding,
                              Sent(c2b, Simple("PUBREL", m.id)), connected)
              \/ m.type = "PINGRESP" /\ keepalive(ping_timer, KeepAlive, FALSE, c2b, connected)
<1> DEFINE m == Head(b2c)
<1>1. \/ /\ m.type \in AckTypes
         /\ keepalive(ping_timer, KeepAlive, ping_outstanding, c2b, connected)
      \/ m.type = "PINGRESP" /\ keepalive(ping_timer, KeepAlive, FALSE, c2b, connected)
      \/ m.type = "PUBREC" /\ CycleAnswers(Simple("PUBREL", m.id), KeepAlive)
      \/ m.type = "PUBREL" /\ keepalive(ping_timer, KeepAlive, ping_outstanding, c2b, connected)
      \/ m.type = "PUBLISH" /\ UNCHANGED <<ping_outstanding, c2b>>
  BY Zenon DEF CycleRead
<1>2. m.type \in AckTypes => m.type # "PINGRESP"
  BY DEF AckTypes
<1>3. CycleAnswers(Simple("PUBREL", m.id), KeepAlive) =>
        \/ UNCHANGED <<ping_outstanding, c2b>>
        \/ keepalive(KeepAlive, KeepAlive, ping_outstanding, Sent(c2b, Simple("PUBREL", m.id)), connected)
  BY Zenon DEF CycleAnswers, CycleFails
<1> HIDE DEF m
<1>4. /\ m.type = "PUBREC" => m.type # "PINGRESP"
      /\ m.type = "PUBREL" => m.type # "PINGRESP"
      /\ m.type = "PUBLISH" => m.type # "PINGRESP"
  OBVIOUS
<1>5. \/ m.type # "PINGRESP" /\ UNCHANGED <<ping_outstanding, c2b>>
      \/ m.type # "PINGRESP" /\ keepalive(ping_timer, KeepAlive, ping_outstanding, c2b, connected)
      \/ /\ m.type # "PINGRESP"
         /\ keepalive(KeepAlive, KeepAlive, ping_outstanding, Sent(c2b, Simple("PUBREL", m.id)), connected)
      \/ m.type = "PINGRESP" /\ keepalive(ping_timer, KeepAlive, FALSE, c2b, connected)
  BY <1>1, <1>2, <1>3, <1>4, Zenon
<1> QED  BY <1>5, Zenon DEF m

(* The PINGRESP is read once, and only then is ping_outstanding cleared.   *)
LEMMA ReadKeepsPing ==
    ASSUME TypeOK, ConnectInv, PingInv, CycleRead
    PROVE  PingInv'
<1> DEFINE m == Head(b2c)
           answer == Simple("PUBREL", m.id)
<1>1. /\ b2c \in Seq(Packet) /\ b2c # <<>> /\ c2b \in Seq(Packet) /\ b2c' = Tail(b2c) /\ link' = link
      /\ ~Idle /\ m \in Packet
  BY HeadTailProperties DEF TypeOK, NetworkOK, CycleRead
<1>2. answer \in Packet /\ answer.type # "PINGREQ"
  <2>1. m.id \in 0..MaxPacketId /\ "PUBREL" \in PacketTypes
    BY <1>1 DEF Packet, PacketTypes
  <2>2. answer \in Packet
    BY <2>1, SimpleType, Zenon
  <2>3. answer.type = "PUBREL"
    BY DEF Simple, Pkt
  <2> QED  BY <2>2, <2>3
<1>3. /\ None(b2c, "PINGRESP") => None(Tail(b2c), "PINGRESP") /\ m.type # "PINGRESP"
      /\ Once(b2c, "PINGRESP") /\ m.type # "PINGRESP" => Once(Tail(b2c), "PINGRESP")
      /\ Once(b2c, "PINGRESP") /\ m.type = "PINGRESP" => None(Tail(b2c), "PINGRESP")
  BY <1>1, QueueTail
<1>4. Sent(c2b, answer) \in Seq(Packet)
  BY <1>1, <1>2, SentType
<1>5. \/ m.type # "PINGRESP" /\ UNCHANGED <<ping_outstanding, c2b>>
      \/ m.type # "PINGRESP" /\ keepalive(ping_timer, KeepAlive, ping_outstanding, c2b, connected)
      \/ m.type # "PINGRESP" /\ keepalive(KeepAlive, KeepAlive, ping_outstanding, Sent(c2b, answer), connected)
      \/ m.type = "PINGRESP" /\ keepalive(ping_timer, KeepAlive, FALSE, c2b, connected)
  BY ReadCases, Zenon
<1> HIDE DEF m, answer
<1>6. ASSUME link = "up" PROVE PingState(ping_outstanding', c2b', Tail(b2c))
  <2>1. PingState(ping_outstanding, c2b, b2c)
    BY <1>6 DEF PingInv
  <2>2. CASE m.type # "PINGRESP"
    <3>1. PingState(ping_outstanding, c2b, Tail(b2c))
      BY <1>3, <2>1, <2>2, Zenon DEF PingState
    <3>2. PingState(ping_outstanding, Sent(c2b, answer), Tail(b2c))
      BY <1>1, <1>2, <3>1, PingSend
    <3>3. CASE UNCHANGED <<ping_outstanding, c2b>>
      BY <3>1, <3>3, Zenon
    <3>4. CASE keepalive(ping_timer, KeepAlive, ping_outstanding, c2b, connected)
      BY <1>1, <1>6, <3>1, <3>4, PingKeepalive
    <3>5. CASE keepalive(KeepAlive, KeepAlive, ping_outstanding, Sent(c2b, answer), connected)
      BY <1>4, <1>6, <3>2, <3>5, PingKeepalive
    <3> QED  BY <1>5, <2>2, <3>3, <3>4, <3>5, Zenon
  <2>3. CASE m.type = "PINGRESP"
    <3>1. PingState(FALSE, c2b, Tail(b2c))
      BY <1>3, <2>1, <2>3, Zenon DEF PingState
    <3>2. keepalive(ping_timer, KeepAlive, FALSE, c2b, connected)
      BY <1>5, <2>3, Zenon
    <3> QED  BY <1>1, <1>6, <3>1, <3>2, PingKeepalive, Zenon
  <2> QED  BY <2>2, <2>3
<1>7. ASSUME Connecting PROVE ~ping_outstanding'
  <2>1. ~PingDue(ping_timer, KeepAlive) /\ ~PingDue(KeepAlive, KeepAlive)
    BY <1>7, ConnectingNotDue, Zenon
  <2>2. ping_outstanding' = ping_outstanding \/ ping_outstanding' = FALSE
    BY <1>5, <2>1, PingNotDue, Zenon
  <2> QED  BY <1>7, <2>2, Zenon DEF PingInv
<1>8. link' # "none" /\ (Connecting' => Connecting)
  <2>1. link # "none"
    BY <1>1, WaitingHasLink
  <2> QED  BY <1>1, <2>1, ReadOps, Zenon
<1>9. link' = "up" => PingState(ping_outstanding', c2b', b2c')
  BY <1>1, <1>6, Zenon
<1>10. link' = "none" \/ Connecting' => ~ping_outstanding'
  BY <1>7, <1>8, Zenon
<1> QED  BY <1>9, <1>10, Zenon DEF PingInv

(* keepalive where nothing was read. *)
LEMMA AliveKeepsPing ==
    ASSUME TypeOK, ConnectInv, PingInv, UNCHANGED <<link, b2c>>, link # "none", Connecting' => Connecting,
           NEW pt \in {ping_timer, KeepAlive}, NEW out \in Seq(Packet), NEW cn,
           link = "up" => PingState(ping_outstanding, out, b2c),
           keepalive(pt, last_received_timer, ping_outstanding, out, cn)
    PROVE  PingInv'
<1>1. link' = "up" => PingState(ping_outstanding', c2b', b2c')
  <2>1. ASSUME link = "up" PROVE PingState(ping_outstanding', c2b', b2c)
    BY <2>1, PingKeepalive
  <2> QED  BY <2>1, Zenon
<1>2. ASSUME Connecting PROVE ~ping_outstanding'
  <2>1. ~PingDue(pt, last_received_timer)
    BY <1>2, ConnectingNotDue, Zenon
  <2>2. ping_outstanding' = ping_outstanding
    BY <2>1, PingNotDue, Zenon
  <2> QED  BY <1>2, <2>2, Zenon DEF PingInv
<1> QED  BY <1>1, <1>2, Zenon DEF PingInv

(* The rest of cycle after a read that failed, and after a delivery. *)
LEMMA CyclesKeepPing ==
    ASSUME TypeOK, ConnectInv, PingInv, CycleReadFails \/ Acknowledge
    PROVE  PingInv'
<1>1. /\ c2b \in Seq(Packet) /\ UNCHANGED <<link, b2c>> /\ ~Idle /\ Len(stack) \in Nat
      /\ Top \in Frame /\ Top.msg \in Packet
  <2>1. Top \in Frame
    BY GotoFacts, Zenon DEF TypeOK, CycleReadFails, Acknowledge, Labels
  <2> QED  BY <2>1, LenProperties DEF TypeOK, NetworkOK, CycleReadFails, Acknowledge, Frame
<1>2. link # "none"
  BY <1>1, WaitingHasLink
<1>3. Connecting' => Connecting
  <2>1. CallsKept
    BY StepsKeepCalls, Zenon
  <2> QED  BY <2>1, KeptCallsConnecting, Zenon
<1>4. link = "up" => PingState(ping_outstanding, c2b, b2c)
  BY DEF PingInv
<1>5. ASSUME NEW pt \in {ping_timer, KeepAlive}, NEW cn,
             keepalive(pt, last_received_timer, ping_outstanding, c2b, cn)
      PROVE  PingInv'
  BY <1>1, <1>2, <1>3, <1>4, <1>5, AliveKeepsPing
<1>6. ASSUME NEW type \in {"PUBACK", "PUBREC"},
             CycleAnswers(Simple(type, Top.msg.id), last_received_timer)
      PROVE  PingInv'
  <2> DEFINE answer == Simple(type, Top.msg.id)
  <2>1. answer \in Packet /\ answer.type # "PINGREQ"
    <3>1. Top.msg.id \in 0..MaxPacketId /\ type \in PacketTypes
      BY <1>1 DEF Packet, PacketTypes
    <3>2. answer \in Packet
      BY <3>1, SimpleType, Zenon
    <3>3. answer.type = type
      BY DEF Simple, Pkt
    <3> QED  BY <3>2, <3>3
  <2>2. \/ keepalive(KeepAlive, last_received_timer, ping_outstanding, Sent(c2b, answer), connected)
        \/ UNCHANGED <<ping_outstanding, c2b>>
    BY <1>6, Zenon DEF CycleAnswers, CycleFails
  <2> HIDE DEF answer
  <2>3. CASE UNCHANGED <<ping_outstanding, c2b>>
    BY <1>1, <1>3, <2>3, PingKept
  <2>4. CASE keepalive(KeepAlive, last_received_timer, ping_outstanding, Sent(c2b, answer), connected)
    <3>1. Sent(c2b, answer) \in Seq(Packet)
      BY <1>1, <2>1, SentType, SMT
    <3>2. link = "up" => PingState(ping_outstanding, Sent(c2b, answer), b2c)
      BY <1>1, <1>4, <2>1, PingSend
    <3>3. KeepAlive \in {ping_timer, KeepAlive}
      OBVIOUS
    <3> QED  BY <1>1, <1>2, <1>3, <2>4, <3>1, <3>2, <3>3, AliveKeepsPing
  <2> QED  BY <2>2, <2>3, <2>4
<1>7. CASE CycleReadFails
  <2>1. PICK cn : keepalive(ping_timer, last_received_timer, ping_outstanding, c2b, cn)
    BY <1>7, Zenon DEF CycleReadFails
  <2> QED  BY <1>5, <2>1
<1>8. CASE Acknowledge
  <2>1. \/ keepalive(ping_timer, last_received_timer, ping_outstanding, c2b, connected)
        \/ CycleAnswers(Simple("PUBACK", Top.msg.id), last_received_timer)
        \/ CycleAnswers(Simple("PUBREC", Top.msg.id), last_received_timer)
    BY <1>8, Zenon DEF Acknowledge
  <2>2. ping_timer \in {ping_timer, KeepAlive}
    OBVIOUS
  <2>3. CASE keepalive(ping_timer, last_received_timer, ping_outstanding, c2b, connected)
    BY <1>5, <2>2, <2>3
  <2> QED  BY <1>6, <2>1, <2>3
<1> QED  BY <1>7, <1>8

(* What the broker answers: at most one packet, and a PINGRESP to a        *)
(* PINGREQ only.                                                           *)
LEMMA BrokerAnswer ==
    ASSUME NEW m \in Packet, NEW answer \in BrokerAnswers(m)
    PROVE  \/ answer = <<>> /\ m.type # "PINGREQ"
           \/ \E r \in Packet : answer = <<r>> /\ (r.type = "PINGRESP" <=> m.type = "PINGREQ")
<1>1. m.id \in 0..MaxPacketId /\ 0 \in 0..MaxPacketId /\ AValue \in Values
  BY AValueType, ConstantsAssumption DEF Packet
<1>2. CASE m.type = "CONNECT"
  BY <1>1, <1>2 DEF BrokerAnswers, Pkt, Packet, PacketTypes
<1>3. CASE m.type = "SUBSCRIBE"
  BY <1>1, <1>3 DEF BrokerAnswers, Pkt, Packet, PacketTypes
<1>4. CASE m.type = "UNSUBSCRIBE"
  BY <1>1, <1>4 DEF BrokerAnswers, Simple, Pkt, Packet, PacketTypes
<1>5. CASE m.type = "PUBLISH"
  BY <1>1, <1>5 DEF BrokerAnswers, Simple, Pkt, Packet, PacketTypes
<1>6. CASE m.type \in {"PUBREC", "PUBREL", "PINGREQ"}
  BY <1>1, <1>6 DEF BrokerAnswers, Simple, Pkt, Packet, PacketTypes
<1>7. CASE m.type \notin {"CONNECT", "SUBSCRIBE", "UNSUBSCRIBE", "PUBLISH", "PUBREC", "PUBREL", "PINGREQ"}
  BY <1>7 DEF BrokerAnswers
<1> QED  BY <1>2, <1>3, <1>4, <1>5, <1>6, <1>7

(* The broker answers a PINGREQ once, and sends no PINGRESP of its own.    *)
LEMMA BrokerKeepsPing ==
    ASSUME TypeOK, PingInv, BrokerReceives
    PROVE  PingInv'
<1>1. /\ link = "up" /\ link' = link /\ c2b \in Seq(Packet) /\ b2c \in Seq(Packet) /\ c2b # <<>>
      /\ c2b' = Tail(c2b) /\ UNCHANGED <<stack, ping_outstanding>>
  BY DEF TypeOK, NetworkOK, BrokerReceives, clientVars
<1>2. PICK m, answer : /\ m \in Packet /\ m = Head(c2b) /\ answer \in BrokerAnswers(m)
                       /\ b2c' = b2c \o answer
  BY <1>1, HeadTailProperties, Zenon DEF BrokerReceives
<1>3. PingState(ping_outstanding, c2b, b2c)
  BY <1>1 DEF PingInv
<1>4. /\ None(c2b, "PINGREQ") => None(Tail(c2b), "PINGREQ") /\ m.type # "PINGREQ"
      /\ Once(c2b, "PINGREQ") /\ m.type # "PINGREQ" => Once(Tail(c2b), "PINGREQ")
      /\ Once(c2b, "PINGREQ") /\ m.type = "PINGREQ" => None(Tail(c2b), "PINGREQ")
  BY <1>1, <1>2, QueueTail, Zenon
<1>5. PingState(ping_outstanding, Tail(c2b), b2c')
  <2>1. CASE answer = <<>> /\ m.type # "PINGREQ"
    <3>1. b2c' = b2c
      BY <1>1, <1>2, <2>1
    <3> QED  BY <1>3, <1>4, <2>1, <3>1, Zenon DEF PingState
  <2>2. ASSUME NEW r \in Packet, answer = <<r>>, r.type = "PINGRESP" <=> m.type = "PINGREQ"
        PROVE  PingState(ping_outstanding, Tail(c2b), b2c')
    <3>1. b2c' = Append(b2c, r)
      BY <1>1, <1>2, <2>2
    <3>2. /\ r.type # "PINGRESP" /\ None(b2c, "PINGRESP") => None(b2c', "PINGRESP")
          /\ r.type # "PINGRESP" /\ Once(b2c, "PINGRESP") => Once(b2c', "PINGRESP")
          /\ r.type = "PINGRESP" /\ None(b2c, "PINGRESP") => Once(b2c', "PINGRESP")
      BY <1>1, <3>1, QueueAppend, Zenon
    <3> QED  BY <1>3, <1>4, <2>2, <3>2, Zenon DEF PingState
  <2>3. \/ answer = <<>> /\ m.type # "PINGREQ"
        \/ \E r \in Packet : answer = <<r>> /\ (r.type = "PINGRESP" <=> m.type = "PINGREQ")
    BY <1>2, BrokerAnswer
  <2> QED  BY <2>1, <2>2, <2>3
<1>6. Connecting' => Connecting
  BY <1>1 DEF Connecting
<1> QED  BY <1>1, <1>5, <1>6, Zenon DEF PingInv

(* A message of the broker, and a connection that fails. *)
LEMMA NetworkKeepsPing ==
    ASSUME TypeOK, PingInv,
           \/ \E q \in InboundQoS, v \in Values : BrokerPublishes(q, v)
           \/ \E kind \in LinkFaults : LinkFails(kind)
    PROVE  PingInv'
<1>1. UNCHANGED <<stack, ping_outstanding>>
  BY DEF BrokerPublishes, LinkFails, clientVars
<1>2. Connecting' => Connecting
  BY <1>1 DEF Connecting
<1>3. ASSUME NEW q \in InboundQoS, NEW v \in Values, BrokerPublishes(q, v) PROVE PingInv'
  <2> DEFINE m == Pkt("PUBLISH", IF q = 0 THEN 0 ELSE 1, q, v)
  <2>1. m \in Packet /\ m.type # "PINGRESP"
    <3>1. q \in {0, 1, 2} /\ 0 \in 0..MaxPacketId /\ 1 \in 0..MaxPacketId
      BY ConstantsAssumption
    <3> QED  BY <3>1 DEF Pkt, Packet, PacketTypes
  <2>2. /\ b2c \in Seq(Packet) /\ b2c' = Append(b2c, m) /\ UNCHANGED <<link, c2b>>
    BY <1>3 DEF BrokerPublishes, TypeOK, NetworkOK
  <2> HIDE DEF m
  <2>3. /\ None(b2c, "PINGRESP") => None(b2c', "PINGRESP")
        /\ Once(b2c, "PINGRESP") => Once(b2c', "PINGRESP")
    BY <2>1, <2>2, QueueAppend
  <2>4. link = "up" => PingState(ping_outstanding, c2b, b2c')
    BY <2>3, Zenon DEF PingInv, PingState
  <2> QED  BY <1>1, <1>2, <2>2, <2>4, Zenon DEF PingInv
<1>4. ASSUME NEW kind \in LinkFaults, LinkFails(kind) PROVE PingInv'
  <2>1. link' # "up" /\ link' # "none" /\ link # "none"
    BY <1>4, ConstantsAssumption DEF LinkFails
  <2> QED  BY <1>1, <1>2, <2>1, Zenon DEF PingInv
<1> QED  BY <1>3, <1>4

(* For every value of the constants, ping_outstanding says exactly that    *)
(* one ping is on its way on a connection that is up.                      *)
THEOREM PingInvariant == Spec => []PingInv
<1>1. Init => PingInv
  <2> SUFFICES ASSUME Init PROVE PingInv
    OBVIOUS
  <2>1. link = "none" /\ ping_outstanding = FALSE
    BY DEF Init
  <2> QED  BY <2>1, Zenon DEF PingInv
<1>2. ASSUME TypeOK, ConnectInv, ConnectInv', PingInv, [Next]_vars PROVE PingInv'
  <2>1. CASE Reconnect \/ MQTTDisconnect
    <3>1. ~ping_outstanding' /\ link' = "none"
      BY <2>1, Zenon DEF Reconnect, MQTTDisconnect, SessionReset, NetworkDisconnect
    <3> QED  BY <3>1, PingDown
  <2> QED  BY <1>2, <2>1, ConnectKeepsPing, CallsKeepPing, ReturnKeepsPing, WaitsKeepPing, ReadKeepsPing,
              CyclesKeepPing, BrokerKeepsPing, NetworkKeepsPing DEF Next, Progress
<1> QED  BY <1>1, <1>2, TypeCorrect, ConnectInvariant, PTL DEF Spec

(* On a connection that is up, there is one ping and no more, on its way   *)
(* to the broker or back, exactly while ping_outstanding is set.           *)
THEOREM OnePingAtATime == Spec => []PingAccounted
<1>1. PingInv => PingAccounted
  <2> SUFFICES ASSUME PingState(ping_outstanding, c2b, b2c)
               PROVE  LET pings == Positions(c2b, "PINGREQ")
                          pongs == Positions(b2c, "PINGRESP")
                      IN  /\ \A i, j \in pings : i = j
                          /\ \A i, j \in pongs : i = j
                          /\ pings = {} \/ pongs = {}
                          /\ ping_outstanding <=> (pings # {} \/ pongs # {})
    BY DEF PingInv, PingAccounted
  <2>1. \A queue, type : /\ None(queue, type) => Positions(queue, type) = {}
                         /\ Once(queue, type) => /\ Positions(queue, type) # {}
                                                 /\ \A i, j \in Positions(queue, type) : i = j
    BY DEF None, Once, Positions
  <2> QED  BY <2>1, Zenon DEF PingState
<1> QED  BY <1>1, PingInvariant, PTL

=============================================================================
