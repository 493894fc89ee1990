------------------------------ MODULE Framing -------------------------------
(***************************************************************************)
(* How MQTTClient.c puts packets on the connection and takes them off it:  *)
(* sendPacket, readPacket and decodePacket, over the calls of Network.c.   *)
(*                                                                         *)
(* A packet is what Codec says.  The peer sends whole packets; its bytes   *)
(* come in pieces, late, or not at all.                                    *)
(***************************************************************************)
EXTENDS Network, Codec

CONSTANTS
    MaxDigits,    \* MAX_NO_OF_REMAINING_LENGTH_BYTES (4)
    Outgoing,     \* the packets the client sends
    Incoming,     \* the packets the peer sends
    MaxPackets    \* bound: packets of the peer on one connection

ASSUME FramingAssumption ==
    /\ MaxDigits \in Nat \ {0} /\ MaxPackets \in Nat
    /\ Byte = ByteValues
    /\ Outgoing \cup Incoming \subseteq [head : Byte, body : Seq(Byte)]
    /\ \A p \in Outgoing \cup Incoming : Len(p.body) \in Lengths

VARIABLES
    pc,          \* where sendPacket or readPacket stands
    packet,      \* the bytes sendPacket was given in MQTTClient.buf
    sent,        \* sendPacket's local variable
    written,     \* the bytes write has taken in this call of sendPacket
    head,        \* the header byte in readbuf
    rem_len,     \* readPacket's local variable, decodePacket's *value
    multiplier,  \* decodePacket's local variable
    len,         \* decodePacket's local variable
    peer,        \* the packets the peer has sent on this connection
    reads,       \* the packets readPacket has returned, until torn
    torn         \* a read failed inside a packet on this connection

sendVars == <<packet, sent, written>>
decodeVars == <<head, rem_len, multiplier, len>>
historyVars == <<peer, reads, torn>>
frameVars == <<pc, sendVars, decodeVars, historyVars>>
vars == <<netVars, frameVars>>

-----------------------------------------------------------------------------
Serialize(p) == Packet(p.head, Len(p.body), p.body)

Init ==
    /\ NetInit
    /\ pc = "idle"
    /\ packet = <<>> /\ sent = 0 /\ written = <<>>
    /\ head = 0 /\ rem_len = 0 /\ multiplier = 1 /\ len = 0
    /\ peer = <<>> /\ reads = <<>> /\ torn = FALSE

(* connectClient's calls, between two packets *)
Connection ==
    /\ pc = "idle"
    /\ ConnectStep \/ NetworkInit \/ NetworkDisconnect
    /\ IF ~open'
       THEN peer' = <<>> /\ reads' = <<>> /\ torn' = FALSE
       ELSE UNCHANGED historyVars
    /\ UNCHANGED <<pc, sendVars, decodeVars>>

-----------------------------------------------------------------------------
(* sendPacket, called with the serialized packet p in buf *)
SendPacket(p) ==
    /\ pc = "idle" /\ open
    /\ pc' = "send" /\ packet' = Serialize(p)
    /\ sent' = 0 /\ written' = <<>>
    /\ UNCHANGED <<netVars, decodeVars, historyVars>>

(* what mqttwrite is given: length bytes from &buf[sent] on, also after a  *)
(* part was written; 0 stands for what lies behind the packet (mutant:     *)
(* always from buf[0] on)                                                  *)
WriteFromStart == packet

WriteArgument ==
    [i \in 1..Len(packet) |-> IF sent + i <= Len(packet) THEN packet[sent + i] ELSE 0]

SendMore(k) ==
    /\ pc = "send" /\ sent < Len(packet)
    /\ k <= Len(packet)
    /\ WriteTakes
    /\ written' = written \o SubSeq(WriteArgument, 1, k)
    /\ sent' = sent + k
    /\ UNCHANGED <<pc, packet, decodeVars, historyVars>>

EndOfSend == pc' = "idle" /\ packet' = <<>> /\ sent' = 0 /\ written' = <<>>

SendBreaks ==
    /\ pc = "send" /\ sent < Len(packet)
    /\ WriteFails
    /\ EndOfSend
    /\ UNCHANGED <<decodeVars, historyVars>>

(* the loop is left because all is sent, or because the timer has expired, *)
(* and sendPacket succeeds if sent = length                                *)
SendEnds ==
    /\ pc = "send"
    /\ EndOfSend
    /\ UNCHANGED <<netVars, decodeVars, historyVars>>

-----------------------------------------------------------------------------
(* readPacket *)
ReadPacket ==
    /\ pc = "idle"
    /\ BeginRead(1)
    /\ pc' = "header"
    /\ UNCHANGED <<sendVars, decodeVars, historyVars>>

(* recv by recv, inside mqttread *)
Reading ==
    /\ ReadStep
    /\ UNCHANGED frameVars

(* the locals of readPacket are gone when it returns *)
EndOfPacket == pc' = "idle" /\ head' = 0 /\ rem_len' = 0 /\ multiplier' = 1 /\ len' = 0

(* what the history keeps of a packet that was returned, and of a failure  *)
(* inside one                                                              *)
Return(p) ==
    /\ reads' = IF torn THEN reads ELSE Append(reads, p)
    /\ UNCHANGED torn

Tear == torn' = TRUE /\ reads' = <<>>

ReadFailed ==
    /\ EndOfPacket
    /\ UNCHANGED <<netVars, sendVars, peer>>

HeaderRead ==
    /\ pc = "header" /\ ~reading
    /\ \/ got = <<>> /\ ReadFailed /\ UNCHANGED <<reads, torn>>
       \/ /\ got # <<>>
          /\ BeginRead(1)
          /\ pc' = "length" /\ head' = got[1] /\ rem_len' = 0 /\ multiplier' = 1 /\ len' = 1
          /\ UNCHANGED <<sendVars, historyVars>>

(* decodePacket has a digit; i & 128 says that more follow (mutant: not    *)
(* when the digit is 0), as far as there may be                            *)
Digit == got[1] % Base

MoreNonzero == got[1] > Base

More == got[1] >= Base

LastDigit == len = MaxDigits

Value == rem_len + Digit * multiplier

(* decodePacket has returned, with the length n or with as much of it as   *)
(* it could read: its result is not looked at                              *)
Decoded(n) ==
    /\ \/ /\ n > 0
          /\ BeginRead(n)
          /\ pc' = "body" /\ rem_len' = n
          /\ UNCHANGED <<head, multiplier, len>>
       \/ n = 0 /\ EndOfPacket /\ UNCHANGED netVars
    /\ UNCHANGED <<sendVars, peer>>

LengthRead ==
    /\ pc = "length" /\ ~reading
    /\ \/ got = <<>> /\ Decoded(rem_len) /\ Tear
       \/ /\ got # <<>> /\ More /\ ~LastDigit
          /\ BeginRead(1)
          /\ rem_len' = Value /\ multiplier' = multiplier * Base /\ len' = len + 1
          /\ UNCHANGED <<pc, head, sendVars, historyVars>>
       \/ got # <<>> /\ More /\ LastDigit /\ Decoded(Value) /\ Tear
       \/ /\ got # <<>> /\ ~More
          /\ Decoded(Value)
          /\ IF Value > 0 THEN UNCHANGED <<reads, torn>>
             ELSE Return([head |-> head, body |-> <<>>])

BodyRead ==
    /\ pc = "body" /\ ~reading
    /\ \/ got = <<>> /\ ReadFailed /\ Tear
       \/ /\ got # <<>>
          /\ EndOfPacket
          /\ Return([head |-> head, body |-> got])
          /\ UNCHANGED <<netVars, sendVars, peer>>

-----------------------------------------------------------------------------
PeerPacket(p) ==
    /\ Len(peer) < MaxPackets
    /\ PeerSends(Serialize(p))
    /\ peer' = Append(peer, p)
    /\ UNCHANGED <<pc, sendVars, decodeVars, reads, torn>>

Failure == FailureStep /\ UNCHANGED frameVars

Step ==
    \/ \E k \in 1..MaxLen : SendMore(k)
    \/ SendBreaks \/ SendEnds
    \/ Reading
    \/ HeaderRead \/ LengthRead \/ BodyRead

Next ==
    \/ Connection
    \/ \E p \in Outgoing : SendPacket(p)
    \/ \E p \in Incoming : PeerPacket(p)
    \/ ReadPacket
    \/ Step
    \/ Failure

Spec == Init /\ [][Next]_vars

(* The client's task is scheduled, and recv returns when its timeout has   *)
(* passed.                                                                 *)
FairSpec == Spec /\ WF_vars(Step)

-----------------------------------------------------------------------------
(* A sendPacket that succeeds has put its packet on the connection, byte   *)
(* for byte and once, in however many pieces write took it: after a piece  *)
(* it asks for the whole length again, but then has sent too much to       *)
(* report success.                                                         *)
SentIsPacket ==
    pc = "send" /\ sent = Len(packet) =>
      written = packet

(* Unless a read has failed inside a packet, what readPacket returns are   *)
(* the peer's packets, each once and in order: the digits of the length    *)
(* are put together to the length that the peer took apart, and no byte of *)
(* one packet is taken for one of another.                                 *)
PacketsInOrder ==
    ~torn => /\ Len(reads) <= Len(peer)
             /\ \A i \in 1..Len(reads) : reads[i] = peer[i]

(* sendPacket and readPacket return, except that a read on a connection    *)
(* which the peer has reset may go on for ever.                            *)
PacketCallsReturn == (pc # "idle") ~> (pc = "idle" \/ my_socket = "reset")

=============================================================================
