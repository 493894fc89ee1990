--------------------------- MODULE FramingProofs ----------------------------
(***************************************************************************)
(* Proofs about the packets on the connection: sendPacket writes its       *)
(* packet and readPacket returns the peer's packets, for every base of the *)
(* digits, every set of packets and however the bytes are cut up.          *)
(***************************************************************************)
EXTENDS Framing, StreamProofs

-----------------------------------------------------------------------------
(* The state of readPacket, and of its history. *)
FrameTypeOK ==
    /\ pc \in {"idle", "send", "header", "length", "body"}
    /\ head \in Byte /\ rem_len \in Nat /\ multiplier \in Nat /\ len \in Nat
    /\ peer \in Seq(Incoming) /\ reads \in Seq([head : Byte, body : Seq(Byte)])
    /\ torn \in BOOLEAN

(* What was written is the packet as far as it goes; once sendPacket has   *)
(* sent more than the length, it is not.                                   *)
SendInv ==
    /\ packet \in Seq(Byte) /\ written \in Seq(Byte) /\ sent \in Nat
    /\ Len(written) = sent
    /\ sent <= Len(packet) => \A i \in 1..sent : written[i] = packet[i]

(* Calls do not overlap, and a connection starts with nothing. *)
CallInv ==
    /\ reading => pc \in {"header", "length", "body"}
    /\ ~open => /\ pc = "idle" /\ stream = <<>>
                /\ peer = <<>> /\ reads = <<>> /\ ~torn

(* The peer's packets start where at says, and lie in the stream one       *)
(* behind the other.                                                       *)
LiesAt(p, b) ==
    \A j \in 1..Len(Serialize(p)) : stream[b + j] = Serialize(p)[j]

Starts(at) ==
    /\ at \in [1..Len(peer) + 1 -> 0..Len(stream)]
    /\ at[1] = 0 /\ at[Len(peer) + 1] = Len(stream)
    /\ \A i \in 1..Len(peer) :
         at[i + 1] = at[i] + Len(Serialize(peer[i])) /\ LiesAt(peer[i], at[i])

(* A read of n bytes at the position b runs, or has just returned.  On a   *)
(* connection that was given up it gives nothing, and where it stands does *)
(* not matter.                                                             *)
Expect(n, b) ==
    /\ reading => asked = n /\ (connected \/ buffer # <<>> => from = b)
    /\ ~reading /\ got # <<>> =>
         /\ Len(got) = n /\ taken = b + n
         /\ \A i \in 1..n : got[i] = stream[b + i]
    /\ ~reading /\ got = <<>> /\ n = 1 => (connected => taken = b)

(* decodePacket has read all digits of the serialized packet s before the  *)
(* one of number len, and each says that another follows                   *)
Decoding(s) ==
    /\ head = s[1]
    /\ \/ len = 1 /\ rem_len = 0 /\ multiplier = 1
       \/ /\ len = 2 /\ s[2] >= Base
          /\ rem_len = s[2] % Base /\ multiplier = Base
       \/ /\ len = 3 /\ s[2] >= Base /\ s[3] >= Base
          /\ rem_len = (s[2] % Base) + (s[3] % Base) * Base /\ multiplier = Base * Base
       \/ /\ len = 4 /\ s[2] >= Base /\ s[3] >= Base /\ s[4] >= Base
          /\ rem_len = (s[2] % Base) + (s[3] % Base) * Base + (s[4] % Base) * Base * Base
          /\ multiplier = Base * Base * Base

(* Where readPacket stands in the packet p that starts at b. *)
InPacket(p, b) ==
    /\ pc = "length" => Decoding(Serialize(p)) /\ Expect(1, b + len)
    /\ pc = "body" => /\ head = p.head /\ rem_len = Len(p.body) /\ rem_len > 0
                      /\ Expect(rem_len, b + (Len(Serialize(p)) - rem_len))

(* readPacket has returned the first packets, and stands behind them or in *)
(* the next one.                                                           *)
ReadInv(at) ==
    /\ Len(reads) <= Len(peer) /\ \A i \in 1..Len(reads) : reads[i] = peer[i]
    /\ pc \in {"idle", "send"} => (connected => taken = at[Len(reads) + 1])
    /\ pc = "header" => Expect(1, at[Len(reads) + 1])
    /\ pc \in {"length", "body"} =>
         Len(reads) < Len(peer) /\ InPacket(peer[Len(reads) + 1], at[Len(reads) + 1])

FrameInv ==
    /\ NetInv /\ FrameTypeOK /\ SendInv /\ CallInv
    /\ ~torn => \E at : Starts(at) /\ ReadInv(at)

-----------------------------------------------------------------------------
(* A byte is a number, and so is its digit. *)
LEMMA ByteFacts ==
    Byte \subseteq Int /\ 0 \in Byte /\ Base \in Nat /\ \A x \in Byte : x \in Nat /\ x % Base \in Nat
<1>1. Byte = 0..2 * Base - 1 /\ Base \in Nat /\ Base > 1
  BY FramingAssumption, BaseAssumption DEF ByteValues
<1>2. \A x \in Nat : x % Base \in Nat
  BY DivMod, BaseAssumption
<1> QED  BY <1>1, <1>2

(* a packet is a record with two fields *)
LEMMA PacketFields ==
    ASSUME NEW p \in Outgoing \cup Incoming
    PROVE  /\ p \in [head : Byte, body : Seq(Byte)] /\ Len(p.body) \in Lengths
           /\ p.head \in Byte /\ p.body \in Seq(Byte) /\ Len(p.body) \in Nat
           /\ p = [head |-> p.head, body |-> p.body]
  BY FramingAssumption

(* The parts of a serialized packet, and what MQTTPacket_decode would say  *)
(* of its length.                                                          *)
LEMMA SerializeFacts ==
    ASSUME NEW p \in Outgoing \cup Incoming
    PROVE  LET s == Serialize(p)
               k == Digits(s, 2)
           IN  /\ s \in Seq(Byte) /\ k \in 1..4
               /\ Len(s) = 1 + k + Len(p.body)
               /\ s[1] = p.head
               /\ Decode(s, 2) = Len(p.body)
               /\ \A i \in 1..Len(p.body) : s[1 + k + i] = p.body[i]
<1> DEFINE n == Len(p.body)
           e == Encode(n)
           s == Serialize(p)
<1>1. n \in Lengths /\ n \in Nat /\ p.head \in Byte /\ p.body \in Seq(Byte)
  BY PacketFields
<1>2. e \in Seq(Byte) /\ Len(e) \in 1..4
  BY <1>1, EncodeType, FramingAssumption
<1>3. s \in Seq(Byte)
  <2>1. <<p.head>> \in Seq(Byte)
    BY <1>1
  <2>2. <<p.head>> \o e \in Seq(Byte)
    BY <1>2, <2>1, Lengthen
  <2>3. (<<p.head>> \o e) \o p.body \in Seq(Byte)
    BY <1>1, <2>2, Lengthen
  <2> QED  BY <2>3 DEF Serialize, Packet
<1>4. p.head \in Int /\ p.body \in Seq(Int)
  <2>1. \A x \in Byte : x \in Int
    BY ByteFacts
  <2> DEFINE b == p.body
  <2>2. b \in Seq(Byte)
    BY <1>1
  <2> HIDE DEF b
  <2>3. b \in Seq(Int)
    BY <2>1, <2>2
  <2> QED  BY <1>1, <2>1, <2>3 DEF b
<1>5. /\ Len(s) = 1 + Len(e) + n /\ s[1] = p.head /\ Holds(s, 2, e)
      /\ \A i \in 1..n : s[1 + Len(e) + i] = p.body[i]
  BY <1>1, <1>4, PacketParts, Zenon DEF Serialize
<1>6. Digits(s, 2) = Len(e) /\ Decode(s, 2) = n
  BY <1>1, <1>5, LengthRoundTrip
<1> QED  BY <1>1, <1>2, <1>3, <1>5, <1>6, Zenon

(* As long as the digits say that another follows, the next byte of the    *)
(* packet is a digit; after four of them none does.                        *)
LEMMA DigitBytes ==
    ASSUME NEW p \in Outgoing \cup Incoming
    PROVE  LET s == Serialize(p)
           IN  /\ s[2] \in Byte
               /\ s[2] >= Base =>
                    /\ s[3] \in Byte /\ Digits(s, 2) >= 2
                    /\ s[3] >= Base =>
                         /\ s[4] \in Byte /\ Digits(s, 2) >= 3
                         /\ s[4] >= Base => s[5] \in Byte /\ s[5] < Base /\ Digits(s, 2) >= 4
<1> DEFINE s == Serialize(p)
<1>1. /\ s \in Seq(Byte) /\ Digits(s, 2) \in 1..4 /\ Len(p.body) \in Nat
      /\ Len(s) = 1 + Digits(s, 2) + Len(p.body)
  BY SerializeFacts, PacketFields
<1>2. Base \in Nat /\ \A x \in Byte : x \in Nat
  BY ByteFacts
<1> HIDE DEF s
<1>3. \A i \in 1..Digits(s, 2) : s[1 + i] \in Byte
  BY <1>1
<1>4. s[2] \in Byte
  BY <1>1
<1>5. ASSUME s[2] >= Base PROVE Digits(s, 2) >= 2 /\ s[3] \in Byte
  <2>1. Digits(s, 2) # 1
    BY <1>2, <1>4, <1>5 DEF Digits
  <2> QED  BY <1>1, <2>1
<1>6. ASSUME s[2] >= Base, s[3] >= Base PROVE Digits(s, 2) >= 3 /\ s[4] \in Byte
  <2>1. Digits(s, 2) \notin {1, 2}
    BY <1>2, <1>4, <1>5, <1>6 DEF Digits
  <2> QED  BY <1>1, <2>1
<1>7. ASSUME s[2] >= Base, s[3] >= Base, s[4] >= Base
      PROVE  s[5] \in Byte /\ s[5] < Base /\ Digits(s, 2) >= 4
  <2>1. Digits(s, 2) \notin {1, 2, 3}
    BY <1>2, <1>4, <1>5, <1>6, <1>7 DEF Digits
  <2>2. s[5] \in Byte
    BY <1>1, <2>1
  <2> QED  BY <1>1, <1>2, <1>4, <1>5, <1>6, <1>7, <2>1, <2>2 DEF Digits
<1> QED  BY <1>4, <1>5, <1>6, <1>7 DEF s

(* A digit that says that another follows is not the last that there may   *)
(* be; one that does not completes the length.                             *)
LEMMA DecodeFacts ==
    ASSUME NEW p \in Outgoing \cup Incoming, Decoding(Serialize(p)),
           NEW d \in Byte, d = Serialize(p)[1 + len]
    PROVE  /\ len \in 1..4 /\ d % Base \in Nat
           /\ d < Base => /\ len = Digits(Serialize(p), 2)
                          /\ rem_len + (d % Base) * multiplier = Len(p.body)
           /\ d >= Base => len < 4
<1> DEFINE s == Serialize(p)
           r1 == s[2] % Base
           r2 == s[3] % Base
           r3 == s[4] % Base
           r4 == s[5] % Base
<1>0. Base \in Nat /\ \A x \in Byte : x \in Nat /\ x % Base \in Nat
  BY ByteFacts
<1>1. Decode(s, 2) = Len(p.body) /\ Len(p.body) \in Nat
  BY SerializeFacts, PacketFields
<1>2. /\ s[2] \in Byte
      /\ s[2] >= Base => /\ s[3] \in Byte
                         /\ s[3] >= Base => /\ s[4] \in Byte
                                            /\ s[4] >= Base => s[5] \in Byte /\ s[5] < Base
  BY DigitBytes
<1>3. d \in Nat /\ d % Base \in Nat
  BY <1>0
<1>d. Decoding(s)
  OBVIOUS
<1> HIDE DEF s
<1>5. CASE len = 1
  <2>1. rem_len = 0 /\ multiplier = 1 /\ d = s[2]
    BY <1>5, <1>d DEF Decoding, s
  <2>2. d < Base => Digits(s, 2) = 1
    BY <2>1 DEF Digits
  <2>3. d < Base => Decode(s, 2) = r1
    BY <1>0, <1>2, <2>2, DecodeSum
  <2> QED  BY <1>1, <1>3, <1>5, <2>1, <2>2, <2>3 DEF s
<1>6. CASE len = 2
  <2>1. s[2] >= Base /\ rem_len = r1 /\ multiplier = Base /\ d = s[3]
    BY <1>6, <1>d DEF Decoding, s
  <2>2. d < Base => Digits(s, 2) = 2
    BY <1>0, <1>2, <2>1 DEF Digits
  <2>3. s[2] \in Byte /\ s[3] \in Byte /\ r1 \in Nat /\ r2 \in Nat
    BY <1>0, <1>2, <2>1
  <2>4. d < Base => Decode(s, 2) = r1 + r2 * Base
    BY <2>2, <2>3, DecodeSum
  <2> QED  BY <1>1, <1>3, <1>6, <2>1, <2>2, <2>4 DEF s
<1>7. CASE len = 3
  <2>1. /\ s[2] >= Base /\ s[3] >= Base /\ d = s[4]
        /\ rem_len = r1 + r2 * Base /\ multiplier = Base * Base
    BY <1>7, <1>d DEF Decoding, s
  <2>2. d < Base => Digits(s, 2) = 3
    BY <1>0, <1>2, <2>1 DEF Digits
  <2>3. s[2] \in Byte /\ s[3] \in Byte /\ s[4] \in Byte
    BY <1>2, <2>1
  <2>4. r1 \in Nat /\ r2 \in Nat /\ r3 \in Nat
    BY <1>0, <2>3
  <2>5. d < Base => Decode(s, 2) = r1 + r2 * Base + r3 * Base * Base
    BY <2>2, <2>4, DecodeSum
  <2> HIDE DEF r1, r2
  <2>6. (d % Base) * multiplier = r3 * Base * Base
    <3> HIDE DEF r3
    <3>1. d % Base = r3
      BY <2>1 DEF r3
    <3> QED  BY <1>0, <2>1, <2>4, <3>1
  <2>7. rem_len + (d % Base) * multiplier = r1 + r2 * Base + r3 * Base * Base
    BY <2>1, <2>6
  <2> QED  BY <1>1, <1>3, <1>7, <2>2, <2>5, <2>7 DEF s
<1>8. CASE len = 4
  <2>1. /\ s[2] >= Base /\ s[3] >= Base /\ s[4] >= Base /\ d = s[5]
        /\ rem_len = r1 + r2 * Base + r3 * Base * Base /\ multiplier = Base * Base * Base
    BY <1>8, <1>d DEF Decoding, s
  <2>2. s[2] \in Byte /\ s[3] \in Byte /\ s[4] \in Byte /\ s[5] \in Byte /\ d < Base
    BY <1>2, <2>1
  <2>3. Digits(s, 2) = 4
    BY <1>0, <2>1, <2>2 DEF Digits
  <2>4. r1 \in Nat /\ r2 \in Nat /\ r3 \in Nat /\ r4 \in Nat
    BY <1>0, <2>2
  <2>5. Decode(s, 2) = r1 + r2 * Base + r3 * Base * Base + r4 * Base * Base * Base
    BY <2>3, <2>4, DecodeSum
  <2> HIDE DEF r1, r2, r3
  <2>6. (d % Base) * multiplier = r4 * Base * Base * Base
    <3> HIDE DEF r4
    <3>1. d % Base = r4
      BY <2>1 DEF r4
    <3> QED  BY <1>0, <2>1, <2>4, <3>1
  <2>7. rem_len + (d % Base) * multiplier = r1 + r2 * Base + r3 * Base * Base + r4 * Base * Base * Base
    BY <2>1, <2>6
  <2>8. ~(d >= Base)
    BY <1>0, <1>3, <2>2
  <2> QED  BY <1>1, <1>3, <1>8, <2>3, <2>5, <2>7, <2>8 DEF s
<1> QED  BY <1>5, <1>6, <1>7, <1>8, <1>d DEF Decoding, s

-----------------------------------------------------------------------------
(* A read that begins where the stream stands expects its bytes there.     *)
LEMMA ExpectBegin ==
    ASSUME NEW n \in Nat \ {0}, NEW b \in Nat, connected => taken = b, BeginRead(n)
    PROVE  Expect(n, b)'
<1>1. reading' = TRUE /\ asked' = n /\ buffer' = <<>> /\ from' = taken /\ connected' = connected
  BY DEF BeginRead
<1> QED  BY <1>1, Zenon DEF Expect

(* Whatever recv does, esp32_read gives the expected bytes or nothing.     *)
LEMMA ExpectRead ==
    ASSUME NetInv, NEW n \in Nat \ {0}, NEW b \in Nat, Expect(n, b), ReadStep
    PROVE  Expect(n, b)' /\ stream' = stream
<1>0. /\ buffer \in Seq(Byte) /\ Len(buffer) \in Nat /\ from \in Nat /\ taken \in Nat
      /\ (buffer = <<>> <=> Len(buffer) = 0)
  BY DEF NetInv, NetTypeOK
<1>1. /\ reading /\ asked = n /\ (connected \/ buffer # <<>> => from = b) /\ got = <<>>
      /\ (connected => taken = from + Len(buffer)) /\ (Len(buffer) = asked => taken = from + asked)
      /\ \A i \in 1..Len(buffer) : buffer[i] = stream[from + i]
  <2>1. reading
    BY DEF ReadStep, RecvData, RecvEnd, RecvReset, RecvFails, ReadReturns, Receiving
  <2> QED  BY <2>1 DEF Expect, NetInv, BufferIsStream
<1>2. ASSUME NEW k \in 1..MaxLen, RecvData(k)
      PROVE  Expect(n, b)' /\ stream' = stream
  <2>1. connected /\ UNCHANGED <<reading, asked, from, stream>>
    BY <1>2 DEF RecvData, Receiving
  <2> QED  BY <1>1, <2>1, Zenon DEF Expect
<1>3. CASE RecvEnd
  <2>1. connected /\ UNCHANGED <<reading, asked, from, stream>>
    BY <1>3 DEF RecvEnd, Receiving, readVars
  <2> QED  BY <1>1, <2>1, Zenon DEF Expect
<1>4. CASE RecvReset
  <2>1. connected /\ UNCHANGED <<reading, asked, from, stream>>
    BY <1>4 DEF RecvReset, Receiving, readVars
  <2> QED  BY <1>1, <2>1, Zenon DEF Expect
<1>5. CASE RecvFails
  <2>1. connected /\ reading' = FALSE /\ got' = got /\ UNCHANGED <<taken, stream>> /\ Len(buffer) < asked
    BY <1>5 DEF RecvFails, Receiving, EndOfRead
  <2>2. n = 1 => taken = b
    BY <1>0, <1>1, <2>1
  <2> QED  BY <1>1, <2>1, <2>2, Zenon DEF Expect
<1>6. CASE ReadReturns
  <2>1. /\ reading' = FALSE /\ UNCHANGED <<taken, stream, connected>>
        /\ got' = IF Len(buffer) = asked THEN buffer ELSE <<>>
        /\ ~(Len(buffer) < asked) \/ ~connected
    BY <1>6 DEF ReadReturns, Receiving, EndOfRead
  <2>2. CASE Len(buffer) = asked
    <3>1. got' = buffer /\ buffer # <<>> /\ Len(buffer) = n
      BY <1>0, <1>1, <2>1, <2>2
    <3>2. taken' = b + n /\ \A i \in 1..n : got'[i] = stream'[b + i]
      BY <1>1, <2>1, <2>2, <3>1
    <3> QED  BY <2>1, <3>1, <3>2, Zenon DEF Expect
  <2>3. CASE Len(buffer) # asked
    <3>1. got' = <<>> /\ ~connected
      <4>1. Len(buffer) <= asked
        BY <1>1 DEF NetInv, BufferIsStream
      <4> QED  BY <1>0, <1>1, <2>1, <2>3, <4>1
    <3> QED  BY <2>1, <3>1, Zenon DEF Expect
  <2> QED  BY <2>2, <2>3
<1> QED  BY <1>2, <1>3, <1>4, <1>5, <1>6 DEF ReadStep

(* A burst of the peer does not change what was read. *)
LEMMA ExpectBurst ==
    ASSUME NetInv, NEW n \in Nat \ {0}, NEW b \in Nat, Expect(n, b),
           NEW d \in Seq(Byte), PeerSends(d)
    PROVE  Expect(n, b)'
<1>1. /\ UNCHANGED <<reading, asked, connected, buffer, from, got, taken>>
      /\ taken <= Len(stream) /\ stream \in Seq(Byte)
  BY DEF PeerSends, readVars, NetInv, NetTypeOK, BufferIsStream
<1>2. Len(stream) \in Nat /\ \A i \in 1..Len(stream) : stream'[i] = stream[i]
  BY <1>1, Lengthen DEF PeerSends
<1>3. ASSUME ~reading, got # <<>>
      PROVE  Len(got) = n /\ taken = b + n /\ \A i \in 1..n : got[i] = stream'[b + i]
  <2>1. Len(got) = n /\ taken = b + n /\ \A i \in 1..n : got[i] = stream[b + i]
    BY <1>3, Zenon DEF Expect
  <2>2. \A i \in 1..n : b + i \in 1..Len(stream)
    BY <1>1, <1>2, <2>1
  <2> QED  BY <1>2, <2>1, <2>2, Zenon
<1>4. reading => asked = n /\ (connected \/ buffer # <<>> => from = b)
  BY DEF Expect
<1>5. ~reading /\ got = <<>> /\ n = 1 => (connected => taken = b)
  BY DEF Expect
<1> QED  BY <1>1, <1>3, <1>4, <1>5, Zenon DEF Expect

(* Nor does a connection that is lost. *)
LEMMA ExpectSame ==
    ASSUME NEW n, NEW b, Expect(n, b),
           UNCHANGED <<connected, stream, taken, reading, asked, buffer, from, got>>
    PROVE  Expect(n, b)'
  BY Zenon DEF Expect

-----------------------------------------------------------------------------
(* The packets stay where they lie in the stream. *)
LEMMA StartsSame ==
    ASSUME NEW at, Starts(at), UNCHANGED <<stream, peer>>
    PROVE  Starts(at)'
  BY DEF Starts, LiesAt

(* A packet of the peer lies behind the others. *)
LEMMA StartsBurst ==
    ASSUME NetInv, FrameTypeOK, NEW at, Starts(at),
           NEW p \in Incoming, PeerPacket(p)
    PROVE  \E new : Starts(new)' /\ \A i \in 1..Len(peer) + 1 : new[i] = at[i]
<1> DEFINE n == Len(peer)
           s == Serialize(p)
           f == [i \in 1..n + 2 |-> IF i = n + 2 THEN Len(stream) + Len(s) ELSE at[i]]
<1>1. /\ n \in Nat /\ peer \in Seq(Incoming)
      /\ peer' = Append(peer, p) /\ stream' = stream \o s /\ stream \in Seq(Byte)
  BY DEF PeerPacket, PeerSends, FrameTypeOK, NetInv, NetTypeOK
<1>2. s \in Seq(Byte)
  BY SerializeFacts
<1> HIDE DEF s
<1>3. /\ Len(stream) \in Nat /\ Len(s) \in Nat /\ Len(stream') = Len(stream) + Len(s)
      /\ \A i \in 1..Len(stream) : stream'[i] = stream[i]
      /\ \A i \in 1..Len(s) : stream'[Len(stream) + i] = s[i]
  BY <1>1, <1>2, Lengthen
<1>4. /\ Len(peer') = n + 1 /\ peer'[n + 1] = p
      /\ \A i \in 1..n : peer'[i] = peer[i]
  BY <1>1
<1>5. /\ at \in [1..n + 1 -> 0..Len(stream)] /\ at[1] = 0 /\ at[n + 1] = Len(stream)
      /\ \A i \in 1..n : at[i + 1] = at[i] + Len(Serialize(peer[i])) /\ LiesAt(peer[i], at[i])
  BY DEF Starts
<1>6. PICK new : /\ new \in [1..n + 2 -> 0..Len(stream')]
                 /\ \A i \in 1..n + 1 : new[i] = at[i]
                 /\ new[n + 2] = Len(stream')
  <2>1. /\ f \in [1..n + 2 -> 0..Len(stream')]
        /\ \A i \in 1..n + 1 : f[i] = at[i]
        /\ f[n + 2] = Len(stream')
    BY <1>1, <1>3, <1>5
  <2> HIDE DEF f
  <2> QED  BY <2>1
<1>7. ASSUME NEW i \in 1..n
      PROVE  /\ new[i + 1] = new[i] + Len(Serialize(peer[i]))
             /\ \A j \in 1..Len(Serialize(peer[i])) : stream'[new[i] + j] = Serialize(peer[i])[j]
  <2> DEFINE t == Serialize(peer[i])
  <2>1. i \in 1..n + 1 /\ i + 1 \in 1..n + 1 /\ new[i] = at[i] /\ new[i + 1] = at[i + 1]
    BY <1>1, <1>6
  <2>2. t \in Seq(Byte) /\ Len(t) \in Nat
    <3>1. peer[i] \in Incoming
      BY <1>1
    <3>2. t \in Seq(Byte)
      BY <3>1, SerializeFacts
    <3> HIDE DEF t
    <3> QED  BY <3>2
  <2>3. at[i + 1] = at[i] + Len(t) /\ LiesAt(peer[i], at[i])
    BY <1>5
  <2>4. at[i] \in Nat /\ at[i + 1] \in 0..Len(stream)
    <3>1. at[i] \in 0..Len(stream) /\ at[i + 1] \in 0..Len(stream)
      BY <1>5, <2>1, Zenon
    <3> QED  BY <3>1
  <2>5. \A j \in 1..Len(t) : stream'[at[i] + j] = t[j]
    <3> TAKE j \in 1..Len(t)
    <3>1. stream[at[i] + j] = t[j]
      BY <2>3 DEF LiesAt
    <3> HIDE DEF t
    <3>2. at[i] + j \in 1..Len(stream)
      BY <2>2, <2>3, <2>4, SMTT(60)
    <3> QED  BY <1>3, <3>1, <3>2
  <2> QED  BY <2>1, <2>3, <2>5
<1>8. /\ new[n + 1 + 1] = new[n + 1] + Len(s)
      /\ \A j \in 1..Len(s) : stream'[new[n + 1] + j] = s[j]
  <2>1. new[n + 1] = Len(stream) /\ n + 1 + 1 = n + 2
    BY <1>1, <1>5, <1>6
  <2> QED  BY <1>3, <1>6, <2>1
<1>9. ASSUME NEW i \in 1..Len(peer')
      PROVE  new[i + 1] = new[i] + Len(Serialize(peer'[i])) /\ LiesAt(peer[i], new[i])'
  <2>1. CASE i \in 1..n
    <3>1. peer'[i] = peer[i]
      BY <1>4, <2>1
    <3> QED  BY <1>7, <2>1, <3>1 DEF LiesAt
  <2>2. CASE i = n + 1
    BY <1>4, <1>8, <2>2 DEF LiesAt, s
  <2> QED  BY <1>1, <1>4, <2>1, <2>2
<1>10. new \in [1..Len(peer') + 1 -> 0..Len(stream')] /\ new[1] = 0 /\ new[Len(peer') + 1] = Len(stream')
  <2>1. Len(peer') + 1 = n + 2 /\ 1 \in 1..n + 1
    BY <1>1, <1>4
  <2> QED  BY <1>5, <1>6, <2>1
<1>11. Starts(new)'
  BY <1>9, <1>10 DEF Starts
<1> QED  BY <1>6, <1>11

-----------------------------------------------------------------------------
(* The steps of sendPacket.  Each write takes the next bytes of the        *)
(* packet, as long as no more were taken than it has.                      *)
LEMMA SendSame ==
    ASSUME SendInv, UNCHANGED sendVars
    PROVE  SendInv'
  BY Zenon DEF SendInv, sendVars

(* Outside sendPacket the invariant of its loop says nothing. *)
LEMMA SendGone ==
    ASSUME EndOfSend
    PROVE  SendInv'
<1>1. packet' = <<>> /\ written' = <<>> /\ sent' = 0
  BY DEF EndOfSend
<1>2. <<>> \in Seq(Byte) /\ Len(<<>>) = 0
  BY Empty
<1> QED  BY <1>1, <1>2 DEF SendInv

(* sendPacket starts with nothing of the packet written. *)
LEMMA SendPacketInv ==
    ASSUME NEW p \in Outgoing, SendPacket(p)
    PROVE  SendInv'
<1>1. packet' = Serialize(p) /\ written' = <<>> /\ sent' = 0
  BY DEF SendPacket
<1>2. <<>> \in Seq(Byte) /\ Len(<<>>) = 0
  BY Empty
<1>3. Serialize(p) \in Seq(Byte)
  BY SerializeFacts
<1> QED  BY <1>1, <1>2, <1>3 DEF SendInv

(* A turn of its loop writes the next bytes of the packet. *)
LEMMA SendMoreInv ==
    ASSUME SendInv, NEW k \in 1..MaxLen, SendMore(k)
    PROVE  SendInv'
<1> DEFINE w == WriteArgument
           piece == SubSeq(w, 1, k)
<1>1. /\ packet \in Seq(Byte) /\ written \in Seq(Byte) /\ sent \in Nat /\ Len(written) = sent
      /\ Len(packet) \in Nat /\ k \in Nat /\ k >= 1 /\ k <= Len(packet)
      /\ packet' = packet /\ written' = written \o piece /\ sent' = sent + k
  BY NetworkAssumption DEF SendInv, SendMore
<1>2. w \in Seq(Byte) /\ Len(w) = Len(packet)
  <2>1. \A i \in 1..Len(packet) :
          (IF sent + i <= Len(packet) THEN packet[sent + i] ELSE 0) \in Byte
    BY <1>1, ByteFacts
  <2> QED  BY <1>1, <2>1 DEF WriteArgument
<1>3. \A i \in 1..Len(packet) : sent + i <= Len(packet) => w[i] = packet[sent + i]
  BY <1>1 DEF WriteArgument
<1> HIDE DEF w
<1>4. piece \in Seq(Byte) /\ Len(piece) = k /\ \A i \in 1..k : piece[i] = w[i]
  <2>1. /\ SubSeq(w, 0 + 1, 0 + k) \in Seq(Byte) /\ Len(SubSeq(w, 0 + 1, 0 + k)) = k
        /\ \A i \in 1..k : SubSeq(w, 0 + 1, 0 + k)[i] = w[0 + i]
    BY <1>1, <1>2, Piece
  <2>2. 0 + 1 = 1 /\ 0 + k = k /\ \A i \in 1..k : 0 + i = i
    BY <1>1
  <2> QED  BY <2>1, <2>2
<1> HIDE DEF piece
<1>5. /\ written' \in Seq(Byte) /\ Len(written') = sent + k
      /\ \A i \in 1..sent : written'[i] = written[i]
      /\ \A i \in 1..k : written'[sent + i] = piece[i]
  <2>1. written \in Seq(Byte) /\ piece \in Seq(Byte)
    BY <1>1, <1>4
  <2>2. /\ written \o piece \in Seq(Byte) /\ Len(written \o piece) = Len(written) + Len(piece)
        /\ \A i \in 1..Len(written) : (written \o piece)[i] = written[i]
        /\ \A i \in 1..Len(piece) : (written \o piece)[Len(written) + i] = piece[i]
    BY <2>1, Lengthen
  <2> QED  BY <1>1, <1>4, <2>2
<1>6. ASSUME sent' <= Len(packet), NEW i \in 1..sent'
      PROVE  written'[i] = packet[i]
  <2>1. CASE i <= sent
    BY <1>1, <1>5, <1>6, <2>1 DEF SendInv
  <2>2. CASE ~(i <= sent)
    <3>1. PICK j \in 1..k : i = sent + j
      <4>1. i - sent \in 1..k /\ i = sent + (i - sent)
        BY <1>1, <2>2
      <4> QED  BY <4>1
    <3>2. j \in 1..Len(packet) /\ sent + j <= Len(packet)
      BY <1>1, <1>6, <3>1
    <3> QED  BY <1>3, <1>4, <1>5, <3>1, <3>2
  <2> QED  BY <2>1, <2>2
<1>7. packet' \in Seq(Byte) /\ sent' \in Nat /\ Len(written') = sent' /\ Len(packet') = Len(packet)
  BY <1>1, <1>5
<1>8. sent' <= Len(packet') => \A i \in 1..sent' : written'[i] = packet'[i]
  BY <1>1, <1>6, <1>7
<1> QED  BY <1>5, <1>7, <1>8 DEF SendInv

-----------------------------------------------------------------------------
(* Each step of the client, the peer and the network keeps the invariant.  *)
LEMMA ConnectionFrame ==
    ASSUME FrameInv, Connection
    PROVE  FrameInv'
<1>1. NetInv'
  BY ConnectionInv DEF Connection, FrameInv
<1>2. /\ pc = "idle" /\ UNCHANGED <<pc, packet, sent, written, head, rem_len, multiplier, len>>
      /\ ~reading /\ UNCHANGED reading
  BY DEF Connection, sendVars, decodeVars, ConnectStep, ConnectWithoutSocket, ConnectRefused, Connect,
     NetworkInit, NetworkDisconnect, ConnectionGone, readVars
<1>3. SendInv'
  BY <1>2, SendSame DEF FrameInv, sendVars
<1>4. ~open => stream = <<>> /\ taken = 0 /\ peer = <<>> /\ reads = <<>> /\ torn = FALSE
  <2>1. ~open => stream = <<>> /\ peer = <<>> /\ reads = <<>> /\ torn = FALSE
    BY Zenon DEF FrameInv, CallInv, FrameTypeOK
  <2>2. taken \in Nat /\ taken <= Len(stream)
    BY DEF FrameInv, NetInv, NetTypeOK, BufferIsStream
  <2> QED  BY <2>1, <2>2
<1>5. stream' = <<>> /\ taken' = 0
  BY <1>4 DEF Connection, ConnectStep, ConnectWithoutSocket, ConnectRefused, Connect,
     NetworkInit, NetworkDisconnect, ConnectionGone
<1>6. peer' = <<>> /\ reads' = <<>> /\ torn' = FALSE
  <2>1. CASE ~open'
    BY <2>1 DEF Connection
  <2>2. CASE open'
    <3>1. ~open
      BY <2>2, Zenon DEF Connection, ConnectStep, ConnectWithoutSocket, ConnectRefused, Connect,
         NetworkInit, NetworkDisconnect, ConnectionGone
    <3> QED  BY <1>4, <2>2, <3>1 DEF Connection, historyVars
  <2> QED  BY <2>1, <2>2, Zenon
<1>7. FrameTypeOK'
  <2>1. <<>> \in Seq(Incoming) /\ <<>> \in Seq([head : Byte, body : Seq(Byte)])
    BY Empty
  <2>2. torn' \in BOOLEAN
    BY <1>6, Zenon
  <2> QED  BY <1>2, <1>6, <2>1, <2>2 DEF FrameInv, FrameTypeOK
<1>8. CallInv'
  BY <1>2, <1>5, <1>6, Zenon DEF CallInv
<1>9. \E at : Starts(at)' /\ ReadInv(at)'
  <2>1. PICK at : at \in [1..1 -> 0..0] /\ at[1] = 0
    <3>1. [i \in 1..1 |-> 0] \in [1..1 -> 0..0] /\ [i \in 1..1 |-> 0][1] = 0
      OBVIOUS
    <3> QED  BY <3>1, Zenon
  <2>2. Starts(at)'
    BY <1>5, <1>6, <2>1 DEF Starts
  <2>3. ReadInv(at)'
    BY <1>2, <1>5, <1>6, <2>1 DEF ReadInv
  <2> QED  BY <2>2, <2>3
<1> QED  BY <1>1, <1>3, <1>7, <1>8, <1>9 DEF FrameInv

(* sendPacket leaves what is read alone. *)
LEMMA SendFrame ==
    ASSUME FrameInv,
           \/ \E p \in Outgoing : SendPacket(p)
           \/ \E k \in 1..MaxLen : SendMore(k)
           \/ SendBreaks \/ SendEnds
    PROVE  FrameInv'
<1>1. /\ pc \in {"idle", "send"} /\ pc' \in {"idle", "send"}
      /\ UNCHANGED <<open, stream, taken, reading, head, rem_len, multiplier, len, peer, reads, torn>>
      /\ (pc = "send" \/ open) /\ (UNCHANGED netVars \/ WriteFails)
  BY DEF SendPacket, SendMore, SendBreaks, SendEnds, EndOfSend, WriteTakes, WriteFails,
     netVars, socketVars, readVars, decodeVars, historyVars
<1>2. NetInv'
  BY <1>1, UnchangedInv, WriteFailsInv DEF FrameInv
<1>3. SendInv'
  BY SendPacketInv, SendMoreInv, SendGone DEF FrameInv, SendBreaks, SendEnds
<1>4. FrameTypeOK'
  BY <1>1 DEF FrameInv, FrameTypeOK
<1>5. CallInv'
  <2>1. CallInv /\ open /\ ~reading
    BY <1>1, Zenon DEF FrameInv, CallInv
  <2> QED  BY <1>1, <2>1, Zenon DEF CallInv
<1>6. connected' => connected
  BY <1>1, Zenon DEF WriteFails, netVars
<1>7. ASSUME ~torn' PROVE \E at : Starts(at)' /\ ReadInv(at)'
  <2>1. PICK at : Starts(at) /\ ReadInv(at)
    BY <1>1, <1>7 DEF FrameInv
  <2>2. Starts(at)'
    BY <1>1, <2>1, StartsSame
  <2>3. ReadInv(at)'
    BY <1>1, <1>6, <2>1 DEF ReadInv
  <2> QED  BY <2>2, <2>3
<1> QED  BY <1>2, <1>3, <1>4, <1>5, <1>7, Zenon DEF FrameInv

(* A step that keeps every expectation, and leaves readPacket where it is, *)
(* keeps what readPacket has read.                                         *)
LEMMA ReadKept ==
    ASSUME FrameInv, NEW at, Starts(at), ReadInv(at), NEW new,
           \A i \in 1..Len(peer) + 1 : new[i] = at[i],
           Len(peer') \in Nat, Len(peer) <= Len(peer'), \A i \in 1..Len(peer) : peer'[i] = peer[i],
           \A n \in Nat \ {0}, c \in Nat : Expect(n, c) => Expect(n, c)',
           pc \in {"idle", "send"} => UNCHANGED <<connected, taken>>,
           UNCHANGED <<pc, head, rem_len, multiplier, len, reads>>
    PROVE  ReadInv(new)'
<1>1. /\ peer \in Seq(Incoming) /\ Len(peer) \in Nat /\ Len(reads) \in Nat /\ Len(reads) <= Len(peer)
      /\ \A i \in 1..Len(reads) : reads[i] = peer[i]
  BY SMTT(60) DEF FrameInv, FrameTypeOK, ReadInv
<1>2. PICK r \in Nat : r = Len(reads) + 1
  BY <1>1
<1>3. PICK b \in Nat : b = at[r] /\ b = new[r]
  <2>1. r \in 1..Len(peer) + 1
    BY <1>1, <1>2
  <2>2. at[r] \in 0..Len(stream) /\ new[r] = at[r]
    BY <2>1, Zenon DEF Starts
  <2> QED  BY <2>2
<1>4. ASSUME pc = "header" PROVE Expect(1, b)'
  <2>1. Expect(1, b)
    BY <1>2, <1>3, <1>4 DEF ReadInv
  <2>2. 1 \in Nat \ {0}
    OBVIOUS
  <2> QED  BY <2>1, <2>2
<1>5. ASSUME pc \in {"length", "body"}
      PROVE  Len(reads) < Len(peer') /\ InPacket(peer[r], b)'
  <2>1. Len(reads) < Len(peer) /\ InPacket(peer[r], b)
    BY <1>2, <1>3, <1>5 DEF ReadInv
  <2>2. PICK q \in Incoming : q = peer[r] /\ q = peer'[r]
    BY <1>1, <1>2, <2>1
  <2>3. PICK z \in Nat : z = Len(Serialize(q)) /\ Len(q.body) \in Nat /\ Len(q.body) <= z
    <3>1. /\ Len(Serialize(q)) = 1 + Digits(Serialize(q), 2) + Len(q.body)
          /\ Digits(Serialize(q), 2) \in 1..4 /\ Len(q.body) \in Nat
      BY SerializeFacts, PacketFields
    <3> QED  BY <3>1
  <2>4. ASSUME pc = "length" PROVE (Decoding(Serialize(q)) /\ Expect(1, b + len))'
    <3>1. Decoding(Serialize(q)) /\ Expect(1, b + len)
      BY <2>1, <2>2, <2>4 DEF InPacket
    <3>2. PICK c \in Nat : c = b + len
      BY DEF FrameInv, FrameTypeOK
    <3>3. 1 \in Nat \ {0}
      OBVIOUS
    <3>4. Expect(1, c)'
      BY <3>1, <3>2, <3>3
    <3>5. Decoding(Serialize(q))'
      BY <3>1, Zenon DEF Decoding
    <3> QED  BY <3>2, <3>4, <3>5
  <2>5. ASSUME pc = "body"
        PROVE  /\ head' = q.head /\ rem_len' = Len(q.body) /\ rem_len' > 0
               /\ Expect(rem_len, b + (Len(Serialize(q)) - rem_len))'
    <3>1. /\ head = q.head /\ rem_len = Len(q.body) /\ rem_len > 0
          /\ Expect(rem_len, b + (Len(Serialize(q)) - rem_len))
      BY <2>1, <2>2, <2>5 DEF InPacket
    <3>2. PICK n \in Nat \ {0}, c \in Nat : n = rem_len /\ c = b + (Len(Serialize(q)) - rem_len)
      <4>1. rem_len \in Nat \ {0} /\ b + (z - rem_len) \in Nat
        BY <2>3, <3>1
      <4> QED  BY <2>3, <4>1, Zenon
    <3>3. Expect(n, c)'
      BY <3>1, <3>2, Zenon
    <3> QED  BY <3>1, <3>2, <3>3, Zenon
  <2>6. InPacket(q, b)'
    BY <2>4, <2>5 DEF InPacket
  <2>7. Len(reads) < Len(peer')
    BY <1>1, <2>1, SMTT(60)
  <2> QED  BY <2>2, <2>6, <2>7 DEF InPacket
<1>6. Len(reads') <= Len(peer') /\ \A i \in 1..Len(reads') : reads'[i] = peer'[i]
  BY <1>1
<1>7. pc' \in {"idle", "send"} => (connected' => taken' = new[Len(reads') + 1])
  BY <1>2, <1>3, Zenon DEF ReadInv
<1>8. pc' = "header" => Expect(1, new[Len(reads) + 1])'
  BY <1>2, <1>3, <1>4
<1>9. pc' \in {"length", "body"} =>
        Len(reads') < Len(peer') /\ InPacket(peer[Len(reads) + 1], new[Len(reads) + 1])'
  BY <1>2, <1>3, <1>5
<1> QED  BY <1>6, <1>7, <1>8, <1>9 DEF ReadInv

(* The peer's packet lies behind those that it sent before. *)
LEMMA PeerFrame ==
    ASSUME FrameInv, NEW p \in Incoming, PeerPacket(p)
    PROVE  FrameInv'
<1>1. /\ UNCHANGED <<pc, packet, sent, written, head, rem_len, multiplier, len, reads, torn>>
      /\ UNCHANGED <<open, reading, taken, connected>> /\ open
      /\ peer' = Append(peer, p) /\ PeerSends(Serialize(p))
  BY DEF PeerPacket, PeerSends, sendVars, decodeVars, socketVars, readVars
<1>2. Serialize(p) \in Seq(Byte) /\ NetInv
  BY SerializeFacts DEF FrameInv
<1>3. NetInv'
  BY <1>1, <1>2, PeerSendsInv
<1>4. SendInv'
  BY <1>1, SendSame DEF FrameInv, sendVars
<1>5. FrameTypeOK'
  BY <1>1 DEF FrameInv, FrameTypeOK
<1>6. CallInv'
  BY <1>1, Zenon DEF FrameInv, CallInv
<1>7. ASSUME ~torn' PROVE \E at : Starts(at)' /\ ReadInv(at)'
  <2>1. PICK at : Starts(at) /\ ReadInv(at)
    BY <1>1, <1>7 DEF FrameInv
  <2>2. PICK new : Starts(new)' /\ \A i \in 1..Len(peer) + 1 : new[i] = at[i]
    BY <2>1, StartsBurst DEF FrameInv
  <2>3. /\ Len(peer') \in Nat /\ Len(peer) <= Len(peer')
        /\ \A i \in 1..Len(peer) : peer'[i] = peer[i]
    BY <1>1 DEF FrameInv, FrameTypeOK
  <2>4. \A n \in Nat \ {0}, c \in Nat : Expect(n, c) => Expect(n, c)'
    BY <1>1, <1>2, ExpectBurst
  <2>5. ReadInv(new)'
    BY <1>1, <2>1, <2>2, <2>3, <2>4, ReadKept
  <2> QED  BY <2>2, <2>5
<1> QED  BY <1>3, <1>4, <1>5, <1>6, <1>7, Zenon DEF FrameInv

(* esp32_read and a failing connection keep the invariant. *)
LEMMA ReadingFrame ==
    ASSUME FrameInv, Reading \/ Failure
    PROVE  FrameInv'
<1>1. /\ UNCHANGED <<pc, packet, sent, written, head, rem_len, multiplier, len, peer, reads, torn>>
      /\ UNCHANGED <<open, stream>> /\ (ReadStep \/ FailureStep)
  BY DEF Reading, Failure, frameVars, sendVars, decodeVars, historyVars, ReadStep, RecvData, RecvEnd,
     RecvReset, RecvFails, ReadReturns, FailureStep, SocketFails, socketVars, readVars
<1>2. NetInv /\ NetInv'
  BY <1>1, ReadStepInv, FailureInv DEF FrameInv
<1>3. SendInv'
  BY <1>1, SendSame DEF FrameInv, sendVars
<1>4. FrameTypeOK'
  BY <1>1 DEF FrameInv, FrameTypeOK
<1>5. CallInv'
  <2>1. reading' => reading
    BY <1>1, Zenon DEF ReadStep, RecvData, RecvEnd, RecvReset, RecvFails, ReadReturns, Receiving, EndOfRead,
       FailureStep, SocketFails, readVars
  <2> QED  BY <1>1, <2>1, Zenon DEF FrameInv, CallInv
<1>6. ASSUME ~torn' PROVE \E at : Starts(at)' /\ ReadInv(at)'
  <2>1. PICK at : Starts(at) /\ ReadInv(at)
    BY <1>1, <1>6 DEF FrameInv
  <2>2. Starts(at)'
    BY <1>1, <2>1, StartsSame
  <2>3. \A n \in Nat \ {0}, c \in Nat : Expect(n, c) => Expect(n, c)'
    <3>1. CASE ReadStep
      BY <1>2, <3>1, ExpectRead
    <3>2. CASE FailureStep
      <4>1. UNCHANGED <<connected, stream, taken, reading, asked, buffer, from, got>>
        BY <3>2 DEF FailureStep, SocketFails, readVars
      <4> QED  BY <4>1, ExpectSame
    <3> QED  BY <1>1, <3>1, <3>2
  <2>4. pc \in {"idle", "send"} => UNCHANGED <<connected, taken>>
    <3>1. CASE ReadStep
      <4>1. reading
        BY <3>1 DEF ReadStep, RecvData, RecvEnd, RecvReset, RecvFails, ReadReturns, Receiving
      <4> QED  BY <4>1 DEF FrameInv, CallInv
    <3>2. CASE FailureStep
      BY <3>2 DEF FailureStep, SocketFails
    <3> QED  BY <1>1, <3>1, <3>2
  <2>5. /\ Len(peer') \in Nat /\ Len(peer) <= Len(peer')
        /\ \A i \in 1..Len(peer) : peer'[i] = peer[i]
    BY <1>1 DEF FrameInv, FrameTypeOK
  <2>6. ReadInv(at)'
    BY <1>1, <2>1, <2>3, <2>4, <2>5, ReadKept
  <2> QED  BY <2>2, <2>6
<1> QED  BY <1>2, <1>3, <1>4, <1>5, <1>6, Zenon DEF FrameInv

(* readPacket asks for the first byte of the next packet. *)
LEMMA ReadPacketFrame ==
    ASSUME FrameInv, ReadPacket
    PROVE  FrameInv'
<1>1. /\ pc = "idle" /\ pc' = "header" /\ BeginRead(1) /\ open /\ UNCHANGED <<open, stream>>
      /\ UNCHANGED <<packet, sent, written, head, rem_len, multiplier, len, peer, reads, torn>>
  BY DEF ReadPacket, BeginRead, socketVars, sendVars, decodeVars, historyVars
<1>2. 1 \in Nat \ {0}
  OBVIOUS
<1>3. NetInv'
  BY <1>1, <1>2, BeginReadInv DEF FrameInv
<1>4. SendInv'
  BY <1>1, SendSame DEF FrameInv, sendVars
<1>5. FrameTypeOK'
  BY <1>1 DEF FrameInv, FrameTypeOK
<1>6. CallInv'
  BY <1>1, Zenon DEF CallInv
<1>7. ASSUME ~torn' PROVE \E at : Starts(at)' /\ ReadInv(at)'
  <2>1. PICK at : Starts(at) /\ ReadInv(at)
    BY <1>1, <1>7 DEF FrameInv
  <2>2. Starts(at)'
    BY <1>1, <2>1, StartsSame
  <2>3. PICK b \in Nat : b = at[Len(reads) + 1]
    <3>1. Len(reads) + 1 \in 1..Len(peer) + 1
      BY <2>1 DEF FrameInv, FrameTypeOK, ReadInv
    <3>2. at[Len(reads) + 1] \in 0..Len(stream)
      BY <2>1, <3>1, Zenon DEF Starts
    <3> QED  BY <3>2
  <2>4. connected => taken = b
    BY <1>1, <2>1, <2>3 DEF ReadInv
  <2>5. Expect(1, b)'
    BY <1>1, <1>2, <2>4, ExpectBegin
  <2>6. ReadInv(at)'
    BY <1>1, <2>1, <2>3, <2>5 DEF ReadInv
  <2> QED  BY <2>2, <2>6
<1> QED  BY <1>3, <1>4, <1>5, <1>6, <1>7, Zenon DEF FrameInv

(* The header byte has come: the packet it belongs to is the next one of   *)
(* the peer.                                                               *)
LEMMA HeaderFrame ==
    ASSUME FrameInv, HeaderRead
    PROVE  FrameInv'
<1>0. 1 \in Nat \ {0}
  OBVIOUS
<1>1. /\ pc = "header" /\ ~reading /\ UNCHANGED <<open, stream, taken, connected>>
      /\ UNCHANGED <<packet, sent, written, peer, reads, torn>>
  BY DEF HeaderRead, ReadFailed, BeginRead, socketVars, sendVars, historyVars, netVars
<1>2. SendInv'
  BY <1>1, SendSame DEF FrameInv, sendVars
<1>3. open
  BY <1>1 DEF FrameInv, CallInv
<1>4. CASE got = <<>>
  <2>1. UNCHANGED netVars /\ pc' = "idle" /\ head' = 0 /\ rem_len' = 0 /\ multiplier' = 1 /\ len' = 0
    BY <1>4 DEF HeaderRead, ReadFailed, EndOfPacket
  <2>2. NetInv'
    BY <2>1, UnchangedInv DEF FrameInv
  <2>3. FrameTypeOK'
    BY <1>1, <2>1, ByteFacts DEF FrameInv, FrameTypeOK
  <2>4. CallInv'
    BY <1>1, <1>3, <2>1 DEF CallInv, netVars
  <2>5. ASSUME ~torn' PROVE \E at : Starts(at)' /\ ReadInv(at)'
    <3>1. PICK at : Starts(at) /\ ReadInv(at)
      BY <1>1, <2>5 DEF FrameInv
    <3>2. Starts(at)'
      BY <1>1, <3>1, StartsSame
    <3>3. Expect(1, at[Len(reads) + 1])
      BY <1>1, <3>1 DEF ReadInv
    <3>4. connected => taken = at[Len(reads) + 1]
      BY <1>1, <1>4, <3>3 DEF Expect
    <3>5. ReadInv(at)'
      BY <1>1, <2>1, <3>1, <3>4 DEF ReadInv
    <3> QED  BY <3>2, <3>5
  <2> QED  BY <1>2, <2>2, <2>3, <2>4, <2>5, Zenon DEF FrameInv
<1>5. CASE got # <<>>
  <2>1. BeginRead(1) /\ pc' = "length" /\ head' = got[1] /\ rem_len' = 0 /\ multiplier' = 1 /\ len' = 1
    BY <1>5 DEF HeaderRead
  <2>2. NetInv'
    BY <1>0, <2>1, BeginReadInv DEF FrameInv
  <2>3. got[1] \in Byte
    BY <1>5 DEF FrameInv, NetInv, NetTypeOK
  <2>4. FrameTypeOK'
    BY <1>1, <2>1, <2>3 DEF FrameInv, FrameTypeOK
  <2>5. CallInv'
    BY <1>1, <1>3, <2>1, Zenon DEF CallInv
  <2>6. ASSUME ~torn' PROVE \E at : Starts(at)' /\ ReadInv(at)'
    <3>1. PICK at : Starts(at) /\ ReadInv(at)
      BY <1>1, <2>6 DEF FrameInv
    <3>2. Starts(at)'
      BY <1>1, <3>1, StartsSame
    <3>3. PICK r \in Nat : r = Len(reads) + 1 /\ r \in 1..Len(peer) + 1
      BY <3>1, SMTT(60) DEF FrameInv, FrameTypeOK, ReadInv
    <3>4. PICK b \in Nat : b = at[r]
      <4>1. at[r] \in 0..Len(stream)
        BY <3>1, <3>3, Zenon DEF Starts
      <4> QED  BY <4>1
    <3>5. Len(got) = 1 /\ taken = b + 1 /\ got[1] = stream[b + 1]
      <4>1. Expect(1, b)
        BY <1>1, <3>1, <3>3, <3>4 DEF ReadInv
      <4>2. \A i \in 1..1 : got[i] = stream[b + i]
        BY <1>1, <1>5, <4>1, Zenon DEF Expect
      <4>3. Len(got) = 1 /\ taken = b + 1
        BY <1>1, <1>5, <4>1, Zenon DEF Expect
      <4> QED  BY <4>2, <4>3
    <3>6. Len(reads) < Len(peer)
      <4>1. taken <= Len(stream)
        BY DEF FrameInv, NetInv, BufferIsStream
      <4>2. r # Len(peer) + 1
        BY <3>1, <3>4, <3>5, <4>1 DEF Starts
      <4> QED  BY <3>3, <4>2 DEF FrameInv, FrameTypeOK
    <3>7. PICK q \in Incoming : q = peer[r] /\ r \in 1..Len(peer)
      BY <3>3, <3>6 DEF FrameInv, FrameTypeOK
    <3>8. head' = Serialize(q)[1]
      <4>1. LiesAt(q, b)
        BY <3>1, <3>4, <3>7 DEF Starts
      <4>2. /\ Len(Serialize(q)) = 1 + Digits(Serialize(q), 2) + Len(q.body)
            /\ Digits(Serialize(q), 2) \in 1..4 /\ Len(q.body) \in Nat
        BY SerializeFacts, PacketFields
      <4>3. 1 \in 1..Len(Serialize(q))
        BY <4>2
      <4>4. stream[b + 1] = Serialize(q)[1]
        BY <4>1, <4>3 DEF LiesAt
      <4> QED  BY <2>1, <3>5, <4>4
    <3>9. Decoding(Serialize(q))'
      BY <2>1, <3>8 DEF Decoding
    <3>10. Expect(1, b + len)'
      <4>1. PICK c \in Nat : c = b + 1
        OBVIOUS
      <4>2. Expect(1, c)'
        BY <1>0, <2>1, <3>5, <4>1, ExpectBegin
      <4> QED  BY <2>1, <4>1, <4>2
    <3>11. InPacket(q, b)'
      BY <2>1, <3>9, <3>10 DEF InPacket
    <3>12. InPacket(peer[r], b)'
      BY <1>1, <3>7, <3>11 DEF InPacket
    <3>13. ReadInv(at)'
      BY <1>1, <2>1, <3>1, <3>3, <3>4, <3>6, <3>12 DEF ReadInv
    <3> QED  BY <3>2, <3>13
  <2> QED  BY <1>2, <2>2, <2>4, <2>5, <2>6, Zenon DEF FrameInv
<1> QED  BY <1>4, <1>5

(* decodePacket takes a digit that says that another follows. *)
LEMMA DecodingGoesOn ==
    ASSUME NEW p \in Incoming, Decoding(Serialize(p)), NEW d \in Byte, d = Serialize(p)[1 + len], d >= Base,
           head' = head, rem_len' = rem_len + (d % Base) * multiplier,
           multiplier' = multiplier * Base, len' = len + 1
    PROVE  Decoding(Serialize(p))'
<1> DEFINE s == Serialize(p)
           r1 == s[2] % Base
           r2 == s[3] % Base
           r3 == s[4] % Base
<1>0. Base \in Nat /\ \A x \in Byte : x \in Nat /\ x % Base \in Nat
  BY ByteFacts
<1>1. len \in 1..4 /\ len < 4 /\ d % Base \in Nat
  BY DecodeFacts
<1>2. /\ s[2] \in Byte
      /\ s[2] >= Base => /\ s[3] \in Byte
                         /\ s[3] >= Base => s[4] \in Byte
  BY DigitBytes
<1>d. Decoding(s)
  OBVIOUS
<1> HIDE DEF s
<1>3. CASE len = 1
  <2>1. /\ head' = s[1] /\ len' = 2 /\ s[2] >= Base /\ d = s[2]
        /\ rem_len = 0 /\ multiplier = 1
    BY <1>3, <1>d, SMTT(60) DEF Decoding, s
  <2>2. rem_len' = r1 /\ multiplier' = Base
    BY <1>0, <1>1, <2>1
  <2> QED  BY <2>1, <2>2 DEF Decoding, s
<1>4. CASE len = 2
  <2>1. /\ head' = s[1] /\ len' = 3 /\ s[2] >= Base /\ s[3] >= Base /\ d = s[3]
        /\ rem_len = r1 /\ multiplier = Base
    BY <1>4, <1>d, SMTT(60) DEF Decoding, s
  <2>2. rem_len' = r1 + r2 * Base /\ multiplier' = Base * Base
    BY <2>1
  <2> QED  BY <2>1, <2>2 DEF Decoding, s
<1>5. CASE len = 3
  <2>1. /\ head' = s[1] /\ len' = 4 /\ s[2] >= Base /\ s[3] >= Base /\ s[4] >= Base /\ d = s[4]
        /\ rem_len = r1 + r2 * Base /\ multiplier = Base * Base
    BY <1>5, <1>d, SMTT(60) DEF Decoding, s
  <2>2. rem_len' = r1 + r2 * Base + r3 * Base * Base
    <3> HIDE DEF r1, r2
    <3>1. r3 * (Base * Base) = r3 * Base * Base
      <4> HIDE DEF r3
      <4>1. r3 \in Nat
        BY <1>1, <2>1 DEF r3
      <4> QED  BY <1>0, <4>1
    <3> QED  BY <2>1, <3>1
  <2>3. multiplier' = Base * Base * Base
    BY <2>1
  <2> QED  BY <2>1, <2>2, <2>3 DEF Decoding, s
<1> QED  BY <1>1, <1>3, <1>4, <1>5

(* What decodePacket leaves, whatever it has read. *)
LEMMA DecodedFrame ==
    ASSUME FrameInv, pc = "length", ~reading, NEW n \in Nat, Decoded(n),
           reads' \in Seq([head : Byte, body : Seq(Byte)]), torn' \in BOOLEAN
    PROVE  /\ NetInv' /\ SendInv' /\ FrameTypeOK' /\ CallInv'
           /\ UNCHANGED <<stream, taken, connected, peer>>
<1>1. UNCHANGED <<open, stream, taken, connected, packet, sent, written, peer>>
  BY DEF Decoded, BeginRead, socketVars, sendVars, netVars
<1>2. SendInv'
  BY <1>1, SendSame DEF FrameInv, sendVars
<1>3. open
  BY DEF FrameInv, CallInv
<1>4. CASE n > 0
  <2>1. BeginRead(n) /\ pc' = "body" /\ rem_len' = n /\ UNCHANGED <<head, multiplier, len>>
    BY <1>4 DEF Decoded
  <2>2. NetInv'
    BY <1>4, <2>1, BeginReadInv DEF FrameInv
  <2>3. FrameTypeOK'
    BY <1>1, <2>1 DEF FrameInv, FrameTypeOK
  <2>4. CallInv'
    BY <1>1, <1>3, <2>1, Zenon DEF CallInv
  <2> QED  BY <1>1, <1>2, <2>2, <2>3, <2>4
<1>5. CASE n = 0
  <2>1. UNCHANGED netVars /\ pc' = "idle" /\ head' = 0 /\ rem_len' = 0 /\ multiplier' = 1 /\ len' = 0
    BY <1>5 DEF Decoded, EndOfPacket
  <2>2. NetInv'
    BY <2>1, UnchangedInv DEF FrameInv
  <2>3. FrameTypeOK'
    BY <1>1, <2>1, ByteFacts DEF FrameInv, FrameTypeOK
  <2>4. CallInv'
    BY <1>1, <1>3, <2>1 DEF CallInv, netVars
  <2> QED  BY <1>1, <1>2, <2>2, <2>3, <2>4
<1> QED  BY <1>4, <1>5

(* readPacket returns the next packet of the peer and stands behind it. *)
LEMMA Returned ==
    ASSUME FrameInv, NEW at, Starts(at), ReadInv(at), Len(reads) < Len(peer),
           taken = at[Len(reads) + 1] + Len(Serialize(peer[Len(reads) + 1])),
           reads' = Append(reads, peer[Len(reads) + 1]), pc' = "idle", UNCHANGED <<stream, taken, peer>>
    PROVE  Starts(at)' /\ ReadInv(at)'
<1>1. Starts(at)'
  BY StartsSame
<1>2. reads \in Seq([head : Byte, body : Seq(Byte)]) /\ peer \in Seq(Incoming)
  BY DEF FrameInv, FrameTypeOK
<1>3. PICK r \in Nat : r = Len(reads) + 1 /\ r \in 1..Len(peer)
  BY <1>2
<1>4. /\ Len(reads') = r /\ reads'[r] = peer[r]
      /\ \A i \in 1..r : i = r \/ (i \in 1..Len(reads) /\ reads'[i] = reads[i])
  <2>1. peer[r] \in Incoming
    BY <1>2, <1>3
  <2>2. peer[r] \in [head : Byte, body : Seq(Byte)]
    BY <2>1, PacketFields
  <2> QED  BY <1>2, <1>3, <2>2
<1>5. \A i \in 1..Len(reads') : reads'[i] = peer[i]
  BY <1>4 DEF ReadInv
<1>6. taken = at[r + 1]
  BY <1>3 DEF Starts
<1> QED  BY <1>1, <1>3, <1>4, <1>5, <1>6, SMTT(60) DEF ReadInv

(* The packet that readPacket is in, and where it starts. *)
LEMMA CurrentPacket ==
    ASSUME FrameInv, NEW at, Starts(at), ReadInv(at), pc \in {"length", "body"}
    PROVE  \E q \in Incoming, b \in Nat :
             /\ Len(reads) < Len(peer) /\ q = peer[Len(reads) + 1] /\ b = at[Len(reads) + 1]
             /\ InPacket(q, b) /\ LiesAt(q, b)
<1>1. Len(reads) < Len(peer) /\ InPacket(peer[Len(reads) + 1], at[Len(reads) + 1])
  BY DEF ReadInv
<1>2. PICK r \in Nat : r = Len(reads) + 1 /\ r \in 1..Len(peer) /\ r \in 1..Len(peer) + 1
  BY <1>1 DEF FrameInv, FrameTypeOK
<1>3. peer[r] \in Incoming
  BY <1>2 DEF FrameInv, FrameTypeOK
<1>4. at[r] \in 0..Len(stream)
  BY <1>2, Zenon DEF Starts
<1>5. at[r] \in Nat
  BY <1>4
<1>6. LiesAt(peer[r], at[r])
  BY <1>2 DEF Starts
<1> QED  BY <1>1, <1>2, <1>3, <1>5, <1>6

(* decodePacket's next byte is the next digit of that packet. *)
LEMMA DigitRead ==
    ASSUME FrameInv, ~reading, got # <<>>, NEW q \in Incoming, NEW b \in Nat,
           Decoding(Serialize(q)), Expect(1, b + len), LiesAt(q, b)
    PROVE  taken = b + len + 1 /\ got[1] = Serialize(q)[1 + len]
<1> DEFINE s == Serialize(q)
<1>1. /\ s[2] >= Base => /\ Digits(s, 2) >= 2
                         /\ s[3] >= Base => /\ Digits(s, 2) >= 3
                                            /\ s[4] >= Base => Digits(s, 2) >= 4
      /\ Digits(s, 2) \in 1..4 /\ Len(s) = 1 + Digits(s, 2) + Len(q.body) /\ Len(q.body) \in Nat
  BY DigitBytes, SerializeFacts, PacketFields
<1>2. len \in Nat /\ len >= 1 /\ len <= Digits(s, 2)
  BY <1>1 DEF Decoding
<1>3. 1 + len \in 1..Len(s)
  BY <1>1, <1>2
<1>4. PICK c \in Nat : c = b + len
  BY <1>2
<1>5. taken = c + 1 /\ \A i \in 1..1 : got[i] = stream[c + i]
  BY <1>4, Zenon DEF Expect
<1>6. got[1] = stream[c + 1]
  BY <1>5
<1>7. stream[b + (1 + len)] = s[1 + len]
  BY <1>3 DEF LiesAt
<1>8. b + (1 + len) = c + 1 /\ c + 1 = b + len + 1
  BY <1>2, <1>4
<1> QED  BY <1>5, <1>6, <1>7, <1>8

(* decodePacket reads the digits of the length up to the last. *)
LEMMA LengthFrame ==
    ASSUME FrameInv, LengthRead
    PROVE  FrameInv'
<1>0. 1 \in Nat \ {0} /\ rem_len \in Nat /\ multiplier \in Nat /\ len \in Nat /\ Base \in Nat
  BY ByteFacts DEF FrameInv, FrameTypeOK
<1>1. pc = "length" /\ ~reading /\ open
  BY DEF LengthRead, FrameInv, CallInv
<1>2. ASSUME got # <<>> PROVE got[1] \in Byte /\ got[1] % Base \in Nat /\ Value \in Nat
  <2>1. got[1] \in Byte
    BY <1>2 DEF FrameInv, NetInv, NetTypeOK
  <2>2. got[1] % Base \in Nat
    BY <2>1, ByteFacts, Zenon
  <2> DEFINE m == got[1] % Base
  <2>3. Value = rem_len + m * multiplier /\ m \in Nat
    BY <2>2 DEF Value, Digit
  <2> HIDE DEF m
  <2>4. m * multiplier \in Nat
    BY <1>0, <2>3
  <2> QED  BY <1>0, <2>1, <2>2, <2>3, <2>4
<1>3. ASSUME NEW n \in Nat, Decoded(n), Tear PROVE FrameInv'
  <2>1. <<>> \in Seq([head : Byte, body : Seq(Byte)])
    BY Empty
  <2>2. torn' = TRUE /\ reads' = <<>>
    BY <1>3 DEF Tear
  <2>3. NetInv' /\ SendInv' /\ FrameTypeOK' /\ CallInv'
    BY <1>1, <1>3, <2>1, <2>2, DecodedFrame
  <2> QED  BY <2>2, <2>3, Zenon DEF FrameInv
<1>4. ASSUME got # <<>>, More, BeginRead(1), rem_len' = Value, multiplier' = multiplier * Base, len' = len + 1,
             UNCHANGED <<pc, head, sendVars, historyVars>>
      PROVE  FrameInv'
  <2>1. /\ UNCHANGED <<open, stream, taken, connected>>
        /\ UNCHANGED <<packet, sent, written, peer, reads, torn>>
    BY <1>4 DEF BeginRead, socketVars, sendVars, historyVars
  <2>2. NetInv'
    BY <1>0, <1>4, BeginReadInv DEF FrameInv
  <2>3. SendInv'
    BY <1>4, SendSame DEF FrameInv
  <2>4. FrameTypeOK'
    <3>1. rem_len' \in Nat /\ multiplier' \in Nat /\ len' \in Nat
      BY <1>0, <1>2, <1>4
    <3> QED  BY <1>4, <2>1, <3>1 DEF FrameInv, FrameTypeOK
  <2>5. CallInv'
    BY <1>1, <1>4, <2>1, Zenon DEF CallInv
  <2>6. ASSUME ~torn' PROVE \E at : Starts(at)' /\ ReadInv(at)'
    <3>1. PICK at : Starts(at) /\ ReadInv(at)
      BY <2>1, <2>6 DEF FrameInv
    <3>2. Starts(at)'
      BY <2>1, <3>1, StartsSame
    <3>3. PICK q \in Incoming, b \in Nat :
            /\ Len(reads) < Len(peer) /\ q = peer[Len(reads) + 1] /\ b = at[Len(reads) + 1]
            /\ InPacket(q, b) /\ LiesAt(q, b)
      BY <1>1, <3>1, CurrentPacket
    <3>4. Decoding(Serialize(q)) /\ Expect(1, b + len)
      BY <1>1, <3>3 DEF InPacket
    <3>5. taken = b + len + 1 /\ got[1] = Serialize(q)[1 + len]
      BY <1>1, <1>4, <3>3, <3>4, DigitRead
    <3>6. Decoding(Serialize(q))'
      <4>1. got[1] >= Base /\ rem_len' = rem_len + (got[1] % Base) * multiplier
        BY <1>4 DEF More, Value, Digit
      <4> QED  BY <1>2, <1>4, <3>4, <3>5, <4>1, DecodingGoesOn
    <3>7. Expect(1, b + len)'
      <4>1. PICK c \in Nat : c = b + len + 1
        BY <1>0
      <4>2. Expect(1, c)'
        BY <1>0, <1>4, <3>5, <4>1, ExpectBegin
      <4>3. c = b + len'
        BY <1>0, <1>4, <4>1
      <4> QED  BY <4>2, <4>3
    <3>8. InPacket(q, b)'
      BY <1>1, <1>4, <3>6, <3>7 DEF InPacket
    <3>9. ReadInv(at)'
      <4>1. InPacket(peer[Len(reads) + 1], at[Len(reads) + 1])'
        BY <2>1, <3>3, <3>8 DEF InPacket
      <4> QED  BY <1>1, <1>4, <2>1, <3>1, <3>3, <4>1, Zenon DEF ReadInv
    <3> QED  BY <3>2, <3>9
  <2> QED  BY <2>2, <2>3, <2>4, <2>5, <2>6, Zenon DEF FrameInv
<1>5. ASSUME got # <<>>, ~More, Decoded(Value),
             IF Value > 0 THEN UNCHANGED <<reads, torn>> ELSE Return([head |-> head, body |-> <<>>])
      PROVE  FrameInv'
  <2>1. got[1] < Base /\ Value = rem_len + (got[1] % Base) * multiplier
    <3>1. got[1] \in Nat /\ Base \in Nat /\ ~(got[1] >= Base)
      BY <1>2, <1>5, ByteFacts, Zenon DEF More
    <3>2. got[1] < Base
      BY <3>1
    <3> QED  BY <3>2 DEF Value, Digit
  <2>2. torn' = torn /\ torn \in BOOLEAN
    BY <1>5 DEF Return, FrameInv, FrameTypeOK
  <2>3. reads' \in Seq([head : Byte, body : Seq(Byte)])
    <3>1. reads \in Seq([head : Byte, body : Seq(Byte)]) /\ head \in Byte
      BY DEF FrameInv, FrameTypeOK
    <3>2. [head |-> head, body |-> <<>>] \in [head : Byte, body : Seq(Byte)]
      BY <3>1, Empty
    <3>3. reads' = reads \/ reads' = Append(reads, [head |-> head, body |-> <<>>])
      BY <1>5, Zenon DEF Return
    <3> QED  BY <3>1, <3>2, <3>3, Appended, Zenon
  <2>4. NetInv' /\ SendInv' /\ FrameTypeOK' /\ CallInv' /\ UNCHANGED <<stream, taken, connected, peer>>
    BY <1>1, <1>2, <1>5, <2>2, <2>3, DecodedFrame, Zenon
  <2>5. ASSUME ~torn' PROVE \E at : Starts(at)' /\ ReadInv(at)'
    <3>1. PICK at : Starts(at) /\ ReadInv(at)
      BY <2>2, <2>5 DEF FrameInv
    <3>2. Starts(at)'
      BY <2>4, <3>1, StartsSame
    <3>3. PICK q \in Incoming, b \in Nat :
            /\ Len(reads) < Len(peer) /\ q = peer[Len(reads) + 1] /\ b = at[Len(reads) + 1]
            /\ InPacket(q, b) /\ LiesAt(q, b)
      BY <1>1, <3>1, CurrentPacket
    <3>4. Decoding(Serialize(q)) /\ Expect(1, b + len)
      BY <1>1, <3>3 DEF InPacket
    <3>5. taken = b + len + 1 /\ got[1] = Serialize(q)[1 + len]
      BY <1>1, <1>5, <3>3, <3>4, DigitRead
    <3>6. len = Digits(Serialize(q), 2) /\ Value = Len(q.body)
      BY <1>2, <1>5, <2>1, <3>4, <3>5, DecodeFacts
    <3>7. head = q.head /\ Len(Serialize(q)) = 1 + len + Value
      BY <3>4, <3>6, SerializeFacts DEF Decoding
    <3>8. CASE Value > 0
      <4>1. BeginRead(Value) /\ pc' = "body" /\ rem_len' = Value /\ UNCHANGED <<head, reads, torn>>
        BY <1>5, <3>8 DEF Decoded
      <4>2. PICK n \in Nat \ {0}, c \in Nat : n = Value /\ c = b + len + 1
        BY <1>0, <1>2, <1>5, <3>8
      <4>3. Expect(n, c)'
        BY <3>5, <4>1, <4>2, ExpectBegin
      <4>4. c = b + (Len(Serialize(q)) - n)
        BY <1>0, <3>7, <4>2
      <4>5. Expect(rem_len, b + (Len(Serialize(q)) - rem_len))'
        BY <4>1, <4>2, <4>3, <4>4
      <4>6. InPacket(q, b)'
        BY <3>6, <3>7, <3>8, <4>1, <4>5 DEF InPacket
      <4>7. InPacket(peer[Len(reads) + 1], at[Len(reads) + 1])'
        BY <2>4, <3>3, <4>1, <4>6 DEF InPacket
      <4>8. ReadInv(at)'
        BY <2>4, <3>1, <3>3, <4>1, <4>7 DEF ReadInv
      <4> QED  BY <3>2, <4>8
    <3>9. CASE Value = 0
      <4>1. pc' = "idle" /\ reads' = Append(reads, [head |-> head, body |-> <<>>])
        BY <1>5, <2>2, <2>5, <3>9 DEF Decoded, EndOfPacket, Return
      <4>2. q.body = <<>> /\ q = [head |-> q.head, body |-> q.body]
        <5>1. q.body \in Seq(Byte) /\ Len(q.body) = 0 /\ q = [head |-> q.head, body |-> q.body]
          BY <3>6, <3>9, PacketFields
        <5>2. q.body = <<>>
          BY <5>1
        <5> QED  BY <5>1, <5>2
      <4>3. reads' = Append(reads, peer[Len(reads) + 1])
        BY <3>3, <3>7, <4>1, <4>2
      <4>4. taken = at[Len(reads) + 1] + Len(Serialize(peer[Len(reads) + 1]))
        <5>1. taken = b + Len(Serialize(q))
          BY <1>0, <3>5, <3>7, <3>9
        <5> QED  BY <3>3, <5>1
      <4>5. Starts(at)' /\ ReadInv(at)'
        BY <2>4, <3>1, <3>3, <4>1, <4>3, <4>4, Returned
      <4> QED  BY <4>5
    <3> QED  BY <1>2, <1>5, <3>8, <3>9
  <2> QED  BY <2>4, <2>5, Zenon DEF FrameInv
<1> QED  BY <1>0, <1>2, <1>3, <1>4, <1>5 DEF LengthRead

(* readPacket returns the packet with the body it has read. *)
LEMMA BodyFrame ==
    ASSUME FrameInv, BodyRead
    PROVE  FrameInv'
<1>1. /\ pc = "body" /\ ~reading /\ UNCHANGED <<netVars, sendVars, peer>>
      /\ pc' = "idle" /\ head' = 0 /\ rem_len' = 0 /\ multiplier' = 1 /\ len' = 0
  BY DEF BodyRead, ReadFailed, EndOfPacket
<1>2. NetInv' /\ SendInv'
  BY <1>1, UnchangedInv, SendSame DEF FrameInv
<1>3. UNCHANGED <<open, stream, taken, connected, reading>> /\ open
  BY <1>1 DEF netVars, FrameInv, CallInv
<1>4. CallInv'
  BY <1>1, <1>3 DEF CallInv
<1>5. reads' \in Seq([head : Byte, body : Seq(Byte)]) /\ torn' \in BOOLEAN
  <2>1. CASE got = <<>>
    <3>1. torn' = TRUE /\ reads' = <<>>
      BY <2>1 DEF BodyRead, Tear
    <3> QED  BY <3>1, Empty
  <2>2. CASE got # <<>>
    <3>1. /\ reads \in Seq([head : Byte, body : Seq(Byte)])
          /\ [head |-> head, body |-> got] \in [head : Byte, body : Seq(Byte)]
      BY Zenon DEF FrameInv, FrameTypeOK, NetInv, NetTypeOK
    <3>2. torn' = torn /\ (reads' = reads \/ reads' = Append(reads, [head |-> head, body |-> got]))
      BY <2>2 DEF BodyRead, Return
    <3>3. torn \in BOOLEAN
      BY DEF FrameInv, FrameTypeOK
    <3> QED  BY <3>1, <3>2, <3>3, Appended, Zenon
  <2> QED  BY <2>1, <2>2
<1>6. FrameTypeOK'
  BY <1>1, <1>5, ByteFacts DEF FrameInv, FrameTypeOK
<1>7. ASSUME ~torn' PROVE \E at : Starts(at)' /\ ReadInv(at)'
  <2>1. got # <<>> /\ ~torn /\ reads' = Append(reads, [head |-> head, body |-> got])
    <3>1. got # <<>>
      BY <1>7 DEF BodyRead, Tear
    <3> QED  BY <1>7, <3>1 DEF BodyRead, Return
  <2>2. PICK at : Starts(at) /\ ReadInv(at)
    BY <2>1 DEF FrameInv
  <2>3. PICK q \in Incoming, b \in Nat :
          /\ Len(reads) < Len(peer) /\ q = peer[Len(reads) + 1] /\ b = at[Len(reads) + 1]
          /\ InPacket(q, b) /\ LiesAt(q, b)
    BY <1>1, <2>2, CurrentPacket
  <2> DEFINE s == Serialize(q)
             n == Len(q.body)
             k == Digits(s, 2)
  <2>4. /\ k \in 1..4 /\ n \in Nat /\ Len(s) = 1 + k + n
        /\ \A i \in 1..n : s[1 + k + i] = q.body[i]
    BY SerializeFacts, PacketFields
  <2>5. head = q.head /\ rem_len = n /\ n > 0 /\ Expect(n, b + (Len(s) - n))
    BY <1>1, <2>3, Zenon DEF InPacket
  <2>6. LiesAt(q, b)
    BY <2>3
  <2> HIDE DEF k
  <2>7. PICK c \in Nat : c = b + (Len(s) - n) /\ c = b + (1 + k)
    BY <2>4
  <2>8. Len(got) = n /\ taken = c + n /\ \A i \in 1..n : got[i] = stream[c + i]
    BY <1>1, <2>1, <2>5, <2>7, Zenon DEF Expect
  <2>9. \A i \in 1..n : stream[c + i] = q.body[i]
    <3> TAKE i \in 1..n
    <3>1. 1 + k + i \in 1..Len(s) /\ b + (1 + k + i) = c + i
      BY <2>4, <2>7
    <3>2. stream[b + (1 + k + i)] = s[1 + k + i]
      BY <2>6, <3>1 DEF LiesAt
    <3> QED  BY <2>4, <3>1, <3>2
  <2>10. got = q.body
    <3>1. got \in Seq(Byte) /\ q.body \in Seq(Byte)
      BY PacketFields DEF FrameInv, NetInv, NetTypeOK
    <3>2. Len(got) = Len(q.body) /\ \A i \in 1..Len(got) : got[i] = q.body[i]
      BY <2>8, <2>9
    <3> QED  BY <3>1, <3>2, SameSeq
  <2>11. reads' = Append(reads, peer[Len(reads) + 1])
    <3>1. q = [head |-> q.head, body |-> q.body]
      BY PacketFields
    <3> QED  BY <2>1, <2>3, <2>5, <2>10, <3>1
  <2>12. taken = at[Len(reads) + 1] + Len(Serialize(peer[Len(reads) + 1]))
    <3>1. taken = b + Len(s)
      <4>1. k \in Nat /\ Len(s) = 1 + k + n /\ taken = b + (1 + k) + n
        BY <2>4, <2>7, <2>8
      <4>2. PICK i \in Nat, j \in Nat : i = k /\ j = n
        BY <2>4, <4>1
      <4>3. Len(s) = 1 + i + j /\ taken = b + (1 + i) + j
        BY <4>1, <4>2
      <4>4. b + (1 + i) + j = b + (1 + i + j)
        OBVIOUS
      <4> QED  BY <4>3, <4>4, Zenon
    <3> QED  BY <2>3, <3>1
  <2>13. Starts(at)' /\ ReadInv(at)'
    BY <1>1, <1>3, <2>2, <2>3, <2>11, <2>12, Returned
  <2> QED  BY <2>13
<1> QED  BY <1>2, <1>4, <1>6, <1>7, Zenon DEF FrameInv

-----------------------------------------------------------------------------
(* Initially there is no connection and no packet. *)
LEMMA FrameInit == Init => FrameInv
<1> SUFFICES ASSUME Init PROVE FrameInv
  OBVIOUS
<1>1. NetInv
  BY NetInitInv DEF Init
<1>2. /\ pc = "idle" /\ packet = <<>> /\ sent = 0 /\ written = <<>> /\ stream = <<>> /\ taken = 0
      /\ head = 0 /\ rem_len = 0 /\ multiplier = 1 /\ len = 0
      /\ peer = <<>> /\ reads = <<>> /\ torn = FALSE /\ reading = FALSE
  BY DEF Init, NetInit
<1>3. /\ <<>> \in Seq(Byte) /\ <<>> \in Seq(Incoming) /\ <<>> \in Seq([head : Byte, body : Seq(Byte)])
      /\ Len(<<>>) = 0
  BY Empty
<1>4. SendInv
  BY <1>2, <1>3 DEF SendInv
<1>5. FrameTypeOK
  <2>1. torn \in BOOLEAN
    BY <1>2, Zenon
  <2> QED  BY <1>2, <1>3, <2>1, ByteFacts DEF FrameTypeOK
<1>6. CallInv
  BY <1>2, Zenon DEF CallInv
<1>7. \E at : Starts(at) /\ ReadInv(at)
  <2>1. PICK at : at \in [1..1 -> 0..0] /\ at[1] = 0
    <3>1. [i \in 1..1 |-> 0] \in [1..1 -> 0..0] /\ [i \in 1..1 |-> 0][1] = 0
      OBVIOUS
    <3> QED  BY <3>1, Zenon
  <2>2. Starts(at)
    BY <1>2, <2>1 DEF Starts
  <2>3. ReadInv(at)
    BY <1>2, <2>1 DEF ReadInv
  <2> QED  BY <2>2, <2>3
<1> QED  BY <1>1, <1>4, <1>5, <1>6, <1>7 DEF FrameInv

(* A stuttering step keeps the invariant. *)
LEMMA FrameSame ==
    ASSUME FrameInv, UNCHANGED vars
    PROVE  FrameInv'
<1>1. UNCHANGED netVars /\ UNCHANGED sendVars /\ UNCHANGED <<pc, head, rem_len, multiplier, len, peer, reads, torn>>
  BY DEF vars, frameVars, decodeVars, historyVars
<1>2. NetInv' /\ SendInv'
  BY <1>1, UnchangedInv, SendSame DEF FrameInv
<1>3. UNCHANGED <<open, connected, stream, taken, reading, asked, buffer, from, got>>
  BY <1>1 DEF netVars
<1>4. FrameTypeOK'
  BY <1>1 DEF FrameInv, FrameTypeOK
<1>5. CallInv'
  BY <1>1, <1>3, Zenon DEF FrameInv, CallInv
<1>6. ASSUME ~torn' PROVE \E at : Starts(at)' /\ ReadInv(at)'
  <2>1. PICK at : Starts(at) /\ ReadInv(at)
    BY <1>1, <1>6 DEF FrameInv
  <2>2. Starts(at)'
    BY <1>1, <1>3, <2>1, StartsSame
  <2>3. \A n \in Nat \ {0}, c \in Nat : Expect(n, c) => Expect(n, c)'
    BY <1>3, ExpectSame
  <2>4. /\ Len(peer') \in Nat /\ Len(peer) <= Len(peer')
        /\ \A i \in 1..Len(peer) : peer'[i] = peer[i]
    BY <1>1 DEF FrameInv, FrameTypeOK
  <2>5. ReadInv(at)'
    BY <1>1, <1>3, <2>1, <2>3, <2>4, ReadKept
  <2> QED  BY <2>2, <2>5
<1> QED  BY <1>2, <1>4, <1>5, <1>6, Zenon DEF FrameInv

(* sendPacket and readPacket keep the invariant, whatever the peer and the *)
(* network do meanwhile: the peer's packets lie in the stream one behind   *)
(* the other, and readPacket knows where it stands in them.                *)
THEOREM FramingInvariant == Spec => []FrameInv
<1>1. FrameInv /\ [Next]_vars => FrameInv'
  BY ConnectionFrame, SendFrame, PeerFrame, ReadPacketFrame, ReadingFrame, HeaderFrame, LengthFrame,
     BodyFrame, FrameSame DEF Next, Step
<1> QED  BY <1>1, FrameInit, PTL DEF Spec

(* A sendPacket that succeeds has put its packet on the connection, byte   *)
(* for byte and once, for every packet and however write cuts it up.       *)
THEOREM PacketIsSent == Spec => []SentIsPacket
<1>1. FrameInv => SentIsPacket
  <2> SUFFICES ASSUME FrameInv, sent = Len(packet) PROVE written = packet
    BY DEF SentIsPacket
  <2>1. /\ packet \in Seq(Byte) /\ written \in Seq(Byte) /\ Len(packet) \in Nat /\ Len(written) = Len(packet)
        /\ \A i \in 1..Len(written) : written[i] = packet[i]
    BY DEF FrameInv, SendInv
  <2> QED  BY <2>1, SameSeq
<1> QED  BY <1>1, FramingInvariant, PTL

(* Unless a read has failed inside a packet, readPacket returns the peer's *)
(* packets, each once and in order, for every set of packets with a length *)
(* of at most four digits, every base of the digits, and however recv cuts *)
(* the bytes up.                                                           *)
THEOREM PacketsAreReadInOrder == Spec => []PacketsInOrder
<1>1. FrameInv => PacketsInOrder
  BY DEF FrameInv, ReadInv, PacketsInOrder
<1> QED  BY <1>1, FramingInvariant, PTL

(* The client's packets keep the socket layer straight: Network.connected  *)
(* speaks of the client's own descriptor, and what esp32_read has stored   *)
(* is a piece of the stream, for every length a packet may announce.       *)
THEOREM NetworkUnderPackets == Spec => []NetInv
<1>1. FrameInv => NetInv
  BY DEF FrameInv
<1> QED  BY <1>1, FramingInvariant, PTL

=============================================================================
