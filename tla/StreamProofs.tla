---------------------------- MODULE StreamProofs ----------------------------
(***************************************************************************)
(* Proofs about the two layers that the packets of the MQTT client rest    *)
(* on.  The codec: decoding inverts encoding, and encoded packets have the *)
(* length that was reserved for them.  The socket layer: its invariant,    *)
(* and that it implements the byte stream, for every number of             *)
(* descriptors, every set of bytes, every length of a read and every       *)
(* caller.                                                                 *)
(***************************************************************************)
EXTENDS Codec, Network, TLAPS


(* the digits of a number *)
LEMMA DivMod ==
    ASSUME NEW n \in Nat
    PROVE  /\ n \div Base \in Nat /\ n % Base \in 0..Base - 1
           /\ n = Base * (n \div Base) + (n % Base)
           /\ n < Base <=> n \div Base = 0
<1>1. n \div Base \in Nat
  BY BaseAssumption, SMT
<1>2. n % Base \in 0..Base - 1
  BY BaseAssumption, SMT
<1>3. n = Base * (n \div Base) + (n % Base)
  BY BaseAssumption, SMT
<1>4. n < Base => n \div Base = 0
  BY BaseAssumption, SMT
<1>5. n \div Base = 0 => n < Base
  BY <1>2, <1>3, BaseAssumption, SMT
<1> QED  BY <1>1, <1>2, <1>3, <1>4, <1>5

LEMMA DivBound ==
    ASSUME NEW n \in Nat, NEW k \in Nat, n < Base * k
    PROVE  n \div Base < k
  BY DivMod, BaseAssumption, SMT

(* a digit is what remains of its byte *)
LEMMA DigitOf ==
    ASSUME NEW n \in Nat
    PROVE  /\ Continued(n) \in Base..2 * Base - 1
           /\ Continued(n) % Base = n % Base
           /\ n < Base => n % Base = n
<1> DEFINE r == n % Base
<1>1. r \in 0..Base - 1
  BY DivMod
<1>2. (r + Base) % Base = r
  <2>1. (r + Base) \div Base = 1
    BY <1>1, BaseAssumption, SMT
  <2>2. r + Base = Base * ((r + Base) \div Base) + ((r + Base) % Base)
    BY <1>1, BaseAssumption, DivMod
  <2> QED  BY <1>1, <2>1, <2>2, BaseAssumption, SMT
<1>3. ASSUME n < Base PROVE n % Base = n
  BY <1>3, DivMod, BaseAssumption, SMT
<1> QED  BY <1>1, <1>2, <1>3, BaseAssumption DEF Continued

(* the four cases of MQTTPacket_encode *)
LEMMA EncodeCases ==
    ASSUME NEW n \in Lengths
    PROVE  LET n2 == n \div Base
               n3 == n2 \div Base
               n4 == n3 \div Base
           IN  /\ {n, n2, n3, n4} \subseteq Nat
               /\ n4 < Base
               /\ \/ n < Base /\ Encode(n) = <<n>>
                  \/ /\ n >= Base /\ n < Base * Base /\ n2 < Base
                     /\ Encode(n) = <<Continued(n), n2>>
                  \/ /\ n >= Base * Base /\ n < Base * Base * Base /\ n3 < Base
                     /\ Encode(n) = <<Continued(n), Continued(n2), n3>>
                  \/ /\ n >= Base * Base * Base
                     /\ Encode(n) = <<Continued(n), Continued(n2), Continued(n3), n4>>
<1> DEFINE n2 == n \div Base
           n3 == n2 \div Base
           n4 == n3 \div Base
<1>0. n \in Nat /\ Base \in Nat /\ Base > 1
  BY BaseAssumption DEF Lengths
<1>1. n2 \in Nat /\ n = Base * n2 + (n % Base) /\ n % Base \in 0..Base - 1 /\ (n < Base <=> n2 = 0)
  BY <1>0, DivMod
<1>2. n3 \in Nat /\ n2 = Base * n3 + (n2 % Base) /\ n2 % Base \in 0..Base - 1 /\ (n2 < Base <=> n3 = 0)
  BY <1>1, DivMod
<1>3. n4 \in Nat /\ n3 = Base * n4 + (n3 % Base) /\ n3 % Base \in 0..Base - 1 /\ (n3 < Base <=> n4 = 0)
  BY <1>2, DivMod
<1>4. n4 < Base
  <2>1. n < Base * (Base * Base * Base)
    BY <1>0, SMT DEF Lengths
  <2>2. n2 < Base * (Base * Base)
    BY <1>0, <2>1, DivBound, SMT
  <2>3. n3 < Base * Base
    BY <1>0, <1>1, <2>2, DivBound, SMT
  <2> QED  BY <1>0, <1>2, <2>3, DivBound
<1>5. n3 = 0 <=> n < Base * Base
  BY <1>0, <1>1, <1>2, SMT
<1>6. n4 = 0 <=> n < Base * Base * Base
  BY <1>0, <1>1, <1>2, <1>3, <1>5, SMT
<1> QED
  BY <1>0, <1>1, <1>2, <1>3, <1>4, <1>5, <1>6 DEF Encode

(* an encoded length, put into a buffer *)
Holds(buf, at, s) == \A i \in 1..Len(s) : buf[at + i - 1] = s[i]

(* MQTTPacket_encode: at most four bytes.                                  *)
LEMMA EncodeType ==
    ASSUME NEW n \in Lengths
    PROVE  Encode(n) \in Seq(ByteValues) /\ Len(Encode(n)) \in 1..4
<1> DEFINE n2 == n \div Base
           n3 == n2 \div Base
           n4 == n3 \div Base
<1>1. {n, n2, n3, n4} \subseteq Nat /\ n4 < Base
  BY EncodeCases
<1>2. {Continued(n), Continued(n2), Continued(n3)} \subseteq ByteValues
  BY <1>1, DigitOf, BaseAssumption DEF ByteValues
<1>3. \A k \in Nat : k < Base => k \in ByteValues
  BY BaseAssumption DEF ByteValues
<1> HIDE DEF n2, n3, n4
<1>4. \/ n < Base /\ Encode(n) = <<n>>
      \/ n2 < Base /\ Encode(n) = <<Continued(n), n2>>
      \/ n3 < Base /\ Encode(n) = <<Continued(n), Continued(n2), n3>>
      \/ Encode(n) = <<Continued(n), Continued(n2), Continued(n3), n4>>
  BY EncodeCases DEF n2, n3, n4
<1>5. \A a \in ByteValues : <<a>> \in Seq(ByteValues) /\ Len(<<a>>) = 1
  OBVIOUS
<1>6. \A a, b \in ByteValues : <<a, b>> \in Seq(ByteValues) /\ Len(<<a, b>>) = 2
  OBVIOUS
<1>7. \A a, b, c \in ByteValues : <<a, b, c>> \in Seq(ByteValues) /\ Len(<<a, b, c>>) = 3
  OBVIOUS
<1>8. \A a, b, c, d \in ByteValues : <<a, b, c, d>> \in Seq(ByteValues) /\ Len(<<a, b, c, d>>) = 4
  OBVIOUS
<1>9. CASE n < Base /\ Encode(n) = <<n>>
  BY <1>1, <1>3, <1>5, <1>9
<1>10. CASE n2 < Base /\ Encode(n) = <<Continued(n), n2>>
  BY <1>1, <1>2, <1>3, <1>6, <1>10
<1>11. CASE n3 < Base /\ Encode(n) = <<Continued(n), Continued(n2), n3>>
  BY <1>1, <1>2, <1>3, <1>7, <1>11
<1>12. CASE Encode(n) = <<Continued(n), Continued(n2), Continued(n3), n4>>
  BY <1>1, <1>2, <1>3, <1>8, <1>12
<1> QED  BY <1>4, <1>9, <1>10, <1>11, <1>12

(* the sum of MQTTPacket_decode, by the number of digits *)
LEMMA DecodeSum ==
    ASSUME NEW buf, NEW at \in Nat, buf[at] % Base \in Nat
    PROVE  /\ Digits(buf, at) = 1 => Decode(buf, at) = buf[at] % Base
           /\ Digits(buf, at) = 2 /\ buf[at + 1] % Base \in Nat
                => Decode(buf, at) = (buf[at] % Base) + (buf[at + 1] % Base) * Base
           /\ Digits(buf, at) = 3 /\ buf[at + 1] % Base \in Nat /\ buf[at + 2] % Base \in Nat
                => Decode(buf, at) = (buf[at] % Base) + (buf[at + 1] % Base) * Base
                                     + (buf[at + 2] % Base) * Base * Base
           /\ Digits(buf, at) = 4 /\ buf[at + 1] % Base \in Nat /\ buf[at + 2] % Base \in Nat /\ buf[at + 3] % Base \in Nat
                => Decode(buf, at) = (buf[at] % Base) + (buf[at + 1] % Base) * Base
                                     + (buf[at + 2] % Base) * Base * Base + (buf[at + 3] % Base) * Base * Base * Base
<1>1. Base \in Nat
  BY BaseAssumption
<1>2. at + 0 = at
  OBVIOUS
<1>3. CASE Digits(buf, at) = 1
  BY <1>1, <1>2, <1>3 DEF Decode
<1>4. CASE Digits(buf, at) = 2
  BY <1>1, <1>2, <1>4 DEF Decode
<1>5. CASE Digits(buf, at) = 3
  BY <1>1, <1>2, <1>5 DEF Decode
<1>6. CASE Digits(buf, at) = 4
  BY <1>1, <1>2, <1>6 DEF Decode
<1> QED  BY <1>3, <1>4, <1>5, <1>6

(* MQTTPacket_decode finds where the encoded length ends, and the length,  *)
(* wherever it stands in a buffer and whatever follows it.                 *)
THEOREM LengthRoundTrip ==
    ASSUME NEW n \in Lengths, NEW buf, NEW at \in Nat, Holds(buf, at, Encode(n))
    PROVE  Digits(buf, at) = Len(Encode(n)) /\ Decode(buf, at) = n
<1> DEFINE n2 == n \div Base
           n3 == n2 \div Base
           n4 == n3 \div Base
<1>0. Base \in Nat /\ Base > 1
  BY BaseAssumption
<1>1. n \in Nat /\ n2 \in Nat /\ n3 \in Nat /\ n4 \in Nat /\ n4 < Base
  BY EncodeCases
<1>2. /\ n = Base * n2 + (n % Base) /\ n2 = Base * n3 + (n2 % Base) /\ n3 = Base * n4 + (n3 % Base)
      /\ n % Base \in Nat /\ n2 % Base \in Nat /\ n3 % Base \in Nat
  BY <1>1, DivMod
<1>3. \A k \in Nat : /\ Continued(k) \in Nat /\ Continued(k) >= Base /\ Continued(k) % Base = k % Base
                     /\ k < Base => k % Base = k
  BY <1>0, DigitOf
<1>4. \/ n < Base /\ Encode(n) = <<n>>
      \/ n2 < Base /\ Encode(n) = <<Continued(n), n2>>
      \/ n3 < Base /\ Encode(n) = <<Continued(n), Continued(n2), n3>>
      \/ Encode(n) = <<Continued(n), Continued(n2), Continued(n3), n4>>
  BY EncodeCases
<1> HIDE DEF n2, n3, n4
<1>5. CASE n < Base /\ Encode(n) = <<n>>
  <2>1. buf[at] = n
    BY <1>5 DEF Holds
  <2> QED  BY <1>0, <1>1, <1>3, <1>5, <2>1 DEF Digits, Decode
<1>6. CASE n2 < Base /\ Encode(n) = <<Continued(n), n2>>
  <2>1. buf[at] = Continued(n) /\ buf[at + 1] = n2
    BY <1>6 DEF Holds
  <2>2. Digits(buf, at) = 2
    BY <1>0, <1>1, <1>3, <1>6, <2>1 DEF Digits
  <2>3. buf[at] % Base = n % Base /\ buf[at + 1] % Base = n2
    BY <1>1, <1>3, <1>6, <2>1
  <2>4. Decode(buf, at) = (n % Base) + n2 * Base
    BY <1>1, <1>2, <2>2, <2>3, DecodeSum
  <2>5. (n % Base) + n2 * Base = n
    <3> DEFINE r1 == n % Base
               r2 == n2 % Base
               r3 == n3 % Base
    <3>1. n = Base * n2 + r1 /\ n2 = Base * n3 + r2 /\ n3 = Base * n4 + r3
      BY <1>2
    <3>2. r1 \in Nat /\ r2 \in Nat /\ r3 \in Nat
      BY <1>2
    <3> HIDE DEF r1, r2, r3
    <3>3. r1 + n2 * Base = n
      BY <1>0, <1>1, <3>1, <3>2
    <3> QED  BY <3>3 DEF r1, r2, r3
  <2> QED  BY <1>6, <2>2, <2>4, <2>5
<1>7. CASE n3 < Base /\ Encode(n) = <<Continued(n), Continued(n2), n3>>
  <2>1. buf[at] = Continued(n) /\ buf[at + 1] = Continued(n2) /\ buf[at + 2] = n3
    BY <1>7 DEF Holds
  <2>2. Digits(buf, at) = 3
    BY <1>0, <1>1, <1>3, <1>7, <2>1 DEF Digits
  <2>3. buf[at] % Base = n % Base /\ buf[at + 1] % Base = n2 % Base /\ buf[at + 2] % Base = n3
    BY <1>1, <1>3, <1>7, <2>1
  <2>4. Decode(buf, at) = (n % Base) + (n2 % Base) * Base + n3 * Base * Base
    BY <1>1, <1>2, <2>2, <2>3, DecodeSum
  <2>5. (n % Base) + (n2 % Base) * Base + n3 * Base * Base = n
    <3> DEFINE r1 == n % Base
               r2 == n2 % Base
               r3 == n3 % Base
    <3>1. n = Base * n2 + r1 /\ n2 = Base * n3 + r2 /\ n3 = Base * n4 + r3
      BY <1>2
    <3>2. r1 \in Nat /\ r2 \in Nat /\ r3 \in Nat
      BY <1>2
    <3> HIDE DEF r1, r2, r3
    <3>3. r1 + r2 * Base + n3 * Base * Base = n
      BY <1>0, <1>1, <3>1, <3>2
    <3> QED  BY <3>3 DEF r1, r2, r3
  <2> QED  BY <1>7, <2>2, <2>4, <2>5
<1>8. CASE Encode(n) = <<Continued(n), Continued(n2), Continued(n3), n4>>
  <2>1. /\ buf[at] = Continued(n) /\ buf[at + 1] = Continued(n2)
        /\ buf[at + 2] = Continued(n3) /\ buf[at + 3] = n4
    BY <1>8 DEF Holds
  <2>2. Digits(buf, at) = 4
    BY <1>0, <1>1, <1>3, <2>1 DEF Digits
  <2>3. /\ buf[at] % Base = n % Base /\ buf[at + 1] % Base = n2 % Base
        /\ buf[at + 2] % Base = n3 % Base /\ buf[at + 3] % Base = n4
    BY <1>1, <1>3, <2>1
  <2>4. Decode(buf, at) = (n % Base) + (n2 % Base) * Base + (n3 % Base) * Base * Base + n4 * Base * Base * Base
    BY <1>1, <1>2, <2>2, <2>3, DecodeSum
  <2>5. (n % Base) + (n2 % Base) * Base + (n3 % Base) * Base * Base + n4 * Base * Base * Base = n
    <3> DEFINE r1 == n % Base
               r2 == n2 % Base
               r3 == n3 % Base
    <3>1. n = Base * n2 + r1 /\ n2 = Base * n3 + r2 /\ n3 = Base * n4 + r3
      BY <1>2
    <3>2. r1 \in Nat /\ r2 \in Nat /\ r3 \in Nat
      BY <1>2
    <3> HIDE DEF r1, r2, r3
    <3>3. r1 + r2 * Base + r3 * Base * Base + n4 * Base * Base * Base = n
      BY <1>0, <1>1, <3>1, <3>2
    <3> QED  BY <3>3 DEF r1, r2, r3
  <2> QED  BY <1>8, <2>2, <2>4, <2>5
<1> QED  BY <1>4, <1>5, <1>6, <1>7, <1>8

(* MQTTPacket_len, against which every serializer checks its buffer, is    *)
(* never less than the length of the packet and at most one byte more.     *)
THEOREM ReservedLength ==
    ASSUME NEW n \in Lengths
    PROVE  PacketLen(n) - (1 + Len(Encode(n)) + n) \in {0, 1}
<1>0. n \in Nat /\ Base \in Nat /\ Base > 1
  BY BaseAssumption DEF Lengths
<1>1. \/ n < Base /\ Len(Encode(n)) = 1
      \/ n >= Base /\ n < Base * Base /\ Len(Encode(n)) = 2
      \/ n >= Base * Base /\ n < Base * Base * Base /\ Len(Encode(n)) = 3
      \/ n >= Base * Base * Base /\ Len(Encode(n)) = 4
  BY EncodeCases
<1>2. Base * Base \in Nat /\ Base * Base >= 2 * Base /\ Base * Base * Base \in Nat /\ Base * Base * Base >= 2 * (Base * Base)
  BY <1>0
<1> DEFINE b2 == Base * Base
           b3 == Base * Base * Base
<1>3. /\ b2 \in Nat /\ b2 >= 2 * Base /\ b3 \in Nat /\ b3 >= 2 * b2
      /\ \/ n < Base /\ Len(Encode(n)) = 1
         \/ n >= Base /\ n < b2 /\ Len(Encode(n)) = 2
         \/ n >= b2 /\ n < b3 /\ Len(Encode(n)) = 3
         \/ n >= b3 /\ Len(Encode(n)) = 4
  BY <1>1, <1>2
<1>4. PacketLen(n) = n + 1 + (IF n + 1 < Base THEN 1 ELSE IF n + 1 < b2 THEN 2 ELSE IF n + 1 < b3 - 1 THEN 3 ELSE 4)
  BY DEF PacketLen
<1> DEFINE k == Len(Encode(n))
           more == IF n + 1 < Base THEN 1 ELSE IF n + 1 < b2 THEN 2 ELSE IF n + 1 < b3 - 1 THEN 3 ELSE 4
<1>5. k \in 1..4 /\ more \in k..k + 1
  <2> HIDE DEF b2, b3
  <2>1. CASE n < Base /\ k = 1
    BY <1>0, <1>3, <2>1
  <2>2. CASE n >= Base /\ n < b2 /\ k = 2
    BY <1>0, <1>3, <2>2
  <2>3. CASE n >= b2 /\ n < b3 /\ k = 3
    BY <1>0, <1>3, <2>3
  <2>4. CASE n >= b3 /\ k = 4
    BY <1>0, <1>3, <2>4
  <2> QED  BY <1>3, <2>1, <2>2, <2>3, <2>4
<1>6. PacketLen(n) = n + 1 + more
  BY <1>4
<1> HIDE DEF k, more
<1>7. PacketLen(n) - (1 + k + n) \in {0, 1}
  BY <1>0, <1>5, <1>6
<1> QED  BY <1>7 DEF k

-----------------------------------------------------------------------------
(* Publish messages.                                                       *)

LEMMA Concat ==
    ASSUME NEW a \in Seq(Int), NEW b \in Seq(Int)
    PROVE  /\ a \o b \in Seq(Int)
           /\ Len(a \o b) = Len(a) + Len(b)
           /\ \A i \in 1..Len(a) : (a \o b)[i] = a[i]
           /\ \A i \in 1..Len(b) : (a \o b)[Len(a) + i] = b[i]
  OBVIOUS

LEMMA IntRoundTrip ==
    ASSUME NEW n \in Ints
    PROVE  /\ WriteInt(n) \in Seq(Int) /\ Len(WriteInt(n)) = 2
           /\ 2 * Base * WriteInt(n)[1] + WriteInt(n)[2] = n
<1> DEFINE b == 2 * Base
           q == n \div b
           r == n % b
<1>1. b \in Nat /\ b > 0 /\ n \in Nat /\ n < b * b
  BY BaseAssumption DEF Ints
<1>2. q % b = q
  <2>1. \A c, k \in Nat : c > 0 /\ k < c * c => k \div c \in 0..c - 1
    OBVIOUS
  <2>2. q \in 0..b - 1
    BY <1>1, <2>1
  <2>3. \A c \in Nat : \A k \in 0..c - 1 : k % c = k
    OBVIOUS
  <2> HIDE DEF q, b
  <2> QED  BY <1>1, <2>2, <2>3
<1>3. n = b * q + r /\ q \in Int /\ r \in Int
  <2>1. \A c, k \in Nat : c > 0 => k = c * (k \div c) + (k % c) /\ k \div c \in Int /\ k % c \in Int
    OBVIOUS
  <2> QED  BY <1>1, <2>1
<1>4. WriteInt(n) = <<q, r>>
  BY <1>2 DEF WriteInt
<1> HIDE DEF q, r
<1>5. <<q, r>> \in Seq(Int) /\ Len(<<q, r>>) = 2 /\ <<q, r>>[1] = q /\ <<q, r>>[2] = r
  BY <1>3
<1>6. b * WriteInt(n)[1] + WriteInt(n)[2] = n
  BY <1>3, <1>4, <1>5
<1> QED  BY <1>4, <1>5, <1>6

(* the bits of the header byte *)
HasBits(h, type, dup, qos, retain) ==
    h \in 0..255 /\ TypeOf(h) = type /\ DupOf(h) = dup /\ QosOf(h) = qos /\ RetainOf(h) = retain

LEMMA HeaderRoundTrip ==
    \A type \in 0..15, dup \in 0..1, qos \in 0..3, retain \in 0..1 :
      HasBits(Header(type, dup, qos, retain), type, dup, qos, retain)
  BY DEF HasBits, Header, TypeOf, DupOf, QosOf, RetainOf

(* where the parts of the packet are *)
LEMMA PacketParts ==
    ASSUME NEW h \in Int, NEW rest \in Seq(Int), Len(rest) \in Lengths
    PROVE  LET p == Packet(h, Len(rest), rest)
               k == Len(Encode(Len(rest)))
           IN  /\ p \in Seq(Int) /\ k \in 1..4
               /\ Len(p) = 1 + k + Len(rest)
               /\ p[1] = h
               /\ Holds(p, 2, Encode(Len(rest)))
               /\ \A i \in 1..Len(rest) : p[1 + k + i] = rest[i]
<1> DEFINE e == Encode(Len(rest))
           k == Len(e)
           q == <<h>> \o e
<1>1. e \in Seq(Int) /\ k \in 1..4
  BY EncodeType, BaseAssumption DEF ByteValues
<1>2. <<h>> \in Seq(Int) /\ Len(<<h>>) = 1 /\ <<h>>[1] = h
  OBVIOUS
<1> HIDE DEF e
<1>3. /\ q \in Seq(Int) /\ Len(q) = 1 + k /\ q[1] = h
      /\ \A i \in 1..k : q[1 + i] = e[i]
  BY <1>1, <1>2, Concat
<1>4. Packet(h, Len(rest), rest) = q \o rest
  BY DEF Packet, e
<1> HIDE DEF q
<1>5. /\ q \o rest \in Seq(Int) /\ Len(q \o rest) = 1 + k + Len(rest)
      /\ \A i \in 1..1 + k : (q \o rest)[i] = q[i]
      /\ \A i \in 1..Len(rest) : (q \o rest)[1 + k + i] = rest[i]
  <2>1. /\ q \o rest \in Seq(Int) /\ Len(q \o rest) = Len(q) + Len(rest)
        /\ \A i \in 1..Len(q) : (q \o rest)[i] = q[i]
        /\ \A i \in 1..Len(rest) : (q \o rest)[Len(q) + i] = rest[i]
    BY <1>3, Concat, Zenon
  <2>2. Len(q) = 1 + k
    BY <1>3
  <2> QED  BY <2>1, <2>2
<1>6. (q \o rest)[1] = h
  BY <1>1, <1>3, <1>5
<1>7. \A i \in 1..k : (q \o rest)[2 + i - 1] = e[i]
  <2> TAKE i \in 1..k
  <2>1. 1 + i \in 1..1 + k /\ 2 + i - 1 = 1 + i
    BY <1>1
  <2> QED  BY <1>3, <1>5, <2>1
<1> QED  BY <1>1, <1>4, <1>5, <1>6, <1>7 DEF Holds, e

(* r is the sequences w, t, v and d, one after another *)
FourParts(r, w, t, v, d) ==
    /\ r \in Seq(Int)
    /\ Len(r) = Len(w) + Len(t) + Len(v) + Len(d)
    /\ \A i \in 1..Len(w) : r[i] = w[i]
    /\ \A i \in 1..Len(t) : r[Len(w) + i] = t[i]
    /\ \A i \in 1..Len(v) : r[Len(w) + Len(t) + i] = v[i]
    /\ \A i \in 1..Len(d) : r[Len(w) + Len(t) + Len(v) + i] = d[i]

LEMMA ConcatFour ==
    ASSUME NEW w \in Seq(Int), NEW t \in Seq(Int), NEW v \in Seq(Int), NEW d \in Seq(Int)
    PROVE  FourParts(w \o t \o v \o d, w, t, v, d)
<1> DEFINE a == w \o t
           c == a \o v
           r == c \o d
<1>0. Len(w) \in Nat /\ Len(t) \in Nat /\ Len(v) \in Nat /\ Len(d) \in Nat
  OBVIOUS
<1>1. /\ a \in Seq(Int) /\ Len(a) = Len(w) + Len(t)
      /\ \A i \in 1..Len(w) : a[i] = w[i]
      /\ \A i \in 1..Len(t) : a[Len(w) + i] = t[i]
  BY Concat
<1> HIDE DEF a
<1>2. /\ c \in Seq(Int) /\ Len(c) = Len(a) + Len(v)
      /\ \A i \in 1..Len(a) : c[i] = a[i]
      /\ \A i \in 1..Len(v) : c[Len(a) + i] = v[i]
  BY <1>1, Concat
<1> HIDE DEF c
<1>3. /\ r \in Seq(Int) /\ Len(r) = Len(c) + Len(d)
      /\ \A i \in 1..Len(c) : r[i] = c[i]
      /\ \A i \in 1..Len(d) : r[Len(c) + i] = d[i]
  BY <1>2, Concat
<1> HIDE DEF r
<1>4. \A i \in 1..Len(w) : r[i] = w[i]
  <2> TAKE i \in 1..Len(w)
  <2>0. Len(a) = Len(w) + Len(t) /\ Len(c) = Len(w) + Len(t) + Len(v)
    BY <1>1, <1>2
  <2>1. i \in 1..Len(a) /\ i \in 1..Len(c)
    BY <1>0, <2>0
  <2> QED  BY <1>1, <1>2, <1>3, <2>1
<1>5. \A i \in 1..Len(t) : r[Len(w) + i] = t[i]
  <2> TAKE i \in 1..Len(t)
  <2>0. Len(a) = Len(w) + Len(t) /\ Len(c) = Len(w) + Len(t) + Len(v)
    BY <1>1, <1>2
  <2>1. Len(w) + i \in 1..Len(a) /\ Len(w) + i \in 1..Len(c)
    BY <1>0, <2>0
  <2> QED  BY <1>1, <1>2, <1>3, <2>1
<1>6. \A i \in 1..Len(v) : r[Len(w) + Len(t) + i] = v[i]
  <2> TAKE i \in 1..Len(v)
  <2>1. Len(a) + i \in 1..Len(c)
    BY <1>0, <1>1, <1>2
  <2> QED  BY <1>1, <1>2, <1>3, <2>1
<1>7. \A i \in 1..Len(d) : r[Len(w) + Len(t) + Len(v) + i] = d[i]
  BY <1>1, <1>2, <1>3
<1>8. r = w \o t \o v \o d
  BY DEF r, c, a
<1>9. r \in Seq(Int) /\ Len(r) = Len(w) + Len(t) + Len(v) + Len(d)
  BY <1>0, <1>1, <1>2, <1>3
<1>10. FourParts(r, w, t, v, d)
  BY <1>4, <1>5, <1>6, <1>7, <1>9, Zenon DEF FourParts
<1> QED  BY <1>8, <1>10, Zenon

(* where the parts of the rest of a publish packet are *)
LEMMA PublishParts ==
    ASSUME NEW m \in PublishMessages, Len(m.topicName) \in Ints
    PROVE  LET t == m.topicName
               d == m.payload
               n == Len(t) + (IF m.qos > 0 THEN 4 ELSE 2)
               r == PublishRest(m)
           IN  /\ r \in Seq(Int) /\ Len(r) = PublishLength(m)
               /\ Len(r) = n + Len(d)
               /\ 2 * Base * r[1] + r[2] = Len(t)
               /\ \A i \in 1..Len(t) : r[2 + i] = t[i]
               /\ m.qos > 0 => 2 * Base * r[Len(t) + 3] + r[Len(t) + 4] = m.packetid
               /\ \A i \in 1..Len(d) : r[n + i] = d[i]
<1> DEFINE t == m.topicName
           d == m.payload
           w == WriteInt(Len(t))
           v == IF m.qos > 0 THEN WriteInt(m.packetid) ELSE <<>>
           r == w \o t \o v \o d
<1>1. t \in Seq(ByteValues) /\ d \in Seq(ByteValues) /\ m.qos \in 0..2 /\ m.packetid \in Ints
  BY DEF PublishMessages
<1>2. t \in Seq(Int) /\ d \in Seq(Int) /\ Len(t) \in Nat /\ Len(d) \in Nat
  BY <1>1, BaseAssumption DEF ByteValues
<1>3. m.packetid \in Ints /\ Len(t) \in Ints
  BY <1>1
<1>4. w \in Seq(Int) /\ Len(w) = 2 /\ 2 * Base * w[1] + w[2] = Len(t)
  BY <1>3, IntRoundTrip
<1>5. /\ v \in Seq(Int) /\ Len(v) = (IF m.qos > 0 THEN 2 ELSE 0)
      /\ m.qos > 0 => 2 * Base * v[1] + v[2] = m.packetid
  <2> HIDE DEF v
  <2>1. CASE m.qos > 0
    BY <1>3, <2>1, IntRoundTrip DEF v
  <2>2. CASE ~(m.qos > 0)
    <3>1. v = <<>>
      BY <2>2 DEF v
    <3>2. v \in Seq(Int) /\ Len(v) = 0
      BY <3>1
    <3> QED  BY <2>2, <3>2
  <2> QED  BY <2>1, <2>2
<1>6. PublishRest(m) = r
  BY DEF PublishRest, WriteString
<1>7. PublishLength(m) = 2 + Len(t) + Len(d) + (IF m.qos > 0 THEN 2 ELSE 0)
  BY DEF PublishLength
<1> HIDE DEF t, d, w, v
<1>8. /\ r \in Seq(Int)
      /\ Len(r) = 2 + Len(t) + Len(v) + Len(d)
      /\ \A i \in 1..2 : r[i] = w[i]
      /\ \A i \in 1..Len(t) : r[2 + i] = t[i]
      /\ \A i \in 1..Len(v) : r[2 + Len(t) + i] = v[i]
      /\ \A i \in 1..Len(d) : r[2 + Len(t) + Len(v) + i] = d[i]
  <2>1. /\ r \in Seq(Int)
        /\ Len(r) = Len(w) + Len(t) + Len(v) + Len(d)
        /\ \A i \in 1..Len(w) : r[i] = w[i]
        /\ \A i \in 1..Len(t) : r[Len(w) + i] = t[i]
        /\ \A i \in 1..Len(v) : r[Len(w) + Len(t) + i] = v[i]
        /\ \A i \in 1..Len(d) : r[Len(w) + Len(t) + Len(v) + i] = d[i]
    <3>1. w \in Seq(Int) /\ t \in Seq(Int) /\ v \in Seq(Int) /\ d \in Seq(Int)
      BY <1>2, <1>4, <1>5
    <3>2. FourParts(r, w, t, v, d)
      BY <3>1, ConcatFour, Zenon
    <3> HIDE DEF r
    <3> QED  BY <3>2, Zenon DEF FourParts
  <2>2. Len(w) = 2
    BY <1>4
  <2> HIDE DEF r
  <2> QED  BY <2>1, <2>2, Zenon
<1> HIDE DEF r
<1>9. r[1] = w[1] /\ r[2] = w[2]
  BY <1>8
<1>10. ASSUME m.qos > 0 PROVE r[Len(t) + 3] = v[1] /\ r[Len(t) + 4] = v[2]
  <2>1. 1 \in 1..Len(v) /\ 2 \in 1..Len(v) /\ 2 + Len(t) + 1 = Len(t) + 3 /\ 2 + Len(t) + 2 = Len(t) + 4
    BY <1>2, <1>5, <1>10
  <2> QED  BY <1>8, <2>1
<1>11. /\ Len(r) = PublishLength(m)
       /\ Len(r) = Len(t) + (IF m.qos > 0 THEN 4 ELSE 2) + Len(d)
       /\ 2 + Len(t) + Len(v) = Len(t) + (IF m.qos > 0 THEN 4 ELSE 2)
  <2>1. Len(v) = (IF m.qos > 0 THEN 2 ELSE 0)
    BY <1>5
  <2>2. Len(r) = 2 + Len(t) + Len(v) + Len(d)
    BY <1>8
  <2>3. Len(t) \in Nat /\ Len(d) \in Nat
    BY <1>2
  <2> QED  BY <1>7, <2>1, <2>2, <2>3
<1> QED  BY <1>4, <1>5, <1>6, <1>8, <1>9, <1>10, <1>11 DEF t, d

-----------------------------------------------------------------------------
(* The lengths that are announced.                                         *)

LEMMA IntLength ==
    ASSUME NEW n \in Nat
    PROVE  WriteInt(n) \in Seq(Int) /\ Len(WriteInt(n)) = 2
<1> DEFINE b == 2 * Base
<1>1. b \in Nat /\ b > 0
  BY BaseAssumption
<1>2. \A c, k \in Nat : c > 0 => k \div c \in Nat /\ k % c \in Int
  OBVIOUS
<1>3. (n \div b) % b \in Int /\ n % b \in Int
  BY <1>1, <1>2
<1> HIDE DEF b
<1>4. WriteInt(n) = <<(n \div b) % b, n % b>>
  BY DEF WriteInt, b
<1> QED  BY <1>3, <1>4

LEMMA StringLength ==
    ASSUME NEW s \in Seq(ByteValues)
    PROVE  WriteString(s) \in Seq(Int) /\ Len(WriteString(s)) = Len(s) + 2
<1> DEFINE w == WriteInt(Len(s))
<1>1. s \in Seq(Int) /\ Len(s) \in Nat
  BY BaseAssumption DEF ByteValues
<1>2. w \in Seq(Int) /\ Len(w) = 2
  BY <1>1, IntLength
<1> HIDE DEF w
<1>3. w \o s \in Seq(Int) /\ Len(w \o s) = Len(w) + Len(s)
  BY <1>1, <1>2, Concat, Zenon
<1>4. WriteString(s) = w \o s
  BY DEF WriteString, w
<1> QED  BY <1>1, <1>2, <1>3, <1>4

(* MQTTSerialize_publishLength, the subscribe and unsubscribe lengths: the *)
(* length a packet announces, and which its buffer was checked against, is *)
(* that of what is written.                                                *)
THEOREM AnnouncedLength ==
    ASSUME NEW m \in PublishMessages, NEW s \in Seq(ByteValues), NEW id \in Ints, NEW qos \in 0..2
    PROVE  /\ Len(PublishRest(m)) = PublishLength(m)
           /\ Len(SubscribeRest(id, s, qos)) = SubscribeLength(s)
           /\ Len(UnsubscribeRest(id, s)) = UnsubscribeLength(s)
<1>1. id \in Nat /\ qos \in Int
  BY BaseAssumption DEF Ints
<1>2. WriteInt(id) \in Seq(Int) /\ Len(WriteInt(id)) = 2
  BY <1>1, IntLength
<1>3. WriteString(s) \in Seq(Int) /\ Len(WriteString(s)) = Len(s) + 2
  BY StringLength
<1>4. <<qos>> \in Seq(Int) /\ Len(<<qos>>) = 1
  BY <1>1
<1>5. Len(s) \in Nat
  OBVIOUS
<1>6. Len(PublishRest(m)) = PublishLength(m)
  <2> DEFINE t == WriteString(m.topicName)
             v == IF m.qos > 0 THEN WriteInt(m.packetid) ELSE <<>>
             d == m.payload
  <2>1. m.topicName \in Seq(ByteValues) /\ d \in Seq(Int) /\ m.packetid \in Nat /\ m.qos \in 0..2
    BY BaseAssumption DEF PublishMessages, ByteValues, Ints
  <2>2. t \in Seq(Int) /\ Len(t) = Len(m.topicName) + 2
    BY <2>1, StringLength
  <2>3. v \in Seq(Int) /\ Len(v) = (IF m.qos > 0 THEN 2 ELSE 0)
    <3>1. CASE m.qos > 0
      BY <2>1, <3>1, IntLength
    <3>2. CASE ~(m.qos > 0)
      <4> HIDE DEF v
      <4>1. v = <<>>
        BY <3>2 DEF v
      <4>2. v \in Seq(Int) /\ Len(v) = 0
        BY <4>1
      <4> QED  BY <3>2, <4>2
    <3> QED  BY <3>1, <3>2
  <2>4. PublishRest(m) = t \o v \o d
    BY DEF PublishRest
  <2>5. PublishLength(m) = 2 + Len(m.topicName) + Len(d) + (IF m.qos > 0 THEN 2 ELSE 0)
    BY DEF PublishLength
  <2>6. Len(m.topicName) \in Nat /\ Len(d) \in Nat
    BY <2>1
  <2> HIDE DEF t, v, d
  <2>7. t \o v \in Seq(Int) /\ Len(t \o v) = Len(t) + Len(v)
    BY <2>2, <2>3, Concat, Zenon
  <2>8. Len(t \o v \o d) = Len(t \o v) + Len(d)
    BY <2>1, <2>7, Concat, Zenon
  <2>9. Len(t) = Len(m.topicName) + 2 /\ Len(v) = (IF m.qos > 0 THEN 2 ELSE 0)
    BY <2>2, <2>3
  <2>10. Len(PublishRest(m)) = Len(t) + Len(v) + Len(d)
    BY <2>4, <2>7, <2>8, Zenon
  <2> DEFINE x == Len(m.topicName)
             y == Len(d)
             z == IF m.qos > 0 THEN 2 ELSE 0
  <2>11. x \in Nat /\ y \in Nat /\ z \in Nat
    BY <2>6
  <2>12. Len(PublishRest(m)) = x + 2 + z + y
    BY <2>9, <2>10, Zenon
  <2>13. PublishLength(m) = 2 + x + y + z
    BY <2>5, Zenon
  <2> HIDE DEF x, y, z
  <2>14. x + 2 + z + y = 2 + x + y + z
    BY <2>11
  <2> QED  BY <2>12, <2>13, <2>14, Zenon
<1>7. Len(UnsubscribeRest(id, s)) = UnsubscribeLength(s)
  <2>1. Len(WriteInt(id) \o WriteString(s)) = Len(WriteInt(id)) + Len(WriteString(s))
    BY <1>2, <1>3, Concat, Zenon
  <2>2. UnsubscribeRest(id, s) = WriteInt(id) \o WriteString(s)
    BY DEF UnsubscribeRest
  <2> QED  BY <1>2, <1>3, <1>5, <2>1, <2>2 DEF UnsubscribeLength
<1>8. Len(SubscribeRest(id, s, qos)) = SubscribeLength(s)
  <2> DEFINE u == WriteInt(id) \o WriteString(s)
  <2>1. u \in Seq(Int) /\ Len(u) = Len(WriteInt(id)) + Len(WriteString(s))
    BY <1>2, <1>3, Concat, Zenon
  <2>2. SubscribeRest(id, s, qos) = u \o <<qos>>
    BY DEF SubscribeRest
  <2> HIDE DEF u
  <2>3. Len(u \o <<qos>>) = Len(u) + Len(<<qos>>)
    BY <1>4, <2>1, Concat, Zenon
  <2> QED  BY <1>2, <1>3, <1>4, <1>5, <2>1, <2>2, <2>3 DEF SubscribeLength
<1> QED  BY <1>6, <1>7, <1>8

LEMMA OptionalLength ==
    ASSUME NEW s \in Seq(Int), NEW f \in 0..1
    PROVE  /\ (IF f = 1 THEN s ELSE <<>>) \in Seq(Int)
           /\ Len(IF f = 1 THEN s ELSE <<>>) = (IF f = 1 THEN Len(s) ELSE 0)
<1> DEFINE v == IF f = 1 THEN s ELSE <<>>
<1> HIDE DEF v
<1>1. CASE f = 1
  <2>1. v = s
    BY <1>1 DEF v
  <2> QED  BY <1>1, <2>1 DEF v
<1>2. CASE f # 1
  <2>1. v = <<>>
    BY <1>2 DEF v
  <2>2. v \in Seq(Int) /\ Len(v) = 0
    BY <2>1
  <2> QED  BY <1>2, <2>2 DEF v
<1> QED  BY <1>1, <1>2

(* MQTTSerialize_connectLength: the same for a connect packet.             *)
THEOREM AnnouncedConnectLength ==
    ASSUME NEW o \in ConnectOptions
    PROVE  Len(ConnectRest(o)) = ConnectLength(o)
<1> DEFINE n == ProtocolName(o.MQTTVersion)
           f == <<o.MQTTVersion, ConnectFlags(o)>>
           k == WriteInt(o.keepAliveInterval)
           c == WriteString(o.clientID)
           wt == WriteString(o.willTopic)
           wm == WriteString(o.willMessage)
           us == WriteString(o.username)
           ps == WriteString(o.password)
           w == IF o.willFlag = 1 THEN wt \o wm ELSE <<>>
           u == IF o.hasUsername = 1 THEN us ELSE <<>>
           p == IF o.hasPassword = 1 THEN ps ELSE <<>>
<1>1. /\ o.MQTTVersion \in {3, 4} /\ o.keepAliveInterval \in Ints
      /\ o.clientID \in Seq(ByteValues) /\ o.willTopic \in Seq(ByteValues)
      /\ o.willMessage \in Seq(ByteValues) /\ o.username \in Seq(ByteValues)
      /\ o.password \in Seq(ByteValues)
  BY DEF ConnectOptions
<1>2. /\ o.willFlag \in 0..1 /\ o.hasUsername \in 0..1 /\ o.hasPassword \in 0..1
      /\ o.cleansession \in 0..1 /\ o.willQoS \in 0..2 /\ o.willRetain \in 0..1
  BY DEF ConnectOptions
<1>3. n \in Seq(Int) /\ Len(n) = (IF o.MQTTVersion = 3 THEN 8 ELSE 6)
  <2>1. \A s \in Seq(Int) : WriteString(s) = WriteInt(Len(s)) \o s
    BY DEF WriteString
  <2>2. \A s \in Seq(Int) : Len(s) \in Nat
    OBVIOUS
  <2>3. \A s \in Seq(Int) : WriteString(s) \in Seq(Int) /\ Len(WriteString(s)) = 2 + Len(s)
    <3> TAKE s \in Seq(Int)
    <3> DEFINE i == WriteInt(Len(s))
    <3>1. i \in Seq(Int) /\ Len(i) = 2
      BY <2>2, IntLength
    <3> HIDE DEF i
    <3>2. i \o s \in Seq(Int) /\ Len(i \o s) = Len(i) + Len(s)
      BY <3>1, Concat, Zenon
    <3> QED  BY <2>1, <3>1, <3>2 DEF i
  <2> DEFINE x == <<77, 81, 84, 84>>
             y == <<77, 81, 73, 115, 100, 112>>
  <2>4. x \in Seq(Int) /\ Len(x) = 4 /\ y \in Seq(Int) /\ Len(y) = 6
    OBVIOUS
  <2>5. n = WriteString(IF o.MQTTVersion = 4 THEN x ELSE y)
    BY DEF ProtocolName
  <2> HIDE DEF x, y, n
  <2>6. /\ WriteString(x) \in Seq(Int) /\ Len(WriteString(x)) = 6
        /\ WriteString(y) \in Seq(Int) /\ Len(WriteString(y)) = 8
    <3>1. /\ WriteString(x) \in Seq(Int) /\ Len(WriteString(x)) = 2 + 4
          /\ WriteString(y) \in Seq(Int) /\ Len(WriteString(y)) = 2 + 6
      BY <2>3, <2>4, Zenon
    <3> QED  BY <3>1
  <2>7. CASE o.MQTTVersion = 4
    <3>1. n = WriteString(x)
      BY <2>5, <2>7
    <3> QED  BY <2>6, <2>7, <3>1
  <2>8. CASE o.MQTTVersion = 3
    <3>1. n = WriteString(y)
      BY <2>5, <2>8
    <3> QED  BY <2>6, <2>8, <3>1
  <2> QED  BY <1>1, <2>7, <2>8
<1>4. f \in Seq(Int) /\ Len(f) = 2
  <2> DEFINE a == IF o.willFlag = 1 THEN 4 + o.willQoS * 8 + o.willRetain * 32 ELSE 0
  <2>0. a \in Int
    BY <1>2
  <2> HIDE DEF a
  <2>1. o.MQTTVersion \in Int /\ ConnectFlags(o) \in Int
    <3> DEFINE b == o.cleansession * 2
               d == o.hasPassword * 64
               e == o.hasUsername * 128
    <3>1. b \in Int /\ d \in Int /\ e \in Int
      BY <1>2
    <3>2. ConnectFlags(o) = b + a + d + e
      BY DEF ConnectFlags, a
    <3> HIDE DEF b, d, e
    <3>3. b + a + d + e \in Int
      BY <2>0, <3>1
    <3>4. ConnectFlags(o) \in Int
      BY <3>2, <3>3, Zenon
    <3> QED  BY <1>1, <3>4
  <2> QED  BY <2>1
<1>5. k \in Seq(Int) /\ Len(k) = 2
  BY <1>1, IntLength, BaseAssumption DEF Ints
<1>6. /\ c \in Seq(Int) /\ Len(c) = Len(o.clientID) + 2
      /\ wt \in Seq(Int) /\ Len(wt) = Len(o.willTopic) + 2
      /\ wm \in Seq(Int) /\ Len(wm) = Len(o.willMessage) + 2
      /\ us \in Seq(Int) /\ Len(us) = Len(o.username) + 2
      /\ ps \in Seq(Int) /\ Len(ps) = Len(o.password) + 2
  BY <1>1, StringLength
<1> HIDE DEF c, wt, wm, us, ps, n, f, k
<1>7. wt \o wm \in Seq(Int) /\ Len(wt \o wm) = Len(wt) + Len(wm)
  BY <1>6, Concat, Zenon
<1>8. w \in Seq(Int) /\ Len(w) = (IF o.willFlag = 1 THEN Len(wt \o wm) ELSE 0)
  BY <1>2, <1>7, OptionalLength
<1>9. u \in Seq(Int) /\ Len(u) = (IF o.hasUsername = 1 THEN Len(us) ELSE 0)
  BY <1>2, <1>6, OptionalLength
<1>10. p \in Seq(Int) /\ Len(p) = (IF o.hasPassword = 1 THEN Len(ps) ELSE 0)
  BY <1>2, <1>6, OptionalLength
<1>11. ConnectRest(o) = n \o f \o k \o c \o w \o u \o p
  BY DEF ConnectRest, n, f, k, c, wt, wm, us, ps
<1> HIDE DEF w, u, p
<1>12. Len(ConnectRest(o)) = Len(n) + Len(f) + Len(k) + Len(c) + Len(w) + Len(u) + Len(p)
  <2>1. n \o f \in Seq(Int) /\ Len(n \o f) = Len(n) + Len(f)
    BY <1>3, <1>4, Concat, Zenon
  <2>2. n \o f \o k \in Seq(Int) /\ Len(n \o f \o k) = Len(n \o f) + Len(k)
    BY <1>5, <2>1, Concat, Zenon
  <2>3. n \o f \o k \o c \in Seq(Int) /\ Len(n \o f \o k \o c) = Len(n \o f \o k) + Len(c)
    BY <1>6, <2>2, Concat, Zenon
  <2>4. n \o f \o k \o c \o w \in Seq(Int) /\ Len(n \o f \o k \o c \o w) = Len(n \o f \o k \o c) + Len(w)
    BY <1>8, <2>3, Concat, Zenon
  <2>5. n \o f \o k \o c \o w \o u \in Seq(Int) /\ Len(n \o f \o k \o c \o w \o u) = Len(n \o f \o k \o c \o w) + Len(u)
    BY <1>9, <2>4, Concat, Zenon
  <2>6. Len(n \o f \o k \o c \o w \o u \o p) = Len(n \o f \o k \o c \o w \o u) + Len(p)
    BY <1>10, <2>5, Concat, Zenon
  <2> QED  BY <1>11, <2>1, <2>2, <2>3, <2>4, <2>5, <2>6, Zenon
<1> DEFINE x0 == IF o.MQTTVersion = 3 THEN 8 ELSE 6
           x1 == Len(o.clientID)
           x2 == Len(o.willTopic)
           x3 == Len(o.willMessage)
           x4 == Len(o.username)
           x5 == Len(o.password)
<1>13. x1 \in Nat /\ x2 \in Nat /\ x3 \in Nat /\ x4 \in Nat /\ x5 \in Nat
  BY <1>1
<1>14. /\ Len(n) = x0 /\ Len(f) = 2 /\ Len(k) = 2 /\ Len(c) = x1 + 2
       /\ Len(w) = (IF o.willFlag = 1 THEN x2 + 2 + (x3 + 2) ELSE 0)
       /\ Len(u) = (IF o.hasUsername = 1 THEN x4 + 2 ELSE 0)
       /\ Len(p) = (IF o.hasPassword = 1 THEN x5 + 2 ELSE 0)
  BY <1>3, <1>4, <1>5, <1>6, <1>7, <1>8, <1>9, <1>10, Zenon
<1>15. /\ ConnectLength(o) = (IF o.MQTTVersion = 3 THEN 12 ELSE 10) + x1 + 2
                              + (IF o.willFlag = 1 THEN x2 + 2 + x3 + 2 ELSE 0)
                              + (IF o.hasUsername = 1 THEN x4 + 2 ELSE 0)
                              + (IF o.hasPassword = 1 THEN x5 + 2 ELSE 0)
  BY DEF ConnectLength
<1> HIDE DEF x1, x2, x3, x4, x5
<1> DEFINE ln == Len(n)  lf == Len(f)  lk == Len(k)  lc == Len(c)
           lw == Len(w)  lu == Len(u)  lp == Len(p)  lr == Len(ConnectRest(o))
<1>16. lr = ln + lf + lk + lc + lw + lu + lp
  BY <1>12
<1>17. /\ ln = x0 /\ lf = 2 /\ lk = 2 /\ lc = x1 + 2
       /\ lw = (IF o.willFlag = 1 THEN x2 + 2 + (x3 + 2) ELSE 0)
       /\ lu = (IF o.hasUsername = 1 THEN x4 + 2 ELSE 0)
       /\ lp = (IF o.hasPassword = 1 THEN x5 + 2 ELSE 0)
  BY <1>14, Zenon
<1> HIDE DEF ln, lf, lk, lc, lw, lu, lp, lr
<1>18. lr = ConnectLength(o)
  BY <1>13, <1>15, <1>16, <1>17
<1> QED  BY <1>18 DEF lr

(* What the serializing functions write fits in the buffer when            *)
(* MQTTPacket_len of the announced length does.                            *)
THEOREM PacketFits ==
    ASSUME NEW h \in Int, NEW rest \in Seq(Int), Len(rest) \in Lengths,
           NEW buflen \in Nat, PacketLen(Len(rest)) <= buflen
    PROVE  Len(Packet(h, Len(rest), rest)) <= buflen
<1> DEFINE n == Len(rest)
           k == Len(Encode(n))
           q == PacketLen(n)
<1>1. Len(Packet(h, n, rest)) = 1 + k + n /\ k \in 1..4
  BY PacketParts
<1>2. q - (1 + k + n) \in {0, 1}
  BY ReservedLength
<1>3. n \in Nat /\ q \in Int /\ q <= buflen
  <2>1. n \in Nat /\ q <= buflen
    OBVIOUS
  <2>2. q \in Int
    BY <2>1, BaseAssumption DEF PacketLen
  <2> QED  BY <2>1, <2>2
<1> HIDE DEF n, k, q
<1>4. 1 + k + n <= buflen
  BY <1>1, <1>2, <1>3
<1> QED  BY <1>1, <1>4 DEF n

-----------------------------------------------------------------------------
(* Reading back what was written.                                          *)

(* p has the header h, and rest where the deserializing functions look *)
ReadsAs(p, h, rest) ==
    /\ p \in Seq(Int) /\ p[1] = h
    /\ Start(p) \in 3..6 /\ End(p) = Start(p) + Len(rest)
    /\ Len(p) = End(p) - 1
    /\ \A i \in 1..Len(rest) : p[Start(p) - 1 + i] = rest[i]

LEMMA PacketRead ==
    ASSUME NEW h \in Int, NEW rest \in Seq(Int), Len(rest) \in Lengths
    PROVE  ReadsAs(Packet(h, Len(rest), rest), h, rest)
<1> DEFINE n == Len(rest)
           p == Packet(h, n, rest)
           k == Len(Encode(n))
<1>1. /\ p \in Seq(Int) /\ k \in 1..4 /\ Len(p) = 1 + k + n /\ p[1] = h
      /\ \A i \in 1..n : p[1 + k + i] = rest[i]
  BY PacketParts
<1>2. Holds(p, 2, Encode(n))
  BY PacketParts
<1>3. n \in Nat /\ n \in Lengths
  OBVIOUS
<1> HIDE DEF p, n
<1>4. Digits(p, 2) = k /\ Decode(p, 2) = n
  BY <1>2, <1>3, LengthRoundTrip
<1> HIDE DEF k
<1>5. Start(p) = 2 + k /\ End(p) = Start(p) + n
  BY <1>4 DEF Start, End
<1>6. Start(p) \in 3..6 /\ Len(p) = End(p) - 1 /\ Start(p) - 1 = 1 + k
  BY <1>1, <1>3, <1>5
<1>7. \A i \in 1..n : p[Start(p) - 1 + i] = rest[i]
  BY <1>1, <1>6
<1> QED  BY <1>1, <1>5, <1>6, <1>7 DEF p, n, ReadsAs

(* MQTTDeserialize_ack reads what MQTTSerialize_ack wrote.                 *)
THEOREM AckRoundTrip ==
    ASSUME NEW packettype \in 0..15, NEW dup \in 0..1, NEW packetid \in Ints
    PROVE  LET p == SerializeAck(packettype, dup, packetid)
           IN  /\ AckResult(p) = 1
               /\ DeserializeAck(p) = [packettype |-> packettype, dup |-> dup, packetid |-> packetid]
<1> DEFINE qos == IF packettype = PUBREL_MSG THEN 1 ELSE 0
           h == Header(packettype, dup, qos, 0)
           w == WriteInt(packetid)
           p == SerializeAck(packettype, dup, packetid)
<1>1. qos \in 0..3 /\ 0 \in 0..1
  OBVIOUS
<1> HIDE DEF qos
<1>2. h \in Int /\ TypeOf(h) = packettype /\ DupOf(h) = dup
  <2>1. HasBits(h, packettype, dup, qos, 0)
    BY <1>1, HeaderRoundTrip
  <2> HIDE DEF h
  <2> QED  BY <2>1 DEF HasBits
<1> HIDE DEF h
<1>3. w \in Seq(Int) /\ Len(w) = 2 /\ 2 * Base * w[1] + w[2] = packetid
  BY IntRoundTrip
<1> HIDE DEF w
<1>4. p = Packet(h, Len(w), w)
  BY <1>3 DEF SerializeAck, h, w, qos
<1>5. Len(w) \in Lengths
  <2>1. Base \in Nat /\ Base >= 2
    BY BaseAssumption
  <2>2. Base * Base \in Nat /\ Base * Base >= 2 * 2
    BY <2>1
  <2> DEFINE b == Base * Base
  <2>3. \A x \in Nat : x >= 4 => x * x >= 4 * 4
    OBVIOUS
  <2>4. b * b >= 16 /\ b * b \in Nat
    BY <2>2, <2>3
  <2>5. Base * Base * Base * Base = b * b
    BY <2>1
  <2> HIDE DEF b
  <2> QED  BY <1>3, <2>4, <2>5 DEF Lengths
<1> HIDE DEF p
<1>6. /\ p \in Seq(Int) /\ p[1] = h
      /\ Start(p) \in 3..6 /\ End(p) = Start(p) + Len(w)
      /\ Len(p) = End(p) - 1
      /\ \A i \in 1..Len(w) : p[Start(p) - 1 + i] = w[i]
  <2>1. ReadsAs(p, h, w)
    BY <1>2, <1>3, <1>4, <1>5, PacketRead, Zenon
  <2> QED  BY <2>1, Zenon DEF ReadsAs
<1>7. Len(w) = 2
  BY <1>3
<1>8. p[Start(p)] = w[1] /\ p[Start(p) + 1] = w[2]
  <2>1. /\ Start(p) - 1 + 1 = Start(p) /\ Start(p) - 1 + 2 = Start(p) + 1
        /\ 1 \in 1..Len(w) /\ 2 \in 1..Len(w)
    BY <1>6, <1>7
  <2> QED  BY <1>6, <2>1, Zenon
<1>9. ReadInt(p, Start(p)) = packetid
  BY <1>3, <1>8 DEF ReadInt
<1>10. DeserializeAck(p) = [packettype |-> packettype, dup |-> dup, packetid |-> packetid]
  BY <1>2, <1>6, <1>9 DEF DeserializeAck
<1>11. End(p) - Start(p) = 2
  BY <1>6, <1>7
<1>12. AckResult(p) = 1
  BY <1>11 DEF AckResult, AckIsRead
<1> QED  BY <1>10, <1>12 DEF p

LEMMA SubSeqIs ==
    ASSUME NEW p \in Seq(Int), NEW t \in Seq(Int), NEW a \in Nat \ {0},
           a + Len(t) - 1 <= Len(p),
           \A i \in 1..Len(t) : p[a - 1 + i] = t[i]
    PROVE  SubSeq(p, a, a + Len(t) - 1) = t
<1> DEFINE q == SubSeq(p, a, a + Len(t) - 1)
<1>1. Len(t) \in Nat /\ Len(p) \in Nat
  OBVIOUS
<1>2. q \in Seq(Int) /\ Len(q) = Len(t)
  BY <1>1
<1>3. \A i \in 1..Len(t) : q[i] = p[a - 1 + i]
  BY <1>1
<1> HIDE DEF q
<1>4. \A i \in 1..Len(t) : q[i] = t[i]
  BY <1>3
<1> QED  BY <1>2, <1>4 DEF q

(* MQTTDeserialize_publish reads back every message that                   *)
(* MQTTSerialize_publish wrote: its flags, its topic and payload byte for  *)
(* byte, and above QoS 0 its packet id.                                    *)
THEOREM PublishRoundTrip ==
    ASSUME NEW m \in PublishMessages, Len(m.topicName) \in Ints, PublishLength(m) \in Lengths,
           NEW packetid
    PROVE  LET p == SerializePublish(m)
           IN  /\ PublishIsRead(p) /\ PublishResult(p) = 1
               /\ DeserializePublish(p, packetid)
                    = [m EXCEPT !.packetid = IF m.qos > 0 THEN m.packetid ELSE packetid]
<1> DEFINE t == m.topicName
           d == m.payload
           n == Len(t) + (IF m.qos > 0 THEN 4 ELSE 2)
           r == PublishRest(m)
           h == Header(PUBLISH_MSG, m.dup, m.qos, m.retained)
           p == SerializePublish(m)
           S == Start(p)
<1>1. /\ m.dup \in 0..1 /\ m.qos \in 0..2 /\ m.retained \in 0..1
      /\ t \in Seq(Int) /\ d \in Seq(Int) /\ Len(t) \in Nat /\ Len(d) \in Nat
  BY BaseAssumption DEF PublishMessages, ByteValues
<1>2. /\ r \in Seq(Int) /\ Len(r) = PublishLength(m) /\ Len(r) = n + Len(d)
      /\ 2 * Base * r[1] + r[2] = Len(t)
      /\ \A i \in 1..Len(t) : r[2 + i] = t[i]
      /\ m.qos > 0 => 2 * Base * r[Len(t) + 3] + r[Len(t) + 4] = m.packetid
      /\ \A i \in 1..Len(d) : r[n + i] = d[i]
  BY PublishParts
<1>3. TypeOf(h) = 3 /\ DupOf(h) = m.dup /\ QosOf(h) = m.qos /\ RetainOf(h) = m.retained /\ h \in Int
  <2>1. PUBLISH_MSG \in 0..15 /\ PUBLISH_MSG = 3 /\ m.qos \in 0..3
    BY <1>1 DEF PUBLISH_MSG
  <2>2. HasBits(h, PUBLISH_MSG, m.dup, m.qos, m.retained)
    BY <1>1, <2>1, HeaderRoundTrip
  <2> HIDE DEF h
  <2> QED  BY <2>1, <2>2 DEF HasBits
<1>4. p = Packet(h, Len(r), r)
  BY <1>2 DEF SerializePublish
<1> HIDE DEF t, d, r, h, p
<1>5. ReadsAs(p, h, r)
  BY <1>2, <1>3, <1>4, PacketRead, Zenon
<1>6. /\ p \in Seq(Int) /\ p[1] = h /\ S \in 3..6 /\ End(p) = S + Len(r) /\ Len(p) = End(p) - 1
      /\ \A i \in 1..Len(r) : p[S - 1 + i] = r[i]
  BY <1>5 DEF ReadsAs
<1> HIDE DEF S
<1>7. n \in Nat /\ n >= Len(t) + 2 /\ (m.qos > 0 => n = Len(t) + 4) /\ (~(m.qos > 0) => n = Len(t) + 2)
  BY <1>1
<1> HIDE DEF n
<1>8. Len(r) \in Nat /\ Len(r) = n + Len(d) /\ End(p) = S + Len(r) /\ S \in Nat
  BY <1>2, <1>6
<1>9. TopicLength(p) = Len(t)
  <2>1. p[S] = r[1] /\ p[S + 1] = r[2]
    <3>1. 1 \in 1..Len(r) /\ 2 \in 1..Len(r) /\ S - 1 + 1 = S /\ S - 1 + 2 = S + 1
      BY <1>1, <1>7, <1>8
    <3> QED  BY <1>6, <3>1, Zenon
  <2> QED  BY <1>2, <2>1 DEF TopicLength, ReadInt, S
<1>10. PublishIsRead(p)
  <2>1. TypeOf(p[1]) = PUBLISH_MSG
    BY <1>3, <1>6 DEF PUBLISH_MSG
  <2>2. End(p) - S > 1 /\ S + 2 + Len(t) <= End(p)
    BY <1>1, <1>7, <1>8
  <2> QED  BY <1>9, <2>1, <2>2 DEF PublishIsRead, S
<1>11. SubSeq(p, S + 2, S + 2 + Len(t) - 1) = t
  <2>1. \A i \in 1..Len(t) : p[S + 2 - 1 + i] = t[i]
    <3> TAKE i \in 1..Len(t)
    <3>1. 2 + i \in 1..Len(r) /\ S - 1 + (2 + i) = S + 2 - 1 + i
      BY <1>1, <1>7, <1>8
    <3>2. p[S - 1 + (2 + i)] = r[2 + i]
      BY <1>6, <3>1
    <3> QED  BY <1>2, <3>1, <3>2
  <2>2. S + 2 \in Nat \ {0} /\ S + 2 + Len(t) - 1 <= Len(p)
    BY <1>1, <1>6, <1>7, <1>8, SMTT(60)
  <2> QED  BY <1>1, <1>6, <2>1, <2>2, SubSeqIs
<1>12. SubSeq(p, S + n, S + n + Len(d) - 1) = d
  <2> DEFINE a == S + n
  <2>1. \A i \in 1..Len(d) : p[a - 1 + i] = d[i]
    <3> TAKE i \in 1..Len(d)
    <3>1. n + i \in 1..Len(r) /\ S - 1 + (n + i) = a - 1 + i
      BY <1>1, <1>7, <1>8
    <3>2. p[S - 1 + (n + i)] = r[n + i]
      BY <1>6, <3>1
    <3> QED  BY <1>2, <3>1, <3>2
  <2>2. a \in Nat \ {0} /\ a + Len(d) - 1 <= Len(p)
    BY <1>1, <1>6, <1>7, <1>8
  <2> HIDE DEF a
  <2>3. SubSeq(p, a, a + Len(d) - 1) = d
    BY <1>1, <1>6, <2>1, <2>2, SubSeqIs
  <2> QED  BY <2>3 DEF a
<1>13. m.qos > 0 => ReadInt(p, S + 2 + Len(t)) = m.packetid
  <2> HAVE m.qos > 0
  <2>1. /\ Len(t) + 3 \in 1..Len(r) /\ Len(t) + 4 \in 1..Len(r)
        /\ S - 1 + (Len(t) + 3) = S + 2 + Len(t) /\ S - 1 + (Len(t) + 4) = S + 2 + Len(t) + 1
    BY <1>1, <1>7, <1>8
  <2>2. p[S + 2 + Len(t)] = r[Len(t) + 3] /\ p[S + 2 + Len(t) + 1] = r[Len(t) + 4]
    BY <1>6, <2>1, Zenon
  <2> QED  BY <1>2, <2>2 DEF ReadInt
<1>14. PublishResult(p) = 1
  BY <1>10 DEF PublishResult
<1>15. DeserializePublish(p, packetid)
         = [dup |-> m.dup, qos |-> m.qos, retained |-> m.retained,
            packetid |-> IF m.qos > 0 THEN m.packetid ELSE packetid,
            topicName |-> t, payload |-> d]
  <2> DEFINE data == IF m.qos > 0 THEN S + 2 + Len(t) + 2 ELSE S + 2 + Len(t)
  <2>1. DeserializePublish(p, packetid)
          = [dup |-> m.dup, qos |-> m.qos, retained |-> m.retained,
             packetid |-> IF m.qos > 0 THEN ReadInt(p, S + 2 + Len(t)) ELSE packetid,
             topicName |-> SubSeq(p, S + 2, S + 2 + Len(t) - 1),
             payload |-> SubSeq(p, data, End(p) - 1)]
    <3>1. /\ QosOf(p[1]) = m.qos /\ DupOf(p[1]) = m.dup /\ RetainOf(p[1]) = m.retained
          /\ Start(p) = S /\ TopicLength(p) = Len(t)
      BY <1>3, <1>6, <1>9, Zenon DEF S
    <3> DEFINE qos == QosOf(p[1])
               topic == Start(p) + 2
               id == topic + TopicLength(p)
    <3>2. DeserializePublish(p, packetid)
            = [dup |-> DupOf(p[1]), qos |-> qos, retained |-> RetainOf(p[1]),
               packetid |-> IF qos > 0 THEN ReadInt(p, id) ELSE packetid,
               topicName |-> SubSeq(p, topic, id - 1),
               payload |-> SubSeq(p, IF qos > 0 THEN id + 2 ELSE id, End(p) - 1)]
      BY DEF DeserializePublish
    <3>3. /\ qos = m.qos /\ topic = S + 2 /\ id = S + 2 + Len(t)
          /\ (IF qos > 0 THEN id + 2 ELSE id) = data
      BY <3>1, Zenon
    <3> HIDE DEF qos, topic, id, data
    <3> DEFINE x == IF qos > 0 THEN ReadInt(p, id) ELSE packetid
               y == SubSeq(p, topic, id - 1)
               z == SubSeq(p, IF qos > 0 THEN id + 2 ELSE id, End(p) - 1)
    <3>4. /\ x = IF m.qos > 0 THEN ReadInt(p, S + 2 + Len(t)) ELSE packetid
          /\ y = SubSeq(p, S + 2, S + 2 + Len(t) - 1)
          /\ z = SubSeq(p, data, End(p) - 1)
      <4>1. x = IF m.qos > 0 THEN ReadInt(p, S + 2 + Len(t)) ELSE packetid
        BY <3>3
      <4>2. y = SubSeq(p, S + 2, S + 2 + Len(t) - 1)
        <5>1. topic = S + 2 /\ id - 1 = S + 2 + Len(t) - 1
          BY <1>1, <1>8, <3>3
        <5> QED  BY <5>1, Zenon
      <4>3. z = SubSeq(p, data, End(p) - 1)
        BY <3>3
      <4> QED  BY <4>1, <4>2, <4>3
    <3>5. DeserializePublish(p, packetid)
            = [dup |-> m.dup, qos |-> m.qos, retained |-> m.retained,
               packetid |-> x, topicName |-> y, payload |-> z]
      BY <3>1, <3>2, <3>3
    <3> HIDE DEF x, y, z
    <3> QED  BY <3>4, <3>5
  <2>2. data = S + n /\ End(p) - 1 = S + n + Len(d) - 1
    <3>1. CASE m.qos > 0
      <4>1. data = S + 2 + Len(t) + 2 /\ n = Len(t) + 4
        BY <1>7, <3>1
      <4> HIDE DEF data
      <4> QED  BY <1>1, <1>8, <4>1
    <3>2. CASE ~(m.qos > 0)
      <4>1. data = S + 2 + Len(t) /\ n = Len(t) + 2
        BY <1>7, <3>2
      <4> HIDE DEF data
      <4> QED  BY <1>1, <1>8, <4>1
    <3> QED  BY <3>1, <3>2
  <2> HIDE DEF data
  <2>3. SubSeq(p, data, End(p) - 1) = d
    BY <1>12, <2>2
  <2>4. (IF m.qos > 0 THEN ReadInt(p, S + 2 + Len(t)) ELSE packetid)
          = IF m.qos > 0 THEN m.packetid ELSE packetid
    BY <1>13, Zenon
  <2> QED  BY <1>11, <2>1, <2>3, <2>4, Zenon
<1>16. [m EXCEPT !.packetid = IF m.qos > 0 THEN m.packetid ELSE packetid]
         = [dup |-> m.dup, qos |-> m.qos, retained |-> m.retained,
            packetid |-> IF m.qos > 0 THEN m.packetid ELSE packetid,
            topicName |-> t, payload |-> d]
  BY DEF PublishMessages, t, d
<1> QED  BY <1>10, <1>14, <1>15, <1>16, Zenon DEF p

-----------------------------------------------------------------------------

(* The facts about sequences that the proofs use. *)
LEMMA Empty ==
    ASSUME NEW S
    PROVE  <<>> \in Seq(S) /\ Len(<<>>) = 0
  OBVIOUS

(* Concatenation puts the second sequence behind the first. *)
LEMMA Lengthen ==
    ASSUME NEW S, NEW s \in Seq(S), NEW t \in Seq(S)
    PROVE  /\ s \o t \in Seq(S)
           /\ Len(s) \in Nat /\ Len(t) \in Nat /\ Len(s \o t) = Len(s) + Len(t)
           /\ \A i \in 1..Len(s) : (s \o t)[i] = s[i]
           /\ \A i \in 1..Len(t) : (s \o t)[Len(s) + i] = t[i]
  OBVIOUS

(* Append stays within the sequences over a set. *)
LEMMA Appended ==
    ASSUME NEW S, NEW s \in Seq(S), NEW x \in S
    PROVE  Append(s, x) \in Seq(S)
  OBVIOUS

(* A piece of a sequence holds the elements between its ends. *)
LEMMA Piece ==
    ASSUME NEW S, NEW s \in Seq(S), NEW n \in Nat, NEW k \in Nat, n + k <= Len(s)
    PROVE  /\ SubSeq(s, n + 1, n + k) \in Seq(S)
           /\ Len(SubSeq(s, n + 1, n + k)) = k
           /\ \A i \in 1..k : SubSeq(s, n + 1, n + k)[i] = s[n + i]
  OBVIOUS

(* Sequences of one length that agree everywhere are equal. *)
LEMMA SameSeq ==
    ASSUME NEW S, NEW s \in Seq(S), NEW t \in Seq(S), Len(s) = Len(t),
           \A i \in 1..Len(s) : s[i] = t[i]
    PROVE  s = t
  OBVIOUS

-----------------------------------------------------------------------------
(* What recv appends to the buffer of esp32_read continues it with the     *)
(* next bytes of the stream.                                               *)
LEMMA StoredFacts ==
    ASSUME NetTypeOK, NEW k \in Nat \ {0},
           taken + k <= Len(stream),
           taken = from + Len(buffer),
           \A i \in 1..Len(buffer) : buffer[i] = stream[from + i]
    PROVE  LET new == Stored(SubSeq(stream, taken + 1, taken + k))
           IN  /\ new \in Seq(Byte)
               /\ Len(new) = Len(buffer) + k
               /\ \A i \in 1..Len(new) : new[i] = stream[from + i]
<1> DEFINE piece == SubSeq(stream, taken + 1, taken + k)
<1>1. /\ stream \in Seq(Byte) /\ buffer \in Seq(Byte)
      /\ taken \in Nat /\ from \in Nat /\ Len(buffer) \in Nat
  BY DEF NetTypeOK
<1>2. /\ piece \in Seq(Byte) /\ Len(piece) = k
      /\ \A i \in 1..k : piece[i] = stream[taken + i]
  BY <1>1, Piece
<1> HIDE DEF piece
<1>3. /\ buffer \o piece \in Seq(Byte)
      /\ Len(buffer \o piece) = Len(buffer) + k
      /\ \A i \in 1..Len(buffer) : (buffer \o piece)[i] = buffer[i]
      /\ \A i \in 1..k : (buffer \o piece)[Len(buffer) + i] = piece[i]
  <2>1. /\ buffer \o piece \in Seq(Byte)
        /\ Len(buffer \o piece) = Len(buffer) + Len(piece)
        /\ \A i \in 1..Len(buffer) : (buffer \o piece)[i] = buffer[i]
        /\ \A i \in 1..Len(piece) : (buffer \o piece)[Len(buffer) + i] = piece[i]
    <3>1. buffer \in Seq(Byte) /\ piece \in Seq(Byte)
      BY <1>1, <1>2
    <3> QED  BY <3>1, Lengthen
  <2> QED  BY <1>2, <2>1
<1>4. ASSUME NEW i \in 1..Len(buffer) + k
      PROVE  (buffer \o piece)[i] = stream[from + i]
  <2>1. CASE i <= Len(buffer)
    BY <1>1, <1>3, <2>1
  <2>2. CASE ~(i <= Len(buffer))
    <3>1. PICK j \in 1..k : i = Len(buffer) + j
      <4>1. i - Len(buffer) \in 1..k /\ i = Len(buffer) + (i - Len(buffer))
        BY <1>1, <2>2
      <4> QED  BY <4>1
    <3>2. taken + j = from + i
      BY <1>1, <3>1
    <3> QED  BY <1>2, <1>3, <3>1, <3>2
  <2> QED  BY <2>1, <2>2, Zenon
<1> QED  BY <1>3, <1>4, Zenon DEF Stored, piece

(* Initially no descriptor is open and no read is under way. *)
LEMMA NetInitInv == NetInit => NetInv
<1> SUFFICES ASSUME NetInit PROVE NetInv
  OBVIOUS
<1>1. <<>> \in Seq(Byte) /\ Len(<<>>) = 0
  BY Empty
<1>2. stream \in Seq(Byte) /\ buffer \in Seq(Byte) /\ got \in Seq(Byte)
  BY <1>1 DEF NetInit
<1>a. connected \in BOOLEAN /\ open \in BOOLEAN /\ reading \in BOOLEAN
  BY Zenon DEF NetInit
<1>3. NetTypeOK
  BY <1>2, <1>a, NetworkAssumption DEF NetInit, NetTypeOK, SocketStates, Errors
<1> QED  BY <1>1, <1>3 DEF NetInit, NetInv, ConnectedIsOurs, BufferIsStream

(* The calls that open and close a connection keep the invariant. *)
LEMMA ConnectionInv ==
    ASSUME NetInv, ConnectStep \/ NetworkInit \/ NetworkDisconnect
    PROVE  NetInv'
<1>1. <<>> \in Seq(Byte) /\ Len(<<>>) = 0
  BY Empty
<1> USE NetworkAssumption DEF NetInv, NetTypeOK, ConnectedIsOurs, BufferIsStream,
        SocketStates, Errors, readVars
<1>2. CASE ConnectWithoutSocket  BY <1>2 DEF ConnectWithoutSocket
<1>3. CASE ConnectRefused  BY <1>3 DEF ConnectRefused
<1>4. CASE Connect  BY <1>4 DEF Connect
<1>5. ASSUME ConnectionGone PROVE stream' \in Seq(Byte) /\ got' \in Seq(Byte) /\ Len(stream') = 0
  BY <1>1, <1>5 DEF ConnectionGone
<1>6. CASE NetworkInit
  <2>1. ConnectionGone /\ ~reading
    BY <1>6 DEF NetworkInit
  <2>2. connected' \in BOOLEAN /\ open' \in BOOLEAN /\ reading' \in BOOLEAN /\ ~reading'
    BY <2>1, Zenon DEF ConnectionGone
  <2> QED  BY <1>5, <1>6, <2>1, <2>2 DEF NetworkInit, ConnectionGone
<1>7. CASE NetworkDisconnect
  <2>1. ConnectionGone /\ ~reading
    BY <1>7 DEF NetworkDisconnect
  <2>2. connected' \in BOOLEAN /\ open' \in BOOLEAN /\ reading' \in BOOLEAN /\ ~reading'
    BY <2>1, Zenon DEF ConnectionGone
  <2> QED  BY <1>5, <1>7, <2>1, <2>2 DEF NetworkDisconnect, ConnectionGone
<1> QED  BY <1>2, <1>3, <1>4, <1>6, <1>7 DEF ConnectStep

(* recv after recv, esp32_read keeps the invariant. *)
LEMMA ReadStepInv ==
    ASSUME NetInv, ReadStep
    PROVE  NetInv'
<1>1. <<>> \in Seq(Byte) /\ Len(<<>>) = 0
  BY Empty
<1>2. Len(buffer) \in Nat /\ Len(stream) \in Nat
  BY DEF NetInv, NetTypeOK
<1>3. ASSUME NEW k \in 1..MaxLen, RecvData(k)
      PROVE  NetInv'
  <2>1. /\ k \in Nat \ {0} /\ taken + k <= Len(stream)
        /\ taken = from + Len(buffer)
        /\ \A i \in 1..Len(buffer) : buffer[i] = stream[from + i]
    <3>1. k \in Nat \ {0}
      BY NetworkAssumption
    <3>2. taken + k <= Len(stream) /\ reading /\ connected
      BY <1>3 DEF RecvData, Receiving
    <3> QED  BY <3>1, <3>2 DEF NetInv, BufferIsStream
  <2>2. CASE errno = "other"
    <3>1. /\ buffer' \in Seq(Byte)
          /\ Len(buffer') = Len(buffer) + k
          /\ \A i \in 1..Len(buffer') : buffer'[i] = stream[from + i]
      BY <1>3, <2>1, <2>2, StoredFacts, SMTT(60) DEF RecvData, NetInv
    <3>2. /\ connected' = connected /\ taken' = taken + k /\ k <= asked - Len(buffer)
          /\ UNCHANGED <<my_socket, leaked, open, errno, stream, reading, asked, from, got>>
      BY <1>3, <2>2 DEF RecvData, socketVars
    <3>3. NetTypeOK'
      BY <2>1, <3>1, <3>2 DEF NetInv, NetTypeOK
    <3>4. BufferIsStream'
      <4>1. reading /\ open /\ asked > 0 /\ asked \in Nat /\ from \in Nat
        BY <1>3, NetworkAssumption DEF RecvData, Receiving, NetInv, NetTypeOK, BufferIsStream
      <4>2. /\ Len(buffer') <= asked
            /\ taken' = from + Len(buffer') /\ taken' <= from + asked
            /\ taken' <= Len(stream)
        BY <1>2, <2>1, <3>1, <3>2, <4>1
      <4>3. from + Len(buffer') <= taken'
        BY <1>2, <2>1, <3>1, <4>1, <4>2
      <4> QED  BY <3>1, <3>2, <4>1, <4>2, <4>3 DEF BufferIsStream
    <3> QED
      BY <3>2, <3>3, <3>4 DEF NetInv, ConnectedIsOurs
  <2>3. CASE errno = "gone"
    <3>1. connected' \in BOOLEAN /\ ~connected' /\ buffer' = buffer
      BY <1>3, <2>3, Zenon DEF RecvData
    <3> QED
    BY <1>2, <1>3, <2>1, <2>3, <3>1
    DEF RecvData, Receiving, socketVars, NetInv, NetTypeOK, ConnectedIsOurs, BufferIsStream
  <2> QED  BY <1>3, <2>2, <2>3 DEF RecvData
<1> USE DEF NetInv, NetTypeOK, ConnectedIsOurs, BufferIsStream, Errors,
        Receiving, EndOfRead, socketVars, readVars
<1>4. CASE RecvEnd  BY <1>4, Zenon DEF RecvEnd
<1>5. CASE RecvReset  BY <1>5 DEF RecvReset
<1>6. CASE RecvFails  BY <1>1, <1>6, Zenon DEF RecvFails
<1>7. CASE ReadReturns  BY <1>1, <1>7, Zenon DEF ReadReturns
<1> QED  BY <1>3, <1>4, <1>5, <1>6, <1>7 DEF ReadStep

(* A read that begins, a write that fails, a burst of the peer and a       *)
(* connection that is lost keep it.                                        *)
LEMMA BeginReadInv ==
    ASSUME NetInv, NEW n \in Nat \ {0}, BeginRead(n)
    PROVE  NetInv'
<1>1. <<>> \in Seq(Byte) /\ Len(<<>>) = 0
  BY Empty
<1> QED
  BY <1>1 DEF BeginRead, socketVars, NetInv, NetTypeOK, ConnectedIsOurs, BufferIsStream, Errors

(* A write that fails says nothing about the bytes read. *)
LEMMA WriteFailsInv ==
    ASSUME NetInv, WriteFails
    PROVE  NetInv'
<1>1. connected' \in BOOLEAN /\ (connected' => connected)
  <2>1. connected \in BOOLEAN
    BY DEF NetInv, NetTypeOK
  <2>2. CASE connected' = FALSE
    BY <2>2, Zenon
  <2>3. CASE connected' = connected
    BY <2>1, <2>3
  <2> QED  BY <2>2, <2>3, Zenon DEF WriteFails
<1> QED
  BY <1>1 DEF WriteFails, socketVars, readVars, NetInv, NetTypeOK, ConnectedIsOurs,
              BufferIsStream, Errors

(* What the peer sends goes behind what the stream holds. *)
LEMMA PeerSendsInv ==
    ASSUME NetInv, NEW d \in Seq(Byte), PeerSends(d)
    PROVE  NetInv'
<1>1. /\ stream' \in Seq(Byte) /\ Len(stream) \in Nat /\ Len(d) \in Nat
      /\ Len(stream') = Len(stream) + Len(d)
      /\ \A i \in 1..Len(stream) : stream'[i] = stream[i]
  BY Lengthen DEF PeerSends, NetInv, NetTypeOK
<1>2. ASSUME reading, NEW i \in 1..Len(buffer)
      PROVE  buffer[i] = stream'[from + i]
  <2>1. Len(buffer) \in Nat
    BY DEF NetInv, NetTypeOK
  <2>2. from + i \in 1..Len(stream)
    BY <1>1, <1>2, <2>1 DEF NetInv, NetTypeOK, BufferIsStream
  <2> QED  BY <1>1, <1>2, <2>2 DEF NetInv, BufferIsStream
<1> QED
  BY <1>1, <1>2
  DEF PeerSends, socketVars, readVars, NetInv, NetTypeOK, ConnectedIsOurs, BufferIsStream

(* A connection that fails keeps its descriptor. *)
LEMMA FailureInv ==
    ASSUME NetInv, FailureStep
    PROVE  NetInv'
  BY SMTT(60) DEF FailureStep, SocketFails, readVars, NetInv, NetTypeOK, ConnectedIsOurs, BufferIsStream,
         SocketStates

(* The invariant speaks of the variables of Network alone. *)
LEMMA UnchangedInv ==
    ASSUME NetInv, UNCHANGED netVars
    PROVE  NetInv'
<1>1. NetTypeOK'
  BY DEF NetInv, NetTypeOK, netVars
<1>2. BufferIsStream'
  BY DEF NetInv, BufferIsStream, netVars
<1> QED  BY <1>1, <1>2 DEF netVars, NetInv, ConnectedIsOurs

(* Every step of every caller keeps the invariant. *)
LEMMA NetNextInv == NetInv /\ [NetNext]_netVars => NetInv'
<1> SUFFICES ASSUME NetInv, [NetNext]_netVars PROVE NetInv'
  OBVIOUS
<1>1. ASSUME NEW n \in 1..MaxLen, BeginRead(n)
      PROVE  NetInv'
  <2>1. n \in Nat \ {0}
    BY NetworkAssumption
  <2> QED  BY <1>1, <2>1, BeginReadInv
<1>2. ASSUME NEW d \in Data, PeerSends(d)
      PROVE  NetInv'
  BY <1>2, PeerSendsInv DEF Data
<1> QED
  BY <1>1, <1>2, ConnectionInv, ReadStepInv, WriteFailsInv, FailureInv, UnchangedInv
  DEF NetNext, WriteTakes

(* The socket layer never leaves its invariant, whatever its caller, the   *)
(* peer and the network do: Network.connected speaks of the client's own   *)
(* descriptor, and what esp32_read has stored is a piece of the stream.    *)
THEOREM NetworkInvariant == NetSpec => []NetInv
BY NetInitInv, NetNextInv, PTL DEF NetSpec

-----------------------------------------------------------------------------
(* Opening and closing a connection are the byte stream's Open and Close;  *)
(* a connection that is refused is nothing to it.                          *)
LEMMA ConnectionRefines ==
    ASSUME NetInv, ConnectStep \/ NetworkInit \/ NetworkDisconnect
    PROVE  [Stream!Next]_(Stream!streamVars)
<1>1. ~reading => asked = 0
  BY DEF NetInv
<1>2. CASE ConnectWithoutSocket
  <2>1. connected' = connected /\ connected \in BOOLEAN
    BY <1>2 DEF ConnectWithoutSocket, NetInv, NetTypeOK
  <2> QED  BY <1>2, <2>1 DEF ConnectWithoutSocket, readVars, Stream!Next, Stream!Open
<1>3. CASE ConnectRefused
  BY <1>3 DEF ConnectRefused, readVars, Stream!streamVars
<1>4. CASE Connect
  BY <1>4 DEF Connect, readVars, Stream!Next, Stream!Open
<1>5. CASE NetworkInit
  BY <1>1, <1>5 DEF NetworkInit, ConnectionGone, Stream!Next, Stream!Close
<1>6. CASE NetworkDisconnect
  BY <1>1, <1>6 DEF NetworkDisconnect, ConnectionGone, Stream!Next, Stream!Close
<1> QED  BY <1>2, <1>3, <1>4, <1>5, <1>6 DEF ConnectStep

(* The calls of recv are nothing to the byte stream until esp32_read       *)
(* returns, except that they may lose the connection.                      *)
LEMMA ReadRefines ==
    ASSUME NetInv, ReadStep
    PROVE  [Stream!Next]_(Stream!streamVars)
<1>1. ASSUME NEW k \in 1..MaxLen, RecvData(k)
      PROVE  [Stream!Next]_(Stream!streamVars)
  <2>1. reading /\ open /\ reading' = reading
    BY <1>1 DEF RecvData, Receiving, NetInv, BufferIsStream
  <2>2. CASE errno = "other"
    BY <1>1, <2>1, <2>2 DEF RecvData, socketVars, Stream!streamVars
  <2>3. CASE errno = "gone"
    BY <1>1, <2>1, <2>3 DEF RecvData, socketVars, Stream!Next, Stream!Lost
  <2> QED  BY <1>1, <2>2, <2>3 DEF RecvData
<1>2. CASE RecvEnd
  <2>1. reading /\ open
    BY <1>2 DEF RecvEnd, Receiving, NetInv, BufferIsStream
  <2> QED
    BY <1>2, <2>1 DEF RecvEnd, socketVars, readVars, Stream!Next, Stream!Lost
<1>3. CASE RecvReset
  BY <1>3 DEF RecvReset, socketVars, readVars, Stream!streamVars
<1>4. CASE RecvFails
  <2>1. /\ reading /\ ~reading' /\ asked > 0 /\ asked' = 0
        /\ taken' = taken /\ UNCHANGED <<open, connected, stream, got>>
    BY <1>4, NetworkAssumption
    DEF RecvFails, EndOfRead, Receiving, socketVars, NetInv, BufferIsStream
  <2>2. taken \in from..from + asked /\ taken <= Len(stream)
    BY <2>1 DEF NetInv, NetTypeOK, BufferIsStream
  <2> QED  BY <2>1, <2>2 DEF Stream!Next, Stream!ReadFails
<1>5. CASE ReadReturns
  <2>1. /\ reading /\ ~reading' /\ asked > 0 /\ asked' = 0
        /\ taken' = taken /\ UNCHANGED <<open, connected, stream>>
    BY <1>5, NetworkAssumption
    DEF ReadReturns, EndOfRead, socketVars, NetInv, BufferIsStream
  <2>2. CASE Len(buffer) = asked
    <3>1. got' = buffer
      BY <1>5, <2>2 DEF ReadReturns
    <3>2. /\ buffer \in Seq(Byte)
          /\ taken = from + asked /\ taken <= Len(stream)
          /\ \A i \in 1..asked : buffer[i] = stream[from + i]
      BY <2>1, <2>2 DEF NetInv, NetTypeOK, BufferIsStream
    <3> QED  BY <2>1, <2>2, <3>1, <3>2 DEF Stream!Next, Stream!Read
  <2>3. CASE Len(buffer) # asked
    <3>1. got' = got
      BY <1>5, <2>1, <2>3 DEF ReadReturns, NetInv
    <3>2. taken \in from..from + asked /\ taken <= Len(stream)
      BY <2>1 DEF NetInv, NetTypeOK, BufferIsStream
    <3> QED  BY <2>1, <3>1, <3>2 DEF Stream!Next, Stream!ReadFails
  <2> QED  BY <2>2, <2>3
<1> QED  BY <1>1, <1>2, <1>3, <1>4, <1>5 DEF ReadStep

(* Every step of the socket layer is a step of the byte stream, or none.   *)
LEMMA NextRefines ==
    ASSUME NetInv, [NetNext]_netVars
    PROVE  [Stream!Next]_(Stream!streamVars)
<1>1. CASE NetworkInit \/ ConnectStep \/ NetworkDisconnect
  BY <1>1, ConnectionRefines
<1>2. ASSUME NEW n \in 1..MaxLen, BeginRead(n)
      PROVE  [Stream!Next]_(Stream!streamVars)
  <2>1. ~reading /\ asked = 0
    BY <1>2 DEF BeginRead, NetInv
  <2>2. Stream!Ask(n)
    BY <1>2, <2>1 DEF BeginRead, socketVars, Stream!Ask
  <2> QED  BY <2>2 DEF Stream!Next
<1>3. CASE ReadStep
  BY <1>3, ReadRefines
<1>4. CASE WriteTakes \/ UNCHANGED netVars
  BY <1>4 DEF WriteTakes, netVars, Stream!streamVars
<1>5. CASE WriteFails
  <2>1. CASE connected' = FALSE
    BY <1>5, <2>1 DEF WriteFails, socketVars, readVars, Stream!Next, Stream!Lost
  <2>2. CASE connected' = connected
    BY <1>5, <2>2 DEF WriteFails, socketVars, readVars, Stream!streamVars
  <2> QED  BY <1>5, <2>1, <2>2, Zenon DEF WriteFails
<1>6. ASSUME NEW d \in Data, PeerSends(d)
      PROVE  [Stream!Next]_(Stream!streamVars)
  <2>1. /\ stream' \in Seq(Byte)
        /\ Len(stream') \in Len(stream)..Len(stream) + MaxLen
        /\ \A i \in 1..Len(stream) : stream'[i] = stream[i]
    BY <1>6, Lengthen, NetworkAssumption DEF PeerSends, Data, NetInv, NetTypeOK
  <2> QED
    BY <1>6, <2>1 DEF PeerSends, socketVars, readVars, Stream!Next, Stream!PeerSends
<1>7. ASSUME NEW state \in {"closed", "reset", "aborted"}, SocketFails(state)
      PROVE  [Stream!Next]_(Stream!streamVars)
  BY <1>7 DEF SocketFails, readVars, Stream!streamVars
<1> QED
  BY <1>1, <1>2, <1>3, <1>4, <1>5, <1>6, <1>7 DEF NetNext, FailureStep

(* Network.c implements the byte stream the MQTT client relies on: what a  *)
(* read gives are the next bytes of the peer, as many as were asked for,   *)
(* and bytes are lost only in a read that fails.                           *)
THEOREM NetworkRefinement == NetSpec => ImplementsByteStream
<1>1. NetInit => Stream!Init
  BY DEF NetInit, Stream!Init
<1>2. NetInv /\ [NetNext]_netVars => [Stream!Next]_(Stream!streamVars)
  BY NextRefines
<1> QED
  BY <1>1, <1>2, NetworkInvariant, PTL DEF NetSpec, ImplementsByteStream, Stream!Spec

-----------------------------------------------------------------------------
(* ConnectNetwork returns 0 only with a connected descriptor, or when it   *)
(* has leaked them all.                                                    *)
LEMMA ConnectResult ==
    ASSUME NetInv, NetNext
    PROVE  (~open /\ open' => connected' \/ leaked = MaxSockets) /\ leaked' >= leaked
<1>1. leaked \in Nat /\ leaked + 1 >= leaked /\ leaked >= leaked
  BY NetworkAssumption DEF NetInv, NetTypeOK
<1>2. CASE NetworkInit \/ ConnectStep \/ NetworkDisconnect
  BY <1>1, <1>2 DEF NetworkInit, ConnectionGone, ConnectStep, ConnectWithoutSocket, ConnectRefused,
     Connect, NetworkDisconnect
<1>3. CASE ~(NetworkInit \/ ConnectStep \/ NetworkDisconnect)
  <2>1. open' = open /\ leaked' = leaked
    BY <1>3 DEF NetNext, BeginRead, ReadStep, RecvData, RecvEnd, RecvReset, RecvFails, ReadReturns,
       WriteTakes, WriteFails, PeerSends, FailureStep, SocketFails, socketVars, netVars
  <2> QED  BY <1>1, <2>1
<1> QED  BY <1>2, <1>3

(* NetworkConnect returns 0 only for a connection, or when lwIP's          *)
(* descriptors are used up; and no call gives a forgotten one back.        *)
THEOREM ConnectReturnsZero == NetSpec => ZeroMeansConnected
<1>1. NetInv /\ [NetNext]_netVars =>
        [(~open /\ open' => connected' \/ leaked = MaxSockets) /\ leaked' >= leaked]_netVars
  BY ConnectResult
<1> QED  BY <1>1, NetworkInvariant, PTL DEF NetSpec, ZeroMeansConnected

=============================================================================
