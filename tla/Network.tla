------------------------------ MODULE Network -------------------------------
(***************************************************************************)
(* Platform/esp32/Network.c, the socket layer under the MQTT client, and   *)
(* the part of lwIP it uses: a table of descriptors and errno.             *)
(*                                                                         *)
(* The client is single threaded, so its calls do not overlap; a read is a *)
(* loop of recv calls, between any two of which the peer may act.  lwIP is *)
(* external: a call that fails sets errno, one that succeeds leaves it,    *)
(* and bytes already sent may take any time to arrive.                     *)
(***************************************************************************)
EXTENDS Integers, Sequences

CONSTANTS
    MaxSockets,  \* CONFIG_LWIP_MAX_SOCKETS (10)
    Byte,        \* the values of a byte
    MaxLen       \* the longest read, the longest write, the longest burst

ASSUME NetworkAssumption == MaxSockets \in Nat /\ MaxLen \in Nat

VARIABLES
    my_socket,   \* the state of the descriptor Network.my_socket
    leaked,      \* descriptors that are open and that nothing names any more
    connected,   \* Network.connected
    errno,       \* errno of the client's task, by what esp32_read tells apart
    open,        \* the caller uses the connection: NetworkConnect returned 0
    stream,      \* the bytes the peer sent on the connection
    taken,       \* how many of them recv has given out
    reading,     \* esp32_read is running
    asked,       \* its argument len
    buffer,      \* what it has stored; its local variable bytes is Len(buffer)
    from,        \* taken when it began
    got          \* what the last read gave, empty when it returned anything but len

socketVars == <<my_socket, leaked, open>>
readVars == <<reading, asked, buffer, from, got>>
netVars == <<my_socket, leaked, connected, errno, open, stream, taken,
             reading, asked, buffer, from, got>>

(* none: no descriptor, or one that was never connected; closed: the peer  *)
(* has sent its FIN; reset: the peer has sent RST; aborted: lwIP has given *)
(* the connection up                                                       *)
SocketStates == {"none", "up", "closed", "reset", "aborted"}

(* gone: ENOTCONN, ECONNRESET or EPIPE; other: none of these, or no error *)
Errors == {"gone", "other"}

NetInit ==
    /\ my_socket = "none" /\ leaked = 0 /\ connected = FALSE
    /\ errno = "other"
    /\ open = FALSE
    /\ stream = <<>> /\ taken = 0
    /\ reading = FALSE /\ asked = 0 /\ buffer = <<>> /\ from = 0 /\ got = <<>>

-----------------------------------------------------------------------------
(* the end of a connection, and of what was on its way (mutant: the flag   *)
(* is left as it is)                                                       *)
ConnectionGoneUnnoticed ==
    /\ my_socket' = "none" /\ open' = FALSE
    /\ stream' = <<>> /\ taken' = 0 /\ got' = <<>>
    /\ UNCHANGED <<connected, reading, asked, buffer, from>>

ConnectionGone ==
    /\ my_socket' = "none" /\ connected' = FALSE /\ open' = FALSE
    /\ stream' = <<>> /\ taken' = 0 /\ got' = <<>>
    /\ UNCHANGED <<reading, asked, buffer, from>>

(* NetworkInit forgets the descriptor without closing it. *)
NetworkInit ==
    /\ ~reading
    /\ ConnectionGone
    /\ leaked' = IF my_socket = "none" THEN leaked ELSE leaked + 1
    /\ UNCHANGED errno

(* NetworkConnect.  When getaddrinfo fails nothing changes.  socket()      *)
(* fails for want of a descriptor: the 0 of getaddrinfo is returned, and   *)
(* connected stays what it was.                                            *)
ConnectWithoutSocket ==
    /\ ~reading /\ ~open
    /\ leaked = MaxSockets
    /\ my_socket' = "none" /\ errno' = "other" /\ open' = TRUE
    /\ UNCHANGED <<leaked, connected, stream, taken, readVars>>

(* connect() fails: an error is returned, and the descriptor, which the    *)
(* caller does not close, is overwritten by the next NetworkConnect.       *)
ConnectRefused ==
    /\ ~reading /\ ~open
    /\ leaked < MaxSockets
    /\ leaked' = leaked + 1
    /\ errno' \in Errors
    /\ UNCHANGED <<my_socket, connected, open, stream, taken, readVars>>

(* connect() succeeds (mutant: the connection is not noted) *)
ConnectUnnoted ==
    /\ ~reading /\ ~open
    /\ leaked < MaxSockets
    /\ my_socket' = "up" /\ open' = TRUE
    /\ UNCHANGED <<leaked, connected, errno, stream, taken, readVars>>

Connect ==
    /\ ~reading /\ ~open
    /\ leaked < MaxSockets
    /\ my_socket' = "up" /\ connected' = TRUE /\ open' = TRUE
    /\ UNCHANGED <<leaked, errno, stream, taken, readVars>>

(* NetworkDisconnect; connectClient calls it only on a connection that     *)
(* NetworkConnect has returned 0 for.  close fails without a descriptor.   *)
NetworkDisconnect ==
    /\ ~reading /\ open
    /\ ConnectionGone
    /\ errno' = IF my_socket = "none" THEN "other" ELSE errno
    /\ UNCHANGED leaked

-----------------------------------------------------------------------------
(* esp32_read, up to its loop; setsockopt fails without a descriptor *)
BeginRead(n) ==
    /\ ~reading /\ open
    /\ reading' = TRUE /\ asked' = n
    /\ buffer' = <<>> /\ from' = taken /\ got' = <<>>
    /\ errno' = IF my_socket = "none" THEN "other" ELSE errno
    /\ UNCHANGED <<socketVars, connected, stream, taken>>

(* the condition of its loop *)
Receiving == reading /\ Len(buffer) < asked /\ connected

(* where esp32_read puts it: behind what it has *)
Stored(data) == buffer \o data

(* recv gives k bytes.  errno is tested all the same, which a call that    *)
(* succeeds need not set: after an earlier error of a lost connection the  *)
(* bytes are dropped and this connection is taken for closed.              *)
RecvData(k) ==
    /\ Receiving
    /\ my_socket \in {"up", "closed"}
    /\ k <= asked - Len(buffer) /\ taken + k <= Len(stream)
    /\ taken' = taken + k
    /\ \/ /\ errno = "other"
          /\ buffer' = Stored(SubSeq(stream, taken + 1, taken + k))
          /\ UNCHANGED connected
       \/ /\ errno = "gone"
          /\ connected' = FALSE
          /\ UNCHANGED buffer
    /\ UNCHANGED <<socketVars, errno, stream, reading, asked, from, got>>

(* the locals of esp32_read are gone when it returns *)
EndOfRead == reading' = FALSE /\ asked' = 0 /\ buffer' = <<>> /\ from' = 0

(* recv gives 0: the peer has closed and all its bytes were given out *)
RecvEnd ==
    /\ Receiving
    /\ my_socket = "closed" /\ taken = Len(stream)
    /\ connected' = FALSE
    /\ UNCHANGED <<socketVars, errno, stream, taken, readVars>>

(* recv fails with ENOTCONN or ECONNRESET: the loop goes on *)
RecvReset ==
    /\ Receiving
    /\ my_socket = "reset"
    /\ errno' = "gone"
    /\ UNCHANGED <<socketVars, connected, stream, taken, readVars>>

(* recv fails with another error, the timeout among them: -1 is returned   *)
(* and what was stored is of no use to the caller (mutant: recv is called  *)
(* again)                                                                  *)
RecvFailsAgain ==
    /\ Receiving
    /\ my_socket \in {"up", "closed", "aborted"}
    /\ errno' = "other"
    /\ UNCHANGED <<socketVars, connected, stream, taken, readVars>>

RecvFails ==
    /\ Receiving
    /\ my_socket \in {"up", "closed", "aborted"}
    /\ errno' = "other"
    /\ EndOfRead
    /\ UNCHANGED <<socketVars, connected, stream, taken, got>>

(* the loop ends and bytes is returned, which the caller compares with len *)
(* (mutant: any bytes will do)                                             *)
ReadReturnsPart ==
    /\ reading /\ ~Receiving
    /\ EndOfRead
    /\ got' = buffer
    /\ UNCHANGED <<socketVars, connected, errno, stream, taken>>

ReadReturns ==
    /\ reading /\ ~Receiving
    /\ EndOfRead
    /\ got' = IF Len(buffer) = asked THEN buffer ELSE <<>>
    /\ UNCHANGED <<socketVars, connected, errno, stream, taken>>

-----------------------------------------------------------------------------
(* esp32_write: write takes some of the bytes, ... *)
WriteTakes ==
    /\ ~reading /\ open
    /\ my_socket \in {"up", "closed"}
    /\ UNCHANGED netVars

(* ... or fails; the errors of a lost connection clear connected *)
WriteFails ==
    /\ ~reading /\ open
    /\ \/ errno' = "gone" /\ my_socket \in {"closed", "reset"} /\ connected' = FALSE
       \/ errno' = "other" /\ my_socket # "reset" /\ UNCHANGED connected
    /\ UNCHANGED <<socketVars, stream, taken, readVars>>

-----------------------------------------------------------------------------
(* the peer and the network, on the connection the client uses *)
PeerSends(data) ==
    /\ open /\ my_socket = "up"
    /\ stream' = stream \o data
    /\ UNCHANGED <<socketVars, connected, errno, taken, readVars>>

SocketFails(state) ==
    /\ open /\ my_socket = "up"
    /\ my_socket' = state
    /\ UNCHANGED <<leaked, connected, errno, open, stream, taken, readVars>>

ReadStep ==
    \/ \E k \in 1..MaxLen : RecvData(k)
    \/ RecvEnd \/ RecvReset \/ RecvFails
    \/ ReadReturns

ConnectStep == ConnectWithoutSocket \/ ConnectRefused \/ Connect

FailureStep == \E state \in {"closed", "reset", "aborted"} : SocketFails(state)

Data == {d \in Seq(Byte) : Len(d) \in 1..MaxLen}

(* any caller *)
NetNext ==
    \/ NetworkInit \/ ConnectStep \/ NetworkDisconnect
    \/ \E n \in 1..MaxLen : BeginRead(n)
    \/ ReadStep
    \/ WriteTakes \/ WriteFails
    \/ \E d \in Data : PeerSends(d)
    \/ FailureStep

NetSpec == NetInit /\ [][NetNext]_netVars

-----------------------------------------------------------------------------
NetTypeOK ==
    /\ my_socket \in SocketStates /\ leaked \in 0..MaxSockets
    /\ connected \in BOOLEAN /\ open \in BOOLEAN /\ reading \in BOOLEAN
    /\ errno \in Errors
    /\ stream \in Seq(Byte) /\ buffer \in Seq(Byte) /\ got \in Seq(Byte)
    /\ taken \in Nat /\ from \in Nat /\ asked \in Nat

(* The flag Network.connected never speaks of a descriptor that is not the *)
(* client's: it is set only while the caller has the connection open and   *)
(* my_socket is a descriptor that was connected and is not closed.         *)
ConnectedIsOurs ==
    /\ connected => open
    /\ connected => my_socket # "none"

(* esp32_read stores consecutive bytes of the stream from where it began,  *)
(* in order and without a gap, however recv cuts them up; what it has not  *)
(* stored of the bytes it took is at most what it was still asked for, and *)
(* only after the connection was given up.                                 *)
BufferIsStream ==
    /\ taken <= Len(stream)
    /\ reading =>
         /\ open /\ asked > 0
         /\ Len(buffer) <= asked
         /\ from + Len(buffer) <= taken /\ taken <= from + asked
         /\ connected => taken = from + Len(buffer)
         /\ Len(buffer) = asked => taken = from + asked
         /\ \A i \in 1..Len(buffer) : buffer[i] = stream[from + i]

(* The socket layer keeps its flag and its stream straight, whatever the   *)
(* order of failed connections, timeouts and calls: both of the above      *)
(* hold; every open descriptor is either the client's or left behind; and  *)
(* a read starts with nothing.  This is the inductive invariant.           *)
NetInv ==
    /\ NetTypeOK /\ ConnectedIsOurs /\ BufferIsStream
    /\ my_socket # "none" => open /\ leaked < MaxSockets
    /\ reading => got = <<>>
    /\ ~reading => asked = 0

(* Network.h says of NetworkConnect that it returns 0 if successfully      *)
(* connected.  It does, until earlier connections have used up lwIP's      *)
(* descriptors; then it returns 0 without a connection, and nothing but a  *)
(* restart gives the descriptors back.                                     *)
ZeroMeansConnected ==
    [][/\ ~open /\ open' => connected' \/ leaked = MaxSockets
       /\ leaked' >= leaked]_netVars

(* The calls of Network.c are those of a byte stream that loses bytes only *)
(* in a read that fails: while a read runs, nothing has been read yet.     *)
Stream == INSTANCE ByteStream WITH
    live <- connected,
    want <- asked,
    next <- IF reading THEN from ELSE taken

ImplementsByteStream == Stream!Spec

=============================================================================
