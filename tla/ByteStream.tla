----------------------------- MODULE ByteStream -----------------------------
(***************************************************************************)
(* What the MQTT client may rely on when it reads and writes through the   *)
(* Network struct: a connection that, while it is open, carries the peer's *)
(* bytes in their order.  A read either gives the next bytes, all that     *)
(* were asked for, or it fails; a failed read may have used up some of     *)
(* the bytes it was asked for, and those are lost.                         *)
(***************************************************************************)
EXTENDS Integers, Sequences

CONSTANTS
    Byte,    \* the values of a byte
    MaxLen   \* the longest read and the longest burst of bytes

VARIABLES
    open,     \* NetworkConnect has returned 0 and nothing has closed since
    live,     \* NetworkConnected
    stream,   \* the bytes the peer has sent on this connection
    next,     \* how many of them have been read or lost
    want,     \* the length of the read that is under way, 0 without one
    got       \* the bytes given by the last read, empty when it failed

streamVars == <<open, live, stream, next, want, got>>

Init ==
    /\ open = FALSE /\ live = FALSE
    /\ stream = <<>> /\ next = 0
    /\ want = 0 /\ got = <<>>

Open ==
    /\ ~open /\ open' = TRUE
    /\ live' \in BOOLEAN
    /\ UNCHANGED <<stream, next, want, got>>

Close ==
    /\ want = 0
    /\ open' = FALSE /\ live' = FALSE
    /\ stream' = <<>> /\ next' = 0 /\ got' = <<>>
    /\ UNCHANGED want

PeerSends ==
    /\ open
    /\ stream' \in Seq(Byte)
    /\ Len(stream') \in Len(stream)..Len(stream) + MaxLen
    /\ \A i \in 1..Len(stream) : stream'[i] = stream[i]
    /\ UNCHANGED <<open, live, next, want, got>>

Ask(n) ==
    /\ open /\ want = 0
    /\ want' = n /\ got' = <<>>
    /\ UNCHANGED <<open, live, stream, next>>

Read ==
    /\ want > 0 /\ want' = 0
    /\ next' = next + want /\ next' <= Len(stream)
    /\ got' \in Seq(Byte) /\ Len(got') = want
    /\ \A i \in 1..want : got'[i] = stream[next + i]
    /\ UNCHANGED <<open, live, stream>>

ReadFails ==
    /\ want > 0 /\ want' = 0
    /\ next' \in next..next + want /\ next' <= Len(stream)
    /\ UNCHANGED <<open, live, stream, got>>

Lost ==
    /\ open /\ live' = FALSE
    /\ UNCHANGED <<open, stream, next, want, got>>

Next ==
    \/ Open \/ Close \/ Lost
    \/ PeerSends
    \/ (\E n \in 1..MaxLen : Ask(n)) \/ Read \/ ReadFails

Spec == Init /\ [][Next]_streamVars

=============================================================================
