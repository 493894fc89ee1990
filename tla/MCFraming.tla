----------------------------- MODULE MCFraming ------------------------------
(***************************************************************************)
(* An instance of Framing with digits of base 2, so that short packets     *)
(* need one, two and three of them.                                        *)
(***************************************************************************)
EXTENDS Framing

MCByte == 0..3

MCOutgoing == {[head |-> 2, body |-> <<2, 3>>]}

MCIncoming ==
    {[head |-> 3, body |-> <<>>],
     [head |-> 1, body |-> <<2>>],
     [head |-> 2, body |-> <<1, 3, 3, 2>>]}

=============================================================================
