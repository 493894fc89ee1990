---------------------------- MODULE MCMessages ------------------------------
(***************************************************************************)
(* An instance of Messages with two slots, so that the table fills up.     *)
(***************************************************************************)
EXTENDS Messages

MCRequests ==
    {[clientID |-> "own", topic |-> "cmd", channel |-> CAYENNE_ALL_CHANNELS, fp |-> TRUE],
     [clientID |-> "own", topic |-> "conf", channel |-> 0, fp |-> TRUE],
     [clientID |-> Null, topic |-> "conf", channel |-> 0, fp |-> TRUE],
     [clientID |-> "neighbour", topic |-> "conf", channel |-> 0, fp |-> FALSE]}

MCNames ==
    {[clientID |-> "own", topic |-> "cmd", channel |-> <<0, 1>>],
     [clientID |-> "own", topic |-> "conf", channel |-> <<0>>],
     [clientID |-> "neighbour", topic |-> "conf", channel |-> <<0>>],
     [clientID |-> "own", topic |-> "data", channel |-> <<1>>]}

MCPayloads == {<<"a", ",", "b">>, <<"b">>}

MCPairs == [unit : {Null, <<>>, <<"a">>}, value : {Null, <<"b">>, <<>>}]

MCTypes == {Null, <<"a", "b">>}

=============================================================================
