---------------------------- MODULE MCMqttReader ----------------------------
(* MqttReader for TLC: a length digit counts to 4 in place of 128.  The bodies have *)
(* 0, 3, 4, 5 and 17 bytes - one digit, two and three - and their bytes may be       *)
(* taken for the types and lengths of packets.                                       *)
EXTENDS MqttReader

Message3(t, p) == [type |-> Publish, topic |-> t, payload |-> p]

MCPackets ==
  {Message3(<<3>>, <<>>), Message3(<<>>, <<3, 0>>), Message3(<<7>>, <<3, 1>>),
   Message3(<<0>>, [i \in 1..14 |-> (3 * i) % 8]),
   [type |-> 4, topic |-> <<>>, payload |-> <<0, 1, 0>>],
   [type |-> 6, topic |-> <<>>, payload |-> <<>>]}

MCRefused == {Message3(<<>>, <<3, 0>>)}
=============================================================================
