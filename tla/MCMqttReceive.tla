----------------------------- MODULE MCMqttReceive -----------------------------
(***************************************************************************)
(* TLC instance of MqttReceive with a buffer of eight bytes: packets that  *)
(* fit, a publish that is larger, one whose length takes two bytes, a     *)
(* SUBACK that is too big, and the other acknowledgements.                 *)
(***************************************************************************)
EXTENDS MqttReceive

MCPublish(qos, data) ==
    [type |-> PUBLISH, qos |-> qos, id |-> IF qos > 0 THEN 5 ELSE 0, topic |-> <<99>>,
     data |-> data]
\* A payload whose end reads as a publish without a topic, and a long one.
MCTail == <<1, 1, 1, 48, 2, 0, 0>>
MCLong == [i \in 1 .. 125 |-> 32 + (i % 64)]
MCAnswer(type, id) ==
    [type |-> type, qos |-> 0, id |-> id, topic |-> <<>>,
     data |-> IF type = SUBACK THEN [i \in 1 .. id |-> 1] ELSE <<>>]

\* Identifiers whose bytes are below 128, as half of all have in each byte.
MCPackets ==
    {MCPublish(0, <<33>>), MCPublish(1, MCTail), MCPublish(2, MCLong), MCAnswer(PUBACK, 258),
     MCAnswer(SUBACK, 1), MCAnswer(SUBACK, 5), MCAnswer(PINGRESP, 0), MCAnswer(PUBREL, 5)}

\* What MqttReceive_proofs asks of the packets and the buffer.
ASSUME MCReadable ==
    in_buffer_length >= 7 /\ \A p \in MCPackets : Readable(p)

\* An identifier with both bytes above 127, and another packet behind it.
MCHighId == {MCAnswer(PUBACK, 33153), MCAnswer(PINGRESP, 0)}
=============================================================================
