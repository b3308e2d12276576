------------------------------ MODULE MqttReceive ------------------------------
(***************************************************************************)
(* How the MQTT client cuts the byte stream of the broker into packets:    *)
(* mqtt_message_receive with its read buffer, mqtt_process_receive and     *)
(* deliver_publish (components/mqtt/esp-mqtt/mqtt_client.c), for MQTT      *)
(* 3.1.1.                                                                  *)
(*                                                                         *)
(* TCP hands over as many bytes of the stream as have arrived, so each     *)
(* read may return less than it asked for, and a packet is put together    *)
(* over several calls.  One action is one call of esp_transport_read and   *)
(* what the code does with its result.                                     *)
(***************************************************************************)
EXTENDS Integers, SequencesExt

CONSTANTS
    Packets,          \* what the broker may send: [type, qos, id, topic, data]
    in_buffer_length, \* the size of the read buffer
    MaxSent           \* bound on the packets of one connection

PUBLISH  == 3
PUBACK   == 4
PUBREC   == 5
PUBREL   == 6
PUBCOMP  == 7
SUBACK   == 9
UNSUBACK == 11
PINGRESP == 13

\* uint8_t and uint16_t
Byte       == 0 .. 255
Identifier == 0 .. 256 * 256 - 1

ASSUME BoundsAssumption ==
    in_buffer_length \in Nat \ {0} /\ MaxSent \in Nat

VARIABLES
    wire,   \* bytes the broker sent and the client has not read
    buf,    \* in_buffer[0 .. in_buffer_read_len - 1]
    at,     \* where the task is: between two calls, or before a read
    prev,   \* previous_in_buffer_read_len
    part,   \* deliver_publish: the payload handed over, and what is missing
    sent,   \* packets of this connection, as the broker sent them
    handled,\* packets of this connection, as the client understood them
    stalled \* the broker fell silent for network_timeout_ms inside a payload

vars == <<wire, buf, at, prev, part, sent, handled, stalled>>

-----------------------------------------------------------------------------
(* The encoding of packets.                                                *)

Word(n) == <<n \div 256, n % 256>>

\* The remaining length, seven bits in a byte, least significant first.
LengthBytes(n) == IF n < 128 THEN <<n>> ELSE <<128 + (n % 128), n \div 128>>

Body(p) ==
    CASE p.type = PUBLISH  -> Word(Len(p.topic)) \o p.topic
                                \o (IF p.qos > 0 THEN Word(p.id) ELSE <<>>) \o p.data
      [] p.type = PINGRESP -> <<>>
      [] OTHER             -> Word(p.id) \o p.data

Flags(p) == IF p.type = PUBREL THEN 2 ELSE 2 * p.qos

Bytes(p) == <<16 * p.type + Flags(p)>> \o LengthBytes(Len(Body(p))) \o Body(p)

-----------------------------------------------------------------------------
(* What the code reads out of its buffer.                                  *)

More(byte)   == byte >= 128
TypeOf(b)    == b[1] \div 16
QosOf(b)     == (b[1] % 8) \div 2
WordAt(b, i) == 256 * b[i] + b[i + 1]

\* mqtt_get_total_length: where the loop over the length bytes stops.
FixedLength(b) ==
    LET last == {i \in 2 .. Len(b) : ~More(b[i])}
    IN  IF last = {} THEN Len(b) ELSE CHOOSE i \in last : \A j \in last : i <= j

\* What the length byte at i adds, and the sum: five length bytes are read at
\* most.
Septet(b, i, weight) == IF i <= FixedLength(b) THEN (b[i] % 128) * weight ELSE 0

TotalLength(b) ==
    FixedLength(b) + Septet(b, 2, 1) + Septet(b, 3, 128) + Septet(b, 4, 128^2)
      + Septet(b, 5, 128^3) + Septet(b, 6, 128^4)

\* mqtt_has_valid_msg_hdr
ValidHeader(byte) ==
    LET type == byte \div 16  flags == byte % 16  qos == (flags % 8) \div 2
    IN  CASE type \in {6, 8, 10}                     -> flags = 2
          [] type = PUBLISH                          -> qos < 3 /\ (qos > 0 \/ flags < 8)
          [] type \in {1, 2, 4, 5, 7, 9, 11, 12, 13, 14} -> flags = 0
          [] OTHER                                   -> FALSE

\* A publish that is longer than the buffer is read up to its full buffer.
Large(b) == in_buffer_length < TotalLength(b)
TopicEnd(b) ==
    FixedLength(b) + WordAt(b, FixedLength(b) + 1) + (IF QosOf(b) > 0 THEN 2 ELSE 0)
\* Plausible bug: the size of the buffer is forgotten.
WantWhole(b) == TotalLength(b)
Wanted(b) == IF Large(b) THEN in_buffer_length ELSE TotalLength(b)

\* mqtt_get_publish_topic: NULL if there is no topic in the buffer.
TopicAt(b)  == FixedLength(b) + 2
TopicLen(b) == WordAt(b, FixedLength(b) + 1)
HasTopic(b) == TopicAt(b) < Len(b) /\ TopicAt(b) + TopicLen(b) <= Len(b)

\* mqtt_get_publish_data: what there is of the payload in the buffer.
DataAt(b) == TopicAt(b) + TopicLen(b) + (IF QosOf(b) > 0 THEN 2 ELSE 0)
DataOf(b) == SubSeq(b, DataAt(b) + 1, IF TotalLength(b) <= Len(b) THEN TotalLength(b) ELSE Len(b))

\* mqtt_get_id
IdOf(b) ==
    IF TypeOf(b) = PUBLISH
    THEN IF QosOf(b) > 0 /\ DataAt(b) <= Len(b) THEN WordAt(b, DataAt(b) - 1) ELSE 0
    ELSE IF TypeOf(b) # PINGRESP /\ Len(b) >= 4 /\ ~More(b[2]) THEN WordAt(b, 3) ELSE 0

Published(b) ==
    [type |-> PUBLISH, qos |-> QosOf(b), id |-> IdOf(b),
     topic |-> SubSeq(b, TopicAt(b) + 1, TopicAt(b) + TopicLen(b)), data |-> DataOf(b)]

\* deliver_suback hands over the rest of the buffer.
Answer(b) ==
    [type |-> TypeOf(b), qos |-> 0, id |-> IdOf(b), topic |-> <<>>,
     data |-> IF TypeOf(b) = SUBACK THEN SubSeq(b, 5, Len(b)) ELSE <<>>]

-----------------------------------------------------------------------------
NoPart == [packet |-> <<>>, missing |-> 0]

Init ==
    /\ wire = <<>> /\ buf = <<>> /\ at = "idle" /\ prev = 0 /\ part = NoPart
    /\ sent = <<>> /\ handled = <<>> /\ stalled = FALSE

\* The broker sends a packet.
Send(p) ==
    /\ Len(sent) < MaxSent
    /\ sent' = Append(sent, p)
    /\ wire' = wire \o Bytes(p)
    /\ UNCHANGED <<buf, at, prev, part, handled, stalled>>

\* Plausible bug: the buffer is not emptied for the new connection.
ReconnectKeepingBuffer ==
    /\ wire' = <<>> /\ buf' = buf /\ at' = "idle" /\ prev' = 0 /\ part' = NoPart
    /\ sent' = <<>> /\ handled' = <<>> /\ stalled' = FALSE

\* esp_mqtt_abort_connection and the next esp_mqtt_connect: another stream,
\* and an empty buffer.
Reconnect ==
    /\ wire' = <<>> /\ buf' = <<>> /\ at' = "idle" /\ prev' = 0 /\ part' = NoPart
    /\ sent' = <<>> /\ handled' = <<>> /\ stalled' = FALSE

\* The connection breaks: whichever read comes next returns an error.
Break ==
    /\ sent # <<>>
    /\ Reconnect

\* esp_transport_read(t, buf, want, timeout) returns n bytes.
Take(n, want) ==
    /\ n \in 1 .. (IF want <= Len(wire) THEN want ELSE Len(wire))
    /\ wire' = SubSeq(wire, n + 1, Len(wire))

Taken(n) == buf \o SubSeq(wire, 1, n)

-----------------------------------------------------------------------------
(* mqtt_message_receive.                                                   *)

\* Is there a byte of the remaining length to read?
LengthOpen(b) == Len(b) < 6 /\ More(b[Len(b)])

\* A new call finds the first byte in the buffer already.
Resume ==
    /\ at = "idle" /\ buf # <<>>
    /\ at' = IF Len(buf) = 1 \/ LengthOpen(buf) THEN "length" ELSE "body"
    /\ prev' = Len(buf)
    /\ UNCHANGED <<wire, buf, part, sent, handled, stalled>>

\* The first byte of a packet.
ReadFirst ==
    /\ at = "idle" /\ buf = <<>>
    /\ wire # <<>>
    /\ \/ /\ ~ValidHeader(wire[1])
          /\ Reconnect
       \/ /\ ValidHeader(wire[1])
          /\ Take(1, 1)
          /\ buf' = Taken(1)
          /\ at' = "length"
          /\ prev' = 0
          /\ UNCHANGED <<part, sent, handled, stalled>>

\* One byte of the remaining length.
ReadLength ==
    /\ at = "length"
    /\ Take(1, 1)
    /\ buf' = Taken(1)
    /\ at' = IF LengthOpen(buf') THEN "length" ELSE "body"
    /\ UNCHANGED <<prev, part, sent, handled, stalled>>

NeedsTopicLength ==
    Large(buf) /\ TypeOf(buf) = PUBLISH /\ Len(buf) < FixedLength(buf) + 2

\* The two bytes of the topic length of a publish too large for the buffer.
ReadTopicLength ==
    /\ at = "body" /\ NeedsTopicLength
    /\ \E n \in 1 .. 3 :
          /\ Take(n, Len(buf) - FixedLength(buf) + 2)
          /\ buf' = Taken(n)
    /\ at' = IF Len(buf') < FixedLength(buf) + 2 THEN "idle" ELSE "body"
    /\ UNCHANGED <<prev, part, sent, handled, stalled>>

\* The packet fits into the buffer, or is a publish whose topic does.
Fits ==
    IF Large(buf)
    THEN ~NeedsTopicLength /\ TypeOf(buf) = PUBLISH /\ in_buffer_length >= TopicEnd(buf)
    ELSE TRUE

TooBig ==
    /\ at = "body" /\ ~NeedsTopicLength /\ ~Fits
    /\ Reconnect

\* The rest of the packet, or of the buffer.
ReadRest ==
    /\ at = "body" /\ Fits
    /\ Len(buf) < Wanted(buf)
    /\ \E n \in 1 .. in_buffer_length :
          /\ Take(n, Wanted(buf) - Len(buf))
          /\ buf' = Taken(n)
    /\ at' = IF Len(buf') < Wanted(buf) THEN "idle" ELSE "body"
    /\ UNCHANGED <<prev, part, sent, handled, stalled>>

\* Plausible bug: a call that has read nothing is not given up.
WaitForMore ==
    /\ at \in {"length", "body"}
    /\ at' = "idle"
    /\ UNCHANGED <<wire, buf, prev, part, sent, handled, stalled>>

\* A read of mqtt_message_receive in the middle of a packet times out (-1):
\* mqtt_process_receive gives up if this call has read nothing.
ReadNothing ==
    /\ \/ at = "length"
       \/ at = "body" /\ (NeedsTopicLength \/ (Fits /\ Len(buf) < Wanted(buf)))
    /\ IF Len(buf) = prev
       THEN Reconnect
       ELSE /\ at' = "idle"
            /\ UNCHANGED <<wire, buf, prev, part, sent, handled, stalled>>

-----------------------------------------------------------------------------
(* mqtt_process_receive with a packet in the buffer, and deliver_publish.  *)

Complete == at = "body" /\ Fits /\ Len(buf) >= Wanted(buf)

HandleAnswer ==
    /\ Complete /\ TypeOf(buf) # PUBLISH
    /\ handled' = Append(handled, Answer(buf))
    /\ buf' = <<>> /\ at' = "idle"
    /\ UNCHANGED <<wire, prev, part, sent, stalled>>

\* The first MQTT_EVENT_DATA, the only one if the packet fits.
DeliverPublish ==
    /\ Complete /\ TypeOf(buf) = PUBLISH /\ HasTopic(buf)
    /\ IF Len(buf) < TotalLength(buf)
       THEN /\ at' = "data"
            /\ part' = [packet |-> Published(buf), missing |-> TotalLength(buf) - Len(buf)]
            /\ UNCHANGED <<buf, handled>>
       ELSE /\ handled' = Append(handled, Published(buf))
            /\ buf' = <<>> /\ at' = "idle"
            /\ UNCHANGED part
    /\ UNCHANGED <<wire, prev, sent, stalled>>

\* deliver_publish fails, and the connection is given up.
NoTopic ==
    /\ Complete /\ TypeOf(buf) = PUBLISH /\ ~HasTopic(buf)
    /\ Reconnect

\* The publish is done with: its acknowledgement is written if it has one.
Finish(p) ==
    /\ handled' = Append(handled, p)
    /\ buf' = <<>> /\ at' = "idle" /\ part' = NoPart

\* A further MQTT_EVENT_DATA with as much as fits into the buffer.
ReadData ==
    /\ at = "data"
    /\ \E n \in 1 .. in_buffer_length :
          /\ Take(n, IF part.missing > in_buffer_length THEN in_buffer_length ELSE part.missing)
          /\ LET p == [part.packet EXCEPT !.data = @ \o SubSeq(wire, 1, n)]
             IN  IF n < part.missing
                 THEN /\ part' = [packet |-> p, missing |-> part.missing - n]
                      /\ UNCHANGED <<buf, at, handled>>
                 ELSE Finish(p)
    /\ UNCHANGED <<prev, sent, stalled>>

\* network_timeout_ms pass without a byte: the read error is "0 on Timeout",
\* which deliver_publish takes for success.
DataTimeout ==
    /\ at = "data"
    /\ Finish(part.packet)
    /\ stalled' = TRUE
    /\ UNCHANGED <<wire, prev, sent>>

-----------------------------------------------------------------------------
Read ==
    \/ Resume \/ ReadFirst \/ ReadLength \/ ReadTopicLength \/ TooBig \/ ReadRest
    \/ HandleAnswer \/ DeliverPublish \/ NoTopic \/ ReadData

Next == (\E p \in Packets : Send(p)) \/ Break \/ Read \/ ReadNothing \/ DataTimeout

Spec == Init /\ [][Next]_vars

\* What has been sent arrives in the end, and the task goes on reading.
FairSpec == Spec /\ WF_vars(Read)

-----------------------------------------------------------------------------
(* The packets for which the properties are proved: what the client can     *)
(* read.                                                                   *)

Message ==
    [type : {PUBLISH, PUBACK, PUBREC, PUBREL, PUBCOMP, SUBACK, UNSUBACK, PINGRESP},
     qos : 0 .. 2, id : Identifier, topic : Seq(Byte), data : Seq(Byte)]

\* How long the fixed header of a packet is, and all before the payload.
Fixed(p)  == IF Len(Body(p)) < 128 THEN 2 ELSE 3
WithId(p) == IF p.qos > 0 THEN 2 ELSE 0
Header(p) == Fixed(p) + 2 + Len(p.topic) + WithId(p)

\* A packet of MQTT 3.1.1 whose length takes two bytes at most.
WellFormed(p) ==
    /\ p \in Message
    /\ Len(Body(p)) \div 128 < 128
    /\ p.type = PUBLISH => (p.qos = 0 => p.id = 0)
    /\ p.type # PUBLISH => p.qos = 0 /\ p.topic = <<>> /\ Len(Body(p)) < 128
    /\ p.type \notin {PUBLISH, SUBACK} => p.data = <<>>
    /\ p.type = PINGRESP => p.id = 0

\* No byte up to the fifth is taken for a length byte that goes on when a call
\* resumes behind it (mqtt_client.c:1233): the run mqtt_high_id shows why.
LowStart(p) ==
    \A k \in Fixed(p) + 1 .. 5 : k < Len(Bytes(p)) => Bytes(p)[k] < 128

\* The buffer does not end inside of the identifier of a publish that is larger
\* (mqtt_client.c:1274: the length up to the topic's end is two bytes short).
RoomForId(p) ==
    p.type = PUBLISH /\ p.qos > 0 /\ in_buffer_length < Len(Bytes(p))
        => in_buffer_length \notin {Header(p) - 2, Header(p) - 1}

Readable(p) == WellFormed(p) /\ LowStart(p) /\ RoomForId(p)

-----------------------------------------------------------------------------
(* Properties.                                                             *)

\* The buffer holds bytes of the stream, no more than fit.
TypeOK ==
    /\ wire \in Seq(Byte) /\ buf \in Seq(Byte)
    /\ Len(buf) <= in_buffer_length
    /\ at \in {"idle", "length", "body", "data"}
    /\ prev \in 0 .. in_buffer_length
    /\ part.missing \in Nat
    /\ stalled \in BOOLEAN
    /\ handled \in Seq([type : 1 .. 15, qos : 0 .. 2, id : Identifier,
                        topic : Seq(Byte), data : Seq(Byte)])

\* However the stream is cut into reads, the client acts on exactly the
\* packets the broker sent, in their order: no byte of one packet is taken
\* for a part of another (mqtt_message_receive, deliver_publish).
PacketsIntact == ~stalled => IsPrefix(handled, sent)

\* A packet that was sent is understood, unless the connection is given up.
EveryPacketHandled ==
    \A n \in 1 .. MaxSent : (Len(sent) >= n) ~> (Len(handled) >= n \/ sent = <<>>)
=============================================================================
