----------------------------- MODULE Mqtt5Packets -----------------------------
(***************************************************************************)
(* The packets of MQTT 5 as the two sides agreed on them: what a packet is *)
(* about, and its bytes.  It is the reference for what mqtt5_msg.c builds  *)
(* and parses.  A packet is a record with a type; a text is a sequence of  *)
(* bytes; a property is [id, value], where the value is a number, a text   *)
(* or, of a user property, a pair of texts.                                *)
(***************************************************************************)
EXTENDS Integers, SequencesExt

\* enum mqtt_message_type
TypeNumber ==
    [connect |-> 1, connack |-> 2, publish |-> 3, puback |-> 4, pubrec |-> 5, pubrel |-> 6,
     pubcomp |-> 7, subscribe |-> 8, suback |-> 9, unsubscribe |-> 10, unsuback |-> 11,
     disconnect |-> 14]

\* enum mqtt_properties_type, by the form of the value.
ByteProperties == {1, 23, 25, 36, 37, 40, 41, 42}
WordProperties == {19, 33, 34, 35}
LongProperties == {2, 17, 24, 39}
LengthProperties == {11}
UserProperty == 38

Word(n) == <<n \div 256, n % 256>>
Long(n) == Word(n \div 65536) \o Word(n % 65536)

\* Seven bits of a length to a byte, the lowest first.
LengthBytes(n) ==
    LET bytes[k \in Nat] == IF k < 128 THEN <<k>> ELSE <<128 + (k % 128)>> \o bytes[k \div 128]
    IN  bytes[n]

TextBytes(text) == Word(Len(text)) \o text

ValueBytes(p) ==
    CASE p.id \in ByteProperties -> <<p.value>>
      [] p.id \in WordProperties -> Word(p.value)
      [] p.id \in LongProperties -> Long(p.value)
      [] p.id \in LengthProperties -> LengthBytes(p.value)
      [] p.id = UserProperty -> TextBytes(p.value[1]) \o TextBytes(p.value[2])
      [] OTHER -> TextBytes(p.value)

PropertyBytes(properties) ==
    LET bytes == FlattenSeq([i \in DOMAIN properties |-> <<properties[i].id>> \o ValueBytes(properties[i])])
    IN  LengthBytes(Len(bytes)) \o bytes

\* The texts that are there.
Optional(texts) == FlattenSeq([i \in DOMAIN texts |-> TextBytes(texts[i])])

PublishBody(p) ==
    TextBytes(p.topic) \o (IF p.qos > 0 THEN Word(p.id) ELSE <<>>)
      \o PropertyBytes(p.properties) \o p.payload

\* A topic of SUBSCRIBE has options, one of UNSUBSCRIBE has none: <<>>.
SubscribeBody(p) ==
    Word(p.id) \o PropertyBytes(p.properties)
      \o FlattenSeq([i \in DOMAIN p.topics |-> TextBytes(p.topics[i].filter) \o p.topics[i].options])

\* SUBACK and UNSUBACK have a reason for each topic.
SubackBody(p) == Word(p.id) \o PropertyBytes(p.properties) \o p.reasons

\* PUBACK, PUBREC, PUBREL and PUBCOMP may leave out a reason of 0, and no
\* properties.
AckBody(p) == Word(p.id) \o <<p.reason>> \o PropertyBytes(p.properties)
ShortAckBody(p) ==
    Word(p.id) \o (IF p.properties # <<>> THEN <<p.reason>> \o PropertyBytes(p.properties)
                           ELSE IF p.reason = 0 THEN <<>> ELSE <<p.reason>>)

\* A password alone comes with an empty user name.
ConnectBody(p) ==
    LET Flag(bit, set) == IF set THEN bit ELSE 0
        will == p.will # <<>>
        names == IF p.password # <<>> /\ p.username = <<>> THEN <<<<>>>> ELSE p.username
        flags == Flag(128, names # <<>>) + Flag(64, p.password # <<>>) + Flag(2, p.clean)
                   + (IF will THEN 4 + 8 * p.will[1].qos + 32 * p.will[1].retain ELSE 0)
    IN  TextBytes(<<77, 81, 84, 84>>) \o <<5, flags>> \o Word(p.keepalive)
          \o PropertyBytes(p.properties) \o TextBytes(p.client_id)
          \o (IF will THEN PropertyBytes(p.will[1].properties)
                             \o Optional(<<p.will[1].topic, p.will[1].message>>)
              ELSE <<>>)
          \o Optional(names) \o Optional(p.password)

Frame(first, body) == <<first>> \o LengthBytes(Len(body)) \o body

Packet(p) ==
    LET first == 16 * TypeNumber[p.type]
    IN  CASE p.type = "publish" -> Frame(first + 8 * p.dup + 2 * p.qos + p.retain, PublishBody(p))
          [] p.type \in {"subscribe", "unsubscribe"} -> Frame(first + 2, SubscribeBody(p))
          [] p.type \in {"suback", "unsuback"} -> Frame(first, SubackBody(p))
          [] p.type = "pubrel" -> Frame(first + 2, AckBody(p))
          [] p.type \in {"puback", "pubrec", "pubcomp"} -> Frame(first, AckBody(p))
          [] p.type = "connack" -> Frame(first, <<p.session, p.reason>> \o PropertyBytes(p.properties))
          [] p.type = "disconnect" -> Frame(first, <<p.reason>> \o PropertyBytes(p.properties))
          [] OTHER -> Frame(first, ConnectBody(p))

\* An acknowledgement in its short form.
ShortAck(p) == Frame(16 * TypeNumber[p.type] + (IF p.type = "pubrel" THEN 2 ELSE 0), ShortAckBody(p))
===============================================================================
