------------------------------- MODULE Mqtt5Msg -------------------------------
(***************************************************************************)
(* How the client builds and reads the packets of MQTT 5                   *)
(* (components/mqtt/esp-mqtt/lib/mqtt5_msg.c).                             *)
(*                                                                         *)
(* A message under construction is the sequence of the bytes in the buffer *)
(* behind the five that are reserved for the fixed header; Fail is the     *)
(* message that did not fit.  A struct of properties is a function from    *)
(* the identifiers of those that are set to their values; the user         *)
(* properties are a sequence of pairs.  The names of the properties, their *)
(* numbers and their forms are those of Mqtt5Packets, whose way to write   *)
(* them is not used here.                                                  *)
(***************************************************************************)
EXTENDS Integers, SequencesExt

CONSTANT BufferLength   \* connection->buffer_length

ASSUME BufferAssumption == BufferLength \in Nat

MQTT5_MAX_FIXED_HEADER_SIZE == 5
USER_PROPERTY == 38
RESPONSE_TOPIC == 8

Fail == <<256>>
Fits(m, size) == MQTT5_MAX_FIXED_HEADER_SIZE + Len(m) + size <= BufferLength

(* ------------------------------- Building ------------------------------- *)

generate_variable_len[len \in Nat] ==
    IF len < 128 THEN <<len>> ELSE <<(len % 128) + 128>> \o generate_variable_len[len \div 128]

\* The bytes of a number in a place of fixed size, the highest first.
Octets(size, n) == [i \in 1 .. size |-> (n \div 2 ^ (8 * (size - i))) % 256]

\* append_property of a property id that takes len_occupy bytes before its
\* data; 0 stands for as many as a variable length needs, and is what the
\* check of the size counts then.
append_property(m, id, len_occupy, number, data) ==
    LET name == IF id = 0 THEN <<>> ELSE <<id>>
        value == IF len_occupy = 0 THEN generate_variable_len[number] ELSE Octets(len_occupy, number)
    IN  IF m = Fail \/ ~Fits(m, len_occupy + Len(data) + Len(name)) THEN Fail
        ELSE m \o name \o value \o data

append_text(m, id, text) == append_property(m, id, 2, Len(text), text)

\* The bytes that the callers reserve for the values that are numbers.
LenOccupy ==
    [id \in {1, 2, 11, 17, 23, 24, 25, 33, 34, 35, 39} |->
        IF id \in {1, 23, 25} THEN 1 ELSE IF id \in {33, 34, 35} THEN 2 ELSE IF id = 11 THEN 0 ELSE 4]

append_value(m, p) ==
    IF p.id = USER_PROPERTY THEN append_text(append_text(m, p.id, p.value[1]), 0, p.value[2])
    ELSE IF p.id \in DOMAIN LenOccupy THEN append_property(m, p.id, LenOccupy[p.id], p.value, <<>>)
    ELSE append_text(m, p.id, p.value)

append_values(m, properties) == FoldLeft(append_value, m, properties)

\* Plausible bug: the properties are not moved behind a longer length.
update_property_len_value_unmoved(m, at) ==
    LET len == generate_variable_len[Len(m) - at - 1]  offset == Len(len) - 1
    IN  IF m = Fail \/ ~Fits(m, offset) THEN Fail
        ELSE SubSeq(m, 1, at) \o len \o SubSeq(m, at + 2 + offset, Len(m)) \o SubSeq(m, Len(m) - offset + 1, Len(m))

\* The one byte that was reserved at the offset at becomes the length of what
\* follows, which moves if the length takes more bytes.
update_property_len_value(m, at) ==
    LET len == generate_variable_len[Len(m) - at - 1]
    IN  IF m = Fail \/ ~Fits(m, Len(len) - 1) THEN Fail
        ELSE SubSeq(m, 1, at) \o len \o SubSeq(m, at + 2, Len(m))

\* The properties of a struct in the order in which a message lists them.
InOrder(order, property) ==
    FlattenSeq([i \in DOMAIN order |->
        IF order[i] \notin DOMAIN property THEN <<>>
        ELSE IF order[i] = USER_PROPERTY
        THEN [j \in DOMAIN property[USER_PROPERTY] |->
                [id |-> USER_PROPERTY, value |-> property[USER_PROPERTY][j]]]
        ELSE <<[id |-> order[i], value |-> property[order[i]]]>>])

ConnectOrder == <<17, 39, 33, 34, 25, 23, USER_PROPERTY>>
WillOrder == <<24, 1, 2, 3, RESPONSE_TOPIC, 9, USER_PROPERTY>>
PublishOrder == <<1, 2, 35, RESPONSE_TOPIC, 9, USER_PROPERTY, 3>>
SubscribeOrder == <<11, USER_PROPERTY>>
UnsubscribeOrder == <<USER_PROPERTY>>
DisconnectOrder == <<17, USER_PROPERTY>>

append_properties(m, order, property) ==
    IF m = Fail THEN Fail
    ELSE update_property_len_value(append_values(Append(m, 0), InOrder(order, property)), Len(m))

append_message_id(m, id) == IF m = Fail \/ ~Fits(m, 2) THEN Fail ELSE m \o Octets(2, id)

\* total is fragmented_msg_total_length: if it is not 0 it takes the place of
\* the length of the message.
fini_message(m, type, dup, qos, retain, total) ==
    LET message_length == IF total # 0 THEN total - MQTT5_MAX_FIXED_HEADER_SIZE ELSE Len(m)
        len == generate_variable_len[message_length]
    IN  IF m = Fail \/ Len(len) + 1 > MQTT5_MAX_FIXED_HEADER_SIZE THEN <<>>
        ELSE <<16 * type + 8 * dup + 2 * qos + retain>> \o len \o m

\* By how much fini_message moves the start of the message in the buffer.
StartOffset(message, m) == MQTT5_MAX_FIXED_HEADER_SIZE - (Len(message) - Len(m))

-----------------------------------------------------------------------------
\* CONNECT.  A text that is not set is <<>> in a sequence of no or one texts.
append_texts(m, texts) == FoldLeft(LAMBDA x, text : append_text(x, 0, text), m, texts)

mqtt5_msg_connect(info, property, will_property, total) ==
    LET Flag(bit, set) == IF set THEN bit ELSE 0
        has_will == info.will # <<>>
        will == info.will[1]
        names == IF info.username = <<>> /\ info.password # <<>> THEN <<<<>>>> ELSE info.username
        flags == Flag(2, info.clean_session) + Flag(128, names # <<>>) + Flag(64, info.password # <<>>)
                   + (IF has_will THEN 4 + 32 * will.retain + 8 * will.qos ELSE 0)
        start == <<0, 4, 77, 81, 84, 84, 5, flags>> \o Octets(2, info.keepalive)
        client == append_text(append_properties(start, ConnectOrder, property), 0, info.client_id)
        with_will == IF ~has_will THEN client
                     ELSE append_texts(append_properties(client, WillOrder, will_property),
                                       <<will.topic, will.message>>)
    IN  fini_message(append_texts(with_will, names \o info.password), 1, 0, 0, 0, total)

\* The topic with the information of the broker: the string is cut by one to
\* make room for its end, which is sent as well.
ResponseTopic(topic, resp_info) ==
    IF resp_info = <<>> THEN topic ELSE Append(Front(topic \o <<47>> \o resp_info), 0)

\* PUBLISH: the message, which is the first part of it if it is longer than the
\* buffer; then total is its length, and offset the place of its payload.
mqtt5_msg_publish(req, id, property, resp_info, fragment) ==
    LET joined == IF RESPONSE_TOPIC \notin DOMAIN property THEN property
                  ELSE [property EXCEPT ![RESPONSE_TOPIC] = ResponseTopic(@, resp_info)]
        topic == append_text(<<>>, 0, req.topic)
        m == append_properties(IF req.qos > 0 THEN append_message_id(topic, id) ELSE topic,
                               PublishOrder, joined)
        head == MQTT5_MAX_FIXED_HEADER_SIZE + Len(m)
        fragmented == ~Fits(m, Len(req.payload))
        first == IF fragmented THEN SubSeq(req.payload, 1, BufferLength - head) ELSE req.payload
        total == IF fragmented THEN head + Len(req.payload) ELSE 0
        whole == m \o first
        message == fini_message(whole, 3, 0, req.qos, req.retain, total)
    IN  IF req.topic = <<>> \/ m = Fail \/ message = <<>>
        THEN [message |-> <<>>, total |-> fragment.total, offset |-> fragment.offset]
        ELSE [message |-> message, total |-> total,
              offset |-> (IF fragmented THEN head ELSE fragment.offset) - StartOffset(message, whole)]

\* "$share/<name>/<filter>"
Shared(name, filter) == <<36, 115, 104, 97, 114, 101, 47>> \o name \o <<47>> \o filter

append_filter(m, filter, property) ==
    IF filter = <<>> THEN Fail
    ELSE append_text(m, 0, IF property.is_share_subscribe THEN Shared(property.share_name, filter) ELSE filter)

SubscribeOptions(qos, property) ==
    16 * property.retain_handle + 4 * property.no_local + 8 * property.retain_as_published + qos

append_topic(m, topic, property) ==
    LET filter == append_filter(m, topic.filter, property)
    IN  IF filter = Fail \/ ~Fits(filter, 1) THEN Fail
        ELSE Append(filter, SubscribeOptions(topic.qos, property))

append_topics(m, topics, property) ==
    FoldLeft(LAMBDA x, topic : append_topic(x, topic, property), m, topics)

mqtt5_msg_subscribe(id, topics, property, total) ==
    LET start == append_properties(append_message_id(<<>>, id), SubscribeOrder, property.values)
    IN  fini_message(append_topics(start, topics, property), 8, 0, 1, 0, total)

mqtt5_msg_unsubscribe(id, topic, property, total) ==
    LET start == append_properties(append_message_id(<<>>, id), UnsubscribeOrder, property.values)
    IN  fini_message(append_filter(start, topic, property), 10, 0, 1, 0, total)

mqtt5_msg_disconnect(property, total) ==
    fini_message(append_properties(<<property.reason>>, DisconnectOrder, property.values), 14, 0, 0, 0, total)

\* mqtt5_msg_puback, pubrec, pubrel and pubcomp: they regard it as success.
mqtt5_msg_ack(type, qos, id, total) ==
    LET m == append_message_id(<<>>, id)
    IN  fini_message(IF m = Fail THEN Fail ELSE append_properties(Append(m, 0), <<>>, <<>>), type, 0, qos, 0, total)

(* ------------------------------- Reading -------------------------------- *)
\* Offsets count the bytes of the buffer b that come before.

At(b, offset) == b[offset + 1]
Word(b, offset) == 256 * At(b, offset) + At(b, offset + 1)
Text(b, offset) == SubSeq(b, offset + 3, offset + 2 + Word(b, offset))

get_variable_len(b, offset) ==
    LET From[i \in Nat] ==
            LET byte == At(b, i)  rest == From[i + 1]
            IN  IF i >= Len(b) THEN [len |-> 0, bytes |-> 0]
                ELSE IF byte < 128 THEN [len |-> byte, bytes |-> 1]
                ELSE [len |-> (byte % 128) + 128 * rest.len, bytes |-> 1 + rest.bytes]
    IN  From[offset]

\* Where the body begins, and where the packet ends by its own account.
BodyOffset(b) == 1 + get_variable_len(b, 1).bytes
TotalLength(b) == BodyOffset(b) + get_variable_len(b, 1).len

\* The value of a property at an offset, and the bytes that it takes.
ReadValue(b, id, offset) ==
    CASE id \in {1, 36, 37, 40, 41, 42} -> [value |-> At(b, offset), size |-> 1]
      [] id \in {19, 33, 34, 35} -> [value |-> Word(b, offset), size |-> 2]
      [] id \in {2, 17, 39} -> [value |-> 65536 * Word(b, offset) + Word(b, offset + 2), size |-> 4]
      [] id = 11 -> LET n == get_variable_len(b, offset) IN [value |-> n.len, size |-> n.bytes]
      [] id = USER_PROPERTY ->
            LET second == offset + 2 + Word(b, offset)
            IN  [value |-> <<Text(b, offset), Text(b, second)>>, size |-> second + 2 + Word(b, second) - offset]
      [] OTHER -> [value |-> Text(b, offset), size |-> 2 + Word(b, offset)]

\* The properties from an offset to an end, up to the first that is not known.
ReadProperties(b, from, end, known) ==
    LET Rest[offset \in Nat] ==
            IF offset >= end THEN <<>>
            ELSE LET id == At(b, offset)  read == ReadValue(b, id, offset + 1)
                 IN  IF id \notin known THEN <<[id |-> 0, value |-> 0]>>
                     ELSE <<[id |-> id, value |-> read.value]>> \o Rest[offset + 1 + read.size]
    IN  Rest[from]

Understood(properties) == \A i \in DOMAIN properties : properties[i].id # 0

\* A list of properties as a struct: the last of an identifier counts.
Struct(properties) ==
    [id \in {properties[i].id : i \in DOMAIN properties} \ {0, USER_PROPERTY} |->
        properties[SelectLastInSeq(properties, LAMBDA p : p.id = id)].value]

UserPairs(properties) ==
    LET users == SelectSeq(properties, LAMBDA p : p.id = USER_PROPERTY)
    IN  [i \in DOMAIN users |-> users[i].value]

\* mqtt5_msg_get_user_property: nothing, if there is one that is not known.
mqtt5_msg_get_user_property(b, from, end) ==
    LET properties == ReadProperties(b, from, end, {31, USER_PROPERTY})
    IN  IF Understood(properties) THEN UserPairs(properties) ELSE <<>>

TypeOf(b) == b[1] \div 16
QosOf(b) == (b[1] \div 2) % 4

mqtt5_get_id(b) ==
    LET offset == BodyOffset(b)
        behind == offset + 2 + Word(b, offset)
    IN  IF offset + 2 > Len(b) THEN 0
        ELSE IF TypeOf(b) # 3 THEN Word(b, offset)
        ELSE IF behind + 2 > Len(b) \/ QosOf(b) = 0 THEN 0
        ELSE Word(b, behind)

PublishKnown == {1, 2, 35, RESPONSE_TOPIC, 9, 11, 3, USER_PROPERTY, 31}

\* The payload is what is in the buffer of it.
mqtt5_get_publish_property_payload(b) ==
    LET offset == BodyOffset(b)
        id == offset + 2 + Word(b, offset)
        section == IF QosOf(b) > 0 THEN id + 2 ELSE id
        len == get_variable_len(b, section)
        from == section + len.bytes
        properties == ReadProperties(b, from, from + len.len, PublishKnown)
    IN  IF id >= Len(b) \/ section >= Len(b) THEN [ok |-> FALSE]
        ELSE [ok |-> Understood(properties), topic |-> Text(b, offset),
              property |-> Struct(properties), user |-> UserPairs(properties),
              payload |-> SubSeq(b, from + len.len + 1,
                                 IF TotalLength(b) <= Len(b) THEN TotalLength(b) ELSE Len(b))]

\* SUBACK and UNSUBACK; no data is a failure.
mqtt5_get_suback_data(b) ==
    LET section == BodyOffset(b) + 2
        len == get_variable_len(b, section)
        from == section + len.bytes
    IN  IF TotalLength(b) > Len(b) \/ section >= TotalLength(b) \/ from + len.len >= TotalLength(b)
        THEN [data |-> <<>>, user |-> <<>>]
        ELSE [data |-> SubSeq(b, from + len.len + 1, TotalLength(b)),
              user |-> mqtt5_msg_get_user_property(b, from, from + len.len)]

\* PUBACK and PUBCOMP: the reason, if there is one.
mqtt5_get_puback_data(b) ==
    LET reason == BodyOffset(b) + 2
        len == get_variable_len(b, reason + 1)
        from == reason + 1 + len.bytes
    IN  IF reason >= TotalLength(b) THEN [data |-> <<>>, user |-> <<>>]
        ELSE [data |-> <<At(b, reason)>>,
              user |-> IF reason + 1 >= TotalLength(b) THEN <<>>
                       ELSE mqtt5_msg_get_user_property(b, from, from + len.len)]

ConnackKnown ==
    {17, 33, 36, 37, 39, 18, 34, 31, USER_PROPERTY, 40, 41, 42, 19, 26, 28, 21, 22}

mqtt5_msg_parse_connack_property(b) ==
    LET offset == BodyOffset(b)
        len == get_variable_len(b, offset + 2)
        from == offset + 2 + len.bytes
        properties == ReadProperties(b, from, from + len.len, ConnackKnown)
    IN  [ack_flag |-> At(b, offset), reason |-> At(b, offset + 1), ok |-> Understood(properties),
         property |-> Struct(properties), user |-> UserPairs(properties)]
===============================================================================
