----------------------------- MODULE Mqtt5Client -----------------------------
(***************************************************************************)
(* The MQTT client with protocol version 5                                 *)
(* (components/mqtt/esp-mqtt/mqtt5_client.c, and what mqtt_client.c does   *)
(* in its MQTT 5 branches): the properties that the application sets and   *)
(* the broker answers, the limits they put on the application, the flow    *)
(* control of the publishes, the aliases of topics, and the packets        *)
(* themselves, which mqtt5_msg.c builds and reads byte by byte.            *)
(*                                                                         *)
(* An action is a call of the application, or what the task does with one  *)
(* packet; both hold api_lock.  A packet of the broker is written by the   *)
(* broker and received in one step: what is in flight makes no difference  *)
(* but that it may be lost, which is a packet never written.  Only a       *)
(* publish longer than the buffer is received in parts, one in a step, and *)
(* the handlers of their events may call the client in between.  What      *)
(* mqtt_client.c does for every version (the task's states, keep-alive,    *)
(* stop, the order of lock and state) is modelled in MqttClient.           *)
(***************************************************************************)
EXTENDS Mqtt5Msg, MqttOutbox

Broker == INSTANCE Mqtt5Packets

CONSTANTS
    Login,              \* the CONNECT that was configured
    Requests,           \* what the application asks for, with distinct numbers
    ConnectProperties, PublishProperties, SubscribeProperties,
    UnsubscribeProperties, DisconnectProperties,  \* what it sets before
    Connacks,           \* how the broker answers CONNECT
    Publishes,          \* what it publishes
    Answers,            \* [reason, properties] it acknowledges with
    ReadSizes,          \* what a read may return of a publish, apart from all it asks for
    MaxSettings,        \* bound on the times that properties are set
    MaxCalls,           \* bound on the other calls, and on breaks
    MaxEvents,          \* bound on those and what the broker sends of its own accord
    MaxConnects,        \* bound on connections
    MaxOwed             \* bound on exchanges when a message is repeated

ASSUME NumbersAssumption == \A r, s \in Requests : r.no = s.no => r = s

Byte == 0 .. 255

\* The values that the fields of the structs of properties can hold.  A list of
\* user properties has items of a key and a value, each of which may be missing.
HasForm(id, value) ==
    /\ id \in {1, 23, 25} => value \in Byte
    /\ id \in {11, 33, 34, 35} => value \in 0 .. 65535
    /\ id \in {2, 17, 24, 39} => value \in Nat
    /\ id \in {3, RESPONSE_TOPIC, 9} => value \in Seq(Byte)
    /\ id = USER_PROPERTY => value \in Seq(Seq(Seq(Byte)))

IsStruct(property) ==
    /\ property = [id \in DOMAIN property |-> property[id]]
    /\ \A id \in DOMAIN property : HasForm(id, property[id])

\* A list that esp_mqtt5_client_set_user_property has made.
IsMade(list) == \A i \in DOMAIN list : Len(list[i]) = 2

\* What the application may pass: esp_mqtt5_subscribe_property_config_t and the
\* other structs of mqtt5_client.h, and esp_mqtt_client_config_t.
Will == [topic : Seq(Byte), message : Seq(Byte), qos : 0 .. 2, retain : 0 .. 1]
Topic == [filter : Seq(Byte), qos : 0 .. 2]

ASSUME LoginAssumption ==
    /\ Login \in [client_id : Seq(Byte), keepalive : 0 .. 65535, clean_session : BOOLEAN,
                  will : Seq(Will), username : Seq(Seq(Byte)), password : Seq(Seq(Byte))]
    /\ Len(Login.will) <= 1 /\ Len(Login.username) <= 1 /\ Len(Login.password) <= 1

ASSUME RequestsAssumption ==
    \A r \in Requests :
        /\ r.no \in Nat
        /\ r.type = PUBLISH => /\ r.qos \in 0 .. 2 /\ r.retain \in 0 .. 1
                              /\ r.topic \in Seq(Byte) /\ r.payload \in Seq(Byte)
        /\ r.type \in {SUBSCRIBE, UNSUBSCRIBE} => r.topics \in Seq(Topic)
        /\ r.type = UNSUBSCRIBE => Len(r.topics) = 1

ASSUME PropertiesAssumption ==
    /\ \A p \in ConnectProperties : IsStruct(p.connect) /\ IsStruct(p.will)
    /\ \A p \in PublishProperties : IsStruct(p)
    /\ \A p \in SubscribeProperties \union UnsubscribeProperties :
          /\ IsStruct(p.values) /\ (USER_PROPERTY \in DOMAIN p.values => IsMade(p.values[USER_PROPERTY]))
          /\ p.is_share_subscribe \in BOOLEAN /\ p.share_name \in Seq(Byte)
          /\ p.no_local \in 0 .. 1 /\ p.retain_as_published \in 0 .. 1 /\ p.retain_handle \in Byte
    /\ \A p \in DisconnectProperties : IsStruct(p.values) /\ p.reason \in Byte

\* What is read of the broker's answer has the form of the fields it goes into.
ASSUME ConnacksAssumption ==
    \A c \in Connacks :
        LET property == mqtt5_msg_parse_connack_property(Broker!Packet(c)).property
        IN  /\ 17 \in DOMAIN property => property[17] \in Nat
            /\ 18 \in DOMAIN property => property[18] \in Seq(Byte)
            /\ 19 \in DOMAIN property => property[19] \in 0 .. 65535
            /\ 26 \in DOMAIN property => property[26] \in Seq(Byte)

\* mqtt_message_receive: what is in the buffer of a packet; only a publish may be
\* longer, if its topic is not.
TooBig(bytes) == Len(bytes) > BufferLength
InBuffer(bytes) == IF TooBig(bytes) THEN SubSeq(bytes, 1, BufferLength) ELSE bytes
TopicTooBig(bytes) ==
    /\ TooBig(bytes)
    /\ BodyOffset(bytes) + Word(bytes, BodyOffset(bytes)) + (IF QosOf(bytes) > 0 THEN 2 ELSE 0) > BufferLength

\* A publish whose topic fits the buffer has properties that fit it as well.
ASSUME PublishesAssumption ==
    \A p \in Publishes :
        /\ p.payload \in Seq(Byte)
        /\ TopicTooBig(Broker!Packet(p)) \/ Len(Broker!Packet(p)) - Len(p.payload) <= BufferLength

ASSUME ReadsAssumption == ReadSizes \subseteq Nat \ {0}

VARIABLES
    link,         \* the connection: down, up, or broken (or out of step) and not known to be
    information,  \* mqtt_state.connection.information: client_id, keepalive
    config,       \* client->mqtt5_config
    fragment,     \* fragmented_msg_total_length and _data_offset, the latter if positive
    count,        \* client->send_publish_packet_count
    outbox,
    broker,       \* exchanges it has to answer, its aliases
    calls,        \* how often there was what the bounds are about
    part,         \* the publish of which there is more to read, if there is one
    written,      \* the packet written in the last step, and what it is about
    told          \* the event of the last step, and what the broker meant

vars == <<link, information, config, fragment, count, outbox, broker, calls, part, written, told>>

-----------------------------------------------------------------------------
NoProperty == <<>>
NoSubscribeProperty ==
    [values |-> NoProperty, is_share_subscribe |-> FALSE, share_name |-> <<>>,
     no_local |-> 0, retain_as_published |-> 0, retain_handle |-> 0]
NoDisconnectProperty == [values |-> NoProperty, reason |-> 0]

MAXIMUM_PACKET_SIZE == 39
RECEIVE_MAXIMUM == 33
TOPIC_ALIAS_MAXIMUM == 34
TOPIC_ALIAS == 35
MAXIMUM_QOS == 36
RETAIN_AVAILABLE == 37
SHARED_AVAILABLE == 42
RESPONSE_INFO == 26

\* What the struct server_resp_property_info has a field for.
ServerFields == {RECEIVE_MAXIMUM, TOPIC_ALIAS_MAXIMUM, MAXIMUM_QOS, RETAIN_AVAILABLE,
                 MAXIMUM_PACKET_SIZE, 40, 41, SHARED_AVAILABLE, RESPONSE_INFO}

\* A field of a struct that may not be set: 0.
Field(property, id) == IF id \in DOMAIN property THEN property[id] ELSE 0

esp_mqtt5_create_default_config ==
    [connect |-> NoProperty, will |-> NoProperty, disconnect |-> NoDisconnectProperty,
     server |-> [id \in ServerFields |->
                   CASE id = RECEIVE_MAXIMUM -> 65535
                     [] id = MAXIMUM_QOS -> 2
                     [] id \in {RETAIN_AVAILABLE, 40, 41, SHARED_AVAILABLE} -> 1
                     [] id = RESPONSE_INFO -> <<>>
                     [] OTHER -> 0],
     publish |-> NoProperty, subscribe |-> NoSubscribeProperty, unsubscribe |-> NoSubscribeProperty,
     peer_topic_alias |-> NoProperty]

Whole == [total |-> 0, offset |-> 0]

Init ==
    /\ link = "down"
    /\ information = [client_id |-> Login.client_id, keepalive |-> Login.keepalive]
    /\ config = esp_mqtt5_create_default_config
    /\ fragment = Whole /\ count = 0 /\ outbox = <<>>
    /\ broker = [owed |-> <<>>, aliases |-> NoProperty]
    /\ calls = [settings |-> 0, others |-> 0, deliveries |-> 0, connects |-> 0]
    /\ part = <<>> /\ written = <<>> /\ told = <<>>

Begun(kind, max) ==
    /\ calls[kind] < max /\ (kind = "settings" \/ calls.others + calls.deliveries < MaxEvents)
    /\ calls' = [calls EXCEPT ![kind] = @ + 1]
Spend == Begun("others", MaxCalls)
Delivery == Begun("deliveries", MaxEvents)
Quiet == written' = <<>> /\ told' = <<>>
ConnectionKept == UNCHANGED <<link, information, broker>>

-----------------------------------------------------------------------------
(* User properties: lists of pairs.                                        *)

\* Pairs without a key or a value are not added.
esp_mqtt5_client_set_user_property(list, items) ==
    list \o FlattenSeq([i \in DOMAIN items |-> IF Len(items[i]) = 2 THEN <<items[i]>> ELSE <<>>])

esp_mqtt5_client_get_user_property_count(list) == Len(list) % 256

esp_mqtt5_client_get_user_property(list, num) ==
    SubSeq(list, 1, IF num < Len(list) THEN num ELSE Len(list))

\* What an application finds with the two in an event.
UsersOfEvent(list) ==
    esp_mqtt5_client_get_user_property(list, esp_mqtt5_client_get_user_property_count(list))

\* The user properties of a struct are a list that the application made so,
\* and that esp_mqtt5_user_property_copy copies.
Copied(property) ==
    IF USER_PROPERTY \notin DOMAIN property THEN property
    ELSE [property EXCEPT ![USER_PROPERTY] = esp_mqtt5_client_set_user_property(<<>>, @)]

-----------------------------------------------------------------------------
(* Setting properties.                                                     *)

Set(new) ==
    /\ Begun("settings", MaxSettings)
    /\ Quiet /\ config' = new
    /\ UNCHANGED <<fragment, count, outbox>> /\ ConnectionKept

\* A struct that the fields of another one that are set are copied into.
Merged(new, old) ==
    [id \in DOMAIN new \union DOMAIN old |-> IF id \in DOMAIN new THEN new[id] ELSE old[id]]

WholeBuffer == [id \in {MAXIMUM_PACKET_SIZE} |-> BufferLength]

\* What is set replaces what was; a packet size that does not fit is refused
\* when the session's expiry has been taken over already.
esp_mqtt5_client_set_connect_property(p) ==
    LET size == Field(p.connect, MAXIMUM_PACKET_SIZE)
        expiry == [id \in {17} \intersect DOMAIN p.connect |-> p.connect[id]]
    IN  Set(IF size > BufferLength
            THEN [config EXCEPT !.connect = Merged(expiry, @)]
            ELSE [config EXCEPT
                    !.connect = Merged(Copied(p.connect), IF size = 0 THEN Merged(WholeBuffer, @) ELSE @),
                    !.will = Merged(Copied(p.will), @)])

esp_mqtt5_client_set_publish_property(p) ==
    Set(IF Field(p, TOPIC_ALIAS) > config.server[TOPIC_ALIAS_MAXIMUM] THEN config
        ELSE [config EXCEPT !.publish = Copied(p)])

MayShare(p) == p.is_share_subscribe => config.server[SHARED_AVAILABLE] = 1 /\ p.share_name # <<>>

esp_mqtt5_client_set_subscribe_property(p) ==
    Set(IF p.retain_handle > 2 \/ (p.is_share_subscribe /\ p.no_local = 1) \/ ~MayShare(p) THEN config
        ELSE [config EXCEPT !.subscribe = p])

esp_mqtt5_client_set_unsubscribe_property(p) ==
    Set(IF MayShare(p) THEN [config EXCEPT !.unsubscribe = p] ELSE config)

esp_mqtt5_client_set_disconnect_property(p) ==
    Set([config EXCEPT !.disconnect =
            [values |-> Merged(Copied(p.values), @.values),
             reason |-> IF p.reason # 0 THEN p.reason ELSE @.reason]])

-----------------------------------------------------------------------------
(* Connecting.                                                             *)

\* A packet, what it is about, and whether the two fields were zero when it
\* was built, as mqtt_msg.h:67-68 says of all that is not fragmented.
Written(bytes, asked) == [bytes |-> bytes, asked |-> asked, plain |-> fragment = Whole]

\* fini_message moves the offset with the start of the message.
Positive(n) == IF n > 0 THEN n ELSE 0
Built(message) ==
    [fragment EXCEPT !.offset = Positive(@ - (MQTT5_MAX_FIXED_HEADER_SIZE - BodyOffset(message)))]

\* What CONNECT is about: what was configured, but for what a broker assigned.
ConnectInfo ==
    [client_id |-> information.client_id, keepalive |-> information.keepalive,
     clean_session |-> Login.clean_session, will |-> Login.will,
     username |-> Login.username, password |-> Login.password]

\* esp_mqtt_abort_connection
Aborted == link' = "down" /\ UNCHANGED <<information, broker>>


ConnectAsked ==
    [type |-> "connect", keepalive |-> information.keepalive, clean |-> Login.clean_session,
     properties |-> InOrder(ConnectOrder, config.connect), client_id |-> information.client_id,
     will |-> IF Login.will = <<>> THEN <<>>
              ELSE <<[properties |-> InOrder(WillOrder, config.will), topic |-> Login.will[1].topic,
                      message |-> Login.will[1].message, qos |-> Login.will[1].qos,
                      retain |-> Login.will[1].retain]>>,
     username |-> Login.username, password |-> Login.password]

\* mqtt5_msg_parse_connack_property and esp_mqtt5_parse_connack: all that was
\* understood is taken over, even from a broker that refuses.
Applied(ack) ==
    LET Of(ids) == [id \in DOMAIN ack.property \intersect ids |-> ack.property[id]]
    IN  /\ config' = [config EXCEPT !.server = Merged(Of(ServerFields), @), !.connect = Merged(Of({17}), @)]
        /\ information' =
            [client_id |-> IF 18 \in DOMAIN ack.property THEN ack.property[18] ELSE information.client_id,
             keepalive |-> IF 19 \in DOMAIN ack.property THEN ack.property[19] ELSE information.keepalive]

Connected(c, ack) ==
    [what |-> [event |-> "connected", session |-> ack.ack_flag % 2, user |-> UsersOfEvent(ack.user)],
     meant |-> [event |-> "connected", session |-> c.session, user |-> UserPairs(c.properties)]]

\* A connection that is accepted, and the count of publishes that it begins with.
Accepted(c, ack, first) ==
    /\ link' = "up" /\ count' = first
    /\ broker' = [owed |-> <<>>, aliases |-> NoProperty]
    /\ told' = <<Connected(c, ack)>>

NotAccepted == told' = <<>> /\ UNCHANGED <<link, count, broker>>

\* A CONNACK that does not fit the buffer is not read at all.
Connecting(c, first) ==
    LET bytes == mqtt5_msg_connect(ConnectInfo, config.connect, config.will, fragment.total)
        answer == Broker!Packet(c)
    IN  /\ link = "down"
        /\ calls.connects < MaxConnects /\ calls' = [calls EXCEPT !.connects = @ + 1]
        /\ bytes # <<>>
        /\ written' = <<Written(bytes, ConnectAsked)>>
        /\ fragment' = Built(bytes)
        /\ IF TooBig(answer) THEN NotAccepted /\ UNCHANGED <<information, config>>
           ELSE \E ack \in {mqtt5_msg_parse_connack_property(answer)} :
                   /\ Applied(ack)
                   /\ IF ack.ok /\ ack.reason = 0 THEN Accepted(c, ack, first) ELSE NotAccepted
        /\ UNCHANGED outbox

\* Plausible bug: the count of the last connection goes on.
ConnectCountingOn(c) == Connecting(c, count)

\* esp_mqtt_connect
Connect(c) == Connecting(c, 0)

\* CONNECT cannot be created: the connection is given up.
ConnectFails ==
    /\ link = "down" /\ Quiet
    /\ mqtt5_msg_connect(ConnectInfo, config.connect, config.will, fragment.total) = <<>>
    /\ UNCHANGED <<link, information, config, fragment, count, outbox, broker, calls>>

Break ==
    /\ link = "up" /\ Spend /\ Quiet
    /\ link' = "broken"
    /\ UNCHANGED <<information, config, fragment, count, outbox, broker>>

Notice ==
    /\ link = "broken" /\ Quiet /\ Aborted
    /\ UNCHANGED <<config, fragment, count, outbox, calls>>

\* esp_mqtt_client_disconnect and what the task does then, send_disconnect_msg.
Disconnect ==
    LET property == config.disconnect
        bytes == mqtt5_msg_disconnect(property, fragment.total)
        asked == [type |-> "disconnect", reason |-> property.reason,
                  properties |-> InOrder(DisconnectOrder, property.values)]
    IN  /\ link # "down" /\ part = <<>> /\ Spend
        /\ told' = <<>>
        /\ IF bytes = <<>> THEN written' = <<>> /\ UNCHANGED <<config, fragment>>
           ELSE /\ written' = <<Written(bytes, asked)>>
                /\ config' = [config EXCEPT !.disconnect = NoDisconnectProperty]
                /\ fragment' = Built(bytes)
        /\ Aborted
        /\ UNCHANGED <<count, outbox>>

-----------------------------------------------------------------------------
(* Sending: the exchange that a packet begins is the broker's to end.      *)

Exchange(type, qos, id) == [type |-> type, qos |-> qos, id |-> id]

Owes(type, qos, id) ==
    broker' = IF link = "up" /\ (type # PUBLISH \/ qos > 0)
              THEN [broker EXCEPT !.owed = Append(@, Exchange(type, qos, id))] ELSE broker

IsNew(r) == \A i \in DOMAIN outbox : outbox[i].req.no # r.no

\* A message in the outbox.
Stored(r, packet) == [no |-> r.no, type |-> r.type, qos |-> r.qos, packet |-> packet]

\* esp_mqtt5_client_publish_check
esp_mqtt5_client_publish_check(r) ==
    /\ r.qos <= config.server[MAXIMUM_QOS]
    /\ r.retain = 1 => config.server[RETAIN_AVAILABLE] = 1
    /\ count <= config.server[RECEIVE_MAXIMUM]

esp_mqtt5_client_subscribe_check(r) == r.qos <= config.server[MAXIMUM_QOS]

\* make_publish
make_publish(r) == mqtt5_msg_publish(r, r.no, config.publish, config.server[RESPONSE_INFO], fragment)

PublishAsked(r, dup) ==
    [type |-> PUBLISH, dup |-> dup, qos |-> r.qos, retain |-> r.retain, id |-> r.no,
     topic |-> r.topic, properties |-> InOrder(PublishOrder, config.publish), payload |-> r.payload]

\* The parts of a payload behind the first sent bytes of it; what lies in front
\* of it is not known.
Remaining(payload, sent) ==
    [i \in 1 .. Len(payload) - sent |-> IF sent + i > 0 THEN payload[sent + i] ELSE 256]

\* All that is written of a publish: the message, and what the code takes for
\* the payload that is left.
AllOf(r, built) ==
    built.message \o Remaining(r.payload, Len(built.message) - built.offset)

\* The broker's response information makes a topic that is not the one asked for.
PublishWritten(r, built) ==
    [bytes |-> AllOf(r, built), asked |-> PublishAsked(r, 0),
     plain |-> /\ fragment.offset = 0 \/ built.total # 0
               /\ RESPONSE_TOPIC \in DOMAIN config.publish => config.server[RESPONSE_INFO] = <<>>]

\* mqtt_client_enqueue_publish: in the outbox a fragmented message is whole.
StoredPublish(r, built) ==
    LET bytes == IF built.total = 0 THEN built.message ELSE AllOf(r, built)
    IN  outbox_enqueue(outbox, Stored(r, [PublishWritten(r, built) EXCEPT !.bytes = bytes]))

\* The first byte of what was written last, where the code looks for the dup
\* flag of the message.
LastPiece(r, built) ==
    LET rest == Remaining(r.payload, Len(built.message) - built.offset)
    IN  IF rest = <<>> THEN built.message[1]
        ELSE rest[((Len(rest) - 1) \div BufferLength) * BufferLength + 1]

DupBit(byte) == (byte \div 8) % 2

\* esp_mqtt5_increment_packet_counter, esp_mqtt5_decrement_packet_counter
Incremented(byte) == IF DupBit(byte) = 0 THEN (count + 1) % 65536 ELSE count
\* Plausible bug: an acknowledgement nobody waits for is counted.
DecrementedBelow == count - 1
Decremented == IF count > 0 THEN count - 1 ELSE 0

Consumed == config' = [config EXCEPT !.publish = NoProperty]

\* esp_mqtt_client_publish and _enqueue of what is refused or cannot be created;
\* tried while another call could be.
PublishRefused(r) ==
    /\ r.type = PUBLISH /\ Quiet
    /\ calls.others < MaxCalls
    /\ ~esp_mqtt5_client_publish_check(r) \/ make_publish(r).message = <<>>
    /\ UNCHANGED <<config, fragment, count, outbox, calls>> /\ ConnectionKept

MayPublishNew(r) == r.type = PUBLISH /\ IsNew(r) /\ Spend /\ esp_mqtt5_client_publish_check(r)

\* esp_mqtt_client_publish without a connection
PublishLater(r) ==
    /\ link = "down" /\ MayPublishNew(r) /\ Quiet
    /\ \E built \in {make_publish(r)} :
          /\ built.message # <<>> /\ Consumed
          /\ \E n \in 0 .. Len(outbox) :
                outbox' = outbox_delete_expired(IF r.qos > 0 THEN StoredPublish(r, built) ELSE outbox, n)
          /\ fragment' = [total |-> 0, offset |-> Positive(built.offset)]
    /\ UNCHANGED count /\ ConnectionKept

\* esp_mqtt_client_publish with a connection: stored and written
PublishNow(r) ==
    /\ link # "down" /\ MayPublishNew(r)
    /\ told' = <<>>
    /\ \E built \in {make_publish(r)} :
          LET kept == IF r.qos > 0 THEN StoredPublish(r, built) ELSE outbox
          IN  /\ built.message # <<>> /\ Consumed
              /\ \/ /\ written' = <<PublishWritten(r, built)>>
                    /\ fragment' = Whole
                    /\ outbox' = IF r.qos > 0 THEN outbox_set_pending(kept, r.no, TRANSMITTED) ELSE outbox
                    /\ count' = IF r.qos > 0 THEN Incremented(LastPiece(r, built)) ELSE count
                    /\ Owes(PUBLISH, r.qos, r.no)
                    /\ UNCHANGED <<link, information>>
                 \/ /\ link = "broken" /\ Aborted
                    /\ written' = <<>> /\ outbox' = kept
                    /\ \E offset \in {0, Positive(built.offset)} : fragment' = [total |-> 0, offset |-> offset]
                    /\ UNCHANGED count

\* esp_mqtt_client_enqueue; a QoS 0 message that is not to be stored is only
\* built.
Enqueue(r, store) ==
    LET stored == r.qos > 0 \/ store
    IN  /\ MayPublishNew(r) /\ Quiet
        /\ \E built \in {make_publish(r)} :
              /\ built.message # <<>> /\ Consumed
              /\ outbox' = IF stored THEN StoredPublish(r, built) ELSE outbox
              /\ fragment' = [total |-> IF stored THEN 0 ELSE built.total, offset |-> Positive(built.offset)]
        /\ UNCHANGED count /\ ConnectionKept

\* What a request asks of the broker, and its message.
TopicsAsked(r, property) ==
    [i \in DOMAIN r.topics |->
        [filter |-> IF property.is_share_subscribe
                    THEN Shared(property.share_name, r.topics[i].filter) ELSE r.topics[i].filter,
         options |-> IF r.type = SUBSCRIBE THEN <<SubscribeOptions(r.topics[i].qos, property)>> ELSE <<>>]]

SubscriptionAsked(r, property, order) ==
    [type |-> r.type, id |-> r.no, properties |-> InOrder(order, property.values),
     topics |-> TopicsAsked(r, property)]

\* Stored as transmitted and written; nothing else happens if that fails.
Requested(r, bytes, asked) ==
    LET packet == Written(bytes, asked)
    IN  /\ outbox' = outbox_set_pending(outbox_enqueue(outbox, Stored(r, packet)), r.no, TRANSMITTED)
        /\ fragment' = Built(bytes)
        /\ (written' = <<packet>>) \/ (link = "broken" /\ written' = <<>>)
        /\ Owes(r.type, r.qos, r.no)

\* esp_mqtt_client_subscribe_multiple
Subscribe(r) ==
    LET property == config.subscribe
        bytes == mqtt5_msg_subscribe(r.no, r.topics, property, fragment.total)
    IN  /\ link # "down" /\ r.type = SUBSCRIBE /\ IsNew(r) /\ Spend
        /\ told' = <<>>
        /\ IF esp_mqtt5_client_subscribe_check(r) /\ bytes # <<>>
           THEN /\ Requested(r, bytes, SubscriptionAsked(r, property, SubscribeOrder))
                /\ config' = [config EXCEPT !.subscribe = NoSubscribeProperty]
           ELSE written' = <<>> /\ UNCHANGED <<outbox, fragment, broker, config>>
        /\ UNCHANGED <<link, information, count>>

\* esp_mqtt_client_unsubscribe
Unsubscribe(r) ==
    LET property == config.unsubscribe
        bytes == mqtt5_msg_unsubscribe(r.no, r.topics[1].filter, property, fragment.total)
    IN  /\ link # "down" /\ r.type = UNSUBSCRIBE /\ IsNew(r) /\ Spend
        /\ told' = <<>>
        /\ IF bytes # <<>>
           THEN /\ Requested(r, bytes, SubscriptionAsked(r, property, UnsubscribeOrder))
                /\ config' = [config EXCEPT !.unsubscribe = NoSubscribeProperty]
           ELSE written' = <<>> /\ UNCHANGED <<outbox, fragment, broker, config>>
        /\ UNCHANGED <<link, information, count>>

-----------------------------------------------------------------------------
(* The task sends what is in the outbox.                                   *)

\* mqtt_resend_queued: a QoS 0 message is done with once it is written.
Left(list, req) ==
    IF req.type = PUBLISH /\ req.qos = 0 THEN outbox_delete_item(list, req) ELSE list

mqtt_resend_queued(req, sent, failed) ==
    /\ \/ /\ written' = <<req.packet>>
          /\ outbox' = sent
          /\ count' = IF req.type = PUBLISH /\ req.qos > 0 THEN Incremented(req.packet.bytes[1]) ELSE count
          /\ Owes(req.type, req.qos, req.no)
          /\ UNCHANGED <<link, information>>
       \/ /\ link = "broken" /\ Aborted
          /\ written' = <<>> /\ outbox' = failed
          /\ UNCHANGED count
    /\ told' = <<>>
    /\ UNCHANGED <<config, fragment, calls>>

ResendQueued ==
    LET i == outbox_dequeue(outbox, QUEUED)  req == outbox[i].req
    IN  /\ link # "down" /\ i # 0
        /\ mqtt_resend_queued(req, outbox_set_pending(Left(outbox, req), IdOf(req), TRANSMITTED), outbox)

\* mqtt_set_dup, in the stored message
Duplicate(packet) ==
    IF DupBit(packet.bytes[1]) = 1 THEN packet
    ELSE [packet EXCEPT !.bytes[1] = @ + 8, !.asked.dup = 1]

Retransmit ==
    LET i == outbox_dequeue(outbox, TRANSMITTED)
        req == IF outbox[i].req.type = PUBLISH /\ outbox[i].req.qos > 0
               THEN [outbox[i].req EXCEPT !.packet = Duplicate(@)] ELSE outbox[i].req
        marked == [outbox EXCEPT ![i].req = req]
    IN  /\ link # "down" /\ outbox_dequeue(outbox, QUEUED) = 0 /\ i # 0
        /\ Len(broker.owed) < MaxOwed
        /\ mqtt_resend_queued(req, Left(marked, req), marked)

\* mqtt_delete_expired_messages
Expire ==
    /\ link # "down" /\ Quiet
    /\ \E n \in 1 .. Len(outbox) : outbox' = outbox_delete_expired(outbox, n)
    /\ UNCHANGED <<config, fragment, count, calls>> /\ ConnectionKept

-----------------------------------------------------------------------------
(* mqtt_process_receive: the broker ends an exchange that it owes.         *)

\* The exchange i is the one that ends.
Ends(i, type, qos) ==
    /\ link = "up" /\ i \in DOMAIN broker.owed
    /\ broker.owed[i].type = type /\ broker.owed[i].qos = qos

Ended(i) == [broker EXCEPT !.owed = RemoveAt(@, i)]

\* An event, if the packet was for a message in the outbox.
Told(type, id, what, meant) ==
    /\ outbox' = outbox_delete(outbox, id, type)
    /\ told' = IF Initiator(outbox, id, type) = 0 THEN <<>> ELSE <<[what |-> what, meant |-> meant]>>

\* An answer that does not fit the buffer: the connection is given up.
NotRead == Spend /\ Quiet /\ Aborted /\ UNCHANGED <<config, fragment, count, outbox>>

\* What the broker answers in the exchange of a message, in as few bytes as it may.
Answered(type, id, answer) ==
    [type |-> type, id |-> id, reason |-> answer.reason, properties |-> answer.properties]

\* PUBACK and PUBCOMP: esp_mqtt5_parse_puback, esp_mqtt5_parse_pubcomp
Published(i, p) ==
    /\ count' = Decremented
    /\ \E bytes \in {Broker!ShortAck(p)} : \E ack \in {mqtt5_get_puback_data(bytes)}, id \in {mqtt5_get_id(bytes)} :
          Told(PUBLISH, id, [event |-> "published", id |-> id, data |-> ack.data, user |-> UsersOfEvent(ack.user)],
               [event |-> "published", id |-> p.id, user |-> UserPairs(p.properties),
                data |-> IF p.reason = 0 /\ p.properties = <<>> THEN <<>> ELSE <<p.reason>>])
    /\ broker' = Ended(i)
    /\ written' = <<>>
    /\ UNCHANGED <<link, information, config, fragment, calls>>

PublishedIfRead(i, p) == IF TooBig(Broker!ShortAck(p)) THEN NotRead ELSE Published(i, p)

ReceivePubAck(i, answer) ==
    Ends(i, PUBLISH, 1) /\ PublishedIfRead(i, Answered("puback", broker.owed[i].id, answer))

ReceivePubComp(i, answer) ==
    Ends(i, "pubrel", 2) /\ PublishedIfRead(i, Answered("pubcomp", broker.owed[i].id, answer))

AckAsked(type, id) == [type |-> type, id |-> id, reason |-> 0, properties |-> <<>>]

\* An acknowledgement of the client's own.
Acknowledge(type, number, qos, id) ==
    \E bytes \in {mqtt5_msg_ack(number, qos, id, fragment.total)} :
        written' = <<Written(bytes, AckAsked(type, id))>> /\ fragment' = Built(bytes)

Received(i, p) ==
    /\ \E id \in {mqtt5_get_id(Broker!ShortAck(p))} :
          /\ outbox' = outbox_set_pending(outbox, id, ACKNOWLEDGED)
          /\ Acknowledge("pubrel", 6, 1, id)
          /\ broker' = [Ended(i) EXCEPT !.owed = Append(@, Exchange("pubrel", 2, id))]
    /\ told' = <<>>
    /\ UNCHANGED <<link, information, config, count, calls>>

ReceivePubRec(i, answer) ==
    /\ Ends(i, PUBLISH, 2)
    /\ \E p \in {Answered("pubrec", broker.owed[i].id, answer)} :
          IF TooBig(Broker!ShortAck(p)) THEN NotRead ELSE Received(i, p)

\* SUBACK and UNSUBACK; deliver_suback fails without reasons.
Suback(i, p, event) ==
    /\ \E bytes \in {Broker!Packet(p)} : \E ack \in {mqtt5_get_suback_data(bytes)}, id \in {mqtt5_get_id(bytes)} :
          /\ ack.data # <<>>
          /\ Told(broker.owed[i].type, id,
                  [event |-> event, id |-> id, data |-> ack.data, user |-> UsersOfEvent(ack.user)],
                  [event |-> event, id |-> p.id, data |-> p.reasons, user |-> UserPairs(p.properties)])
    /\ broker' = Ended(i)
    /\ written' = <<>>
    /\ UNCHANGED <<link, information, config, fragment, count, calls>>

\* A reason for each topic that the packet named.
Reasons(id, answer) ==
    LET asked == CHOOSE r \in Requests : r.no = id
    IN  [id |-> id, properties |-> answer.properties,
         reasons |-> [t \in DOMAIN asked.topics |-> IF t = 1 THEN answer.reason ELSE 0]]

SubackIfRead(i, p, event) == IF TooBig(Broker!Packet(p)) THEN NotRead ELSE Suback(i, p, event)

ReceiveSubAck(i, answer) ==
    /\ Ends(i, SUBSCRIBE, broker.owed[i].qos)
    /\ SubackIfRead(i, [type |-> "suback"] @@ Reasons(broker.owed[i].id, answer), "subscribed")

ReceiveUnsubAck(i, answer) ==
    /\ Ends(i, UNSUBSCRIBE, broker.owed[i].qos)
    /\ SubackIfRead(i, [type |-> "unsuback"] @@ Reasons(broker.owed[i].id, answer), "unsubscribed")

-----------------------------------------------------------------------------
(* mqtt_process_receive: the broker publishes.                             *)

\* A table of aliases in which an alias has a topic from now on.
WithAlias(aliases, alias, topic) ==
    [a \in DOMAIN aliases \union {alias} |-> IF a = alias THEN topic ELSE aliases[a]]

\* Plausible bug: an alias keeps its first topic.
update_topic_alias_once(aliases, alias, topic) == aliases @@ WithAlias(<<>>, alias, topic)

\* esp_mqtt5_client_update_topic_alias
update_topic_alias(aliases, alias, topic) == WithAlias(aliases, alias, topic)

\* esp_mqtt5_get_publish_data: the topic, and the aliases after; a topic of <<>>
\* is a failure.
esp_mqtt5_get_publish_data(read) ==
    LET alias == Field(read.property, TOPIC_ALIAS)
        known == config.peer_topic_alias
    IN  IF ~read.ok \/ alias > Field(config.connect, TOPIC_ALIAS_MAXIMUM)
        THEN [topic |-> <<>>, aliases |-> known]
        ELSE IF alias = 0 THEN [topic |-> read.topic, aliases |-> known]
        ELSE IF read.topic # <<>>
        THEN [topic |-> read.topic, aliases |-> update_topic_alias(known, alias, read.topic)]
        ELSE [topic |-> IF alias \in DOMAIN known THEN known[alias] ELSE <<>>, aliases |-> known]

\* The properties that an event has room for.
EventFields == {1, 3, RESPONSE_TOPIC, 9, 11}
OfEvent(property) == [id \in DOMAIN property \intersect EventFields |-> property[id]]

\* The broker uses an alias that has a topic, or gives it one; one above the
\* maximum that it was told is an error of its own.
MayPublish(p) == p.topic = <<>> => Field(Struct(p.properties), TOPIC_ALIAS) \in DOMAIN broker.aliases

MeantTopic(p) ==
    IF p.topic # <<>> THEN p.topic ELSE broker.aliases[Field(Struct(p.properties), TOPIC_ALIAS)]

\* The part of a payload that begins behind its first offset bytes, told with
\* how long all of it is, and if it is the last part.
Part(payload, offset, total, last) ==
    [payload |-> payload, offset |-> offset, total |-> total, last |-> last]

\* The part of n bytes that the broker means, behind those that were told.
MeantPart(p, before, n) ==
    Part(SubSeq(p.payload, before + 1, before + n), before, Len(p.payload), before + n = Len(p.payload))

\* The bytes of a publish that are not in the buffer.
Missing(bytes) == SubSeq(bytes, Len(InBuffer(bytes)) + 1, Len(bytes))

\* event.total_data_len: with the bytes that are to be read.
TotalData(read, bytes) == Len(read.payload) + TotalLength(bytes) - Len(InBuffer(bytes))

\* The event with the first part: the topic, the properties, and what is in the
\* buffer of the payload.
Delivered(p, bytes, read, topic) ==
    [what |-> [event |-> "data", topic |-> topic,
               part |-> Part(read.payload, 0, TotalData(read, bytes), Missing(bytes) = <<>>),
               property |-> OfEvent(read.property), user |-> UsersOfEvent(read.user)],
     meant |-> [event |-> "data", topic |-> MeantTopic(p),
                part |-> MeantPart(p, 0, Len(read.payload)),
                property |-> OfEvent(Struct(p.properties)), user |-> UserPairs(p.properties)]]

\* All of a publish was delivered.
AcknowledgePublish(qos, id) ==
    CASE qos = 0 -> written' = <<>> /\ UNCHANGED fragment
      [] qos = 1 -> Acknowledge("puback", 4, 0, id)
      [] qos = 2 -> Acknowledge("pubrec", 5, 0, id)

\* What deliver_publish remembers in front of a read: what the last event said
\* (its offset and length, the whole length), and what is to be read.  The last
\* two are the broker's publish, and how much of its payload was told.
Reading(p, bytes, read) ==
    [qos |-> p.qos, id |-> mqtt5_get_id(InBuffer(bytes)), total |-> TotalData(read, bytes),
     offset |-> 0, len |-> Len(read.payload), missing |-> Missing(bytes),
     of |-> p, told |-> Len(read.payload)]

\* The first event of deliver_publish, and the acknowledgement if it is the last.
DeliverFirst(p, bytes, read, topic) ==
    /\ told' = <<Delivered(p, bytes, read, topic)>>
    /\ IF Missing(bytes) = <<>> THEN part' = <<>> /\ AcknowledgePublish(p.qos, mqtt5_get_id(bytes))
       ELSE part' = <<Reading(p, bytes, read)>> /\ written' = <<>> /\ UNCHANGED fragment

\* The alias of a publish has its topic on this connection.
GivesAlias(p) ==
    LET alias == Field(Struct(p.properties), TOPIC_ALIAS)
    IN  broker' = IF alias = 0 THEN broker
                  ELSE [broker EXCEPT !.aliases = WithAlias(@, alias, MeantTopic(p))]

ReceivePublish(p) ==
    LET bytes == Broker!Packet(p)
    IN  /\ link = "up" /\ part = <<>> /\ Delivery /\ MayPublish(p)
        /\ IF TopicTooBig(bytes) THEN Quiet /\ Aborted /\ UNCHANGED <<config, fragment, part>>
           ELSE \E read \in {mqtt5_get_publish_property_payload(InBuffer(bytes))} :
                \E data \in {esp_mqtt5_get_publish_data(read)} :
                   /\ config' = [config EXCEPT !.peer_topic_alias = data.aliases]
                   /\ IF data.topic = <<>> THEN Quiet /\ Aborted /\ UNCHANGED <<fragment, part>>
                      ELSE /\ DeliverFirst(p, bytes, read, data.topic) /\ GivesAlias(p)
                           /\ UNCHANGED <<link, information>>
        /\ UNCHANGED <<count, outbox>>

\* What a read asks for: all that is missing, or a buffer full.
Wanted(now) == IF Len(now.missing) > BufferLength THEN BufferLength ELSE Len(now.missing)

\* deliver_publish reads on.  A later part has no topic; the user properties went
\* with the first.
ReadData(n) ==
    LET now == part[1]
        offset == now.offset + now.len
        left == SubSeq(now.missing, n + 1, Len(now.missing))
    IN  /\ part # <<>> /\ n \in 1 .. Wanted(now)
        /\ told' = <<[what |-> [event |-> "data", topic |-> <<>>, user |-> <<>>,
                                part |-> Part(SubSeq(now.missing, 1, n), offset, now.total, left = <<>>)],
                      meant |-> [event |-> "data", topic |-> <<>>, user |-> <<>>,
                                 part |-> MeantPart(now.of, now.told, n)]]>>
        /\ IF left = <<>> THEN part' = <<>> /\ AcknowledgePublish(now.qos, now.id)
           ELSE /\ part' = <<[now EXCEPT !.offset = offset, !.len = n, !.missing = left, !.told = @ + n]>>
                /\ written' = <<>> /\ UNCHANGED fragment
        /\ UNCHANGED <<link, information, config, count, outbox, broker, calls>>

\* A read that times out ends the publish as if all of it had come.  The bytes
\* that come later are taken for packets: the connection is out of step, and no
\* more is said here of what is read on it.
ReadTimesOut ==
    /\ part # <<>> /\ Spend
    /\ AcknowledgePublish(part[1].qos, part[1].id)
    /\ part' = <<>> /\ told' = <<>> /\ link' = "broken"
    /\ UNCHANGED <<information, config, count, outbox, broker>>

ReadFails ==
    /\ part # <<>> /\ Spend
    /\ Quiet /\ Aborted /\ part' = <<>>
    /\ UNCHANGED <<config, fragment, count, outbox>>

\* PUBREL, of a publish or of an earlier session's
ReceivePubRel(p) ==
    /\ link = "up" /\ Delivery /\ p.qos = 2
    /\ Acknowledge("pubcomp", 7, 0, mqtt5_get_id(Broker!ShortAck(AckAsked("pubrel", p.id))))
    /\ told' = <<>>
    /\ UNCHANGED <<link, information, config, count, outbox, broker>>

-----------------------------------------------------------------------------
Application ==
    \/ \E p \in ConnectProperties : esp_mqtt5_client_set_connect_property(p)
    \/ \E p \in PublishProperties : esp_mqtt5_client_set_publish_property(p)
    \/ \E p \in SubscribeProperties : esp_mqtt5_client_set_subscribe_property(p)
    \/ \E p \in UnsubscribeProperties : esp_mqtt5_client_set_unsubscribe_property(p)
    \/ \E p \in DisconnectProperties : esp_mqtt5_client_set_disconnect_property(p)
    \/ \E r \in Requests : \/ PublishRefused(r) \/ PublishLater(r) \/ PublishNow(r)
                           \/ \E store \in BOOLEAN : Enqueue(r, store)
                           \/ Subscribe(r) \/ Unsubscribe(r)
    \/ Disconnect

Receive ==
    \/ \E i \in DOMAIN broker.owed, answer \in Answers :
          \/ ReceivePubAck(i, answer) \/ ReceivePubRec(i, answer) \/ ReceivePubComp(i, answer)
          \/ ReceiveSubAck(i, answer) \/ ReceiveUnsubAck(i, answer)
    \/ \E p \in Publishes : ReceivePubRel(p)

Task ==
    \/ Receive
    \/ \E c \in Connacks : Connect(c)
    \/ ConnectFails \/ Break \/ Notice
    \/ ResendQueued \/ Retransmit \/ Expire

Deliver ==
    \/ \E p \in Publishes : ReceivePublish(p)
    \/ \E n \in ReadSizes : ReadData(n)
    \/ part # <<>> /\ ReadData(Wanted(part[1]))
    \/ ReadTimesOut \/ ReadFails

\* Between two parts of a publish the task holds api_lock, and only a handler of
\* the event can call the client.
Next ==
    \/ Application /\ UNCHANGED part
    \/ part = <<>> /\ Task /\ UNCHANGED part
    \/ Deliver

Spec == Init /\ [][Next]_vars

-----------------------------------------------------------------------------
(* The packets of the broker that the client reads as they were written.    *)
(* What a packet is read as depends on its bytes alone, and on no state.    *)

ReadsConnack(c) ==
    LET ack == mqtt5_msg_parse_connack_property(Broker!Packet(c))
    IN  ack.ok /\ ack.reason = 0
            => ack.ack_flag % 2 = c.session /\ UsersOfEvent(ack.user) = UserPairs(c.properties)

\* What is in the buffer of a payload is its beginning, and what is missing is
\* the rest.
ReadsPublish(p) ==
    LET bytes == Broker!Packet(p)
        read == mqtt5_get_publish_property_payload(InBuffer(bytes))
        first == Len(read.payload)
    IN  ~TopicTooBig(bytes) /\ read.ok
            => /\ read.topic = p.topic /\ read.property = Struct(p.properties)
               /\ UsersOfEvent(read.user) = UserPairs(p.properties)
               /\ first \in 0 .. Len(p.payload) /\ read.payload = SubSeq(p.payload, 1, first)
               /\ TotalData(read, bytes) = Len(p.payload)
               /\ Missing(bytes) = SubSeq(p.payload, first + 1, Len(p.payload))

ReadsId(p) == mqtt5_get_id(Broker!ShortAck(p)) = p.id

ReadsAck(p) ==
    LET ack == mqtt5_get_puback_data(Broker!ShortAck(p))
    IN  /\ ReadsId(p)
        /\ ack.data = IF p.reason = 0 /\ p.properties = <<>> THEN <<>> ELSE <<p.reason>>
        /\ UsersOfEvent(ack.user) = UserPairs(p.properties)

ReadsSuback(p) ==
    LET ack == mqtt5_get_suback_data(Broker!Packet(p))
    IN  ack.data # <<>> => /\ mqtt5_get_id(Broker!Packet(p)) = p.id /\ ack.data = p.reasons
                           /\ UsersOfEvent(ack.user) = UserPairs(p.properties)

\* All that the broker may send, to every message that the client may send.
AllRead ==
    /\ \A c \in Connacks : ReadsConnack(c)
    /\ \A p \in Publishes : ReadsPublish(p)
    /\ \A r \in Requests, answer \in Answers :
          CASE r.type = PUBLISH -> /\ ReadsAck(Answered("puback", r.no, answer))
                                   /\ ReadsId(Answered("pubrec", r.no, answer))
                                   /\ ReadsAck(Answered("pubcomp", r.no, answer))
            [] r.type = SUBSCRIBE -> ReadsSuback([type |-> "suback"] @@ Reasons(r.no, answer))
            [] r.type = UNSUBSCRIBE -> ReadsSuback([type |-> "unsuback"] @@ Reasons(r.no, answer))

-----------------------------------------------------------------------------
(* Properties.                                                             *)

\* Types.  The count is an unsigned number, so that an acknowledgement that
\* nobody waits for must not be counted (esp_mqtt5_decrement_packet_counter).
TypeOK ==
    /\ link \in {"down", "up", "broken"}
    /\ count \in 0 .. 65535
    /\ fragment.total \in Nat /\ fragment.offset \in Nat
    /\ \A i \in DOMAIN outbox : outbox[i].pending \in {QUEUED, TRANSMITTED, ACKNOWLEDGED}
    /\ information.client_id \in Seq(Byte) /\ information.keepalive \in 0 .. 65535
    /\ DOMAIN config.server = ServerFields
    /\ Len(part) <= 1 /\ \A i \in DOMAIN part : link = "up" /\ part[i].missing # <<>>
    /\ Len(written) <= 1 /\ Len(told) <= 1

\* The bytes that are written are those of MQTT 5 for what was asked for, with
\* the properties that were set for it and no others: whole, of the length that
\* they announce, and also when they are repeated, resent from the outbox or
\* written in pieces (mqtt5_msg.c).  It is about packets that are built when the
\* two fields of a fragmented message are zero, and with no response topic that
\* the broker's response information is added to.
PacketsSayWhatWasAsked ==
    \A i \in DOMAIN written : written[i].plain => written[i].bytes = Broker!Packet(written[i].asked)

\* An event says what the broker meant: the topic an alias stands for on this
\* connection, the properties and reasons, and of which message; and of a payload
\* that does not fit the buffer the part behind those of the events before, the
\* last one at its end (mqtt5_get_publish_property_payload,
\* esp_mqtt5_get_publish_data, deliver_publish, *_data).
ToldWhatWasMeant == \A i \in DOMAIN told : told[i].what = told[i].meant

\* The exchanges of a publish that are not at their end.
Unfinished(owed) == {i \in DOMAIN owed : owed[i].type \in {PUBLISH, "pubrel"}}

\* The flow control does not wait for acknowledgements that cannot come: on a
\* connection that works, every message it counts is one the broker still has to
\* acknowledge (esp_mqtt5_increment_packet_counter, esp_mqtt_connect).
WindowIsHonest == link = "up" => count <= Cardinality(Unfinished(broker.owed))
=============================================================================
