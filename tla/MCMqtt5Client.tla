---------------------------- MODULE MCMqtt5Client ----------------------------
(* Mqtt5Client with a buffer of 220 bytes: a user property of 130 makes the  *)
(* lengths take two bytes, and a payload of 100 behind it does not fit: what *)
(* the client writes of it is a fragmented message, what it reads comes in   *)
(* two or three parts.                                                       *)
EXTENDS Mqtt5Client

Repeated(byte, n) == [i \in 1 .. n |-> byte]

TopicA == <<97>>
TopicB == <<98, 47, 99>>
Name == <<110, 97>>
Value == <<118>>
LongUser == <<Name, Repeated(118, 130)>>
User == <<Name, Value>>
TooLong == USER_PROPERTY :> <<LongUser, LongUser>>

\* 104 has the bit of the dup flag.
LongPayload == Repeated(104, 100)
Payload == <<100, 200>>

MCBufferLength == 220

MCLogin ==
    [client_id |-> <<>>, keepalive |-> 120, clean_session |-> TRUE,
     will |-> <<[topic |-> TopicB, message |-> Payload, qos |-> 1, retain |-> 1]>>,
     username |-> <<>>, password |-> <<<<112>>>>]

Asked(no, type, qos) == [no |-> no, type |-> type, qos |-> qos]

MCRequests ==
    {Asked(1, PUBLISH, 1) @@ [retain |-> 0, topic |-> TopicA, payload |-> LongPayload],
     Asked(300, PUBLISH, 2) @@ [retain |-> 1, topic |-> TopicB, payload |-> Payload],
     Asked(7, PUBLISH, 0) @@ [retain |-> 0, topic |-> TopicA, payload |-> <<>>],
     Asked(8, SUBSCRIBE, 2) @@ [topics |-> <<[filter |-> TopicA, qos |-> 2], [filter |-> TopicB, qos |-> 0]>>],
     Asked(9, UNSUBSCRIBE, 0) @@ [topics |-> <<[filter |-> TopicB, qos |-> 0]>>]}

MCConnectProperties ==
    {[connect |-> (TOPIC_ALIAS_MAXIMUM :> 5) @@ (RECEIVE_MAXIMUM :> 10) @@ (25 :> 1) @@ (USER_PROPERTY :> <<LongUser>>),
      will |-> (24 :> 30) @@ (RESPONSE_TOPIC :> TopicA)],
     [connect |-> (17 :> 70000) @@ (MAXIMUM_PACKET_SIZE :> 100000), will |-> NoProperty],
     [connect |-> TooLong, will |-> NoProperty]}

MCPublishProperties ==
    {(1 :> 1) @@ (2 :> 70000) @@ (USER_PROPERTY :> <<User, LongUser, <<Name>>>>),
     (TOPIC_ALIAS :> 3) @@ (RESPONSE_TOPIC :> TopicB) @@ (9 :> <<0, 255>>) @@ (3 :> Name)}

MCSubscribeProperties ==
    {[NoSubscribeProperty EXCEPT !.values = (11 :> 200) @@ (USER_PROPERTY :> <<User>>),
        !.is_share_subscribe = TRUE, !.share_name = Name, !.retain_handle = 2, !.retain_as_published = 1]}
MCUnsubscribeProperties ==
    {[NoSubscribeProperty EXCEPT !.is_share_subscribe = TRUE, !.share_name = Name],
     [NoSubscribeProperty EXCEPT !.values = TooLong]}
MCDisconnectProperties ==
    {[values |-> (17 :> 300) @@ (USER_PROPERTY :> <<User>>), reason |-> 4],
     [values |-> TooLong, reason |-> 0]}

P(id, value) == [id |-> id, value |-> value]

MCConnacks ==
    {[type |-> "connack", session |-> 0, reason |-> 0, properties |-> <<P(RESPONSE_INFO, Name), P(SHARED_AVAILABLE, 0)>>],
     [type |-> "connack", session |-> 1, reason |-> 0,
      properties |-> <<P(RECEIVE_MAXIMUM, 1), P(TOPIC_ALIAS_MAXIMUM, 5), P(MAXIMUM_QOS, 1), P(RETAIN_AVAILABLE, 0),
                       P(18, Name), P(19, 30), P(USER_PROPERTY, LongUser), P(17, 50), P(MAXIMUM_PACKET_SIZE, 70000)>>],
     [type |-> "connack", session |-> 0, reason |-> 135, properties |-> <<P(31, Name)>>],
     [type |-> "connack", session |-> 0, reason |-> 0,
      properties |-> <<P(USER_PROPERTY, LongUser), P(USER_PROPERTY, LongUser)>>]}

Data(qos, id, topic, properties, payload) ==
    [type |-> PUBLISH, dup |-> 0, qos |-> qos, retain |-> 0, id |-> id, topic |-> topic,
     properties |-> properties, payload |-> payload]

MCPublishes ==
    {Data(0, 0, TopicA, <<P(TOPIC_ALIAS, 1), P(11, 200)>>, Payload),
     Data(1, 400, TopicB, <<P(USER_PROPERTY, LongUser), P(TOPIC_ALIAS, 1), P(31, Name)>>, LongPayload),
     Data(2, 500, <<>>, <<P(1, 1), P(2, 70000), P(TOPIC_ALIAS, 1), P(RESPONSE_TOPIC, TopicA)>>, <<>>),
     Data(0, 0, Repeated(116, 230), <<>>, Payload)}

\* The last one is longer than the buffer.
MCAnswers == {[reason |-> 0, properties |-> <<>>],
              [reason |-> 135, properties |-> <<P(31, Value), P(USER_PROPERTY, User)>>],
              [reason |-> 0, properties |-> <<P(USER_PROPERTY, LongUser), P(USER_PROPERTY, LongUser)>>]}

\* 37 bytes of the long publish are missing: one read returns them, or two do.
MCReadSizes == {20}

\* What Mqtt5Client_proofs asks of the packets of the broker.  It is evaluated
\* with the constants of the run.
ASSUME MCAllRead == AllRead
===============================================================================
