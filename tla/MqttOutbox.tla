------------------------------ MODULE MqttOutbox ------------------------------
(***************************************************************************)
(* The outbox of the MQTT client (components/mqtt/esp-mqtt/lib/            *)
(* mqtt_outbox.c): the list of messages that were accepted and are not     *)
(* done with.  An item is [req, pending]; req is what the application      *)
(* asked for, [no, type, qos], and stands for the item's address too.      *)
(***************************************************************************)
EXTENDS Integers, SequencesExt

PUBLISH     == "publish"
SUBSCRIBE   == "subscribe"
UNSUBSCRIBE == "unsubscribe"

\* pending_state_t
QUEUED       == "queued"
TRANSMITTED  == "transmitted"
ACKNOWLEDGED == "acknowledged"

\* outbox_item, for requests of a set
Item(requests) == [req : requests, pending : {QUEUED, TRANSMITTED, ACKNOWLEDGED}]

\* mqtt_msg_publish: a QoS 0 message has no identifier.  The others draw a
\* random one; that two of them draw the same is left out.
IdOf(req) == IF req.type = PUBLISH /\ req.qos = 0 THEN 0 ELSE req.no

outbox_enqueue(list, req) == Append(list, [req |-> req, pending |-> QUEUED])

\* The first item with an identifier, or 0.
outbox_get(list, id) == SelectInSeq(list, LAMBDA item : IdOf(item.req) = id)

\* The first item in a state, or 0.  It stays in the list.
outbox_dequeue(list, pending) == SelectInSeq(list, LAMBDA item : item.pending = pending)

\* Without the item at an index, if there is one.
Without(list, i) == IF i = 0 THEN list ELSE RemoveAt(list, i)

outbox_delete_item(list, req) ==
    Without(list, SelectInSeq(list, LAMBDA item : item.req = req))

\* The item an acknowledgement of type and id is for, or 0.
Initiator(list, id, type) ==
    SelectInSeq(list, LAMBDA item : IdOf(item.req) = id /\ item.req.type = type)

\* Plausible bug: the first item is taken for the acknowledged one.
DeleteFirst(list, id, type) == IF Initiator(list, id, type) = 0 THEN list ELSE Tail(list)

outbox_delete(list, id, type) == Without(list, Initiator(list, id, type))

outbox_set_pending(list, id, pending) ==
    LET i == outbox_get(list, id)
    IN  IF i = 0 THEN list ELSE [list EXCEPT ![i].pending = pending]

\* Items are in the order of their ticks, so the n oldest are the first n.
outbox_delete_expired(list, n) == SubSeq(list, n + 1, Len(list))
=============================================================================
