------------------------------ MODULE MqttClient ------------------------------
(***************************************************************************)
(* The MQTT client (components/mqtt/esp-mqtt/mqtt_client.c) as main.c      *)
(* configures it: its task esp_mqtt_task, one application thread that      *)
(* calls the API, and the connection to the broker.  MQTT 3.1.1, automatic *)
(* reconnection, a clean session, no limit on the outbox and no periodic   *)
(* refresh of the connection.                                              *)
(*                                                                         *)
(* An action is what one thread does between two points where another      *)
(* thread, the network or the broker can make a difference.  The task      *)
(* holds api_lock during one pass of its loop; an API function that takes  *)
(* the lock is one action.  Time is left out: a timeout that may have      *)
(* passed is an action that may be taken.  How packets are cut out of the  *)
(* byte stream, and publishes of the broker, are modelled in MqttReceive.  *)
(***************************************************************************)
EXTENDS MqttOutbox, FiniteSets

CONSTANTS
    Requests,   \* what the application asks for: [no, type, qos]
    MaxRequests,\* bound on how much of it it asks for in one behaviour
    MaxStarts,  \* bound on esp_mqtt_client_start
    MaxFaults,  \* bound on failed connects, broken connections, late answers
    MaxWire     \* bound on packets in flight to the broker when one is repeated

ASSUME RequestsAssumption ==
    /\ Requests \subseteq [no : Nat \ {0}, type : {PUBLISH, SUBSCRIBE, UNSUBSCRIBE}, qos : 0 .. 2]
    /\ \A r, s \in Requests : r.no = s.no => r = s

ASSUME BoundsAssumption ==
    MaxRequests \in Nat /\ MaxStarts \in Nat /\ MaxFaults \in Nat /\ MaxWire \in Nat

Tasks == 1 .. MaxStarts
Nobody == 0

VARIABLES
    state,    \* client->state
    run,      \* client->run
    bits,     \* client->status_bits
    api_lock, \* the task that is inside of its loop's critical section
    task,     \* where each task is
    app,      \* where the application thread is
    outbox,
    waiting,  \* client->wait_for_ping_resp
    link,     \* the connection: down, up, or broken and not known to be
    up,       \* packets on their way to the broker
    down,     \* packets on their way to the client
    held,     \* identifiers of QoS 2 messages the broker waits to have released
    faults,
    \* history
    received, \* how often the broker passed on each request's message, up to 2
    status,   \* what became of each request
    tried     \* requests that were written to a connection

client  == <<state, run, bits, api_lock, outbox, waiting>>
network == <<link, up, down, held, faults, received>>
vars    == <<client, network, task, app, status, tried>>

-----------------------------------------------------------------------------
Packet(req, dup) == [type |-> req.type, id |-> IdOf(req), qos |-> req.qos, dup |-> dup]
Control(type, id) == [type |-> type, id |-> id, qos |-> 0, dup |-> FALSE]

StatusOf(r) == status[r.no]
IsNew(r) ==
    /\ StatusOf(r) = "new"
    /\ Cardinality({no \in DOMAIN status : status[no] # "new"}) < MaxRequests

Init ==
    /\ state = "INIT" /\ run = FALSE /\ bits = {} /\ api_lock = Nobody
    /\ task = [t \in Tasks |-> "none"] /\ app = [at |-> "stopped", req |-> {}]
    /\ outbox = <<>> /\ waiting = FALSE
    /\ link = "down" /\ up = <<>> /\ down = <<>> /\ held = {} /\ faults = 0
    /\ received = [no \in {r.no : r \in Requests} |-> 0]
    /\ status = [no \in {r.no : r \in Requests} |-> "new"]
    /\ tried = {}

\* esp_mqtt_write: what is written to a broken connection may seem to be sent.
Writes(packet) ==
    /\ link # "down"
    /\ up' = IF link = "up" THEN Append(up, packet) ELSE up

WriteFails == link # "up" /\ up' = up

\* esp_mqtt_abort_connection; what was written may still arrive.
Aborted ==
    /\ state' = "WAIT_RECONNECT" /\ waiting' = FALSE
    /\ link' = "down" /\ down' = <<>>

\* The connection stays as it is.
Kept == UNCHANGED <<state, waiting, link, down>>

Goto(t, place) == task' = [task EXCEPT ![t] = place]

\* The end of a pass: unlock, and poll if still connected.
Unlock(t) == api_lock' = Nobody /\ Goto(t, "poll")

-----------------------------------------------------------------------------
(* esp_mqtt_task: start, loop and end.                                     *)

Run(t) ==
    /\ task[t] = "created"
    /\ run' = TRUE
    /\ Goto(t, "running")
    /\ UNCHANGED <<state, bits, api_lock, outbox, waiting, network, app, status, tried>>

EnterInit(t) ==
    /\ task[t] = "running"
    /\ state' = "INIT"
    /\ Goto(t, "init")
    /\ UNCHANGED <<run, bits, api_lock, outbox, waiting, network, app, status, tried>>

ClearStopped(t) ==
    /\ task[t] = "init"
    /\ bits' = bits \ {"STOPPED"}
    /\ Goto(t, "loop")
    /\ UNCHANGED <<state, run, api_lock, outbox, waiting, network, app, status, tried>>

\* while (client->run)
NextPass == IF run THEN "lock" ELSE "close"

Loop(t) ==
    /\ task[t] = "loop"
    /\ Goto(t, NextPass)
    /\ UNCHANGED <<client, network, app, status, tried>>

\* MQTT_API_LOCK: another pass of the loop can begin.
CanPass(t) == task[t] = "lock" /\ api_lock = Nobody

\* There is nothing to do in MQTT_STATE_DISCONNECTED.
IdlePass(t) ==
    /\ CanPass(t) /\ state = "DISCONNECTED"
    /\ Goto(t, "poll")
    /\ UNCHANGED <<client, network, app, status, tried>>

\* esp_transport_close after the loop
Close(t) ==
    /\ task[t] = "close"
    /\ link' = "down" /\ down' = <<>>
    /\ Goto(t, "purge")
    /\ UNCHANGED <<client, up, held, faults, received, app, status, tried>>

\* outbox_delete_all_items
Purge(t) ==
    /\ task[t] = "purge"
    /\ status' = [no \in DOMAIN status |->
                    IF status[no] = "stored" THEN "purged" ELSE status[no]]
    /\ outbox' = <<>>
    /\ Goto(t, "signal")
    /\ UNCHANGED <<state, run, bits, api_lock, waiting, network, app, tried>>

\* Plausible bug: nobody is told that the task has ended.
EndSilently(t) ==
    /\ task[t] = "signal"
    /\ Goto(t, "last")
    /\ UNCHANGED <<client, network, app, status, tried>>

Signal(t) ==
    /\ task[t] = "signal"
    /\ bits' = bits \union {"STOPPED"}
    /\ Goto(t, "last")
    /\ UNCHANGED <<state, run, api_lock, outbox, waiting, network, app, status, tried>>

\* client->state is written once more after the signal.
End(t) ==
    /\ task[t] = "last"
    /\ state' = "DISCONNECTED"
    /\ Goto(t, "gone")
    /\ UNCHANGED <<run, bits, api_lock, outbox, waiting, network, app, status, tried>>

-----------------------------------------------------------------------------
(* MQTT_STATE_INIT and MQTT_STATE_WAIT_RECONNECT.                          *)

BeginConnect(t) ==
    /\ CanPass(t) /\ state = "INIT"
    /\ api_lock' = t
    /\ bits' = bits \ {"DISCONNECT"}
    /\ Goto(t, "connect")
    /\ UNCHANGED <<state, run, outbox, waiting, network, app, status, tried>>

\* esp_transport_connect and esp_mqtt_connect: a new connection, and on the
\* side of the broker a new session.
Connect(t) ==
    /\ task[t] = "connect"
    /\ state' = "CONNECTED" /\ waiting' = FALSE
    /\ link' = "up" /\ up' = <<>> /\ down' = <<>> /\ held' = {}
    /\ Unlock(t)
    /\ UNCHANGED <<run, bits, outbox, faults, received, app, status, tried>>

\* Plausible bug: the pass is left without the unlock.
ConnectFailsLocked(t) ==
    /\ task[t] = "connect"
    /\ faults < MaxFaults
    /\ faults' = faults + 1
    /\ Aborted
    /\ Goto(t, "poll")
    /\ UNCHANGED <<run, bits, api_lock, outbox, up, held, received, app, status, tried>>

ConnectFails(t) ==
    /\ task[t] = "connect"
    /\ faults < MaxFaults
    /\ faults' = faults + 1
    /\ Aborted
    /\ Unlock(t)
    /\ UNCHANGED <<run, bits, outbox, up, held, received, app, status, tried>>

\* The time until the next attempt has passed, or has not.
WaitOver(t) ==
    /\ CanPass(t) /\ state = "WAIT_RECONNECT"
    /\ state' = "INIT"
    /\ Unlock(t)
    /\ UNCHANGED <<run, bits, outbox, waiting, network, app, status, tried>>

WaitOn(t) ==
    /\ CanPass(t) /\ state = "WAIT_RECONNECT"
    /\ Goto(t, "poll")
    /\ UNCHANGED <<client, network, app, status, tried>>

-----------------------------------------------------------------------------
(* MQTT_STATE_CONNECTED, in the order of the code.                         *)

\* esp_mqtt_client_disconnect was called; whether DISCONNECT is written does
\* not matter.
DisconnectAsked(t) ==
    /\ CanPass(t) /\ state = "CONNECTED" /\ "DISCONNECT" \in bits
    /\ bits' = bits \ {"DISCONNECT"}
    /\ Writes(Control("disconnect", 0)) \/ WriteFails
    /\ Aborted
    /\ Unlock(t)
    /\ UNCHANGED <<run, outbox, held, faults, received, app, status, tried>>

Receiving(t) == CanPass(t) /\ state = "CONNECTED" /\ "DISCONNECT" \notin bits

\* The pass goes on with the messages to be sent.
Proceed(t) == api_lock' = t /\ Goto(t, "resend")

\* mqtt_process_receive finds nothing to read.
ReceiveNothing(t) ==
    /\ Receiving(t) /\ down = <<>>
    /\ Proceed(t)
    /\ UNCHANGED <<state, run, bits, outbox, waiting, network, app, status, tried>>

\* mqtt_process_receive, or the poll, finds the connection broken.
ReceiveFails(t) ==
    /\ Receiving(t) /\ link = "broken"
    /\ Aborted
    /\ Unlock(t)
    /\ UNCHANGED <<run, bits, outbox, up, held, faults, received, app, status, tried>>

\* remove_initiator_message and the event that reports it.
Settle(type, id) ==
    /\ outbox' = outbox_delete(outbox, id, type)
    /\ status' = IF Initiator(outbox, id, type) = 0 THEN status
                 ELSE [status EXCEPT ![id] = "acked"]

\* What the last packet of each exchange ends.
Acknowledged ==
    [puback |-> PUBLISH, pubcomp |-> PUBLISH, suback |-> SUBSCRIBE, unsuback |-> UNSUBSCRIBE]

ReceiveAck(t) ==
    /\ Receiving(t) /\ down # <<>> /\ Head(down).type \in DOMAIN Acknowledged
    /\ down' = Tail(down)
    /\ Settle(Acknowledged[Head(down).type], Head(down).id)
    /\ Proceed(t)
    /\ UNCHANGED <<state, run, bits, waiting, link, up, held, faults, received, app, tried>>

\* Plausible bug: the message may be repeated after its PUBREC.
RecKeepsTransmitted(t) ==
    /\ Receiving(t) /\ down # <<>> /\ Head(down).type = "pubrec"
    /\ down' = Tail(down)
    /\ outbox' = outbox_set_pending(outbox, Head(down).id, TRANSMITTED)
    /\ Writes(Control("pubrel", Head(down).id)) \/ WriteFails
    /\ Proceed(t)
    /\ UNCHANGED <<state, run, bits, waiting, link, held, faults, received, app, status, tried>>

\* Plausible bug: PUBREC is taken for the end of the exchange.
RecSettles(t) ==
    /\ Receiving(t) /\ down # <<>> /\ Head(down).type = "pubrec"
    /\ down' = Tail(down)
    /\ Settle(PUBLISH, Head(down).id)
    /\ Writes(Control("pubrel", Head(down).id)) \/ WriteFails
    /\ Proceed(t)
    /\ UNCHANGED <<state, run, bits, waiting, link, held, faults, received, app, tried>>

\* PUBREC: whether PUBREL could be written is not looked at.
ReceiveRec(t) ==
    /\ Receiving(t) /\ down # <<>> /\ Head(down).type = "pubrec"
    /\ down' = Tail(down)
    /\ outbox' = outbox_set_pending(outbox, Head(down).id, ACKNOWLEDGED)
    /\ Writes(Control("pubrel", Head(down).id)) \/ WriteFails
    /\ Proceed(t)
    /\ UNCHANGED <<state, run, bits, waiting, link, held, faults, received, app, status, tried>>

ReceivePingResp(t) ==
    /\ Receiving(t) /\ down # <<>> /\ Head(down).type = "pingresp"
    /\ down' = Tail(down)
    /\ waiting' = FALSE
    /\ Proceed(t)
    /\ UNCHANGED <<state, run, bits, outbox, link, up, held, faults, received, app, status, tried>>

\* mqtt_delete_expired_messages: the n oldest are older than 30 s.  Doing it
\* twice before the next message is sent is doing it once with more of them.
DeleteExpired(n) ==
    /\ outbox' = outbox_delete_expired(outbox, n)
    /\ status' = [no \in DOMAIN status |->
                    IF \E i \in 1 .. n : outbox[i].req.no = no THEN "expired" ELSE status[no]]

Expire(t) ==
    /\ task[t] = "resend"
    /\ \E n \in 1 .. Len(outbox) : DeleteExpired(n)
    /\ UNCHANGED <<state, run, bits, api_lock, waiting, network, task, app, tried>>

\* mqtt_resend_queued with a message that could be written: a stored QoS 0
\* message is done with.
Unacknowledged(req) == req.type = PUBLISH /\ req.qos = 0
Left(req) == IF Unacknowledged(req) THEN outbox_delete_item(outbox, req) ELSE outbox
Sent(req) ==
    status' = IF Unacknowledged(req) THEN [status EXCEPT ![req.no] = "sent"] ELSE status

\* A queued message is written first, and marked by its identifier.
ResendQueued(t) ==
    LET i == outbox_dequeue(outbox, QUEUED)  req == outbox[i].req
    IN  /\ task[t] = "resend" /\ i # 0
        /\ \/ /\ Writes(Packet(req, FALSE))
              /\ outbox' = outbox_set_pending(Left(req), IdOf(req), TRANSMITTED)
              /\ Sent(req)
              /\ Kept
           \/ WriteFails /\ Aborted /\ UNCHANGED <<outbox, status>>
        /\ tried' = tried \union {req}
        /\ Goto(t, "keepalive")
        /\ UNCHANGED <<run, bits, api_lock, held, faults, received, app>>

NoneQueued == outbox_dequeue(outbox, QUEUED) = 0

\* Plausible bug: a message that was written is not repeated.
RetransmitUntried(t) ==
    LET i == outbox_dequeue(outbox, TRANSMITTED)  req == outbox[i].req
    IN  /\ task[t] = "resend" /\ NoneQueued /\ i # 0
        /\ Len(up) < MaxWire /\ req \notin tried
        /\ Writes(Packet(req, FALSE)) /\ Kept
        /\ Goto(t, "keepalive")
        /\ UNCHANGED <<run, bits, api_lock, outbox, held, faults, received, app, status, tried>>

\* The first transmitted message was sent too long ago.
Retransmit(t) ==
    LET i == outbox_dequeue(outbox, TRANSMITTED)  req == outbox[i].req
    IN  /\ task[t] = "resend" /\ NoneQueued /\ i # 0
        /\ Len(up) < MaxWire
        /\ \/ /\ Writes(Packet(req, req.type = PUBLISH /\ req.qos > 0))
              /\ outbox' = Left(req)
              /\ Sent(req)
              /\ Kept
           \/ WriteFails /\ Aborted /\ UNCHANGED <<outbox, status>>
        /\ tried' = tried \union {req}
        /\ Goto(t, "keepalive")
        /\ UNCHANGED <<run, bits, api_lock, held, faults, received, app>>

ResendNothing(t) ==
    /\ task[t] = "resend" /\ NoneQueued
    /\ Goto(t, "keepalive")
    /\ UNCHANGED <<client, network, app, status, tried>>

\* process_keepalive: half of the keepalive time has passed in silence.
Ping(t) ==
    /\ task[t] = "keepalive" /\ ~waiting
    /\ Len(up) < MaxWire
    /\ \/ /\ Writes(Control("pingreq", 0))
          /\ waiting' = TRUE
          /\ UNCHANGED <<state, link, down>>
       \/ WriteFails /\ Aborted
    /\ Unlock(t)
    /\ UNCHANGED <<run, bits, outbox, held, faults, received, app, status, tried>>

\* There is no answer to the ping in time: it is late, or there is none.
PingTimeout(t) ==
    /\ task[t] = "keepalive" /\ waiting
    /\ link = "up" => faults < MaxFaults
    /\ faults' = IF link = "up" THEN faults + 1 ELSE faults
    /\ Aborted
    /\ Unlock(t)
    /\ UNCHANGED <<run, bits, outbox, up, held, received, app, status, tried>>

KeepaliveNothing(t) ==
    /\ task[t] = "keepalive"
    /\ Unlock(t)
    /\ UNCHANGED <<state, run, bits, outbox, waiting, network, app, status, tried>>

\* esp_transport_poll_read, without the lock, if the state is CONNECTED still.
Poll(t) ==
    /\ task[t] = "poll"
    /\ Goto(t, NextPass)
    /\ UNCHANGED <<client, network, app, status, tried>>

PollFails(t) ==
    /\ task[t] = "poll" /\ state = "CONNECTED" /\ link = "broken"
    /\ api_lock = Nobody
    /\ Aborted
    /\ Goto(t, NextPass)
    /\ UNCHANGED <<run, bits, api_lock, outbox, up, held, faults, received, app, status, tried>>

-----------------------------------------------------------------------------
(* The application thread.                                                 *)

At(place) == app.at = place
GoApp(place) == app' = [at |-> place, req |-> {}]

\* esp_mqtt_client_start
Start(t) ==
    /\ At("stopped") /\ api_lock = Nobody
    /\ state \in {"INIT", "DISCONNECTED"}
    /\ task[t] = "none" /\ \A s \in Tasks : s < t => task[s] # "none"
    /\ Goto(t, "created")
    /\ GoApp("started")
    /\ UNCHANGED <<client, network, status, tried>>

\* Plausible bug: a message is marked as sent without a connection.
PublishMarks(r) ==
    /\ At("started") /\ api_lock = Nobody /\ state # "CONNECTED"
    /\ r.type = PUBLISH /\ IsNew(r) /\ r.qos > 0
    /\ outbox' = outbox_set_pending(outbox_enqueue(outbox, r), IdOf(r), TRANSMITTED)
    /\ status' = [status EXCEPT ![r.no] = "stored"]
    /\ UNCHANGED <<state, run, bits, api_lock, waiting, network, task, app, tried>>

\* Plausible bug: without a connection no message is kept.
PublishDrops(r) ==
    /\ At("started") /\ api_lock = Nobody /\ state # "CONNECTED"
    /\ r.type = PUBLISH /\ IsNew(r)
    /\ status' = [status EXCEPT ![r.no] = "lost"]
    /\ UNCHANGED <<client, network, task, app, tried>>

\* esp_mqtt_client_publish without a connection: stored, unless it is QoS 0.
PublishLater(r) ==
    /\ At("started") /\ api_lock = Nobody /\ state # "CONNECTED"
    /\ r.type = PUBLISH /\ IsNew(r)
    /\ LET kept == IF r.qos > 0 THEN outbox_enqueue(outbox, r) ELSE outbox
       IN  \E n \in 0 .. Len(outbox) :
               /\ outbox' = outbox_delete_expired(kept, n)
               /\ status' = [no \in DOMAIN status |->
                    CASE no = r.no -> IF r.qos > 0 THEN "stored" ELSE "lost"
                      [] \E i \in 1 .. n : outbox[i].req.no = no -> "expired"
                      [] OTHER -> status[no]]
    /\ UNCHANGED <<state, run, bits, api_lock, waiting, network, task, app, tried>>

\* esp_mqtt_client_publish with a connection: stored and written.
PublishNow(r) ==
    /\ At("started") /\ api_lock = Nobody /\ state = "CONNECTED"
    /\ r.type = PUBLISH /\ IsNew(r)
    /\ tried' = tried \union {r}
    /\ \E ok \in BOOLEAN :
          LET kept == IF r.qos > 0 THEN outbox_enqueue(outbox, r) ELSE outbox
          IN  /\ outbox' = IF ok /\ r.qos > 0
                           THEN outbox_set_pending(kept, IdOf(r), TRANSMITTED) ELSE kept
              /\ status' = [status EXCEPT ![r.no] =
                              IF r.qos > 0 THEN "stored" ELSE IF ok THEN "sent" ELSE "lost"]
              /\ IF ok THEN Writes(Packet(r, FALSE)) /\ Kept ELSE WriteFails /\ Aborted
    /\ UNCHANGED <<run, bits, api_lock, held, faults, received, task, app>>

\* esp_mqtt_client_enqueue with store = true
Enqueue(r) ==
    /\ At("started") /\ api_lock = Nobody
    /\ r.type = PUBLISH /\ IsNew(r)
    /\ outbox' = outbox_enqueue(outbox, r)
    /\ status' = [status EXCEPT ![r.no] = "stored"]
    /\ UNCHANGED <<state, run, bits, api_lock, waiting, network, task, app, tried>>

\* esp_mqtt_client_subscribe and unsubscribe look at the state first ...
CheckConnected(r) ==
    /\ At("started") /\ state = "CONNECTED"
    /\ r.type # PUBLISH /\ IsNew(r)
    /\ app' = [at |-> "checked", req |-> {r}]
    /\ UNCHANGED <<client, network, task, status, tried>>

\* ... and then take the lock, store the request as transmitted, and write
\* it.  If that fails they return, and nothing else happens.
Subscribe(r) ==
    /\ At("checked") /\ app.req = {r} /\ api_lock = Nobody
    /\ outbox' = outbox_set_pending(outbox_enqueue(outbox, r), IdOf(r), TRANSMITTED)
    /\ status' = [status EXCEPT ![r.no] = "stored"]
    /\ tried' = tried \union {r}
    /\ Writes(Packet(r, FALSE)) \/ WriteFails
    /\ GoApp("started")
    /\ UNCHANGED <<state, run, bits, api_lock, waiting, link, down, held, faults, received, task>>

\* esp_mqtt_client_disconnect
Disconnect ==
    /\ At("started") /\ "DISCONNECT" \notin bits /\ faults < MaxFaults
    /\ bits' = bits \union {"DISCONNECT"}
    /\ faults' = faults + 1
    /\ UNCHANGED <<state, run, api_lock, outbox, waiting, link, up, down, held, received, task, app, status, tried>>

\* esp_mqtt_client_stop of a client that runs
Stop ==
    /\ At("started") /\ api_lock = Nobody /\ run
    /\ IF state = "CONNECTED" THEN Writes(Control("disconnect", 0)) \/ WriteFails
       ELSE UNCHANGED up
    /\ run' = FALSE
    /\ state' = "DISCONNECTED"
    /\ GoApp("stopping")
    /\ UNCHANGED <<bits, api_lock, outbox, waiting, link, down, held, faults, received, task, status, tried>>

\* xEventGroupWaitBits(STOPPED_BIT)
Stopped ==
    /\ At("stopping") /\ "STOPPED" \in bits
    /\ GoApp("stopped")
    /\ UNCHANGED <<client, network, task, status, tried>>

-----------------------------------------------------------------------------
(* The broker and the network (external).                                  *)

Answer(packet) == down' = IF link = "up" THEN Append(down, packet) ELSE down

\* The packets that only ask for an answer.
AnswerTo == [subscribe |-> "suback", unsubscribe |-> "unsuback", pingreq |-> "pingresp"]

PassOn(id) == received' = [received EXCEPT ![id] = IF @ < 2 THEN @ + 1 ELSE 2]

Broker ==
    /\ up # <<>>
    /\ up' = Tail(up)
    /\ LET p == Head(up)
       IN  \/ /\ p.type = "disconnect" \/ (p.type = PUBLISH /\ p.qos = 0)
              /\ UNCHANGED <<received, held, down>>
           \/ /\ p.type = PUBLISH /\ p.qos = 1
              /\ PassOn(p.id) /\ Answer(Control("puback", p.id)) /\ UNCHANGED held
           \/ /\ p.type = PUBLISH /\ p.qos = 2
              /\ held' = held \union {p.id}
              /\ Answer(Control("pubrec", p.id))
              /\ UNCHANGED received
           \/ /\ p.type = "pubrel"
              /\ IF p.id \in held THEN PassOn(p.id) ELSE UNCHANGED received
              /\ held' = held \ {p.id}
              /\ Answer(Control("pubcomp", p.id))
           \/ /\ p.type \in DOMAIN AnswerTo
              /\ Answer(Control(AnswerTo[p.type], p.id))
              /\ UNCHANGED <<received, held>>
    /\ UNCHANGED <<client, link, faults, task, app, status, tried>>

\* The connection breaks, and what had not yet arrived is lost.
Break ==
    /\ link = "up" /\ faults < MaxFaults
    /\ link' = "broken"
    /\ \E n \in 0 .. Len(up) : up' = SubSeq(up, 1, n)
    /\ \E n \in 0 .. Len(down) : down' = SubSeq(down, 1, n)
    /\ faults' = faults + 1
    /\ UNCHANGED <<client, held, received, task, app, status, tried>>

-----------------------------------------------------------------------------
Receive(t) ==
    ReceiveNothing(t) \/ ReceiveFails(t) \/ ReceiveAck(t) \/ ReceiveRec(t) \/ ReceivePingResp(t)

Task(t) ==
    \/ Run(t) \/ EnterInit(t) \/ ClearStopped(t) \/ Loop(t) \/ IdlePass(t)
    \/ BeginConnect(t) \/ Connect(t) \/ ConnectFails(t) \/ WaitOver(t) \/ WaitOn(t)
    \/ DisconnectAsked(t) \/ Receive(t) \/ Expire(t)
    \/ ResendQueued(t) \/ Retransmit(t) \/ ResendNothing(t)
    \/ Ping(t) \/ PingTimeout(t) \/ KeepaliveNothing(t) \/ Poll(t) \/ PollFails(t)
    \/ Close(t) \/ Purge(t) \/ Signal(t) \/ End(t)

App ==
    \/ \E t \in Tasks : Start(t)
    \/ \E r \in Requests : \/ PublishLater(r) \/ PublishNow(r) \/ Enqueue(r)
                           \/ CheckConnected(r) \/ Subscribe(r)
    \/ Disconnect \/ Stop \/ Stopped

Next == (\E t \in Tasks : Task(t)) \/ App \/ Broker \/ Break

Spec == Init /\ [][Next]_vars

\* The task and the broker keep going; a time that can pass does; a call that
\* waits for something that is there returns.
FairSpec ==
    /\ Spec
    /\ \A t \in Tasks : /\ WF_vars(Task(t))
                        /\ SF_vars(WaitOver(t)) /\ SF_vars(Retransmit(t))
                        /\ SF_vars(Ping(t)) /\ SF_vars(PingTimeout(t))
    /\ WF_vars(Broker) /\ WF_vars(Stopped)

-----------------------------------------------------------------------------
(* Properties.                                                             *)

PacketsOf(types) == [type : types, id : Nat, qos : 0 .. 2, dup : BOOLEAN]
ToBroker == {PUBLISH, SUBSCRIBE, UNSUBSCRIBE, "pubrel", "pingreq", "disconnect"}
ToClient == {"puback", "pubrec", "pubcomp", "suback", "unsuback", "pingresp"}

Places == {"none", "created", "running", "init", "loop", "lock", "connect", "resend",
           "keepalive", "poll", "close", "purge", "signal", "last", "gone"}

\* Types, and who may hold the lock: a task in the middle of a pass.
TypeOK ==
    /\ state \in {"INIT", "DISCONNECTED", "CONNECTED", "WAIT_RECONNECT"}
    /\ run \in BOOLEAN /\ waiting \in BOOLEAN
    /\ bits \subseteq {"STOPPED", "DISCONNECT"}
    /\ task \in [Tasks -> Places]
    /\ app \in [at : {"stopped", "started", "checked", "stopping"}, req : SUBSET Requests]
    /\ outbox \in Seq(Item(Requests))
    /\ link \in {"down", "up", "broken"}
    /\ up \in Seq(PacketsOf(ToBroker)) /\ down \in Seq(PacketsOf(ToClient))
    /\ held \subseteq Nat /\ faults \in Nat
    /\ received \in [{r.no : r \in Requests} -> 0 .. 2]
    /\ \A t \in Tasks : api_lock = t <=>
            task[t] \in {"connect", "resend", "keepalive"}
    /\ status \in [{r.no : r \in Requests} ->
            {"new", "stored", "sent", "acked", "expired", "purged", "lost"}]
    /\ tried \subseteq Requests

\* A request that was stored is in the outbox, once, until it is acknowledged,
\* expires or is purged: no acknowledgement, repetition, expiry or end of the
\* connection removes another one (mqtt_outbox.c, remove_initiator_message).
Accounted ==
    \A r \in Requests :
        Cardinality({i \in DOMAIN outbox : outbox[i].req = r})
            = IF StatusOf(r) = "stored" THEN 1 ELSE 0

\* MQTT_EVENT_PUBLISHED is only reported for a message the broker passed on,
\* however often it was repeated and the connection lost.
PublishedWasReceived ==
    \A r \in Requests : r.type = PUBLISH /\ StatusOf(r) = "acked" => received[r.no] > 0

\* The broker passes a QoS 2 message on at most once: after its PUBREC it is
\* not published again (mqtt_process_receive, mqtt_resend_queued).
AtMostOnce == \A r \in Requests : r.qos = 2 => received[r.no] <= 1

\* Only a message that was written before is marked as a duplicate.
DupWasTried ==
    [][Len(up') > Len(up) /\ up'[Len(up')].dup =>
            \E r \in tried : r.no = up'[Len(up')].id]_vars

\* MqttDelivery, with what became of each request and how often the broker
\* passed it on: no step of the task, the application, the broker or the
\* network changes a fate that is settled, settles one of another request or
\* out of order.
Delivery == INSTANCE MqttDelivery WITH fate <- status, passed <- received

ImplementsDelivery == Delivery!Spec

\* A stored QoS 1 message does not stay stored unless the client is stopped:
\* it is repeated until it is acknowledged (esp_mqtt_task).
AtLeastOnce ==
    \A r \in Requests : r.type = PUBLISH /\ r.qos = 1 =>
        (StatusOf(r) = "stored" ~> StatusOf(r) # "stored" \/ state = "DISCONNECTED")

\* esp_mqtt_client_stop returns.
StopReturns == At("stopping") ~> At("stopped")
=============================================================================
