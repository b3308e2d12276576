# Cube Timer in TLA+

Cube Timer is a work timer in the shape of a cube. An ESP32 with an MPU6050
accelerometer finds out which face is up and reports every side it leaves; a
backend keeps the work sessions. This directory models the parts of the
repository that keep state or make decisions, model-checks them with TLC on small
instances, and proves the most important results with TLAPS for all values of
the constants. Paths below are relative to `src/`.

## 1. Inventory

| Component | Where | State it keeps | Operations |
|---|---|---|---|
| Side detection, work timer | `lib/cube_logic/` | `cube_timer_t` (running, side, start) | `get_cube_side`, `cube_timer_init/update/elapsed_us` |
| Firmware main | `src/main.c` | RTC memory (`last_wakeup_us`, `current_cube_side`), locals of `app_main` | one pass per wake-up: sample, decide, report, store, arm, clear, deep sleep |
| WiFi station | `src/main.c:61-122` | event group bit, `wifi_connected`, events queued | `wifi_connect_and_sync` (main task), `wifi_event_handler` (event task) |
| MPU6050 motion interrupt | configured by `main.c:124-144` | power state, latched INT pin | latch on motion, release on a read of INT_STATUS |
| MQTT client (vendored esp-mqtt) | `components/mqtt/esp-mqtt/` | connection state, `run`, status bits, API lock, outbox, read buffer | client task; start, publish, enqueue, subscribe, unsubscribe, disconnect, stop |
| `UdpReceiverService` | `Cube_Backend/.../service/` | a thread and its socket | receive, parse, hand over, go on |
| `CubeService` | same | an open transaction | `processEvent` |
| `WebSocketService` | same | none (messages sent) | `sendCubeUpdate` |
| Tables and repositories | `Cube_Backend/.../model`, `repository` | `work_sessions`, `cubes` | two finders, save, `calculateDuration` |
| MQTT client with protocol 5 | `mqtt5_client.c`, `lib/mqtt5_msg.c` | properties to be sent, limits of the server, count of unacknowledged publishes, topic aliases | set properties; build and read packets; publish, subscribe, acknowledge |
| Display driver | `components/esp_ssd1306` | a buffer of pages, the range that scrolls; the display's own memory | draw shapes, show, texts, text boxes, scroll, wrap around, get and set pages |
| Conversions | `components/esp_type_utils` | none | not used by any other file |
| Mosquitto, PostgreSQL | `docker-compose.yml` | external | external |

How they interact. Motion latches the INT pin, and the pin, high, wakes the ESP32
from deep sleep. `app_main` reads the side and compares it with the one in RTC
memory. If they differ it starts WiFi and, once the event handler has set the bit
`app_main` waits for (5 s at most), starts the MQTT client, publishes the side it
*left* and stops the client again. It then stores the side, arms the sensor,
reads INT_STATUS to release the pin and sleeps. The MQTT client's task and the
calling thread share the client structure under one recursive lock. The backend
receives events as UDP datagrams on a single thread; each is one database
transaction during which WebSocket messages are sent.

What is hard in it:

- **The cube does not wait.** It may be turned at any of the steps between the
  sample and the release of the latch, seconds apart when WiFi is tried.
- **Only the RTC memory survives** sleep, and not even that survives a reset;
  every `ESP_ERROR_CHECK` may reset between the report and the store.
- **Messages are lost, repeated and late**, on UDP into the backend and between
  the MQTT client and the broker.
- **Three orders in the backend**: save, WebSocket, commit; each may be the last.
- **A byte stream** that is cut into packets across several non-blocking calls.
- **Threads**: the client's task against start, stop, publish and subscribe.
- **Lengths that are written before they are known**, and fields of one call that
  the next one uses, when MQTT 5 packets are built; limits and aliases that belong
  to a connection and outlive it.
- **Two pictures**, the buffer's and the display's, that a failed transfer makes
  differ, and a panel that may hang upside down.

Correctness, per component: the side named is the one the cube shows most of; the
timer shows the length of the present stay; every side left is reported once and
a sleeping chip is not wrong about the side without a wake-up pending; a cube has
at most one open session, sessions do not overlap and are history; packets are
understood as they were sent; accepted messages are accounted for, QoS 1 is
repeated until acknowledged, QoS 2 is passed on at most once; stop returns; an
MQTT 5 packet is the one that was asked for, an event says what the broker meant,
and the flow control does not wait for what cannot come; what is seen on the
display is what was drawn and shown, up to the transfer that failed.

The hazards behind these properties are listed, each with its line, under
`hazards` in `PROJECT.json`.

## 2. Modules

```
CubeLogic ──┬── CubeSensor ── MCCubeSensor
            ├── CubeTimer
            └── CubeFirmware ── MCCubeFirmware
                    └─ implements ─> SideReporter
CubeBackend ── MCCubeBackend
    └─ implements ─> SessionLog
MqttReceive ── MCMqttReceive
MqttOutbox ──┬── MqttClient ── MCMqttClient
             │      └─ implements ─> MqttDelivery
             └── Mqtt5Client ── MCMqtt5Client
Mqtt5Msg ────────────┘  └─ INSTANCE ─> Mqtt5Packets (the broker's writer)
Ssd1306Shapes ──┬── Ssd1306 ── MCSsd1306
                └── Ssd1306Canvas <─ implements ─ Ssd1306
```
The theorems about `M` are in `M_proofs`. Operators whose comment begins
"Plausible bug" are not part of any specification: each is a variant of the
definition behind it, and shows that some property notices the difference.

**CubeLogic** holds `get_cube_side` and the timer's operations as operators on
values (`lib/cube_logic/cube_logic.c`).

**CubeSensor** is the first thing `app_main` does (`main.c:157-167`): the six-byte
burst read, `(hi << 8) | lo` with the width of `int16_t`, and the side. The bytes
are arbitrary. `ONE_G` is what the chip reads of gravity in the range that
`main.c:131` sets.

**CubeTimer** is a `cube_timer_t` in use. The timer remembers one side and one
start; beside it the model keeps the history of all samples, and the properties
relate the two. (`main.c` does not call the timer yet; the library's tests do.)

**CubeFirmware** is `app_main` with `wifi_connect_and_sync` and
`wifi_event_handler`, one action per step between which the cube, the radio or a
failure may come. Its environment: `Move` (the hand), `LinkUp`, `LinkDown`,
`Delivery` (access point and broker), `PowerLoss`, `Tick`. Failures are those the
code meets: a sample that fails (`ReadFails`; `new_side` stays -1), a failed
register write or start-up call (`ESP_ERROR_CHECK` resets, and a reset that is
not a wake-up initialises the RTC variables), an INT_STATUS read whose failure is
ignored (`ClearFails`). The first sample after power-up is taken from a sensor
that is still asleep and reads zeros. `attempts` records every call of
`wifi_connect_and_sync` with its outcome; `life`, `stay_since` and `missed` are
history. `missed` is set by a movement between sample and release, or a failed
or blind sample.

| Action | `main.c` | Action | `main.c` |
|---|---|---|---|
| `Enter` | 146-155 | `StartClient`, `Publish`, `StopClient` | 96-116 |
| `Read`, `ReadFails` | 157-167 | `WifiStop` | 121-122 |
| `Decide` | 169-187 | `Store` | 189-190 |
| `NvsInit`, `WifiStart` | 176-181, 72-90 | `Configure`, `ConfigureFails` | 124-138, 192 |
| `WaitBit`, `WaitTimeout` | 92-95, 117-119 | `ClearInterrupt`, `ClearFails` | 140-144, 193 |
| `wifi_event_handler` | 61-69 | `DeepSleep`, `Wake` | 195-199 |

(The line numbers of every definition are in `PROJECT.json` under `map`.)

**SideReporter** is the abstract specification of the firmware: it observes one
side after another and reports each one it leaves, at once and exactly once;
`Forget` is the loss of the memory. `CubeFirmware` implements it under

    side    <- new_side from the decision to the store, else current_cube_side
    reports <- attempts without outcome and times
    life    <- life

so that `Decide` is `Observe`, a reset or power loss is `Forget`, and all other
steps stutter. The abstract `Observe` is atomic; in the code it spreads over the
WiFi attempt, the store, and every reset between them.

**CubeBackend** is the receiver thread and `processEvent`, statement by statement:
find the cube, close the active session, send `session_ended`, open the next, send
`session_started` or `cube_status`, commit. `sessions` is what is committed, `tx`
what the open transaction sees, `ws` what was sent; a rollback takes `tx` back
but not `ws`. A datagram is any event of `Events` or `Malformed`, at any time: a
lost datagram is one that is never received, a repeated or reordered one is one
more choice. The clock is local wall time and may be set back. There is one
receiver thread and no HTTP controller that writes, so transactions do not
interleave. `Crash` may come at every statement.

**SessionLog** is the abstract specification of the backend, for those who follow it
over the WebSocket: an event is told, first the end of the session it ends (with the
side and start of a session that *is* saved), then the session it starts or that the
cube sleeps; then all of it is recorded in one step or none. Nothing is told of the
next event before the last one is recorded or dropped. `CubeBackend` implements it
under

    table <- sessions
    news  <- ws
    due   <- pc = "commit"

so that a message is `Announce`, the commit is `Record`, an exception or a crash
before the commit is `Drop`, and what happens in the transaction stutters. The
abstract `Record` computes the rows from the table and what was told; in the code
they come about statement by statement, from an `UPDATE` the flush adds a duration
to and an `INSERT`.

**MqttReceive** is `mqtt_message_receive`, `mqtt_process_receive` and
`deliver_publish`: byte values, the read buffer and its size, the loop over the
length bytes, packets larger than the buffer, short reads and time-outs. One
action is one `esp_transport_read` and what the code does with its result. The
encoder (`Bytes`) is the broker's and follows MQTT 3.1.1; the decoders are the
client's. `handled` is what the client understood.

**MqttOutbox** is the list of `mqtt_outbox.c` as operators on sequences.

**MqttClient** is `esp_mqtt_task` and the API, MQTT 3.1.1, as `main.c` configures
it. The task takes `api_lock` for one pass of its loop: a pass is the actions from
`lock` to `poll`. API functions that take the lock are one action, those that look
before they take it (`subscribe`, `unsubscribe`) are two. Time is left out: what a
time-out guards may happen whenever its other conditions hold. The broker
follows the protocol and answers in order; a broken connection loses any suffix
of what is on its way in both directions. `status` tells what became of each
request, `received` how often the broker passed it on.

**MqttDelivery** is the abstract specification of the client: the fate of each request,
and how often the broker passed its message on. A request that is asked for is kept
until it is answered, given up as too old, or purged with all others when the client
stops; a message is confirmed after it was passed on, and passed on once only if it
is of QoS 2; only a message of QoS 0 may be lost when it is asked for. `MqttClient`
implements it under

    fate   <- status
    passed <- received

so that every step of the connection, of the outbox's items and of the packets
stutters. An API call may expire old messages and store its own in one step.

**Mqtt5Packets** writes the packets of MQTT 5 in the shortest way: from their
parts, with lengths computed from what they hold. It is external, the broker's
side, and does not follow the code.

**Mqtt5Msg** is `mqtt5_msg.c`, byte by byte: a packet is appended to a buffer of
`BufferLength` bytes behind room for the longest header, the length of a list of
properties takes one byte until it turns out to need two, and what follows is
moved then; a message that does not fit is built up to its payload. The readers are
those of CONNACK, PUBLISH and the acknowledgements, at the offsets the code uses.

**Mqtt5Client** is `mqtt5_client.c` with the MQTT 5 branches of `mqtt_client.c`: what
the application sets before (`esp_mqtt5_client_set_*`), how CONNACK's answers limit
it (QoS, retain, packet size, receive maximum, shared subscriptions, aliases), the
count of publishes that wait for an acknowledgement, the table of the broker's
aliases, and each API call and each received packet as one step, since both hold
`api_lock`. `written` is the packet of the last step with what was asked for, `told`
the event of the last step with what the broker meant.

A publish longer than the read buffer comes in parts: `ReceivePublish` hands over what
`mqtt_message_receive` left in the buffer (`mqtt5_msg.c:404-408`), `part` is what
`deliver_publish` then still has to read, and each read (`ReadData`, of `ReadSizes`
bytes or of all it asked for) is one more event without a topic
(`mqtt_client.c:1101-1118`). The acknowledgement follows the last one. The task keeps
the lock all the time, but the lock is recursive, so that the handler of an event may
call the client before the next read. `ReadTimesOut` ends the publish as if it were
complete, `ReadFails` gives up the connection, and so does every other packet that is
longer than the buffer (`NotRead`, `TopicTooBig`). After `ReadTimesOut` the connection
counts as broken: what is read from it is out of step with the packets. A connection
that breaks between two reads is one more read that fails.

**Ssd1306Shapes** has the pixels that `set_line`, `set_circle`, the rectangles and
bitmaps touch, with `uint8_t` coordinates and C's division, and the glyphs of the
large texts. A segment is the set of its lit bits.

**Ssd1306** is the driver, each function of `ssd1306.h` one step (those of section 5
left out; the variants of one shape or of the sizes of a text are one action with an
argument): it computes a buffer
and sends images (parts of pages), of which any may fail; the function then ends
there, having shown the earlier ones, or goes on, as its code does. `flip` is the
mounting; `page` is the buffer, `ram` the memory of the display.

**Ssd1306Canvas** is the abstract specification of the driver. It knows pixels as the
person in front of the panel sees them, and neither bytes nor mounting. A call that
returns OK has shown all that it was to show. What the code does not keep of this is
outside of the promise: what `set_pages` draws (its index loses pages), and what
`bdf_code` and the text boxes return (they do not look at their transfers), where the
canvas allows both results and any part being shown; section 6 names both. `Ssd1306`
implements it under

    picture <- the pixels of the buffer, bits turned back on a flipped panel
    shown   <- the lit pixels of the display, rows counted from the other end there

## 3. What TLC checks

| Run | States | Instance | Properties |
|---|---|---|---|
| `sensor` | 262 k | 8 byte values, so 64 per axis | `TypeOK`, `SteepestFace`, `FlipGivesOppositeFace` |
| `timer` | 249 k | 4 samples, clock 0..3 | `TypeOK`, `ElapsedIsDwell`, `ElapsedDropsOnChangeOnly` |
| `firmware` | 353 k | 3 poses, 2 movements, 1 fault | `TypeOK`, `AsleepSideIsCurrent`, `AttemptsChain`, `NoSilentChange`, `ImplementsReporter`, `SleepsAgain`, `MotionIsSampled`, `SettlesDown` |
| `backend` | 712 k | 2 cubes and a stranger, 4 events, 1 fault, 1 set-back | `TypeOK`, `OpenIsLastSide`, `NoOverlap`, `SavedIsAnnounced`, `HistoryIsKept`, `ImplementsLog`, `ListensAgain` |
| `mqtt_receive` | 44 k | buffer of 8 bytes, 2 of 8 packets | `TypeOK`, `PacketsIntact`, `EveryPacketHandled` |
| `mqtt_client` | 1.17 M | 2 of 4 requests, 1 fault | `TypeOK`, `Accounted`, `PublishedWasReceived`, `AtMostOnce`, `DupWasTried`, `ImplementsDelivery` |
| `mqtt_client_live` | 103 k | QoS 1 message and subscription, 1 fault | `AtLeastOnce`, `StopReturns` |
| `mqtt5` | 203 k | buffer of 220 bytes, properties set once, 2 calls, 3 events, 2 connections | `TypeOK`, `PacketsSayWhatWasAsked`, `ToldWhatWasMeant`, `WindowIsHonest` |
| `display` | 60 k | 3 pages of 2 rows and 6 columns | `TypeOK`, `LineIsStraight`, `CircleIsRound`, `ImplementsCanvas` |
| `firmware_duration`, `backend_repeat`, `mqtt_high_id` | | | one statement of the documents each, which the code does not keep (section 6) |

What the properties say is in the comment before each. The less obvious ones:

- `SteepestFace`: no face has more of the measured acceleration than the one named, and
  one is named whenever an axis is closer to 1 g than to nothing. It does not claim that
  a tilted or moving cube has no side, as `README.md:125-127` has it: it does not hold
  (section 6).
- `AsleepSideIsCurrent`: a chip asleep with its pin low is right about the side,
  unless the cube moved between the sample and the release of the latch. It says
  that this window is the *only* one.
- `AttemptsChain`: each attempt leaves the side the previous one went to, whatever
  resets, wake-ups for nothing and time-outs came between: no stay is reported
  twice, none is left out.
- `SettlesDown`: once the cube is left alone the chip stops waking up.
- `OpenIsLastSide`: the open sessions of a cube are exactly the one of its last
  *committed* event, until an event repeats the active side (see `backend_repeat`).
- `SavedIsAnnounced`: what is in the table was announced. The converse fails.
- `PacketsIntact`: what the client acts on is a prefix of what was sent, however the
  stream is cut. It does not speak of a broker that falls silent inside of a
  payload (`stalled`; section 6).
- `Accounted`: a stored request is in the outbox once, one that is acknowledged,
  expired or purged is not.
- `PacketsSayWhatWasAsked`: the bytes the code builds by appending and moving are those
  of the reference writer, also when a message is resent from the outbox or written
  in pieces. It is about messages built while no left-over of a fragmented one is
  stored, and without a response topic under the broker's response information
  (`plain`): for those the code's packets are wrong (section 6).
- `ToldWhatWasMeant` compares an event, field by field, with what the broker put into
  the packet; the topic of an alias is the one the *broker* has given it on this
  connection. A publish that does not fit the buffer is compared part by part: each
  event has the bytes behind those of the events before it, its offset, the whole
  length, and is the last one at the payload's end.
- `WindowIsHonest`: `send_publish_packet_count` counts messages the broker still has to
  acknowledge, or publishing might stop for ever at the receive maximum.
- `ImplementsCanvas` needs every function to turn bits, pages and columns alike, and to
  leave what it did not come to as it was.
- `LineIsStraight`, `CircleIsRound` compare the integer loops with their geometry: a line
  is nowhere further than half a pixel from the straight one, a circle has exactly
  the pixels nearest to it. Of a circle whose centre is off the panel by so much that its
  coordinates pass 255 nothing is said: there the driver draws the far side of
  it at the left or upper edge (`x0 + x` becomes a `uint8_t` again).

Bounds, and why they are enough:

- The bytes of `sensor` give each axis values on both sides of the threshold in
  both signs, 1 g, and both ends of `int16_t`; ties of two and of three axes occur.
- Five different stories of a timer need at most three samples (a side, another
  or the sleep side, the first again); there are four.
- Two movements: one that wakes the chip and one at any later step. One fault at
  any step. Three poses, so that a side can be left for one that is neither the
  next nor the last. The clock matters to `firmware_duration` only, which has two
  ticks and three movements: two stays of different length.
- Four events: open, close, repeat or reorder on one cube, with the second cube's
  event between. `TypeOK`, `OpenIsLastSide`, `NoOverlap` and `HistoryIsKept` are also
  proved without bounds.
- The buffer of eight bytes is smaller than a publish of 10 bytes and larger than
  one of 6, and one payload makes the length two bytes long. The payload `MCTail`
  ends in bytes that read as a packet of their own if the cut is wrong. Two packets:
  what one leaves behind meets the next.
- Two requests of four kinds: a message repeated, acknowledged or expired while
  another is queued. `MaxWire` only stops a *repetition* or ping when two packets are
  on their way already; one repetition behind one original is enough to have two
  acknowledgements for one message. `MaxFaults` = 1: one of a failed connect, a break
  with any loss, a late ping answer or a `disconnect`. `MaxStarts` = 1: a restart of a
  stopped client is left for a later model.

- The buffer of 220 bytes holds a list of properties longer than 127 bytes, which
  makes its length two bytes long, and does not hold the payload of 100 bytes behind
  it; two such properties do not fit at all. One setting before two calls, in any
  order with the connections: a property that is meant for one message meets the
  next one. Two connections, because limits, aliases and the count might outlive the
  first. Four CONNACKs: no limit, each limit at its lowest, a refusal, and one longer than
  the buffer, as the longest of the three answers is. The publishes of the broker give,
  use and change an alias; one has 37 bytes more than the buffer holds, which one read
  returns or two do, and one a topic that does not fit.
- The panel is the smallest on which pages, rows and columns cannot be mistaken for
  one another. Lines and circles are tried with all ends and centres in `Points` and
  on an empty buffer, wide enough for slopes of every octant. `Starts` has buffers
  without symmetry; a call with many arguments is tried alone in each, the others in
  pairs (`MaxCost`). `U8` = 12 wraps where 256 does: at twice the width.

`CHECK_DEADLOCK FALSE` where a run may really stop: the bounded events are used
up (`backend`, `mqtt_*`, `mqtt5`, `display`), or the cube is left alone and the chip sleeps
(`firmware`). `sensor` and `timer` check for deadlock.

Fairness, and why the code justifies it:

- `CubeFirmware`: `WF(Cpu)` only. The chip executes; `WaitTimeout` is one of its
  steps, so the wait ends without any help. Nothing is assumed of the hand, the
  event task, the access point or the broker.
- `CubeBackend`: `WF(Bind \/ ProcessEvent)`. The thread runs when it has something
  to do. Datagrams need not come.
- `MqttReceive`: `WF(Read)`. Bytes that were sent arrive and the task goes on
  reading. Time-outs may always come instead.
- `MqttClient`: `WF` of the task, the broker and the return of `stop`. `SF` of
  `WaitOver`, `Retransmit`, `Ping` and `PingTimeout`: these are the steps guarded by a
  time, they are enabled in one place of each pass, and a time that has passed is
  still past in the next pass. Nothing is assumed of the application, and a break
  may come at any time, `MaxFaults` times.
- `Mqtt5Client` and `Ssd1306` state no fairness: nothing in them happens unless it is
  called, and the loop of the client's task is `MqttClient`'s.

## 4. What TLAPS proves

For every value of the constants under the named assumptions, which say
no more than the type of a constant, but for those named here: `ThresholdAssumption` (positive),
`GravityAssumption` (the threshold is at most half of 1 g; it is less than a fifth),
`BytesAssumption`, `PosesAssumption`, `TimerBoundsAssumption`, `BoundsAssumption`,
`CubesAssumption`, `SidesAssumption`, `NullAssumption` (null is no number),
`BackendBoundsAssumption`, `RequestsAssumption` and `NumbersAssumption` (requests have
types, numbers above 0, and each its own number, which stands for its identifier;
two of one identifier are left out, section 5). About the display there are `CallsAssumption`,
the types of the arguments and of what earlier calls left, and the sizes of panels,
`ShapesAssumption` and `DisplayAssumption`: a `uint8_t` counts to twice the width, and to
width and height together, and addresses whole rows, no more of them than a panel
has. Those of 128 by 32, 64 and 128 pixels, all that `ssd1306.h` knows, are so. About
MQTT 5 there are `BufferAssumption`, `LoginAssumption`, `RequestsAssumption`,
`PropertiesAssumption`, `ConnacksAssumption` and `ReadsAssumption`, the types of what
the application and the broker pass, and `PublishesAssumption`: a publish whose topic
fits the buffer has properties that fit it as well (the code reads them beyond its end
otherwise, section 6).

The theorems about `MqttReceive` have two hypotheses more, `AllReadable` and
`HeaderFits`, and `EventsAreMeant` has one, `AllRead`, all explained there. Every theorem
is listed in `PROJECT.json`.

- **CubeSensor** — `TypeCorrect`, `SteepestFaceIsReported`, `FlippingFlipsTheSide` (from `MirroredSide`: of the negated reading the code returns
  the opposite side, but at -32768, which has no negation). `SampleInv` says what is in the locals before and after the read; the rest
  is arithmetic of `get_cube_side`, by cases of the axis (`SideByAxis`).
- **CubeTimer** — `TypeCorrect`, `ElapsedIsTheDwell`, `ElapsedDropsOnChange`, for
  histories of any length. `ElapsedIsDwell` is not inductive: it says nothing of what
  a stopped timer still holds. `TimerInv` adds that the timer runs exactly if the
  last sample is of a work side, on that side and since the first sample of the
  run. `RunOfAppend` is the step: a sample extends the run or begins one.
- **SideReporter** (in `CubeFirmware_proofs`) — `ReportsFormAChain`. `ReporterInv` adds that the last report of
  the present life went to the side that is remembered, which makes the next one
  fit.
- **CubeFirmware** —
  - `SleepsOnTheRightSide` from `FreshInv`: past the configuration the sensor is
    armed; what is stored is the sample; and from the sample on the sample is right,
    or `missed`, or (past the clearing) the movement is latched. The property only
    speaks of a sleeping chip; the invariant follows the sample there.
  - `FirmwareImplementsReporter` from `ReportInv`, `InitRefines` and `StepRefines`
    (one step per action). The mapping needs to know that there is an attempt while
    one is being made, and that nothing is remembered on the way from a reset to
    the decision, or a decision not to report after a reset would not be `Observe`.
  - `AttemptsFormAChain`: `SideReporter`'s chain, carried through the mapping.
  - `ChangesAreReported` from `ChangeInv`: from the decision to the store a change
    about to be stored is the last attempt made.
  - `TypeCorrect`, from `ReportInv`, `Flags` and `OtherTypes`.
- **CubeBackend** —
  - `TypeCorrect` with `Located`: where the thread is says what it has in hand.
  - `TheTableIsAHistory` from `TableInv`: an open transaction has only appended
    rows or ended open ones of its own cube, and saved rows have the duration the
    flush would give them, so that a flush changes no closed row.
  - `OneSessionIsOpen` from `OpenInv`: between the statements the transaction has
    got to "none" after the close and to the event's side after the insert;
    the saved table still is at the last committed event.
  - `WhatIsSavedWasAnnounced` from `AnnounceInv`: what an open transaction has changed
    it has announced, or will announce before it can commit.
  - `SessionsDoNotOverlap` from `OverlapInv` with `OpenInv`: all times lie in the past
    of the clock, so a row started now starts after all ends.
  - `BackendImplementsLog`: the table changes by whole events, each as it was told. The
    invariant is `LogInv`: at each statement, how far the transaction has come from the
    saved table (not at all; the latest session ended; that and a row appended) and
    which messages, the last ones sent, say so. The mapping sees only the commit, where
    the flush adds durations: `FlushSettled`, `FlushClosed` and `FlushAppend` say that it
    changes no row but the one just ended. A table closed at another row than the
    latest would still satisfy the invariants above, but not this.
- **MqttClient**, for every set of requests, number of starts, of faults and of packets
  in flight —
  - Lemmas first, on what each operation of `MqttOutbox` does to an outbox, item by
    item and as a set of requests: `outbox_get`, `outbox_dequeue` and the initiator find
    an item or there is none; `outbox_enqueue` appends; `outbox_set_pending` changes one
    item's state; deletion and expiry shift what is behind (`WithoutShifts`) and, when
    no request is in the outbox twice, take exactly one request out
    (`WithoutRemovesRequest`).
  - `Invariant`: `IInv` is `DataOK` with four parts. `OutboxInv`: a request is in the
    outbox, once, exactly while its status is "stored". `TriedInv`: what is marked
    transmitted and has an identifier was written to a connection. `CausedInv` and
    `CountedInv`: every packet in flight has its cause, so that a PUBREC means that
    the broker holds the message or has passed it on, a PUBACK or PUBCOMP that it has
    passed it on. `OnceInv`: a QoS 2 message whose release was written is done and is
    not written again, no publish of it is behind its release on the wire, and one
    that was passed on is neither held nor on its way.
  - `StoredIsAccounted` is `OutboxInv`, counted.
    `PublishedIsTrue` is not inductive without `CausedInv`: that the client reports
    only what it is told says nothing unless what it is told is true. `QosTwoOnce` is
    not inductive without the order of packets on the wire: a publish behind its
    release would be a new message to the broker.
  - `DuplicatesWereTried`, an action property, from `TriedInv`.
  - `ClientImplementsDelivery`: the history of each request, from asking to its last
    fate. Each action changes the fate of one request, or the fates of stored ones that
    are given up (`PurgeDelivers`, `ExpireDelivers`), or is a delivery by the broker.
    The guards that `MqttDelivery` has and the code has not come from `IInv`: that a
    request confirmed was passed on from `CausedInv` and `CountedInv`, that a QoS 2
    message is passed on once from `OnceInv`, that what is confirmed, sent or given up
    is a stored request from `OutboxInv`.
  - `TypeCorrect` with `ControlOK`, who holds the lock and where task and application
    are.
- **MqttReceive**, for every number of packets and every way in which the network cuts
  them into reads —
  - Hypotheses. `AllReadable`: the packets are those the client can read. `WellFormed` is
    the format of MQTT 3.1.1, with at most two length bytes; `LowStart` is what the code's own comment expects, that the bytes behind
    the length are below 128 where the code may still look for more length bytes
    (`mqtt_client.c:1233`; run `mqtt_high_id` shows what happens otherwise); `RoomForId`
    is that the buffer does not end inside the identifier of a publish that is larger
    than it (`mqtt_client.c:1274-1277` stops two bytes early). `HeaderFits`: the buffer has
    at least 7 bytes; `main.c` leaves the default of 1024 (`mqtt_client.c:402-405`). The
    `ASSUME` of
    `MCMqttReceive` shows that the packets and the buffer of the run satisfy both.
  - `Invariant`: `IInv` says `Framed` of every state that has not stalled. The packets
    handled are the first of those sent; there are begins for the packets that are
    left, so that each of them lies on the wire where the one before it ends and the
    last ends with the wire, and the next one begins as far before the wire as has
    been read of it (`Rest`); and what has been read of it is in the buffer, whose
    length fits the place the task is in, or in the part that was handed over
    (`InPacket`).
  - `IntactPackets`. `PacketsIntact` alone is not inductive: a state in which the buffer
    is not the start of the next packet satisfies it until that packet is handled. The
    lemmas are those of the encoder (`BytesOfPublish`, `BytesOfAnswer`: where each field
    is), of the decoder on the start of a packet (`HeaderRead`, `TopicRead`,
    `PublishRead`, `AnswerRead`: it reads what was written), of the stream (`RestTaken`,
    `RestNext`, `RestSent`: a read, the end of a packet, a new packet) and one for each
    action.
  - `TypeCorrect` says `TypeOK` of the states that have not stalled. A time-out inside a
    payload (`mqtt_client.c:1112`) leaves the rest of the payload to be read as packets;
    what the client then does is checked by TLC only.
- **Mqtt5Client** — `WindowNeverSticks`: the count of unacknowledged publishes that the
  flow control compares with the server's receive maximum is never above the number
  of publishes which the broker still owes an answer, so it comes down to zero when
  the broker answers. The property is inductive together with the types of the two
  variables; the steps are the lemmas on how the number of unfinished handshakes
  changes when a promise of the broker is appended (`UnfinishedOfAppend`) or taken
  out (`UnfinishedOfRemoveAt`).

  `EventsAreMeant`: an event says what the broker put into its packet, with the topic
  that an alias stands for on this connection, and names the request that the broker
  answered. Its hypothesis `AllRead` says of each packet that the broker may send, to
  each message that the client may send, that the client's parser finds in its bytes
  the fields that were written. Nothing of the client's state is in it, and it would be
  an induction over the bytes of a packet; `MCMqtt5Client` has it as an `ASSUME`, so TLC
  evaluates it for the packets of the run. `ToldWhatWasMeant` is not inductive: it says
  nothing of what the next event will rest on. `MeantInv` adds that what is in the
  outbox and what the broker owes are of requests, and that the client knows every
  alias that the broker uses, with the broker's topic, which is not empty
  (`AliasesAgree`). The client may know more, because it keeps the aliases of earlier
  connections; the broker sends an alias without a topic only after it has given it
  one, which is what makes the leftovers harmless.

  Of a publish that is longer than the buffer, `AllRead` says that what the parser finds
  is the beginning of the payload, and that the bytes not yet read are the rest of it.
  `PartInv` carries this over the reads: what was told so far is as long as offset and
  length of the last event say, and what is missing begins behind it (`IsPart`). Any
  number of reads of any lengths keeps it (`PartOfRest`, `ReadDataKeepsMeant`), so each
  event is the part that it says it is, and only the one that ends the payload is the
  last.
- **Ssd1306**, for every panel, font and argument, with the panel mounted either way and
  any transfer failing —
  - `TypeCorrect`: buffer and memory of the display keep their form. A page that is
    written lies on the panel because the driver checked it, or because it is in the
    range that `set_software_scroll` let through.
  - `DriverImplementsCanvas`: each call is one call of `Ssd1306Canvas` with the same
    arguments and result, or a stutter (`StepMaps`). The mapping is first brought into
    one form: the pixels seen in a memory (`Seen`), of the buffer as it is and of the
    display with its pages facing the viewer (`Facing`). `PictureIsSeen` and
    `ShownIsSeen` say that this is the mapping of section 2.
  - Texts, clearing, fading and scrolling send many images, one over the other, and may
    end after any of them. `Landed` and `LandedAlike` are the lemma for all of these:
    if the last image that covers a pixel says of it what a goal says, and only pixels of
    T are covered (`Agree`), then the memory shows the goal in T and elsewhere what
    it did, in the buffer and on the display alike. What is left is, for each call,
    that its images cover just the pixels that the canvas changes in as many
    steps, which is arithmetic of cells, pages and columns (`TextAgrees`,
    `ClearAgrees`, `FadeCovers` and `FadeSays`, `ScrollAgrees`, `FillSeen`,
    `BoxSeen`).
  - Functions that draw into the buffer need `PlotSeen`: pixels set bit by bit, turned on
    a flipped panel, are just the pixels drawn. The wrap-around needs that a row's
    neighbour may lie in the next page (`RowBelow`, `RowAbove`).
  - The pixels of a line or a circle are the same operators of `Ssd1306Shapes` in driver
    and canvas: the refinement says where they are drawn, and the next two theorems which
    pixels they are. Both are about loops without a bound known beforehand. The
    recursive functions of `Ssd1306Shapes` exist (`LoopExists`, from the set of states
    that a loop reaches), and what they draw is proved along the steps of the loop,
    by induction on sets of numbers (`NatSet`, from the well-foundedness of Nat).
  - `LinesAreStraight`: after i steps along the longer side L and j along the shorter one
    D, the error that the loop carries is `Err` = e - iD + jL, and it stays in
    0 .. L - 1. So each i has exactly one j (`StairUnique`), the last step ends on the
    other end (`StairEnds`), and a pixel is no more than L / 2 from the straight
    line (`StairDeviates`). The cases are wide and tall lines, level and upright
    ones, each in both directions.
  - `CirclesAreRound`: at <<x, y>> the loop's f is (x + 1)² + y² - y - r² (`CircleNext`),
    whose sign says which of the next two points is nearer to the circle
    (`NextIsNear`); each column above the diagonal has one nearest point (`RingUnique`),
    so the octant misses none (`OctantIsRound`), and mirrored eight times it is the
    ring (`MirroredIsRing`). A disc is made of lines between such points, and they
    cover it because a row nearer to the centre reaches further out (`WiderNearer`).
    The hypotheses on centre and radius are those of `CircleIsRound`; the first
    attempt at the proof, without them, showed that they are needed.

Only model-checked:

- all liveness (beyond this prover);
- `MqttReceive.TypeOK` after a time-out inside a payload was taken for its end;
- `Mqtt5Client.TypeOK` (the upper bound of the count comes from the bounds of the run),
  `PacketsSayWhatWasAsked`, and that packets are read as they were written (`AllRead`):
  they rest on folds over the bytes of a packet, about which this prover has no
  induction.

## 5. Not modelled

- Of MQTT 5: the texts of error codes, what is done when memory runs out, what is read
  on a connection that is out of step after a time-out inside of a publish (`MqttReceive`
  goes on there), and two
  threads that call set and publish in turns (the property then goes to whichever
  publish comes first).
- Of the display: `display_bitmap__`, which nothing calls, the getters and log texts,
  an `offset_x` other than 0, and two calls whose loops leave their buffers: a
  software scroll from a page to itself and a banner whose text is shorter than its
  box. `display_image` is called with one character that ends on the panel: a longer one
  would be copied past its page.
- Configuration, TLS and event dispatch of esp-mqtt; CONNECT and CONNACK are one
  step that succeeds or fails. Publishes *from* the broker are modelled in
  `MqttReceive` up to their delivery, their acknowledgements are not. The outbox
  limit, fragments of messages longer than the write buffer, the periodic refresh
  and `esp_mqtt_client_reconnect` are left out of `MqttClient`.
- Equal random message identifiers (`mqtt_msg.c:71`).
- Time-outs of I2C: the code waits without limit.
- `esp_type_utils`: conversions that nothing calls.
- Start-up wiring of the backend, `docker-compose.yml`, Mosquitto, PostgreSQL: as
  external as the models use them. Unit tests: read for what they expect.
- How a report gets from the MQTT topic to UDP port 5000: nothing in the repository
  does this, so `CubeFirmware` and `CubeBackend` are not composed yet.

## 6. Where code and documents disagree

With a run whose counterexample shows it:

| Run | Statement | What the code does |
|---|---|---|
| `firmware_duration` | the duration reported is the time on the side (`main.c:173`) | it is the difference of `esp_timer` readings of two boots (`main.c:170`) |
| `backend_repeat` | "if the side has not changed, do nothing" (`CubeService.java:33`) | the `return` leaves the lambda, and a second session is opened |
| `mqtt_high_id` | at most two length bytes are read (`mqtt_client.c:1236-1239`) | resuming after 3 to 5 bytes, a byte of the body above 127 is taken for one of them (`mqtt_client.c:1233`) |

Met while reading, without a run of their own:

- A turn between the sample and the release of the latch is not reported
  (`main.c:162,193`), where `README.md:11-12` has every change sent; `AsleepSideIsCurrent`
  shows that this is the only such window.
- `esp_mqtt_client_stop` "stops tasks" (`mqtt_client.h:431`), but may return before the
  task's last write to the client (`mqtt_client.c:1732-1733`), which `main.c:115-116` then
  frees.
- The first sample after power-up is taken before the sensor is woken and gives
  side 0 (`main.c:130,162`), which is later reported as the side left.
- `session_ended` is sent before the flush calculates the duration, so it carries
  none (`CubeService.java:47`); it is sent before the commit and may announce what is
  then rolled back (`CubeService.java:61`). `serial_number` is not unique
  (`V1__init_schema.sql:4`), while `findBySerialNumber` expects one row.
- `README.md:121-123` chooses the axis "closest to 1g", the code the largest;
  `README.md:125-127` has no "certain" side when no axis is close to 1 g (the cube is
  moving or tilted), the code names a face whenever some axis reads 3000, less than a
  fifth of 1 g (`cube_logic.c:14-20`);
  `README.md:139-143` describes offline buffering, the code drops the report
  (`main.c:117-119`); `README.md:154-156` has no limit on WiFi, the code five seconds
  (`main.c:93`); the sleep side 6 (`README.md:18-19`) opens a work session
  (`CubeService.java:53`); the firmware publishes by MQTT, the backend listens on UDP
  (`README.md:11`).
- esp-mqtt: a time-out inside of a payload ends the publish as if complete
  (`mqtt_client.c:1112`); the length up to the topic's end is two bytes short
  (`mqtt_client.c:1274-1277`); a QoS 2 message whose PUBREL was lost is never
  finished, only expired (`1442-1443`, `1671-1682`); a stored QoS 0 message may mark
  another one as sent (`1674`); `start` may be called twice before the task runs
  (`1745`); the late write of `1733` may end a client that was started again; `publish`
  may return -1 for a message that is stored and sent later (`2126`); an incoming
  QoS 2 message that is repeated is delivered twice; `main.c` purges an unacknowledged
  report half a second after its publication.
- MQTT 5, packets:
  - the length and offset of a fragmented message are "zero for all other messages"
    (`mqtt_msg.h:67-68`), but an enqueued or failed one leaves them to the next that is
    built (`mqtt_client.c:2037-2046`, `2127`, `2162`; `mqtt5_msg.c:161`);
  - the response topic joined with the response information loses its last character
    and carries the terminating zero (`mqtt5_msg.c:758-775`: the size has no room for
    the slash);
  - `append_property` does not count the bytes of a length of variable size, and the
    length of the properties of an incoming packet is not compared with the packet's.
- MQTT 5, limits and state:
  - flow control lets one publish too many pass (`>` in `mqtt5_client.c:298`), and is not
    asked for messages that were queued or are repeated;
  - the answers of an earlier CONNACK, and the peer's aliases, are kept when the next
    connection does not mention them;
  - a publish property that was set stays, and refuses every publish, after a message
    that could not be built;
  - an acknowledgement with an error reason is reported as `MQTT_EVENT_PUBLISHED`; a
    second acknowledgement of one message makes the count too low;
  - a packet size above the buffer is refused after the session expiry was taken over;
    the topic alias maximum may be lowered below aliases in use.
- MQTT 5, publishes longer than the buffer:
  - the events of the later parts still have the property struct of the first one, whose
    texts point into the buffer that was read over (`mqtt_client.c:1104-1110`); the user
    properties are there with the first part only (`mqtt_client.c:1038`);
  - a read that times out in the middle ends the publish, which is acknowledged as
    complete (`mqtt_client.c:1111-1113`), and its remaining bytes are taken for packets;
  - only the topic is compared with the buffer (`mqtt_client.c:1275-1284`): properties
    that do not fit are read beyond the buffer's end.
- MQTT 5, memory: the user properties of an event are freed by the dispatch
  (`mqtt_client.c:1038`), although the application is told to free them
  (`mqtt5_client.h:147`); a `return` is missing after a failed `calloc` for a shared
  subscription's topic.
- Display:
  - the index of `get_pages` and `set_pages` is a `uint8_t`, so page p is in the block of
    page p mod 2 (`ssd1306.c:684-712`), not in "128-byte blocks by page"
    (`ssd1306.h:312-328`);
  - a software scroll from a page to itself (`ssd1306.c:1159`) and a banner with a short
    text leave their buffers;
  - a circle whose coordinates pass 255 is drawn at the left or upper edge as well, and a
    disc that reaches past one of these edges at the opposite one (`ssd1306.c:491`,
    `531-549`: coordinates are `uint8_t`, and the ends of a line are clamped to the panel);
  - the hardware scroll compares the panel's enumerator with a number of pages; the text
    boxes and `bdf_code` return `ESP_OK` although transfers failed.

## 7. Plan

Done, in this order: `CubeLogic`, `CubeSensor`, `CubeTimer`; `SideReporter` and
`CubeFirmware`, the heart of the system; `CubeBackend`; `MqttReceive`; `MqttOutbox` and
`MqttClient`; the display driver with its abstract canvas; MQTT 5; the proofs about
all of the cube's own code; those about the outbox, the MQTT client, its flow
control and its reading of packets; the display driver, that it implements its
canvas, and that its lines are straight and its circles round; `SessionLog` and
`MqttDelivery`, and that backend and client implement them.

Next, extending the model:

1. `MqttClient` with restart (`MaxStarts` = 2), `reconnect`, the outbox limit and
   publishes of the broker, whose acknowledgements are in `Mqtt5Client` only.
2. `CubeSystem`: firmware, delivery with loss and duplication, and backend
   composed through an assumed bridge; what of `OpenIsLastSide` a subscriber sees
   of the physical cube. The abstract specifications `SideReporter`, `MqttDelivery` and
   `SessionLog` are what it would be composed of.
