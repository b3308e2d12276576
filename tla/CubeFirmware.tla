------------------------------ MODULE CubeFirmware -----------------------------
(***************************************************************************)
(* The firmware of the cube (src/main.c) in its environment: the hand that *)
(* turns the cube, the MPU6050 that latches motion on the wake-up pin, the *)
(* access point and the broker.                                            *)
(*                                                                         *)
(* The ESP32 sleeps until the latched interrupt wakes it, reads the side,  *)
(* reports the side it left (if it can reach the access point in time),    *)
(* stores the new one in RTC memory, arms and clears the interrupt and     *)
(* sleeps again.  The cube may be turned at any moment of this.            *)
(***************************************************************************)
EXTENDS CubeLogic, Sequences

CONSTANTS
    Poses,      \* readings <<x, y, z>> of the cube at rest
    MaxTurns,   \* bound on the movements of the cube
    MaxFaults,  \* bound on failed transfers, aborts and power losses
    MaxTime     \* bound on the clock

ASSUME PosesAssumption == Poses \subseteq Int \X Int \X Int /\ Poses # {}
ASSUME BoundsAssumption ==
    MaxTurns \in Nat /\ MaxFaults \in Nat /\ MaxTime \in Nat

VARIABLES
    (* the world *)
    pose,       \* how the cube lies
    clock,      \* true time
    turns,      \* movements so far
    faults,     \* faults so far
    (* the MPU6050 *)
    mpu,        \* "asleep" after power-up, "awake", or "armed" on motion
    latch,      \* its INT pin, latched high by motion
    (* the ESP32 *)
    pc,         \* where app_main is
    cause,      \* the wake-up cause: "EXT0" or "other"
    booted_at,  \* when esp_timer started counting
    now_us,     \* app_main's locals
    new_side,
    rtc,        \* RTC_DATA_ATTR: [last_wakeup_us, current_cube_side]
    wifi,       \* the station: [link, events, connected, bit]
    (* history *)
    attempts,   \* calls of wifi_connect_and_sync, in order
    life,       \* how many times the RTC memory was initialised again
    stay_since, \* true time of the wake-up that stored the present side
    missed      \* the last sample does not say how the cube lies

world    == <<pose, turns>>
sensor   == <<mpu, latch>>
cpu      == <<pc, cause, booted_at, now_us, new_side>>
history  == <<attempts, life, stay_since>>
vars == <<pose, clock, turns, faults, mpu, latch, pc, cause, booted_at, now_us,
          new_side, rtc, wifi, attempts, life, stay_since, missed>>

-----------------------------------------------------------------------------
SideOf(p) == get_cube_side(p[1], p[2], p[3])

\* From the first instruction of app_main to the deep sleep.
Connecting == {"nvs", "wifi_start", "wait"}
Sending    == {"broker", "publish", "flush", "wifi_stop"}
Syncing    == Connecting \union Sending
\* A movement here comes after the sample and before its latch is cleared.
Window     == {"decide", "store", "configure", "clear"} \union Syncing
Running    == {"boot", "read", "sleep"} \union Window
Places     == {"off", "asleep"} \union Running

RtcInit == [last_wakeup_us |-> 0, current_cube_side |-> -1]
WifiOff == [link |-> "off", events |-> <<>>, connected |-> FALSE, bit |-> FALSE]

Events  == {"STA_START", "STA_DISCONNECTED", "GOT_IP"}

Init ==
    /\ pose \in Poses
    /\ clock = 0 /\ turns = 0 /\ faults = 0
    /\ mpu = "asleep" /\ latch = FALSE
    /\ pc = "off" /\ cause = "other" /\ booted_at = 0
    /\ now_us = 0 /\ new_side = -1
    /\ rtc = RtcInit /\ wifi = WifiOff
    /\ attempts = <<>> /\ life = 0 /\ stay_since = 0 /\ missed = FALSE

-----------------------------------------------------------------------------
(* The world.                                                              *)

\* The cube is moved, onto another side or back onto the one it was on.  An
\* armed sensor latches it; nothing remembers it otherwise.
Move ==
    /\ turns < MaxTurns
    /\ turns' = turns + 1
    /\ pose' \in Poses
    /\ latch' = (latch \/ mpu = "armed")
    /\ missed' = (missed \/ (pc \in Window /\ pose' # pose))
    /\ UNCHANGED <<clock, faults, mpu, cpu, rtc, wifi, history>>

Tick ==
    /\ clock < MaxTime
    /\ clock' = clock + 1
    /\ UNCHANGED <<world, faults, sensor, cpu, rtc, wifi, history, missed>>

Fault ==
    /\ faults < MaxFaults
    /\ faults' = faults + 1

\* The battery is changed: the sensor forgets its configuration too.
PowerLoss ==
    /\ Fault
    /\ pc # "off"
    /\ pc' = "off"
    /\ cause' = "other" /\ now_us' = 0 /\ new_side' = -1
    /\ mpu' = "asleep" /\ latch' = FALSE
    /\ rtc' = RtcInit /\ wifi' = WifiOff
    /\ life' = life + 1
    /\ missed' = FALSE
    /\ UNCHANGED <<world, clock, booted_at, attempts, stay_since>>

PowerOn ==
    /\ pc = "off"
    /\ pc' = "boot"
    /\ booted_at' = clock
    /\ UNCHANGED <<world, clock, faults, sensor, cause, now_us, new_side, rtc,
                   wifi, history, missed>>

\* ESP_ERROR_CHECK fails: the chip resets, and a reset that is not a wake-up
\* initialises the RTC variables.  The sensor keeps its power.
Reset ==
    /\ Fault
    /\ pc' = "boot"
    /\ cause' = "other" /\ booted_at' = clock
    /\ now_us' = 0 /\ new_side' = -1
    /\ rtc' = RtcInit /\ wifi' = WifiOff
    /\ life' = life + 1
    /\ UNCHANGED <<world, clock, latch, attempts, stay_since, missed>>

Abort ==
    /\ pc \in {"boot", "nvs", "wifi_start"}
    /\ Reset
    /\ UNCHANGED mpu

-----------------------------------------------------------------------------
(* app_main, up to the decision to report.                                 *)

\* Plausible bug: the pin is configured for the other level.
WakeOnLow ==
    /\ pc = "asleep" /\ ~latch
    /\ pc' = "boot"
    /\ cause' = "EXT0" /\ booted_at' = clock
    /\ UNCHANGED <<world, clock, faults, sensor, now_us, new_side, rtc, wifi,
                   history, missed>>

\* EXT0 wakes the chip while the pin is high.
Wake ==
    /\ pc = "asleep" /\ latch
    /\ pc' = "boot"
    /\ cause' = "EXT0" /\ booted_at' = clock
    /\ UNCHANGED <<world, clock, faults, sensor, now_us, new_side, rtc, wifi,
                   history, missed>>

\* esp_timer counts from the boot, deep sleep not included; the bus and the
\* device are set up.
Enter ==
    /\ pc = "boot"
    /\ pc' = "read"
    /\ now_us' = clock - booted_at
    /\ UNCHANGED <<world, clock, faults, sensor, cause, booted_at, new_side,
                   rtc, wifi, history, missed>>

\* The side read: a sensor still asleep since power-up measures nothing.
Read ==
    /\ pc = "read"
    /\ pc' = "decide"
    /\ new_side' = IF mpu = "asleep" THEN get_cube_side(0, 0, 0) ELSE SideOf(pose)
    /\ missed' = (mpu = "asleep")
    /\ UNCHANGED <<world, clock, faults, sensor, cause, booted_at, now_us, rtc,
                   wifi, history>>

\* Plausible bug: new_side is not initialised before the read.
ReadFailsUninitialised ==
    /\ Fault
    /\ pc = "read"
    /\ pc' = "decide"
    /\ new_side' = 7
    /\ missed' = TRUE
    /\ UNCHANGED <<world, clock, sensor, cause, booted_at, now_us, rtc, wifi,
                   history>>

ReadFails ==
    /\ Fault
    /\ pc = "read"
    /\ pc' = "decide"
    /\ missed' = TRUE
    /\ UNCHANGED <<world, clock, sensor, cause, booted_at, now_us, new_side,
                   rtc, wifi, history>>

\* The call wifi_connect_and_sync(current_cube_side, diff_seconds).
Attempt ==
    [side |-> rtc.current_cube_side, to |-> new_side, life |-> life,
     duration |-> now_us - rtc.last_wakeup_us,
     dwell |-> booted_at + now_us - stay_since,
     outcome |-> "pending"]

\* Plausible bug: the report carries the side the cube came to.
DecideReportingNew ==
    /\ pc = "decide"
    /\ IF /\ cause = "EXT0"
          /\ rtc.current_cube_side \notin {-1, new_side}
       THEN /\ pc' = "nvs"
            /\ attempts' = Append(attempts, [Attempt EXCEPT !.side = new_side])
       ELSE /\ pc' = "store"
            /\ UNCHANGED attempts
    /\ UNCHANGED <<world, clock, faults, sensor, cause, booted_at, now_us,
                   new_side, rtc, wifi, life, stay_since, missed>>

\* Plausible bug: leaving a side for an uncertain one is not reported.
DecideOnFaces ==
    /\ pc = "decide"
    /\ IF /\ cause = "EXT0"
          /\ rtc.current_cube_side \notin {-1, new_side}
          /\ new_side \in Faces
       THEN pc' = "nvs" /\ attempts' = Append(attempts, Attempt)
       ELSE pc' = "store" /\ UNCHANGED attempts
    /\ UNCHANGED <<world, clock, faults, sensor, cause, booted_at, now_us,
                   new_side, rtc, wifi, life, stay_since, missed>>

\* Only a wake-up by motion, from a known side onto another, is reported.
Decide ==
    /\ pc = "decide"
    /\ IF /\ cause = "EXT0"
          /\ rtc.current_cube_side \notin {-1, new_side}
       THEN pc' = "nvs" /\ attempts' = Append(attempts, Attempt)
       ELSE pc' = "store" /\ UNCHANGED attempts
    /\ UNCHANGED <<world, clock, faults, sensor, cause, booted_at, now_us,
                   new_side, rtc, wifi, life, stay_since, missed>>

-----------------------------------------------------------------------------
(* wifi_connect_and_sync.                                                  *)

SyncStep(from, to) ==
    /\ pc = from
    /\ pc' = to
    /\ UNCHANGED <<world, clock, faults, sensor, cause, booted_at, now_us,
                   new_side, rtc, life, stay_since, missed>>

\* The outcome of the running attempt, the last one.
Outcome == attempts[Len(attempts)].outcome
SetOutcome(o) == attempts' = [attempts EXCEPT ![Len(attempts)].outcome = o]

NvsInit ==
    SyncStep("nvs", "wifi_start") /\ UNCHANGED <<wifi, attempts>>

\* A new event group, the handlers, esp_wifi_start.
WifiStart ==
    /\ SyncStep("wifi_start", "wait")
    /\ wifi' = [link |-> "down", events |-> <<"STA_START">>,
                connected |-> FALSE, bit |-> FALSE]
    /\ UNCHANGED attempts

\* xEventGroupWaitBits returns with the bit, or after five seconds without.
WaitBit ==
    /\ SyncStep("wait", "broker")
    /\ wifi.bit
    /\ UNCHANGED <<wifi, attempts>>

\* Plausible bug: the wait has no time limit, as the README says.
WaitForever ==
    /\ pc = "wait" /\ ~wifi.bit
    /\ UNCHANGED vars

WaitTimeout ==
    /\ SyncStep("wait", "wifi_stop")
    /\ ~wifi.bit
    /\ SetOutcome("dropped")
    /\ UNCHANGED wifi

\* The client is started and given a second to reach the broker.
StartClient ==
    SyncStep("broker", "publish") /\ UNCHANGED <<wifi, attempts>>

\* esp_mqtt_client_publish; whatever it returns is ignored.
Publish ==
    /\ SyncStep("publish", "flush")
    /\ SetOutcome("handed")
    /\ UNCHANGED wifi

\* Half a second later the client is stopped and destroyed, and with it a
\* message that is still in its outbox.
StopClient ==
    SyncStep("flush", "wifi_stop") /\ UNCHANGED <<wifi, attempts>>

WifiStop ==
    /\ SyncStep("wifi_stop", "store")
    /\ wifi' = [wifi EXCEPT !.link = "off"]
    /\ UNCHANGED attempts

-----------------------------------------------------------------------------
(* The access point, the event loop task and the broker.                   *)

Radio(link, event) ==
    /\ wifi' = [wifi EXCEPT !.link = link, !.events = Append(@, event)]
    /\ UNCHANGED <<world, clock, faults, sensor, cpu, rtc, history, missed>>

LinkUp   == wifi.link = "joining" /\ Radio("up", "GOT_IP")
LinkDown == wifi.link \in {"joining", "up"} /\ Radio("down", "STA_DISCONNECTED")

\* wifi_event_handler: a start or a loss asks for the connection (again), an
\* address sets the bit the main task waits for.  Nothing ever clears it.
wifi_event_handler ==
    /\ wifi.events # <<>>
    /\ wifi' = LET rest == [wifi EXCEPT !.events = Tail(@)]
               IN  IF Head(wifi.events) = "GOT_IP"
                   THEN [rest EXCEPT !.connected = TRUE, !.bit = TRUE]
                   ELSE [rest EXCEPT !.connected = FALSE,
                            !.link = IF @ = "down" THEN "joining" ELSE @]
    /\ UNCHANGED <<world, clock, faults, sensor, cpu, rtc, history, missed>>

\* The client gets the message to the broker while it is running.
Delivery ==
    /\ pc = "flush" /\ Outcome = "handed" /\ wifi.link = "up"
    /\ SetOutcome("delivered")
    /\ UNCHANGED <<world, clock, faults, sensor, cpu, rtc, wifi, life,
                   stay_since, missed>>

-----------------------------------------------------------------------------
(* app_main, from the store to the deep sleep.                             *)

\* Plausible bug: the new side is stored only after a report got through.
StoreIfSent ==
    /\ pc = "store"
    /\ pc' = "configure"
    /\ rtc' = IF attempts # <<>> /\ Outcome = "dropped" THEN rtc
              ELSE [last_wakeup_us |-> now_us, current_cube_side |-> new_side]
    /\ UNCHANGED <<world, clock, faults, sensor, cause, booted_at, now_us,
                   new_side, wifi, history, missed>>

\* last_wakeup_us is stored whether or not the side changed.
Store ==
    /\ pc = "store"
    /\ pc' = "configure"
    /\ rtc' = [last_wakeup_us |-> now_us, current_cube_side |-> new_side]
    /\ stay_since' = IF new_side = rtc.current_cube_side THEN stay_since
                     ELSE booted_at + now_us
    /\ UNCHANGED <<world, clock, faults, sensor, cause, booted_at, now_us,
                   new_side, wifi, attempts, life, missed>>

\* The six register writes of mpu6050_configure_motion_interrupt.
Configure ==
    /\ pc = "configure"
    /\ pc' = "clear"
    /\ mpu' = "armed"
    /\ UNCHANGED <<world, clock, faults, latch, cause, booted_at, now_us,
                   new_side, rtc, wifi, history, missed>>

\* One of them fails, before or after the one that wakes the sensor up.
ConfigureFails ==
    /\ pc = "configure"
    /\ mpu' \in {mpu, IF mpu = "asleep" THEN "awake" ELSE mpu}
    /\ Reset

\* Plausible bug: the register read does not clear the latch.
ClearNothing ==
    /\ pc = "clear"
    /\ pc' = "sleep"
    /\ UNCHANGED <<world, clock, faults, sensor, cause, booted_at, now_us,
                   new_side, rtc, wifi, history, missed>>

\* Reading INT_STATUS releases the pin, whatever it was latched by.
ClearInterrupt ==
    /\ pc = "clear"
    /\ pc' = "sleep"
    /\ latch' = FALSE
    /\ UNCHANGED <<world, clock, faults, mpu, cause, booted_at, now_us,
                   new_side, rtc, wifi, history, missed>>

\* The result of that read is not looked at.
ClearFails ==
    /\ Fault
    /\ pc = "clear"
    /\ pc' = "sleep"
    /\ UNCHANGED <<world, clock, sensor, cause, booted_at, now_us, new_side,
                   rtc, wifi, history, missed>>

\* esp_sleep_enable_ext0_wakeup and esp_deep_sleep_start: only the RTC
\* memory survives.
DeepSleep ==
    /\ pc = "sleep"
    /\ pc' = "asleep"
    /\ now_us' = 0 /\ new_side' = -1
    /\ wifi' = WifiOff
    /\ UNCHANGED <<world, clock, faults, sensor, cause, booted_at, rtc,
                   history, missed>>

-----------------------------------------------------------------------------
\* The steps of the chip: app_main's, the wake-up by the pin, and resets.
Cpu ==
    \/ Wake \/ Enter \/ Read \/ ReadFails \/ Decide
    \/ NvsInit \/ WifiStart \/ WaitBit \/ WaitTimeout
    \/ StartClient \/ Publish \/ StopClient \/ WifiStop
    \/ Store \/ Configure \/ ConfigureFails
    \/ ClearInterrupt \/ ClearFails \/ DeepSleep \/ Abort

Environment ==
    Move \/ Tick \/ PowerLoss \/ PowerOn \/ LinkUp \/ LinkDown \/ Delivery

Next == Cpu \/ wifi_event_handler \/ Environment

Spec == Init /\ [][Next]_vars

\* The chip keeps executing; nothing is assumed of hand, radio and broker.
FairSpec == Spec /\ WF_vars(Cpu)

-----------------------------------------------------------------------------
Outcomes == {"pending", "dropped", "handed", "delivered"}

AttemptType ==
    [side: SideCodes, to: SideCodes, life: Nat, duration: Int, dwell: Int,
     outcome: Outcomes]

RtcType  == [last_wakeup_us: Int, current_cube_side: SideCodes]
WifiType == [link: {"off", "down", "joining", "up"}, events: Seq(Events),
             connected: BOOLEAN, bit: BOOLEAN]

TypeOK ==
    /\ pose \in Poses
    /\ clock \in Nat /\ turns \in Nat /\ faults \in Nat
    /\ mpu \in {"asleep", "awake", "armed"} /\ latch \in BOOLEAN
    /\ pc \in Places /\ cause \in {"EXT0", "other"}
    /\ booted_at \in Nat /\ now_us \in Int /\ new_side \in SideCodes
    /\ rtc \in RtcType
    /\ wifi \in WifiType
    /\ attempts \in Seq(AttemptType)
    /\ life \in Nat /\ stay_since \in Int /\ missed \in BOOLEAN

\* A chip that sleeps with its wake-up pin low knows how the cube lies,
\* unless the cube was turned between the last sample and the clearing of
\* its latch, or the sample failed or was taken from a sleeping sensor: a
\* movement at any other moment is still latched and wakes it up again.
AsleepSideIsCurrent ==
    (pc = "asleep" /\ ~latch /\ ~missed) =>
        rtc.current_cube_side = SideOf(pose)

\* Attempts form a chain over the life of the RTC memory, whatever became of
\* them: each is made for the side the one before it went to, so that no
\* stay is reported twice and none between two reports is left out, however
\* often the chip woke up for nothing, lost the race against the wait limit
\* or was reset half way.
AttemptsChain ==
    \A i \in 1..Len(attempts) - 1 :
        LET r == attempts[i]
            s == attempts[i + 1]
        IN  r.life = s.life /\ r.to # -1 => s.side = r.to

\* The stored side never changes to another (while the memory lives) without
\* an attempt to report just that change.
NoSilentChange ==
    [][ /\ rtc'.current_cube_side # rtc.current_cube_side
        /\ rtc.current_cube_side # -1
        /\ life' = life
        => /\ attempts # <<>>
           /\ attempts[Len(attempts)].side = rtc.current_cube_side
           /\ attempts[Len(attempts)].to = rtc'.current_cube_side
           /\ attempts[Len(attempts)].life = life
      ]_vars

\* The firmware implements SideReporter: from the decision to the store the
\* side it is about to remember is already the one it reports against.
ReportedSide ==
    IF pc \in Syncing \union {"store"} THEN new_side ELSE rtc.current_cube_side

ReportOf(a) == [side |-> a.side, to |-> a.to, life |-> a.life]
ReportsOf(as) == [i \in 1..Len(as) |-> ReportOf(as[i])]
Reports     == ReportsOf(attempts)

Reporter == INSTANCE SideReporter WITH
    SideCode <- SideCodes, side <- ReportedSide, reports <- Reports, life <- life

ImplementsReporter == Reporter!Spec

\* A chip that boots gets back to sleep (or loses power), with or without an
\* access point.
SleepsAgain == (pc = "boot") ~> (pc \in {"asleep", "off"})

\* A movement latched while the chip sleeps is followed by a sample.
MotionIsSampled == (pc = "asleep" /\ latch) ~> (pc \in {"decide", "off"})

\* Once the cube is left alone and nothing fails any more, the chip stops
\* waking up: it does not drain its battery on an interrupt nobody clears.
SettlesDown == <>[](pc # "off" => pc = "asleep" /\ ~latch)

-----------------------------------------------------------------------------
(* What the documents say and the code does not do.                        *)

\* main.c:173 logs how long the cube was on the side it left, and the report
\* carries the same number.
DurationIsDwell ==
    \A i \in 1..Len(attempts) : attempts[i].duration = attempts[i].dwell
=============================================================================
