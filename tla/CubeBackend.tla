------------------------------ MODULE CubeBackend ------------------------------
(***************************************************************************)
(* The backend: one thread receives datagrams on UDP port 5000             *)
(* (UdpReceiverService) and hands each to CubeService.processEvent, a      *)
(* transaction that closes the active work session of the cube, opens the  *)
(* next one and announces both over WebSocket.                             *)
(*                                                                         *)
(* UDP loses, duplicates and reorders: any datagram may arrive at any      *)
(* time.  The announcements leave at once, the rows at the commit.         *)
(***************************************************************************)
EXTENDS Integers, Sequences, FiniteSets

CONSTANTS
    Cubes,      \* serial numbers a datagram may carry
    Registered, \* those in table cubes
    Sides,      \* side numbers a datagram may carry
    NoSide,     \* the side of an event without one (null)
    NoTime,     \* the end_time of an open session (null)
    Malformed,  \* a datagram that is not a CubeEventDTO
    MaxEvents,  \* bound on the datagrams received
    MaxFaults,  \* bound on exceptions, crashes and socket errors
    MaxSetBacks \* bound on how often the wall clock is set back

ASSUME CubesAssumption == Registered \subseteq Cubes /\ Cubes # {}
ASSUME SidesAssumption == Sides \subseteq Int
ASSUME NullAssumption == NoSide \notin Int /\ NoTime \notin Int
ASSUME BackendBoundsAssumption ==
    MaxEvents \in Nat /\ MaxFaults \in Nat /\ MaxSetBacks \in Nat

VARIABLES
    pc,       \* where the receiver thread is
    event,    \* the event in hand
    sessions, \* table work_sessions: rows in the order they were inserted
    tx,       \* the same rows as the open transaction sees them
    active,   \* the session it closed or left alone: its index, 0 if none
    ws,       \* messages sent to /topic/cube-updates
    clock,    \* the wall clock
    received, faults, setbacks,
    last,     \* history: side of the last event committed, per cube (0: none)
    repeated  \* history: did an event repeat the active side, per cube

store    == <<sessions, tx, active>>
counters == <<received, faults, setbacks>>
history  == <<last, repeated>>
vars == <<pc, event, sessions, tx, active, ws, clock, received, faults,
          setbacks, last, repeated>>

Events == [cube: Cubes, side: Sides \union {NoSide}]
Idle   == [cube |-> CHOOSE c \in Cubes : TRUE, side |-> NoSide]

Busy   == {"find", "close", "ended", "open", "started", "status", "commit"}
Places == {"bind", "listen", "dead"} \union Busy

-----------------------------------------------------------------------------
Init ==
    /\ pc = "bind" /\ event = Idle
    /\ sessions = <<>> /\ tx = <<>> /\ active = 0
    /\ ws = <<>> /\ clock = 0
    /\ received = 0 /\ faults = 0 /\ setbacks = 0
    /\ last = [c \in Cubes |-> 0]
    /\ repeated = [c \in Cubes |-> FALSE]

\* Every reading of the clock is later than the one before: readings are
\* microseconds wide and a database access lies between them.
Now == clock + 1

Step(from, to) ==
    /\ pc = from
    /\ pc' = to
    /\ UNCHANGED <<event, counters, history>>

-----------------------------------------------------------------------------
(* UdpReceiverService.                                                     *)

Bind == Step("bind", "listen") /\ UNCHANGED <<store, ws, clock>>

\* A datagram that does not parse is logged; the thread listens again.
Receive ==
    /\ pc = "listen"
    /\ received < MaxEvents
    /\ received' = received + 1
    /\ \E d \in Events \union {Malformed} :
          IF d = Malformed THEN UNCHANGED <<pc, event>>
          ELSE pc' = "find" /\ event' = d
    /\ tx' = sessions /\ active' = 0
    /\ UNCHANGED <<sessions, ws, clock, faults, setbacks, history>>

Fault ==
    /\ faults < MaxFaults
    /\ faults' = faults + 1
    /\ UNCHANGED <<clock, received, setbacks, history>>

\* The port is taken, or receive throws: the thread ends, for good.
SocketError ==
    /\ Fault
    /\ pc \in {"bind", "listen"}
    /\ pc' = "dead"
    /\ UNCHANGED <<event, store, ws>>

\* The process dies and is started again.
Crash ==
    /\ Fault
    /\ pc' = "bind" /\ event' = Idle
    /\ tx' = sessions /\ active' = 0
    /\ UNCHANGED <<sessions, ws>>

-----------------------------------------------------------------------------
(* CubeService.processEvent: @Transactional.                               *)

\* Plausible bug: no transaction, so that every save stays.
KeepChanges ==
    /\ pc' = "listen" /\ event' = Idle
    /\ sessions' = tx /\ tx' = tx /\ active' = 0
    /\ UNCHANGED ws

\* Plausible bug: an event that failed is tried again.
TryAgain ==
    /\ pc' = "find"
    /\ tx' = sessions /\ active' = 0
    /\ UNCHANGED <<event, sessions, ws>>

\* An exception leaves the method: the transaction is rolled back, and the
\* receiver logs it and listens again.  What was sent stays sent.
Rollback ==
    /\ pc' = "listen" /\ event' = Idle
    /\ tx' = sessions /\ active' = 0
    /\ UNCHANGED <<sessions, ws>>

\* The database, the broker or the commit itself throws.
Throws ==
    /\ Fault
    /\ pc \in Busy
    /\ Rollback

\* Plausible bug: the query does not ask for the cube.
OpenOfAny(rows, c) == {i \in 1..Len(rows) : rows[i].end = NoTime}

OpenOf(rows, c) == {i \in 1..Len(rows) : rows[i].cube = c /\ rows[i].end = NoTime}

\* Plausible bug: the query orders the other way.
Oldest(rows, c) ==
    {i \in OpenOf(rows, c) :
        \A j \in OpenOf(rows, c) : rows[i].start <= rows[j].start}

\* findFirstByCubeAndEndTimeIsNullOrderByStartTimeDesc
Newest(rows, c) ==
    {i \in OpenOf(rows, c) :
        \A j \in OpenOf(rows, c) : rows[j].start <= rows[i].start}

FindCube ==
    /\ event.cube \in Registered
    /\ Step("find", "close")
    /\ UNCHANGED <<store, ws, clock>>

UnknownCube ==
    /\ pc = "find" /\ event.cube \notin Registered
    /\ Rollback
    /\ UNCHANGED <<clock, counters, history>>

NothingActive ==
    /\ OpenOf(tx, event.cube) = {}
    /\ Step("close", "open")
    /\ UNCHANGED <<store, ws, clock>>

\* The return leaves the lambda only: processEvent goes on.
SameSide ==
    /\ \E i \in Newest(tx, event.cube) :
          tx[i].side = event.side /\ active' = i
    /\ Step("close", "open")
    /\ UNCHANGED <<sessions, tx, ws, clock>>

CloseActive ==
    /\ \E i \in Newest(tx, event.cube) :
          /\ tx[i].side # event.side
          /\ active' = i
          /\ tx' = [tx EXCEPT ![i].end = Now]
    /\ clock' = Now
    /\ Step("close", "ended")
    /\ UNCHANGED <<sessions, ws>>

Message(type, row) ==
    [type |-> type, cube |-> event.cube, side |-> row.side, start |-> row.start,
     end |-> row.end, duration |-> row.duration]

\* Plausible bug: the end of a session is not announced.
SendNothing == Step("ended", "open") /\ UNCHANGED <<store, ws, clock>>

SendEnded ==
    /\ Step("ended", "open")
    /\ ws' = Append(ws, Message("session_ended", tx[active]))
    /\ UNCHANGED <<store, clock>>

\* event.getSide() > 0 unboxes null.
NullSide ==
    /\ pc = "open" /\ event.side = NoSide
    /\ Rollback
    /\ UNCHANGED <<clock, counters, history>>

Row(start) ==
    [cube |-> event.cube, side |-> event.side, start |-> start, end |-> NoTime,
     duration |-> NoTime]

OpenNew ==
    /\ event.side # NoSide /\ event.side > 0
    /\ Step("open", "started")
    /\ tx' = Append(tx, Row(Now))
    /\ clock' = Now
    /\ UNCHANGED <<sessions, active, ws>>

SendStarted ==
    /\ Step("started", "commit")
    /\ ws' = Append(ws, Message("session_started", tx[Len(tx)]))
    /\ UNCHANGED <<store, clock>>

\* Plausible bug: no side is taken for the sleep code.
SleepOnNull ==
    /\ ~(event.side # NoSide /\ event.side > 0)
    /\ Step("open", "status")
    /\ UNCHANGED <<store, ws, clock>>

GoToSleep ==
    /\ event.side # NoSide /\ event.side <= 0
    /\ Step("open", "status")
    /\ UNCHANGED <<store, ws, clock>>

SendStatus ==
    /\ Step("status", "commit")
    /\ ws' = Append(ws, [type |-> "cube_status", cube |-> event.cube,
                         side |-> NoSide, start |-> NoTime, end |-> NoTime,
                         duration |-> NoTime])
    /\ UNCHANGED <<store, clock>>

\* calculateDuration: @PreUpdate, run when the changed row is flushed.
Flushed(row) ==
    IF row.end = NoTime THEN row
    ELSE [row EXCEPT !.duration = row.end - row.start]

Commit ==
    /\ pc = "commit"
    /\ pc' = "listen" /\ event' = Idle
    /\ sessions' = [i \in 1..Len(tx) |-> Flushed(tx[i])]
    /\ tx' = sessions' /\ active' = 0
    /\ last' = [last EXCEPT ![event.cube] = event.side]
    /\ repeated' = [repeated EXCEPT ![event.cube] =
                       @ \/ (active # 0 /\ tx[active].end = NoTime)]
    /\ UNCHANGED <<ws, clock, counters>>

-----------------------------------------------------------------------------
\* LocalDateTime.now() is local time: a daylight saving change or a time
\* server may set it back.
SetBack ==
    /\ setbacks < MaxSetBacks
    /\ setbacks' = setbacks + 1
    /\ \E t \in 0..clock : t < clock /\ clock' = t
    /\ UNCHANGED <<pc, event, store, ws, received, faults, history>>

ProcessEvent ==
    \/ FindCube \/ UnknownCube \/ NothingActive \/ SameSide \/ CloseActive
    \/ SendEnded \/ NullSide \/ OpenNew \/ SendStarted \/ GoToSleep
    \/ SendStatus \/ Commit \/ Throws

Next == Bind \/ Receive \/ ProcessEvent \/ SocketError \/ Crash \/ SetBack

Spec == Init /\ [][Next]_vars

\* The thread runs whenever it has something to do.
FairSpec == Spec /\ WF_vars(Bind \/ ProcessEvent)

-----------------------------------------------------------------------------
Times   == Int \union {NoTime}
RowType == [cube: Cubes, side: Sides, start: Int, end: Times, duration: Times]
MessageType ==
    [type: {"session_started", "session_ended", "cube_status"}, cube: Cubes,
     side: Sides \union {NoSide}, start: Times, end: Times, duration: Times]

TypeOK ==
    /\ pc \in Places /\ event \in Events
    /\ sessions \in Seq(RowType) /\ tx \in Seq(RowType)
    /\ active \in 0..Len(tx)
    /\ ws \in Seq(MessageType)
    /\ clock \in Nat
    /\ received \in Nat /\ faults \in Nat /\ setbacks \in Nat
    /\ last \in [Cubes -> Sides \union {0}] /\ repeated \in [Cubes -> BOOLEAN]

\* As long as no event repeats the side a session is open for, the open
\* sessions of a cube are exactly one, for the side of its last committed
\* event, or none if that was the sleep code: no exception, crash or lost
\* datagram between the closing of one session and the opening of the next
\* leaves two of them open, or none where one should be.
OpenIsLastSide ==
    \A c \in Cubes :
        ~repeated[c] =>
            IF last[c] > 0
            THEN \E i \in 1..Len(sessions) :
                    /\ OpenOf(sessions, c) = {i}
                    /\ sessions[i].side = last[c]
            ELSE OpenOf(sessions, c) = {}

\* Under the same condition, and as long as the clock was not set back, a
\* cube's sessions do not overlap: it is on one side at a time.
NoOverlap ==
    \A i, j \in 1..Len(sessions) :
        (/\ i < j /\ sessions[i].cube = sessions[j].cube
         /\ ~repeated[sessions[i].cube] /\ setbacks = 0) =>
            sessions[i].end # NoTime /\ sessions[i].end < sessions[j].start

\* Rows are a history: none disappears or changes what it was opened with, a
\* closed one never changes again (a late or repeated datagram does not
\* reopen or lengthen it), and a transaction touches its own cube's only.
HistoryIsKept ==
    [][ /\ Len(sessions') >= Len(sessions)
        /\ \A i \in 1..Len(sessions) :
              LET r == sessions[i]
                  s == sessions'[i]
              IN  /\ s.cube = r.cube /\ s.side = r.side /\ s.start = r.start
                  /\ s # r => r.end = NoTime /\ r.cube = event.cube
      ]_vars

\* What the table says has been announced before: a subscriber that applies
\* the messages knows of every session in it and of every end.
SavedIsAnnounced ==
    \A i \in 1..Len(sessions) :
        LET r == sessions[i]
            Announced(type, end) ==
                \E k \in 1..Len(ws) :
                    /\ ws[k].type = type /\ ws[k].cube = r.cube
                    /\ ws[k].side = r.side /\ ws[k].start = r.start
                    /\ ws[k].end = end
        IN  /\ Announced("session_started", NoTime)
            /\ r.end # NoTime => Announced("session_ended", r.end)

\* Whatever an event does to the service, the thread listens again, unless
\* its socket is lost.
ListensAgain == []<>(pc \in {"listen", "dead"})

\* SessionLog, with the saved rows as its table: they change by whole
\* events, each told before it is saved, whatever fails in between.
Log == INSTANCE SessionLog
         WITH table <- sessions, news <- ws, due <- (pc = "commit")

ImplementsLog == Log!Spec

-----------------------------------------------------------------------------
(* What the documents and comments say and the code does not do.           *)

\* CubeService.java:33, "if the side has not changed, do nothing": an event
\* that repeats the active side leaves the table as it is.
RepeatChangesNothing ==
    [][ (\E i \in OpenOf(sessions, event.cube) :
            event.side = sessions[i].side /\ pc = "commit")
        => sessions' = sessions ]_vars
=============================================================================
