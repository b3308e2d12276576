------------------------------ MODULE SessionLog -------------------------------
(***************************************************************************)
(* What the backend promises to those who follow it.  An event of a cube   *)
(* is told first: the end of the session it ends, then the session it      *)
(* starts or that the cube sleeps.  Then all of it is recorded in one      *)
(* step, or nothing.  CubeBackend implements it.                           *)
(***************************************************************************)
EXTENDS Integers, Sequences

CONSTANTS
    NoSide, \* the side of a message that is about none
    NoTime  \* the end of a session that is open

VARIABLES
    table, \* the sessions, in the order they were recorded
    news,  \* what was told
    due    \* is the event that was told last still to be recorded

vars == <<table, news, due>>

Open(c) == {i \in 1..Len(table) : table[i].cube = c /\ table[i].end = NoTime}

\* The session of the cube that an event may end: of the open ones the one
\* with the latest start.
Latest(c) == {i \in Open(c) : \A j \in Open(c) : table[j].start <= table[i].start}

Init == table = <<>> /\ news = <<>> /\ due = FALSE

-----------------------------------------------------------------------------
Ends(m, row) ==
    /\ m.type = "session_ended" /\ m.cube = row.cube
    /\ m.side = row.side /\ m.start = row.start /\ m.end # NoTime

Starts(m) == m.type = "session_started" /\ m.side > 0 /\ m.end = NoTime
Sleeps(m) == m.type = "cube_status" /\ m.side = NoSide

Tell(m) == news' = Append(news, m) /\ UNCHANGED table

\* Only a session that is recorded as active is said to end.
TellEnd(m) ==
    /\ \E i \in Latest(m.cube) : Ends(m, table[i])
    /\ Tell(m) /\ due' = FALSE

TellEvent(m) ==
    /\ Starts(m) \/ Sleeps(m)
    /\ Tell(m) /\ due' = TRUE

Announce ==
    /\ ~due
    /\ Len(news') > Len(news)
    /\ LET m == news'[Len(news')] IN TellEnd(m) \/ TellEvent(m)

\* The event failed: what was told stays told.
Drop == due /\ due' = FALSE /\ UNCHANGED <<table, news>>

-----------------------------------------------------------------------------
\* The rows with the session that m starts, if it starts one.
With(rows, m) ==
    IF Starts(m)
    THEN Append(rows, [cube |-> m.cube, side |-> m.side, start |-> m.start,
                       end |-> NoTime, duration |-> NoTime])
    ELSE rows

\* The cube has no session to end: none is open or, the code's own rule, the
\* event is for the side of the latest one.
KeepOpen(m) ==
    /\ Open(m.cube) = {} \/ \E i \in Latest(m.cube) : table[i].side = m.side
    /\ table' = With(table, m)

\* The latest session ends as the message before m said.
EndLatest(m) ==
    /\ Len(news) > 1
    /\ LET e == news[Len(news) - 1]
       IN  \E i \in Latest(m.cube) :
              /\ table[i].side # m.side
              /\ Ends(e, table[i])
              /\ table' = With([table EXCEPT ![i].end = e.end,
                                             ![i].duration = e.end - e.start], m)

Record ==
    /\ due /\ due' = FALSE
    /\ LET m == news[Len(news)] IN KeepOpen(m) \/ EndLatest(m)
    /\ UNCHANGED news

Next == Announce \/ Drop \/ Record

Spec == Init /\ [][Next]_vars
=============================================================================
