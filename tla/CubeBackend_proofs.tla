-------------------------- MODULE CubeBackend_proofs ---------------------------
(***************************************************************************)
(* The backend, for all sets of cubes and sides and any number of          *)
(* datagrams, exceptions and crashes: which sessions are open, that the    *)
(* table is a history and was announced, and that table and announcements  *)
(* implement SessionLog.                                                   *)
(***************************************************************************)
EXTENDS CubeBackend, SequenceTheorems, TLAPS

-----------------------------------------------------------------------------
(* What the operations on the table do to the open sessions.               *)

LEMMA OpenOfAppend ==
    ASSUME NEW rows \in Seq(RowType), NEW r \in RowType, NEW c
    PROVE  OpenOf(Append(rows, r), c) =
             IF r.cube = c /\ r.end = NoTime
             THEN OpenOf(rows, c) \union {Len(rows) + 1} ELSE OpenOf(rows, c)
<1>1. /\ Len(rows) \in Nat
      /\ Len(Append(rows, r)) = Len(rows) + 1
      /\ \A i \in 1..Len(rows) : Append(rows, r)[i] = rows[i]
      /\ Append(rows, r)[Len(rows) + 1] = r
  BY AppendProperties
<1> QED
  BY <1>1 DEF OpenOf

LEMMA CloseRow ==
    ASSUME NEW rows \in Seq(RowType), NEW i \in 1..Len(rows), NEW e \in Int,
           NEW s, s = [rows EXCEPT ![i].end = e]
    PROVE  /\ s \in Seq(RowType) /\ Len(s) = Len(rows)
           /\ \A j \in 1..Len(rows) : j # i => s[j] = rows[j]
           /\ s[i] = [rows[i] EXCEPT !.end = e]
           /\ s[i].cube = rows[i].cube /\ s[i].side = rows[i].side
           /\ s[i].start = rows[i].start /\ s[i].end = e
<1>1. rows[i] \in RowType
  BY ElementOfSeq
<1>2. [rows[i] EXCEPT !.end = e] \in RowType
  BY <1>1 DEF RowType, Times
<1>3. s = [rows EXCEPT ![i] = [rows[i] EXCEPT !.end = e]]
  OBVIOUS
<1>4. /\ s \in Seq(RowType) /\ Len(s) = Len(rows)
      /\ \A j \in 1..Len(rows) :
            s[j] = IF j = i THEN [rows[i] EXCEPT !.end = e] ELSE rows[j]
  BY <1>2, <1>3, ExceptSeq
<1> QED
  BY <1>1, <1>4 DEF RowType

LEMMA OpenOfClose ==
    ASSUME NEW rows \in Seq(RowType), NEW i \in 1..Len(rows), NEW e \in Int,
           NEW c
    PROVE  OpenOf([rows EXCEPT ![i].end = e], c) = OpenOf(rows, c) \ {i}
<1> DEFINE s == [rows EXCEPT ![i].end = e]
<1>1. /\ Len(s) = Len(rows)
      /\ \A j \in 1..Len(rows) : j # i => s[j] = rows[j]
      /\ s[i].end = e
  BY CloseRow
<1> QED
  BY <1>1, NullAssumption DEF OpenOf

FlushedRows(rows) == [i \in 1..Len(rows) |-> Flushed(rows[i])]

\* Flushing settles the durations and nothing else.
LEMMA FlushRow ==
    ASSUME NEW r \in RowType
    PROVE  /\ Flushed(r) \in RowType
           /\ Flushed(r).cube = r.cube /\ Flushed(r).side = r.side
           /\ Flushed(r).start = r.start /\ Flushed(r).end = r.end
           /\ Flushed(Flushed(r)) = Flushed(r)
<1>1. CASE r.end = NoTime
  BY <1>1 DEF RowType, Flushed
<1>2. CASE r.end # NoTime
  <2>1. r.end \in Int /\ r.start \in Int
    BY <1>2 DEF RowType, Times
  <2>2. /\ Flushed(r) = [r EXCEPT !.duration = r.end - r.start]
        /\ r.end - r.start \in Times
    BY <1>2, <2>1 DEF Flushed, Times
  <2>3. /\ Flushed(r) \in RowType
        /\ Flushed(r).cube = r.cube /\ Flushed(r).side = r.side
        /\ Flushed(r).start = r.start /\ Flushed(r).end = r.end
        /\ Flushed(r).duration = r.end - r.start
    BY <2>2 DEF RowType
  <2>4. Flushed(Flushed(r)) = [Flushed(r) EXCEPT !.duration = r.end - r.start]
    BY <1>2, <2>3 DEF Flushed
  <2>5. Flushed(Flushed(r)) = Flushed(r)
    BY <2>3, <2>4 DEF RowType
  <2> QED
    BY <2>3, <2>5
<1> QED
  BY <1>1, <1>2

LEMMA FlushRows ==
    ASSUME NEW rows \in Seq(RowType)
    PROVE  /\ FlushedRows(rows) \in Seq(RowType)
           /\ Len(FlushedRows(rows)) = Len(rows)
           /\ \A i \in 1..Len(rows) : FlushedRows(rows)[i] = Flushed(rows[i])
<1>1. /\ Len(rows) \in Nat
      /\ \A i \in 1..Len(rows) : rows[i] \in RowType
  BY ElementOfSeq, LenProperties
<1>2. \A i \in 1..Len(rows) : Flushed(rows[i]) \in RowType
  BY <1>1, FlushRow
<1> QED
  BY <1>1, <1>2 DEF FlushedRows

LEMMA OpenOfFlush ==
    ASSUME NEW rows \in Seq(RowType), NEW c
    PROVE  OpenOf(FlushedRows(rows), c) = OpenOf(rows, c)
<1>1. \A i \in 1..Len(rows) : rows[i] \in RowType
  BY ElementOfSeq
<1>2. \A i \in 1..Len(rows) : /\ FlushedRows(rows)[i].cube = rows[i].cube
                              /\ FlushedRows(rows)[i].end = rows[i].end
  BY <1>1, FlushRows, FlushRow
<1> QED
  BY <1>2, FlushRows DEF OpenOf

-----------------------------------------------------------------------------
(* Types.                                                                  *)

\* Where the thread is says what it has in hand.
Located ==
    /\ pc = "ended" => active # 0
    /\ pc = "started" => Len(tx) > 0
    /\ pc \in {"started", "status", "commit"} => event.side \in Sides

LEMMA MessageTyped ==
    ASSUME TypeOK, NEW row \in RowType,
           NEW type \in {"session_started", "session_ended"}
    PROVE  Append(ws, Message(type, row)) \in Seq(MessageType)
<1>1. event.cube \in Cubes
  BY DEF TypeOK, Events
<1>2. Message(type, row) \in MessageType
  BY <1>1 DEF Message, MessageType, RowType, Times
<1> QED
  BY <1>2 DEF TypeOK

LEMMA RowTyped ==
    ASSUME TypeOK, event.side \in Sides, NEW t \in Int
    PROVE  Row(t) \in RowType
<1>1. event.cube \in Cubes
  BY DEF TypeOK, Events
<1> QED
  BY <1>1 DEF Row, RowType, Times

LEMMA IdleTyped == Idle \in Events
  BY CubesAssumption DEF Idle, Events

LEMMA TypeInvariant == Spec => [](TypeOK /\ Located)
<1>1. Init => TypeOK /\ Located
  BY IdleTyped, EmptySeq, BackendBoundsAssumption
     DEF Init, TypeOK, Located, Places, Busy
<1>2. TypeOK /\ Located /\ [Next]_vars => (TypeOK /\ Located)'
  <2> SUFFICES ASSUME TypeOK, Located, [Next]_vars
               PROVE  TypeOK' /\ Located'
    OBVIOUS
  <2> USE DEF store, counters, history, Step, Places, Busy, Located
  <2>1. Now \in Nat /\ Now \in Int
    BY DEF TypeOK, Now
  <2>2. event.cube \in Cubes /\ event.side \in Sides \union {NoSide}
    BY DEF TypeOK, Events
  <2>3. /\ Len(tx) \in Nat /\ Len(sessions) \in Nat
        /\ \A i \in 1..Len(tx) : tx[i] \in RowType
    BY ElementOfSeq, LenProperties DEF TypeOK
  <2>4. Rollback /\ UNCHANGED <<clock, received, setbacks, history>>
          /\ faults' \in Nat => TypeOK' /\ Located'
    BY <2>3, IdleTyped DEF Rollback, TypeOK
  <2>5. CASE Bind
    BY <2>5 DEF Bind, TypeOK
  <2>6. CASE Receive
    BY <2>3, <2>6 DEF Receive, TypeOK
  <2>7. CASE SocketError
    BY <2>7 DEF SocketError, Fault, TypeOK
  <2>8. CASE Crash
    BY <2>3, <2>8, IdleTyped DEF Crash, Fault, TypeOK
  <2>9. CASE Throws
    BY <2>4, <2>9 DEF Throws, Fault, TypeOK
  <2>10. CASE FindCube \/ NothingActive
    BY <2>10 DEF FindCube, NothingActive, TypeOK
  <2>11. CASE UnknownCube \/ NullSide
    BY <2>4, <2>11 DEF UnknownCube, NullSide, TypeOK
  <2>12. CASE SameSide
    <3>1. active' \in 1..Len(tx)
      BY <2>12 DEF SameSide, Newest, OpenOf
    <3> QED
      BY <2>3, <2>12, <3>1 DEF SameSide, TypeOK
  <2>13. CASE CloseActive
    <3>1. PICK i \in Newest(tx, event.cube) :
            active' = i /\ tx' = [tx EXCEPT ![i].end = Now]
      BY <2>13 DEF CloseActive
    <3>2. i \in 1..Len(tx)
      BY DEF Newest, OpenOf
    <3>3. tx \in Seq(RowType)
      BY DEF TypeOK
    <3>4. tx' \in Seq(RowType) /\ Len(tx') = Len(tx)
      BY ONLY <2>1, <3>1, <3>2, <3>3, CloseRow
    <3> QED
      BY <2>1, <2>3, <2>13, <3>1, <3>2, <3>4 DEF CloseActive, TypeOK
  <2>14. CASE SendEnded
    <3>1. tx[active] \in RowType
      BY <2>3, <2>14 DEF SendEnded, TypeOK
    <3>2. ws' \in Seq(MessageType)
      BY <2>14, <3>1, MessageTyped DEF SendEnded
    <3> QED
      BY <2>14, <3>2 DEF SendEnded, TypeOK
  <2>15. CASE OpenNew
    <3>1. Row(Now) \in RowType
      BY <2>1, <2>2, <2>15, RowTyped DEF OpenNew
    <3>2. tx' \in Seq(RowType) /\ Len(tx') = Len(tx) + 1
      BY <2>15, <3>1, AppendProperties DEF OpenNew, TypeOK
    <3> QED
      BY <2>1, <2>2, <2>3, <2>15, <3>2 DEF OpenNew, TypeOK
  <2>16. CASE SendStarted
    <3>1. tx[Len(tx)] \in RowType
      BY <2>3, <2>16 DEF SendStarted
    <3>2. ws' \in Seq(MessageType)
      BY <2>16, <3>1, MessageTyped DEF SendStarted
    <3> QED
      BY <2>16, <3>2 DEF SendStarted, TypeOK
  <2>17. CASE GoToSleep
    BY <2>2, <2>17 DEF GoToSleep, TypeOK
  <2>18. CASE SendStatus
    <3>1. ws' \in Seq(MessageType)
      BY <2>2, <2>18 DEF SendStatus, TypeOK, MessageType, Times
    <3> QED
      BY <2>18, <3>1 DEF SendStatus, TypeOK
  <2>19. CASE Commit
    <3>1. sessions' \in Seq(RowType) /\ tx' = sessions'
      BY <2>19, FlushRows DEF Commit, FlushedRows, TypeOK
    <3>2. last' \in [Cubes -> Sides \union {0}]
      BY <2>2, <2>19 DEF Commit, TypeOK
    <3>3. repeated' \in [Cubes -> BOOLEAN]
      BY <2>2, <2>19 DEF Commit, TypeOK
    <3>4. Len(tx') \in Nat
      BY <3>1, LenProperties
    <3> QED
      BY <2>19, <3>1, <3>2, <3>3, <3>4, IdleTyped DEF Commit, TypeOK
  <2>20. CASE SetBack
    BY <2>20 DEF SetBack, TypeOK
  <2>21. CASE UNCHANGED vars
    BY <2>21 DEF vars, TypeOK
  <2> QED
    BY <2>5, <2>6, <2>7, <2>8, <2>9, <2>10, <2>11, <2>12, <2>13, <2>14,
       <2>15, <2>16, <2>17, <2>18, <2>19, <2>20, <2>21
       DEF Next, ProcessEvent
<1> QED
  BY <1>1, <1>2, PTL DEF Spec

\* The table only ever holds rows of the schema, and the thread is never
\* left holding a session that is not in it.
THEOREM TypeCorrect == Spec => []TypeOK
  BY TypeInvariant, PTL

-----------------------------------------------------------------------------
(* The table is a history.                                                 *)

\* What a transaction for cube c may have made of the rows.
Kept(rows, new, c) ==
    /\ Len(rows) <= Len(new)
    /\ \A i \in 1..Len(rows) :
          /\ new[i].cube = rows[i].cube /\ new[i].side = rows[i].side
          /\ new[i].start = rows[i].start
          /\ new[i] # rows[i] => rows[i].end = NoTime /\ rows[i].cube = c

Settled(rows) == \A i \in 1..Len(rows) : Flushed(rows[i]) = rows[i]

\* Outside of the transaction there are no changes; inside, only those of
\* its own cube; the saved rows have their durations.
TableInv ==
    /\ pc \in {"bind", "listen", "dead", "find", "close"} =>
          tx = sessions /\ active = 0
    /\ Kept(sessions, tx, event.cube)
    /\ Settled(sessions)

LEMMA KeptAll ==
    ASSUME NEW rows \in Seq(RowType), NEW c
    PROVE  Kept(rows, rows, c)
<1>1. Len(rows) \in Nat
  BY LenProperties
<1> QED
  BY <1>1 DEF Kept

LEMMA KeptAppend ==
    ASSUME NEW rows \in Seq(RowType), NEW new \in Seq(RowType), NEW c,
           Kept(rows, new, c), NEW r \in RowType
    PROVE  Kept(rows, Append(new, r), c)
<1>1. /\ Len(rows) \in Nat /\ Len(new) \in Nat
      /\ Len(Append(new, r)) = Len(new) + 1
      /\ \A i \in 1..Len(new) : Append(new, r)[i] = new[i]
  BY AppendProperties, LenProperties
<1> QED
  BY <1>1 DEF Kept

LEMMA KeptClose ==
    ASSUME NEW rows \in Seq(RowType), NEW i \in 1..Len(rows), NEW e \in Int,
           rows[i].end = NoTime
    PROVE  Kept(rows, [rows EXCEPT ![i].end = e], rows[i].cube)
<1> DEFINE s == [rows EXCEPT ![i].end = e]
<1>1. /\ Len(rows) \in Nat /\ Len(s) = Len(rows)
      /\ \A j \in 1..Len(rows) : j # i => s[j] = rows[j]
      /\ s[i].cube = rows[i].cube /\ s[i].side = rows[i].side
      /\ s[i].start = rows[i].start
  BY CloseRow, LenProperties
<1> HIDE DEF s
<1> QED
  BY <1>1 DEF Kept, s

LEMMA KeptFlush ==
    ASSUME NEW rows \in Seq(RowType), NEW new \in Seq(RowType), NEW c,
           Kept(rows, new, c), Settled(rows)
    PROVE  /\ Kept(rows, FlushedRows(new), c)
           /\ Settled(FlushedRows(new))
<1>1. /\ Len(rows) \in Nat /\ Len(new) \in Nat
      /\ \A i \in 1..Len(new) : new[i] \in RowType
  BY ElementOfSeq, LenProperties
<1>2. /\ Len(FlushedRows(new)) = Len(new)
      /\ \A i \in 1..Len(new) : FlushedRows(new)[i] = Flushed(new[i])
  BY FlushRows
<1>3. \A i \in 1..Len(new) :
          /\ Flushed(new[i]).cube = new[i].cube
          /\ Flushed(new[i]).side = new[i].side
          /\ Flushed(new[i]).start = new[i].start
          /\ Flushed(Flushed(new[i])) = Flushed(new[i])
  BY <1>1, FlushRow
<1>4. \A i \in 1..Len(rows) :
          new[i] = rows[i] => Flushed(new[i]) = rows[i]
  BY DEF Settled
<1>5. Settled(FlushedRows(new))
  BY <1>2, <1>3 DEF Settled
<1>6. Kept(rows, FlushedRows(new), c)
  BY <1>1, <1>2, <1>3, <1>4 DEF Kept
<1> QED
  BY <1>5, <1>6

LEMMA TableInvIsInvariant == Spec => []TableInv
<1>1. Init => TableInv
  BY DEF Init, TableInv, Kept, Settled
<1>2. TypeOK /\ Located /\ TableInv /\ [Next]_vars => TableInv'
  <2> SUFFICES ASSUME TypeOK, Located, TableInv, [Next]_vars
               PROVE  TableInv'
    OBVIOUS
  <2> USE DEF store, counters, history, Step
  <2>1. /\ tx \in Seq(RowType) /\ sessions \in Seq(RowType)
        /\ Now \in Int
    BY DEF TypeOK, Now
  <2>2. \A c : Kept(sessions, sessions, c)
    BY <2>1, KeptAll
  <2>3. Rollback => TableInv'
    BY <2>2 DEF Rollback, TableInv
  <2>4. CASE Bind \/ FindCube \/ NothingActive \/ SameSide \/ SendEnded
               \/ SendStarted \/ GoToSleep \/ SendStatus
    BY <2>4 DEF Bind, FindCube, NothingActive, SameSide, SendEnded,
                SendStarted, GoToSleep, SendStatus, TableInv
  <2>5. CASE Receive
    BY <2>2, <2>5 DEF Receive, TableInv
  <2>6. CASE SocketError
    BY <2>6 DEF SocketError, Fault, TableInv
  <2>7. CASE Crash
    BY <2>2, <2>7 DEF Crash, Fault, TableInv
  <2>8. CASE Throws \/ UnknownCube \/ NullSide
    BY <2>3, <2>8 DEF Throws, UnknownCube, NullSide
  <2>9. CASE CloseActive
    <3>1. PICK i \in Newest(tx, event.cube) : tx' = [tx EXCEPT ![i].end = Now]
      BY <2>9 DEF CloseActive
    <3>2. i \in 1..Len(tx) /\ tx[i].cube = event.cube /\ tx[i].end = NoTime
      BY DEF Newest, OpenOf
    <3>3. Kept(tx, tx', event.cube)
      BY ONLY <2>1, <3>1, <3>2, KeptClose
    <3> QED
      BY <2>9, <3>3 DEF CloseActive, TableInv
  <2>10. CASE OpenNew
    <3>1. Row(Now) \in RowType
      BY <2>1, <2>10, RowTyped DEF OpenNew, TypeOK, Events
    <3>2. Kept(sessions, tx', event.cube)
      BY <2>1, <2>10, <3>1, KeptAppend DEF OpenNew, TableInv
    <3> QED
      BY <2>10, <3>2 DEF OpenNew, TableInv
  <2>11. CASE Commit
    <3>1. sessions' = FlushedRows(tx) /\ tx' = sessions' /\ active' = 0
      BY <2>11 DEF Commit, FlushedRows
    <3>2. Settled(sessions') /\ sessions' \in Seq(RowType)
      BY <2>1, <3>1, KeptFlush, FlushRows DEF TableInv
    <3>3. Kept(sessions', tx', event'.cube)
      BY <3>1, <3>2, KeptAll
    <3> QED
      BY <3>1, <3>2, <3>3 DEF TableInv
  <2>12. CASE SetBack
    BY <2>12 DEF SetBack, TableInv
  <2>13. CASE UNCHANGED vars
    BY <2>13 DEF vars, TableInv
  <2> QED
    BY <2>4, <2>5, <2>6, <2>7, <2>8, <2>9, <2>10, <2>11, <2>12, <2>13
       DEF Next, ProcessEvent
<1> QED
  BY <1>1, <1>2, TypeInvariant, PTL DEF Spec

\* No datagram, exception, rollback or crash removes a row of the table,
\* changes what it was opened with or touches it once it is closed, and none
\* touches a row of another cube.
THEOREM TheTableIsAHistory == Spec => HistoryIsKept
<1> DEFINE Keeps ==
      /\ Len(sessions') >= Len(sessions)
      /\ \A i \in 1..Len(sessions) :
            LET r == sessions[i]
                s == sessions'[i]
            IN  /\ s.cube = r.cube /\ s.side = r.side /\ s.start = r.start
                /\ s # r => r.end = NoTime /\ r.cube = event.cube
<1>1. TypeOK /\ TableInv /\ [Next]_vars => [Keeps]_vars
  <2> SUFFICES ASSUME TypeOK, TableInv, Next
               PROVE  Keeps
    OBVIOUS
  <2>1. tx \in Seq(RowType) /\ sessions \in Seq(RowType)
    BY DEF TypeOK
  <2>2. CASE Commit
    <3>1. Kept(sessions, sessions', event.cube)
      BY <2>1, <2>2, KeptFlush DEF Commit, FlushedRows, TableInv
    <3>2. Len(sessions) \in Nat /\ Len(sessions') \in Nat
      BY <2>1, <2>2, FlushRows, LenProperties DEF Commit, FlushedRows
    <3> QED
      BY <3>1, <3>2 DEF Kept
  <2>3. CASE ~Commit
    <3>1. UNCHANGED sessions
      BY <2>3 DEF Next, ProcessEvent, Bind, Receive, SocketError, Crash,
         SetBack, FindCube, UnknownCube, NothingActive, SameSide, CloseActive,
         SendEnded, NullSide, OpenNew, SendStarted, GoToSleep, SendStatus,
         Throws, Rollback, Step, store
    <3>2. Len(sessions) \in Nat
      BY <2>1, LenProperties
    <3> QED
      BY <3>1, <3>2
  <2> QED
    BY <2>2, <2>3
<1> QED
  BY <1>1, TypeInvariant, TableInvIsInvariant, PTL DEF Spec, HistoryIsKept

-----------------------------------------------------------------------------
(* Which sessions are open.                                                *)

\* The open sessions of cube c are the one for side n, if n is a side.
OpenFor(rows, c, n) ==
    IF n > 0 THEN \E i \in 1..Len(rows) : OpenOf(rows, c) = {i} /\ rows[i].side = n
    ELSE OpenOf(rows, c) = {}

Decided == {"ended", "open", "started", "status", "commit"}

\* The side the transaction has got to: 0 between the two sessions.
Reached == IF pc \in {"started", "commit"} THEN event.side ELSE 0

\* The event in hand repeats the active side.
Repeats == active # 0 /\ tx[active].end = NoTime

OpenInv ==
    /\ \A c \in Cubes : ~repeated[c] => OpenFor(sessions, c, last[c])
    /\ \A c \in Cubes \ {event.cube} : OpenOf(tx, c) = OpenOf(sessions, c)
    /\ (pc \in Decided /\ ~repeated[event.cube] /\ ~Repeats) =>
          OpenFor(tx, event.cube, Reached)
    /\ pc = "status" => event.side <= 0
    /\ pc = "ended" => ~Repeats

\* A row that stays what it was, in a table with the same open sessions.
LEMMA OpenForKept ==
    ASSUME NEW rows \in Seq(RowType), NEW new \in Seq(RowType),
           NEW c, NEW d, c # d, NEW n \in Int,
           Kept(rows, new, d), OpenOf(new, c) = OpenOf(rows, c),
           OpenFor(rows, c, n)
    PROVE  OpenFor(new, c, n)
<1>1. Len(rows) \in Nat /\ Len(new) \in Nat
  BY LenProperties
<1> QED
  BY <1>1 DEF OpenFor, Kept

LEMMA OpenForFlush ==
    ASSUME NEW rows \in Seq(RowType), NEW c, NEW n, OpenFor(rows, c, n)
    PROVE  OpenFor(FlushedRows(rows), c, n)
<1>1. \A i \in 1..Len(rows) : FlushedRows(rows)[i].side = rows[i].side
  BY ElementOfSeq, FlushRows, FlushRow
<1> QED
  BY <1>1, FlushRows, OpenOfFlush DEF OpenFor

LEMMA OpenInvIsInvariant == Spec => []OpenInv
<1>1. Init => OpenInv
  BY DEF Init, OpenInv, OpenFor, OpenOf, Decided
<1>2. /\ TypeOK /\ Located /\ TableInv /\ TableInv' /\ OpenInv /\ [Next]_vars
      => OpenInv'
  <2> SUFFICES ASSUME TypeOK, Located, TableInv, TableInv', OpenInv, [Next]_vars
               PROVE  OpenInv'
    OBVIOUS
  <2> USE DEF store, counters, history, Step, Decided, Repeats, Reached
  <2>1. /\ tx \in Seq(RowType) /\ sessions \in Seq(RowType)
        /\ Len(tx) \in Nat /\ Len(sessions) \in Nat
        /\ Now \in Int /\ Now # NoTime
        /\ event.cube \in Cubes /\ active \in 0..Len(tx)
        /\ \A c \in Cubes : last[c] \in Int
    <3>1. last \in [Cubes -> Sides \union {0}]
      BY DEF TypeOK
    <3>2. \A c \in Cubes : last[c] \in Sides \union {0}
      BY <3>1
    <3>3. Sides \union {0} \subseteq Int
      BY SidesAssumption
    <3> QED
      BY <3>2, <3>3, LenProperties, NullAssumption DEF TypeOK, Now, Events
  <2>2. Rollback /\ UNCHANGED history => OpenInv'
    BY DEF Rollback, OpenInv
  <2>3. CASE Bind \/ FindCube \/ SendEnded \/ SendStarted
    BY <2>3 DEF Bind, FindCube, SendEnded, SendStarted, OpenInv
  <2>4. CASE SendStatus
    <3>1. event.side \in Int /\ event.side <= 0
      BY <2>4, SidesAssumption DEF SendStatus, OpenInv, Located
    <3>2. OpenFor(tx, event.cube, 0) => OpenFor(tx, event.cube, event.side)
      BY <3>1 DEF OpenFor
    <3> QED
      BY <2>4, <3>2 DEF SendStatus, OpenInv
  <2>5. CASE Receive
    BY <2>5 DEF Receive, OpenInv
  <2>6. CASE SocketError
    BY <2>6 DEF SocketError, Fault, OpenInv
  <2>7. CASE Crash
    BY <2>7 DEF Crash, Fault, OpenInv
  <2>8. CASE Throws \/ UnknownCube \/ NullSide
    BY <2>2, <2>8 DEF Throws, Fault, UnknownCube, NullSide
  <2>9. CASE NothingActive
    BY <2>1, <2>9 DEF NothingActive, OpenInv, OpenFor, TableInv
  <2>10. CASE SameSide
    BY <2>1, <2>10 DEF SameSide, OpenInv, TableInv, Newest, OpenOf
  <2>11. CASE CloseActive
    <3>1. PICK i \in Newest(tx, event.cube) :
            active' = i /\ tx' = [tx EXCEPT ![i].end = Now]
      BY <2>11 DEF CloseActive
    <3>2. /\ tx = sessions /\ i \in 1..Len(tx) /\ i \in OpenOf(tx, event.cube)
          /\ tx[i].cube = event.cube
      BY <2>11 DEF Newest, OpenOf, CloseActive, TableInv
    <3>3. ASSUME NEW c
          PROVE  OpenOf(tx', c) = OpenOf(tx, c) \ {i}
      <4>1. OpenOf([tx EXCEPT ![i].end = Now], c) = OpenOf(tx, c) \ {i}
        BY ONLY <2>1, <3>2, OpenOfClose
      <4> QED
        BY <3>1, <4>1
    <3>4. tx'[i].end = Now /\ Len(tx') = Len(tx)
      BY ONLY <2>1, <3>1, <3>2, CloseRow
    <3>5. \A c \in Cubes \ {event.cube} : OpenOf(tx', c) = OpenOf(sessions, c)
      BY <3>2, <3>3 DEF OpenOf
    <3>6. ~repeated[event.cube] => OpenOf(tx', event.cube) = {}
      BY <2>1, <3>2, <3>3 DEF OpenInv, OpenFor
    <3>7. ~repeated[event.cube] => OpenFor(tx', event.cube, 0)
      BY <3>6 DEF OpenFor
    <3>8. /\ pc' = "ended" /\ UNCHANGED <<event, sessions, last, repeated>>
          /\ active' # 0 /\ ~Repeats'
      BY <2>1, <2>11, <3>1, <3>2, <3>4 DEF CloseActive
    <3> QED
      BY <3>5, <3>7, <3>8 DEF OpenInv
  <2>12. CASE OpenNew
    <3>1. /\ event.side \in Sides /\ event.side \in Int /\ event.side > 0
          /\ tx' = Append(tx, Row(Now)) /\ pc = "open" /\ pc' = "started"
          /\ UNCHANGED <<event, sessions, active, last, repeated>>
      BY <2>12, SidesAssumption DEF OpenNew, TypeOK, Events
    <3>2. /\ Row(Now) \in RowType /\ Row(Now).cube = event.cube
          /\ Row(Now).end = NoTime /\ Row(Now).side = event.side
      BY <2>1, <3>1, RowTyped DEF Row
    <3>3. /\ Len(tx') = Len(tx) + 1 /\ tx'[Len(tx) + 1] = Row(Now)
          /\ \A i \in 1..Len(tx) : tx'[i] = tx[i]
      BY ONLY <2>1, <3>1, <3>2, AppendProperties
    <3>4. /\ OpenOf(tx', event.cube) = OpenOf(tx, event.cube) \union {Len(tx) + 1}
          /\ \A c : c # event.cube => OpenOf(tx', c) = OpenOf(tx, c)
      BY ONLY <2>1, <3>1, <3>2, OpenOfAppend
    <3>5. (~repeated[event.cube] /\ ~Repeats') => OpenFor(tx', event.cube, event.side)
      BY <2>1, <3>1, <3>2, <3>3, <3>4 DEF OpenInv, OpenFor
    <3> QED
      BY <2>1, <3>1, <3>4, <3>5 DEF OpenInv
  <2>13. CASE GoToSleep
    BY <2>13 DEF GoToSleep, OpenInv
  <2>14. CASE Commit
    <3> DEFINE d == event.cube
    <3>1. /\ sessions' = FlushedRows(tx) /\ tx' = sessions' /\ pc' = "listen"
          /\ pc = "commit"
          /\ last' = [last EXCEPT ![d] = event.side]
          /\ repeated' = [repeated EXCEPT ![d] = @ \/ Repeats]
      BY <2>14 DEF Commit, FlushedRows
    <3>2. \A c \in Cubes \ {d} : last'[c] = last[c] /\ repeated'[c] = repeated[c]
      BY <3>1 DEF TypeOK
    <3>3. last'[d] = event.side /\ repeated'[d] = (repeated[d] \/ Repeats)
      BY <2>1, <3>1 DEF TypeOK
    <3>4. ~repeated'[d] => OpenFor(sessions', d, last'[d])
      BY <2>1, <3>1, <3>3, OpenForFlush DEF OpenInv
    <3>5. ASSUME NEW c \in Cubes \ {d}, ~repeated'[c]
          PROVE  OpenFor(sessions', c, last'[c])
      <4>1. OpenFor(sessions, c, last[c]) /\ OpenOf(tx, c) = OpenOf(sessions, c)
        BY <3>2, <3>5 DEF OpenInv
      <4>2. Kept(sessions, tx, d)
        BY DEF TableInv
      <4>3. OpenFor(tx, c, last[c])
        BY ONLY <2>1, <4>1, <4>2, OpenForKept, c \in Cubes \ {d}
      <4> QED
        BY <2>1, <3>1, <3>2, <4>3, OpenForFlush
    <3> QED
      BY <3>1, <3>4, <3>5 DEF OpenInv
  <2>15. CASE SetBack
    BY <2>15 DEF SetBack, OpenInv
  <2>16. CASE UNCHANGED vars
    BY <2>16 DEF vars, OpenInv
  <2> QED
    BY <2>3, <2>4, <2>5, <2>6, <2>7, <2>8, <2>9, <2>10, <2>11, <2>12, <2>13,
       <2>14, <2>15, <2>16 DEF Next, ProcessEvent
<1> QED
  BY <1>1, <1>2, TypeInvariant, TableInvIsInvariant, PTL DEF Spec

\* No exception, crash, duplicate or late datagram leaves a cube with two open
\* sessions, or with none where one should be, as long as no event repeats
\* the side a session is open for.
THEOREM OneSessionIsOpen == Spec => []OpenIsLastSide
<1>1. OpenInv => OpenIsLastSide
  BY DEF OpenInv, OpenIsLastSide, OpenFor
<1> QED
  BY <1>1, OpenInvIsInvariant, PTL

-----------------------------------------------------------------------------
(* Sessions of a cube do not overlap.                                      *)

Past(rows, t) ==
    \A i \in 1..Len(rows) :
        rows[i].start <= t /\ (rows[i].end # NoTime => rows[i].end <= t)

Apart(rows, c) ==
    \A i, j \in 1..Len(rows) :
        (i < j /\ rows[i].cube = c /\ rows[j].cube = c) =>
            rows[i].end # NoTime /\ rows[i].end < rows[j].start

\* What was saved, and what a transaction that is past its decision will
\* save, lies in the past and does not overlap.
OverlapInv ==
    setbacks = 0 =>
        /\ Past(sessions, clock) /\ Past(tx, clock)
        /\ \A c \in Cubes : ~repeated[c] => Apart(sessions, c)
        /\ \A c \in Cubes \ {event.cube} : ~repeated[c] => Apart(tx, c)
        /\ (pc \in Decided /\ ~repeated[event.cube] /\ ~Repeats) =>
              Apart(tx, event.cube)

LEMMA PastApartClose ==
    ASSUME NEW rows \in Seq(RowType), NEW i \in 1..Len(rows), NEW t \in Int,
           rows[i].end = NoTime, Past(rows, t)
    PROVE  /\ Past([rows EXCEPT ![i].end = t + 1], t + 1)
           /\ \A c : Apart(rows, c) => Apart([rows EXCEPT ![i].end = t + 1], c)
<1> DEFINE s == [rows EXCEPT ![i].end = t + 1]
<1>1. \A j \in 1..Len(rows) : rows[j] \in RowType
  BY ElementOfSeq
<1>2. \A j \in 1..Len(rows) :
        rows[j].start \in Int /\ rows[j].end \in Int \union {NoTime}
  BY <1>1 DEF RowType, Times
<1>3. /\ Len(s) = Len(rows)
      /\ \A j \in 1..Len(rows) : j # i => s[j] = rows[j]
      /\ s[i].cube = rows[i].cube /\ s[i].start = rows[i].start
      /\ s[i].end = t + 1
  BY CloseRow
<1> HIDE DEF s
<1>4. Past(s, t + 1)
  BY <1>2, <1>3 DEF Past
<1>5. ASSUME NEW c, Apart(rows, c)
      PROVE  Apart(s, c)
  <2> SUFFICES ASSUME NEW j \in 1..Len(s), NEW k \in 1..Len(s),
                      j < k, s[j].cube = c, s[k].cube = c
               PROVE  s[j].end # NoTime /\ s[j].end < s[k].start
    BY DEF Apart
  <2>1. rows[j].cube = c /\ rows[k].cube = c /\ s[k].start = rows[k].start
    BY <1>3
  <2>2. rows[j].end # NoTime /\ rows[j].end < rows[k].start
    BY <1>3, <1>5, <2>1 DEF Apart
  <2> QED
    BY <1>3, <2>1, <2>2
<1> QED
  BY <1>4, <1>5 DEF s

LEMMA PastApartAppend ==
    ASSUME NEW rows \in Seq(RowType), NEW t \in Int, Past(rows, t),
           NEW r \in RowType, r.start = t + 1, r.end = NoTime
    PROVE  /\ Past(Append(rows, r), t + 1)
           /\ \A c : (Apart(rows, c) /\ (r.cube = c => OpenOf(rows, c) = {}))
                      => Apart(Append(rows, r), c)
<1> DEFINE s == Append(rows, r)
<1>1. \A j \in 1..Len(rows) : rows[j] \in RowType
  BY ElementOfSeq
<1>2. \A j \in 1..Len(rows) :
        rows[j].start \in Int /\ rows[j].end \in Int \union {NoTime}
  BY <1>1 DEF RowType, Times
<1>3. /\ Len(rows) \in Nat /\ Len(s) = Len(rows) + 1
      /\ \A j \in 1..Len(rows) : s[j] = rows[j]
      /\ s[Len(rows) + 1] = r
  BY AppendProperties, LenProperties
<1> HIDE DEF s
<1>4. Past(s, t + 1)
  BY <1>2, <1>3 DEF Past
<1>5. ASSUME NEW c, Apart(rows, c), r.cube = c => OpenOf(rows, c) = {}
      PROVE  Apart(s, c)
  <2> SUFFICES ASSUME NEW j \in 1..Len(s), NEW k \in 1..Len(s),
                      j < k, s[j].cube = c, s[k].cube = c
               PROVE  s[j].end # NoTime /\ s[j].end < s[k].start
    BY DEF Apart
  <2>1. j \in 1..Len(rows) /\ s[j] = rows[j]
    BY <1>3
  <2>2. CASE k \in 1..Len(rows)
    BY <1>3, <1>5, <2>1, <2>2 DEF Apart
  <2>3. CASE k = Len(rows) + 1
    <3>1. r.cube = c /\ s[k].start = t + 1
      BY <1>3, <2>3
    <3>2. rows[j].end # NoTime
      BY <1>5, <2>1, <3>1 DEF OpenOf
    <3> QED
      BY <1>2, <2>1, <3>1, <3>2 DEF Past
  <2> QED
    BY <1>3, <2>2, <2>3
<1> QED
  BY <1>4, <1>5 DEF s

LEMMA PastApartFlush ==
    ASSUME NEW rows \in Seq(RowType)
    PROVE  /\ \A t : Past(rows, t) => Past(FlushedRows(rows), t)
           /\ \A c : Apart(rows, c) => Apart(FlushedRows(rows), c)
<1>1. /\ Len(FlushedRows(rows)) = Len(rows)
      /\ \A i \in 1..Len(rows) :
            LET s == FlushedRows(rows)[i]
            IN  /\ s.cube = rows[i].cube
                /\ s.start = rows[i].start /\ s.end = rows[i].end
  BY ElementOfSeq, FlushRows, FlushRow
<1> QED
  BY <1>1 DEF Past, Apart

LEMMA OverlapInvIsInvariant == Spec => []OverlapInv
<1>1. Init => OverlapInv
  BY DEF Init, OverlapInv, Past, Apart, Decided
<1>2. TypeOK /\ Located /\ TableInv /\ OpenInv /\ OverlapInv /\ [Next]_vars
      => OverlapInv'
  <2> SUFFICES ASSUME TypeOK, Located, TableInv, OpenInv, OverlapInv,
                      [Next]_vars
               PROVE  OverlapInv'
    OBVIOUS
  <2> USE DEF store, counters, history, Step, Decided, Repeats
  <2>1. /\ tx \in Seq(RowType) /\ sessions \in Seq(RowType)
        /\ Len(tx) \in Nat /\ clock \in Int /\ setbacks \in Nat
        /\ event.cube \in Cubes /\ active \in 0..Len(tx)
    BY LenProperties DEF TypeOK, Events
  <2>2. Rollback /\ UNCHANGED <<clock, setbacks, history>> => OverlapInv'
    BY DEF Rollback, OverlapInv
  <2>3. CASE Bind \/ FindCube \/ SendEnded \/ SendStarted \/ GoToSleep
               \/ SendStatus
    BY <2>3 DEF Bind, FindCube, SendEnded, SendStarted, GoToSleep, SendStatus,
                OverlapInv
  <2>4. CASE Receive
    BY <2>4 DEF Receive, OverlapInv
  <2>5. CASE SocketError
    BY <2>5 DEF SocketError, Fault, OverlapInv
  <2>6. CASE Crash
    BY <2>6 DEF Crash, Fault, OverlapInv
  <2>7. CASE Throws \/ UnknownCube \/ NullSide
    BY <2>2, <2>7 DEF Throws, Fault, UnknownCube, NullSide
  <2>8. CASE NothingActive \/ SameSide
    BY <2>1, <2>8 DEF NothingActive, SameSide, OverlapInv, TableInv
  <2>9. CASE CloseActive
    <3>1. PICK i \in Newest(tx, event.cube) :
            active' = i /\ tx' = [tx EXCEPT ![i].end = clock + 1]
      BY <2>9 DEF CloseActive, Now
    <3>2. tx = sessions /\ i \in 1..Len(tx) /\ tx[i].end = NoTime
      BY <2>9 DEF Newest, OpenOf, CloseActive, TableInv
    <3>3. /\ UNCHANGED <<sessions, event, setbacks, repeated>>
          /\ clock' = clock + 1 /\ pc' = "ended"
      BY <2>9 DEF CloseActive, Now
    <3>4. ASSUME Past(tx, clock)
          PROVE  Past(tx', clock + 1) /\ \A c : Apart(tx, c) => Apart(tx', c)
      <4> DEFINE s == [tx EXCEPT ![i].end = clock + 1]
      <4>1. Past(s, clock + 1) /\ \A c : Apart(tx, c) => Apart(s, c)
        BY ONLY <2>1, <3>2, <3>4, PastApartClose
      <4> QED
        BY <3>1, <4>1
    <3>5. ASSUME Past(sessions, clock)
          PROVE  Past(sessions, clock + 1)
      <4>1. \A j \in 1..Len(sessions) : sessions[j] \in RowType
        BY <2>1, ElementOfSeq
      <4>2. \A j \in 1..Len(sessions) :
              /\ sessions[j].start \in Int
              /\ sessions[j].end \in Int \union {NoTime}
        BY <4>1 DEF RowType, Times
      <4> QED
        BY <2>1, <3>5, <4>2 DEF Past
    <3> QED
      BY <2>1, <3>2, <3>3, <3>4, <3>5 DEF OverlapInv
  <2>10. CASE OpenNew
    <3>1. /\ event.side \in Sides
          /\ tx' = Append(tx, Row(clock + 1)) /\ pc = "open" /\ pc' = "started"
          /\ clock' = clock + 1
          /\ UNCHANGED <<event, sessions, active, setbacks, repeated>>
      BY <2>10 DEF OpenNew, Now, TypeOK, Events
    <3>2. /\ Row(clock + 1) \in RowType /\ Row(clock + 1).cube = event.cube
          /\ Row(clock + 1).start = clock + 1 /\ Row(clock + 1).end = NoTime
      BY <2>1, <3>1, RowTyped DEF Row
    <3>3. Past(tx, clock) =>
            /\ Past(tx', clock + 1)
            /\ \A c : (Apart(tx, c) /\ (event.cube = c => OpenOf(tx, c) = {}))
                      => Apart(tx', c)
      BY ONLY <2>1, <3>1, <3>2, PastApartAppend
    <3>4. Past(sessions, clock) => Past(sessions, clock + 1)
      <4>1. \A j \in 1..Len(sessions) : sessions[j] \in RowType
        BY <2>1, ElementOfSeq
      <4>2. \A j \in 1..Len(sessions) :
              /\ sessions[j].start \in Int
              /\ sessions[j].end \in Int \union {NoTime}
        BY <4>1 DEF RowType, Times
      <4> QED
        BY <2>1, <4>2 DEF Past
    <3>5. (~repeated[event.cube] /\ ~Repeats) => OpenOf(tx, event.cube) = {}
      BY <3>1 DEF OpenInv, OpenFor, Reached
    <3>6. Repeats' = Repeats
      <4>1. \A j \in 1..Len(tx) : tx'[j] = tx[j]
        BY ONLY <2>1, <3>1, <3>2, AppendProperties
      <4> QED
        BY <2>1, <3>1, <4>1
    <3> QED
      BY <3>1, <3>3, <3>4, <3>5, <3>6 DEF OverlapInv
  <2>11. CASE Commit
    <3>1. /\ sessions' = FlushedRows(tx) /\ tx' = sessions' /\ pc' = "listen"
          /\ pc = "commit" /\ UNCHANGED <<clock, setbacks>>
          /\ repeated' = [repeated EXCEPT ![event.cube] = @ \/ Repeats]
      BY <2>11 DEF Commit, FlushedRows
    <3>2. \A c \in Cubes \ {event.cube} : repeated'[c] = repeated[c]
      BY <3>1 DEF TypeOK
    <3>3. repeated'[event.cube] = (repeated[event.cube] \/ Repeats)
      BY <2>1, <3>1 DEF TypeOK
    <3>4. /\ Past(tx, clock) => Past(sessions', clock)
          /\ \A c : Apart(tx, c) => Apart(sessions', c)
      BY ONLY <2>1, <3>1, PastApartFlush
    <3>5. setbacks = 0 => \A c \in Cubes : ~repeated'[c] => Apart(tx, c)
      BY <3>1, <3>2, <3>3 DEF OverlapInv
    <3> QED
      BY <3>1, <3>4, <3>5 DEF OverlapInv
  <2>12. CASE SetBack
    BY <2>1, <2>12 DEF SetBack, OverlapInv
  <2>13. CASE UNCHANGED vars
    BY <2>13 DEF vars, OverlapInv
  <2> QED
    BY <2>3, <2>4, <2>5, <2>6, <2>7, <2>8, <2>9, <2>10, <2>11, <2>12, <2>13
       DEF Next, ProcessEvent
<1> QED
  BY <1>1, <1>2, TypeInvariant, TableInvIsInvariant, OpenInvIsInvariant, PTL
     DEF Spec

\* A cube is on one side at a time: the saved sessions of a cube whose events
\* never repeat the active side follow one another, while the clock runs on.
THEOREM SessionsDoNotOverlap == Spec => []NoOverlap
<1>1. OverlapInv /\ TypeOK => NoOverlap
  <2> SUFFICES ASSUME OverlapInv, TypeOK,
                      NEW i \in 1..Len(sessions), NEW j \in 1..Len(sessions),
                      i < j, sessions[i].cube = sessions[j].cube,
                      ~repeated[sessions[i].cube], setbacks = 0
               PROVE  sessions[i].end # NoTime /\ sessions[i].end < sessions[j].start
    BY DEF NoOverlap
  <2>1. sessions[i] \in RowType
    BY ElementOfSeq DEF TypeOK
  <2>2. sessions[i].cube \in Cubes
    BY <2>1 DEF RowType
  <2> QED
    BY <2>2 DEF OverlapInv, Apart
<1> QED
  BY <1>1, OverlapInvIsInvariant, TypeInvariant, PTL

-----------------------------------------------------------------------------
(* What is saved has been announced.                                       *)

\* The messages w hold one of the type for the row, with that end.
Announces(w, type, r, end) ==
    \E k \in 1..Len(w) :
        /\ w[k].type = type /\ w[k].cube = r.cube
        /\ w[k].side = r.side /\ w[k].start = r.start
        /\ w[k].end = end

StartTold(w, r) == Announces(w, "session_started", r, NoTime)
EndTold(w, r) == r.end # NoTime => Announces(w, "session_ended", r, r.end)

\* Of the rows that the transaction sees, only the one that was closed or
\* opened by the statement before may still have to be announced.
AnnounceInv ==
    /\ \A i \in 1..Len(sessions) : StartTold(ws, sessions[i]) /\ EndTold(ws, sessions[i])
    /\ \A i \in 1..Len(tx) :
          /\ (pc = "started" => i # Len(tx)) => StartTold(ws, tx[i])
          /\ (pc = "ended" => i # active) => EndTold(ws, tx[i])
    /\ pc = "ended" => tx[active].cube = event.cube
    /\ pc = "started" => tx[Len(tx)].cube = event.cube /\ tx[Len(tx)].end = NoTime

\* What was announced stays announced: nothing takes a message back.
LEMMA AnnouncedStays ==
    ASSUME NEW w \in Seq(MessageType), NEW m \in MessageType, NEW r
    PROVE  /\ StartTold(w, r) => StartTold(Append(w, m), r)
           /\ EndTold(w, r) => EndTold(Append(w, m), r)
<1>1. /\ Len(w) \in Nat /\ Len(Append(w, m)) = Len(w) + 1
      /\ \A k \in 1..Len(w) : Append(w, m)[k] = w[k]
  BY AppendProperties, LenProperties
<1>2. \A type, end : Announces(w, type, r, end) => Announces(Append(w, m), type, r, end)
  BY <1>1 DEF Announces
<1> QED
  BY <1>2 DEF StartTold, EndTold

\* A message about a row announces it.
LEMMA MessageAnnounces ==
    ASSUME NEW w \in Seq(MessageType), NEW r \in RowType, r.cube = event.cube,
           NEW type, Message(type, r) \in MessageType
    PROVE  Announces(Append(w, Message(type, r)), type, r, r.end)
<1>1. /\ Len(w) \in Nat /\ Len(Append(w, Message(type, r))) = Len(w) + 1
      /\ Append(w, Message(type, r))[Len(w) + 1] = Message(type, r)
  BY AppendProperties, LenProperties
<1>2. Len(w) + 1 \in 1..Len(Append(w, Message(type, r)))
  BY <1>1
<1> QED
  BY <1>1, <1>2 DEF Announces, Message

\* Flushing settles nothing that a message says.
LEMMA ToldFlush ==
    ASSUME NEW r \in RowType, NEW w
    PROVE  /\ StartTold(w, r) => StartTold(w, Flushed(r))
           /\ EndTold(w, r) => EndTold(w, Flushed(r))
BY FlushRow DEF StartTold, EndTold, Announces
LEMMA AnnounceInvIsInvariant == Spec => []AnnounceInv
<1>1. Init => AnnounceInv
  BY DEF Init, AnnounceInv
<1>2. TypeOK /\ TypeOK' /\ Located /\ TableInv /\ AnnounceInv /\ [Next]_vars => AnnounceInv'
  <2> SUFFICES ASSUME TypeOK, TypeOK', Located, TableInv, AnnounceInv, [Next]_vars
               PROVE  AnnounceInv'
    OBVIOUS
  <2> USE DEF store, counters, history, Step
  <2>1. /\ tx \in Seq(RowType) /\ sessions \in Seq(RowType) /\ ws \in Seq(MessageType)
        /\ ws' \in Seq(MessageType) /\ Len(tx) \in Nat /\ active \in 0..Len(tx)
        /\ Now \in Int /\ \A i \in 1..Len(tx) : tx[i] \in RowType
    BY ElementOfSeq, LenProperties DEF TypeOK, Now
  <2>2. Rollback => AnnounceInv'
    BY DEF Rollback, AnnounceInv
  <2>3. CASE Bind \/ FindCube \/ NothingActive \/ SameSide \/ GoToSleep
    BY <2>3 DEF Bind, FindCube, NothingActive, SameSide, GoToSleep, AnnounceInv
  <2>4. CASE Receive
    BY <2>4 DEF Receive, AnnounceInv
  <2>5. CASE SocketError
    BY <2>5 DEF SocketError, Fault, AnnounceInv
  <2>6. CASE Crash
    BY <2>6 DEF Crash, Fault, AnnounceInv
  <2>7. CASE Throws \/ UnknownCube \/ NullSide
    BY <2>2, <2>7 DEF Throws, UnknownCube, NullSide
  <2>8. CASE CloseActive
    <3>1. PICK i \in Newest(tx, event.cube) :
            active' = i /\ tx' = [tx EXCEPT ![i].end = Now]
      BY <2>8 DEF CloseActive
    <3>2. /\ pc = "close" /\ pc' = "ended" /\ UNCHANGED <<event, sessions, ws>>
          /\ i \in 1..Len(tx) /\ tx[i].cube = event.cube
      BY <2>8 DEF CloseActive, Newest, OpenOf
    <3>3. /\ Len(tx') = Len(tx)
          /\ \A j \in 1..Len(tx) : j # i => tx'[j] = tx[j]
          /\ tx'[i].cube = tx[i].cube /\ tx'[i].side = tx[i].side
          /\ tx'[i].start = tx[i].start
      BY ONLY <2>1, <3>1, <3>2, CloseRow
    <3>4. StartTold(ws, tx[i]) => StartTold(ws, tx'[i])
      BY <3>3 DEF StartTold, Announces
    <3> QED
      BY <3>1, <3>2, <3>3, <3>4 DEF AnnounceInv
  <2>9. CASE SendEnded
    <3> DEFINE m == Message("session_ended", tx[active])
    <3>1. /\ pc = "ended" /\ pc' = "open" /\ ws' = Append(ws, m)
          /\ UNCHANGED <<event, sessions, tx, active>> /\ active \in 1..Len(tx)
      BY <2>1, <2>9 DEF SendEnded, Located
    <3>2. event.cube \in Cubes /\ tx[active].cube = event.cube
      BY <3>1 DEF AnnounceInv, TypeOK, Events
    <3>3. m \in MessageType
      BY <2>1, <3>1, <3>2 DEF Message, MessageType, RowType, Times
    <3>4. \A r : (StartTold(ws, r) => StartTold(ws', r)) /\ (EndTold(ws, r) => EndTold(ws', r))
      BY ONLY <2>1, <3>1, <3>3, AnnouncedStays
    <3>5. EndTold(ws', tx[active])
      BY <2>1, <3>1, <3>2, <3>3, MessageAnnounces DEF EndTold
    <3> HIDE DEF m
    <3> QED
      BY <3>1, <3>4, <3>5 DEF AnnounceInv
  <2>10. CASE OpenNew
    <3>1. /\ event.side \in Sides /\ pc = "open" /\ pc' = "started"
          /\ tx' = Append(tx, Row(Now)) /\ UNCHANGED <<event, sessions, ws>>
      BY <2>10 DEF OpenNew, TypeOK, Events
    <3>2. Row(Now) \in RowType /\ Row(Now).cube = event.cube /\ Row(Now).end = NoTime
      BY <2>1, <3>1, RowTyped DEF Row
    <3>3. /\ Len(tx') = Len(tx) + 1 /\ tx'[Len(tx) + 1] = Row(Now)
          /\ \A j \in 1..Len(tx) : tx'[j] = tx[j]
      BY ONLY <2>1, <3>1, <3>2, AppendProperties
    <3>4. EndTold(ws, Row(Now))
      BY <3>2 DEF EndTold
    <3> QED
      BY <2>1, <3>1, <3>2, <3>3, <3>4 DEF AnnounceInv
  <2>11. CASE SendStarted
    <3> DEFINE r == tx[Len(tx)]
               m == Message("session_started", r)
    <3>1. /\ pc = "started" /\ pc' = "commit" /\ ws' = Append(ws, m)
          /\ UNCHANGED <<event, sessions, tx, active>> /\ Len(tx) \in 1..Len(tx)
      BY <2>1, <2>11 DEF SendStarted, Located
    <3>2. event.cube \in Cubes /\ r.cube = event.cube /\ r.end = NoTime
      BY <3>1 DEF AnnounceInv, TypeOK, Events
    <3>3. m \in MessageType
      BY <2>1, <3>1, <3>2 DEF Message, MessageType, RowType, Times
    <3>4. \A q : (StartTold(ws, q) => StartTold(ws', q)) /\ (EndTold(ws, q) => EndTold(ws', q))
      BY ONLY <2>1, <3>1, <3>3, AnnouncedStays
    <3>5. StartTold(ws', r)
      BY <2>1, <3>1, <3>2, <3>3, MessageAnnounces DEF StartTold
    <3> HIDE DEF m
    <3> QED
      BY <3>1, <3>4, <3>5 DEF AnnounceInv
  <2>12. CASE SendStatus
    <3> DEFINE m == [type |-> "cube_status", cube |-> event.cube, side |-> NoSide,
                     start |-> NoTime, end |-> NoTime, duration |-> NoTime]
    <3>1. /\ pc = "status" /\ pc' = "commit" /\ ws' = Append(ws, m)
          /\ UNCHANGED <<sessions, tx>>
      BY <2>12 DEF SendStatus
    <3>2. m \in MessageType
      BY DEF MessageType, TypeOK, Events, Times
    <3>3. \A r : (StartTold(ws, r) => StartTold(ws', r)) /\ (EndTold(ws, r) => EndTold(ws', r))
      BY ONLY <2>1, <3>1, <3>2, AnnouncedStays
    <3> HIDE DEF m
    <3> QED
      BY <3>1, <3>3 DEF AnnounceInv
  <2>13. CASE Commit
    <3>1. /\ sessions' = FlushedRows(tx) /\ tx' = sessions' /\ pc = "commit"
          /\ pc' = "listen" /\ UNCHANGED ws
      BY <2>13 DEF Commit, FlushedRows
    <3>2. /\ Len(sessions') = Len(tx)
          /\ \A i \in 1..Len(tx) : sessions'[i] = Flushed(tx[i])
      BY ONLY <2>1, <3>1, FlushRows
    <3>3. \A i \in 1..Len(tx) : StartTold(ws, Flushed(tx[i])) /\ EndTold(ws, Flushed(tx[i]))
      BY <2>1, <3>1, ToldFlush DEF AnnounceInv
    <3> QED
      BY <3>1, <3>2, <3>3 DEF AnnounceInv
  <2>14. CASE SetBack
    BY <2>14 DEF SetBack, AnnounceInv
  <2>15. CASE UNCHANGED vars
    BY <2>15 DEF vars, AnnounceInv
  <2> QED
    BY <2>3, <2>4, <2>5, <2>6, <2>7, <2>8, <2>9, <2>10, <2>11, <2>12, <2>13, <2>14, <2>15
       DEF Next, ProcessEvent
<1> QED
  BY <1>1, <1>2, TypeInvariant, TableInvIsInvariant, PTL DEF Spec

\* Every session in the table, and every end, was sent to the subscribers
\* before it was saved, whatever was rolled back in between.
THEOREM WhatIsSavedWasAnnounced == Spec => []SavedIsAnnounced
<1>1. AnnounceInv => SavedIsAnnounced
  BY DEF AnnounceInv, SavedIsAnnounced, StartTold, EndTold, Announces
<1> QED
  BY <1>1, AnnounceInvIsInvariant, PTL

-----------------------------------------------------------------------------
(* The table and the announcements implement SessionLog.                   *)

TellsEnd(m, r, t) ==
    /\ m.type = "session_ended" /\ m.cube = r.cube
    /\ m.side = r.side /\ m.start = r.start /\ m.end = t

\* The event e ends none of the saved sessions.
Left(saved, e, rows) ==
    /\ rows = saved
    /\ \/ OpenOf(saved, e.cube) = {}
       \/ \E i \in Newest(saved, e.cube) : saved[i].side = e.side

\* The event e ends saved session i at t.
Closed(saved, e, rows, i, t) ==
    /\ i \in Newest(saved, e.cube) /\ saved[i].side # e.side
    /\ t \in Int /\ rows = [saved EXCEPT ![i].end = t]

\* The rows after the first half of the event e, when the messages are w.
EndIsTold(saved, e, rows, w) ==
    \/ Left(saved, e, rows)
    \/ \E i, t : /\ Closed(saved, e, rows, i, t)
                 /\ Len(w) > 0 /\ TellsEnd(w[Len(w)], saved[i], t)

StatusMessage ==
    [type |-> "cube_status", cube |-> event.cube, side |-> NoSide,
     start |-> NoTime, end |-> NoTime, duration |-> NoTime]

\* The whole event: what is saved at the commit, the last message said.
StartDone(rows, w, t) ==
    /\ rows \in Seq(RowType) /\ w \in Seq(MessageType) /\ t \in Int
    /\ EndIsTold(sessions, event, rows, w) /\ event.side > 0
    /\ tx = Append(rows, Row(t))
    /\ ws = Append(w, Message("session_started", Row(t)))
SleepDone(w) ==
    /\ w \in Seq(MessageType)
    /\ EndIsTold(sessions, event, tx, w) /\ event.side <= 0
    /\ ws = Append(w, StatusMessage)

Positive(rows) == \A i \in 1..Len(rows) : rows[i].side > 0

\* How far the transaction is from the saved table, at each statement.
LogInv ==
    /\ Positive(tx) /\ Positive(sessions)
    /\ pc = "ended" => \E t : Closed(sessions, event, tx, active, t)
    /\ pc \in {"open", "status"} => EndIsTold(sessions, event, tx, ws)
    /\ pc = "status" => event.side <= 0
    /\ pc = "started" =>
          \E rows \in Seq(RowType), t \in Int :
              /\ EndIsTold(sessions, event, rows, ws) /\ event.side > 0
              /\ tx = Append(rows, Row(t))
    /\ pc = "commit" =>
          (\E w : SleepDone(w)) \/ (\E rows, w, t : StartDone(rows, w, t))

LEMMA LogInvIsInvariant == Spec => []LogInv
<1>1. Init => LogInv
  BY DEF Init, LogInv, Positive
<1>2. TypeOK /\ TypeOK' /\ Located /\ TableInv /\ LogInv /\ [Next]_vars => LogInv'
  <2> SUFFICES ASSUME TypeOK, TypeOK', Located, TableInv, LogInv, [Next]_vars
               PROVE  LogInv'
    OBVIOUS
  <2> USE DEF store, counters, history, Step
  <2>1. /\ tx \in Seq(RowType) /\ sessions \in Seq(RowType) /\ ws \in Seq(MessageType)
        /\ Len(tx) \in Nat /\ Now \in Int /\ active \in 0..Len(tx)
        /\ \A i \in 1..Len(tx) : tx[i] \in RowType
        /\ \A i \in 1..Len(sessions) : sessions[i] \in RowType
    BY ElementOfSeq, LenProperties DEF TypeOK, Now
  <2>2. Rollback => LogInv'
    BY DEF Rollback, LogInv
  <2>3. CASE Bind \/ FindCube
    BY <2>3 DEF Bind, FindCube, LogInv
  <2>4. CASE Receive
    BY <2>4 DEF Receive, LogInv
  <2>5. CASE SocketError
    BY <2>5 DEF SocketError, Fault, LogInv
  <2>6. CASE Crash
    BY <2>6 DEF Crash, Fault, LogInv
  <2>7. CASE Throws \/ UnknownCube \/ NullSide
    BY <2>2, <2>7 DEF Throws, UnknownCube, NullSide
  <2>8. CASE NothingActive \/ SameSide
    <3>1. /\ pc = "close" /\ pc' = "open" /\ tx = sessions
          /\ UNCHANGED <<event, sessions, tx, ws>>
      BY <2>8 DEF NothingActive, SameSide, TableInv
    <3>2. Left(sessions, event, tx)
      BY <2>8, <3>1 DEF NothingActive, SameSide, Left
    <3> QED
      BY <3>1, <3>2 DEF LogInv, EndIsTold
  <2>9. CASE CloseActive
    <3>1. PICK i \in Newest(tx, event.cube) :
            /\ tx[i].side # event.side /\ active' = i
            /\ tx' = [tx EXCEPT ![i].end = Now]
      BY <2>9 DEF CloseActive
    <3>2. /\ pc = "close" /\ pc' = "ended" /\ tx = sessions
          /\ UNCHANGED <<event, sessions, ws>> /\ i \in 1..Len(tx)
      BY <2>9 DEF CloseActive, TableInv, Newest, OpenOf
    <3>3. Closed(sessions, event, tx', i, Now)
      BY <2>1, <3>1, <3>2 DEF Closed
    <3>4. /\ Len(tx') = Len(tx)
          /\ \A j \in 1..Len(tx) : j # i => tx'[j] = tx[j]
          /\ tx'[i].side = tx[i].side
      BY ONLY <2>1, <3>1, <3>2, CloseRow
    <3>5. Positive(tx')
      BY <3>2, <3>4 DEF LogInv, Positive
    <3> QED
      BY <3>1, <3>2, <3>3, <3>5 DEF LogInv
  <2>10. CASE SendEnded
    <3> DEFINE m == Message("session_ended", tx[active])
    <3>1. /\ pc = "ended" /\ pc' = "open" /\ ws' = Append(ws, m)
          /\ UNCHANGED <<event, sessions, tx, active>>
      BY <2>10 DEF SendEnded
    <3>2. PICK t : Closed(sessions, event, tx, active, t)
      BY <3>1 DEF LogInv
    <3>3. active \in 1..Len(sessions) /\ sessions[active].cube = event.cube
      BY <3>2 DEF Closed, Newest, OpenOf
    <3>4. /\ tx[active].side = sessions[active].side /\ tx[active].end = t
          /\ tx[active].start = sessions[active].start
      BY <2>1, <3>2, <3>3, CloseRow DEF Closed
    <3>5. m \in MessageType
      <4>1. event.cube \in Cubes
        BY DEF TypeOK, Events
      <4>2. tx[active] \in RowType
        BY <2>1, <3>1 DEF Located
      <4> QED
        BY <4>1, <4>2 DEF Message, MessageType, RowType, Times
    <3>6. Len(ws') > 0 /\ ws'[Len(ws')] = m
      BY <2>1, <3>1, <3>5, AppendProperties, LenProperties
    <3>7. TellsEnd(ws'[Len(ws')], sessions[active], t)
      BY <3>3, <3>4, <3>6 DEF TellsEnd, Message
    <3>8. EndIsTold(sessions, event, tx, ws')
      BY <3>2, <3>6, <3>7 DEF EndIsTold
    <3> HIDE DEF m
    <3> QED
      BY <3>1, <3>8 DEF LogInv
  <2>11. CASE OpenNew
    <3>1. /\ event.side > 0 /\ event.side \in Sides /\ pc = "open" /\ pc' = "started"
          /\ tx' = Append(tx, Row(Now)) /\ UNCHANGED <<event, sessions, ws>>
      BY <2>11 DEF OpenNew, TypeOK, Events
    <3>2. Row(Now) \in RowType /\ Row(Now).side = event.side
      BY <2>1, <3>1, RowTyped DEF Row
    <3>3. /\ Len(tx') = Len(tx) + 1 /\ tx'[Len(tx) + 1] = Row(Now)
          /\ \A j \in 1..Len(tx) : tx'[j] = tx[j]
      BY ONLY <2>1, <3>1, <3>2, AppendProperties
    <3>4. Positive(tx')
      <4>1. \A j \in 1..Len(tx) : tx[j].side > 0
        BY DEF LogInv, Positive
      <4>2. Row(Now).side > 0
        BY <3>1, <3>2
      <4>3. \A j \in 1..Len(tx') : j \in 1..Len(tx) \/ j = Len(tx) + 1
        BY ONLY <2>1, <3>3
      <4> QED
        BY ONLY <3>3, <4>1, <4>2, <4>3 DEF Positive
    <3>5. \E rows \in Seq(RowType), t \in Int :
              /\ EndIsTold(sessions, event, rows, ws) /\ event.side > 0
              /\ tx' = Append(rows, Row(t))
      BY <2>1, <3>1 DEF LogInv
    <3>6. \E rows \in Seq(RowType), t \in Int :
              /\ EndIsTold(sessions', event', rows, ws') /\ event'.side > 0
              /\ tx' = Append(rows, Row(t)')
      BY <3>1, <3>5 DEF Row
    <3> QED
      BY <3>1, <3>4, <3>6 DEF LogInv
  <2>12. CASE SendStarted
    <3>1. /\ pc = "started" /\ pc' = "commit" /\ UNCHANGED <<event, sessions, tx>>
          /\ ws' = Append(ws, Message("session_started", tx[Len(tx)]))
      BY <2>12 DEF SendStarted
    <3>2. PICK rows \in Seq(RowType), t \in Int :
              /\ EndIsTold(sessions, event, rows, ws) /\ event.side > 0
              /\ tx = Append(rows, Row(t))
      BY <3>1 DEF LogInv
    <3>3. Row(t) \in RowType
      BY <3>1, <3>2, RowTyped DEF Located
    <3>4. tx[Len(tx)] = Row(t)
      BY <3>2, <3>3, AppendProperties
    <3>5. \A w : w = ws => StartDone(rows, w, t)'
      BY <2>1, <3>1, <3>2, <3>4 DEF StartDone, Row, Message
    <3> QED
      BY <3>1, <3>5 DEF LogInv
  <2>13. CASE GoToSleep
    BY <2>13 DEF GoToSleep, LogInv
  <2>14. CASE SendStatus
    <3>1. /\ pc = "status" /\ pc' = "commit" /\ UNCHANGED <<event, sessions, tx>>
          /\ ws' = Append(ws, StatusMessage)
      BY <2>14 DEF SendStatus, StatusMessage
    <3>2. \A w : w = ws => SleepDone(w)'
      BY <2>1, <3>1 DEF SleepDone, StatusMessage, LogInv
    <3> QED
      BY <3>1, <3>2 DEF LogInv
  <2>15. CASE Commit
    <3>1. /\ sessions' = FlushedRows(tx) /\ tx' = sessions' /\ pc' = "listen"
      BY <2>15 DEF Commit, FlushedRows
    <3>2. \A i \in 1..Len(tx) : Flushed(tx[i]).side = tx[i].side
      BY <2>1, FlushRow
    <3>3. Positive(FlushedRows(tx))
      BY <2>1, <3>2, FlushRows DEF LogInv, Positive
    <3> QED
      BY <3>1, <3>3 DEF LogInv
  <2>16. CASE SetBack \/ UNCHANGED vars
    <3>1. UNCHANGED <<pc, event, sessions, tx, active, ws>>
      BY <2>16 DEF SetBack, vars
    <3>2. /\ \A t : Row(t)' = Row(t) /\ StatusMessage' = StatusMessage
          /\ \A type, row : Message(type, row)' = Message(type, row)
      BY <3>1 DEF Row, Message, StatusMessage
    <3>3. \A w : SleepDone(w) => SleepDone(w)'
      BY <3>1, <3>2 DEF SleepDone
    <3>4. \A rows, w, t : StartDone(rows, w, t) => StartDone(rows, w, t)'
      BY <3>1, <3>2 DEF StartDone
    <3> QED
      BY <3>1, <3>2, <3>3, <3>4 DEF LogInv
  <2> QED
    BY <2>3, <2>4, <2>5, <2>6, <2>7, <2>8, <2>9, <2>10, <2>11, <2>12, <2>13, <2>14, <2>15,
       <2>16
       DEF Next, ProcessEvent
<1> QED
  BY <1>1, <1>2, TypeInvariant, TableInvIsInvariant, PTL DEF Spec

EndedRows(rows, i, t) ==
    [rows EXCEPT ![i].end = t, ![i].duration = t - rows[i].start]

\* What the commit of an event that ends a session saves is what the log
\* says: the rows with that session ended and its duration computed.
LEMMA FlushClosed ==
    ASSUME NEW rows \in Seq(RowType), Settled(rows), NEW i \in 1..Len(rows),
           NEW t \in Int, NEW s, s = [rows EXCEPT ![i].end = t]
    PROVE  FlushedRows(s) = EndedRows(rows, i, t)
<1> DEFINE r == [[rows[i] EXCEPT !.end = t] EXCEPT !.duration = t - rows[i].start]
           new == EndedRows(rows, i, t)
<1> HIDE DEF r, new
<1>1. /\ s \in Seq(RowType) /\ Len(s) = Len(rows) /\ Len(rows) \in Nat
      /\ \A j \in 1..Len(rows) : j # i => s[j] = rows[j]
      /\ s[i] = [rows[i] EXCEPT !.end = t]
      /\ s[i].start = rows[i].start /\ s[i].end = t
  BY CloseRow, LenProperties
<1>2. /\ Len(FlushedRows(s)) = Len(rows) /\ FlushedRows(s) \in Seq(RowType)
      /\ \A j \in 1..Len(rows) : FlushedRows(s)[j] = Flushed(s[j])
  BY <1>1, FlushRows
<1>3. \A j \in 1..Len(rows) : j # i => FlushedRows(s)[j] = rows[j]
  BY ONLY <1>1, <1>2, Settled(rows) DEF Settled
<1>4. FlushedRows(s)[i] = r
  BY <1>1, <1>2, NullAssumption DEF Flushed, r
<1>5. r \in RowType
  BY <1>2, <1>4, ElementOfSeq
<1>6. new = [rows EXCEPT ![i] = r]
  BY DEF r, new, EndedRows
<1>7. /\ new \in Seq(RowType) /\ Len(new) = Len(rows)
      /\ \A j \in 1..Len(rows) : new[j] = IF j = i THEN r ELSE rows[j]
  BY ONLY <1>5, <1>6, rows \in Seq(RowType), i \in 1..Len(rows), ExceptSeq
<1>8. \A j \in 1..Len(rows) : FlushedRows(s)[j] = new[j]
  BY <1>3, <1>4, <1>7
<1>9. FlushedRows(s) = new
  BY <1>2, <1>7, <1>8, SeqEqual
<1> QED
  BY <1>9 DEF new

LEMMA FlushAppend ==
    ASSUME NEW rows \in Seq(RowType), NEW r \in RowType, r.end = NoTime
    PROVE  FlushedRows(Append(rows, r)) = Append(FlushedRows(rows), r)
<1>1. /\ Append(rows, r) \in Seq(RowType) /\ Len(rows) \in Nat
      /\ Len(Append(rows, r)) = Len(rows) + 1
      /\ \A i \in 1..Len(rows) : Append(rows, r)[i] = rows[i]
      /\ Append(rows, r)[Len(rows) + 1] = r
  BY AppendProperties, LenProperties
<1>2. /\ FlushedRows(rows) \in Seq(RowType) /\ Len(FlushedRows(rows)) = Len(rows)
      /\ \A i \in 1..Len(rows) : FlushedRows(rows)[i] = Flushed(rows[i])
  BY FlushRows
<1>3. /\ FlushedRows(Append(rows, r)) \in Seq(RowType)
      /\ Len(FlushedRows(Append(rows, r))) = Len(rows) + 1
      /\ \A i \in 1..Len(rows) + 1 :
            FlushedRows(Append(rows, r))[i] = Flushed(Append(rows, r)[i])
  BY <1>1, FlushRows
<1>4. /\ Append(FlushedRows(rows), r) \in Seq(RowType)
      /\ Len(Append(FlushedRows(rows), r)) = Len(rows) + 1
      /\ \A i \in 1..Len(rows) : Append(FlushedRows(rows), r)[i] = FlushedRows(rows)[i]
      /\ Append(FlushedRows(rows), r)[Len(rows) + 1] = r
  BY <1>2, AppendProperties
<1>5. Flushed(r) = r
  BY DEF Flushed
<1>6. \A i \in 1..Len(rows) + 1 :
          FlushedRows(Append(rows, r))[i] = Append(FlushedRows(rows), r)[i]
  BY <1>1, <1>2, <1>3, <1>4, <1>5
<1> QED
  BY <1>3, <1>4, <1>6, SeqEqual

LEMMA FlushSettled ==
    ASSUME NEW rows \in Seq(RowType), Settled(rows)
    PROVE  FlushedRows(rows) = rows
<1>1. /\ FlushedRows(rows) \in Seq(RowType) /\ Len(FlushedRows(rows)) = Len(rows)
      /\ \A i \in 1..Len(rows) : FlushedRows(rows)[i] = Flushed(rows[i])
  BY FlushRows
<1>2. \A i \in 1..Len(rows) : FlushedRows(rows)[i] = rows[i]
  BY <1>1 DEF Settled
<1> QED
  BY <1>1, <1>2, SeqEqual

\* The first half of the event, flushed, is what the log records of it: no
\* session ended, or the latest one ended as the message before says.
NoneEnded(saved, e, rows) ==
    /\ FlushedRows(rows) = saved
    /\ \/ OpenOf(saved, e.cube) = {}
       \/ \E i \in Newest(saved, e.cube) : saved[i].side = e.side

LatestEnded(saved, e, rows, w) ==
    \E i \in Newest(saved, e.cube) :
        /\ i \in 1..Len(saved) /\ saved[i].side # e.side
        /\ Len(w) > 0 /\ w[Len(w)].end \in Int
        /\ TellsEnd(w[Len(w)], saved[i], w[Len(w)].end)
        /\ FlushedRows(rows) = EndedRows(saved, i, w[Len(w)].end)

LEMMA ToldEndIsLogged ==
    ASSUME NEW saved \in Seq(RowType), Settled(saved), NEW e, NEW rows, NEW w,
           EndIsTold(saved, e, rows, w)
    PROVE  /\ rows \in Seq(RowType)
           /\ NoneEnded(saved, e, rows) \/ LatestEnded(saved, e, rows, w)
<1>1. CASE Left(saved, e, rows)
  BY <1>1, FlushSettled DEF Left, NoneEnded
<1>2. CASE \E i, t : /\ Closed(saved, e, rows, i, t)
                     /\ Len(w) > 0 /\ TellsEnd(w[Len(w)], saved[i], t)
  <2>1. PICK i, t : /\ Closed(saved, e, rows, i, t)
                    /\ Len(w) > 0 /\ TellsEnd(w[Len(w)], saved[i], t)
    BY <1>2
  <2>2. /\ i \in Newest(saved, e.cube) /\ i \in 1..Len(saved)
        /\ saved[i].side # e.side /\ t \in Int /\ rows = [saved EXCEPT ![i].end = t]
    BY <2>1 DEF Closed, Newest, OpenOf
  <2>3. t = w[Len(w)].end
    BY <2>1 DEF TellsEnd
  <2>4. rows \in Seq(RowType)
    BY ONLY <2>2, saved \in Seq(RowType), CloseRow
  <2>5. FlushedRows(rows) = EndedRows(saved, i, t)
    BY ONLY <2>2, saved \in Seq(RowType), Settled(saved), FlushClosed
  <2> QED
    BY <2>1, <2>2, <2>3, <2>4, <2>5 DEF LatestEnded
<1> QED
  BY <1>1, <1>2 DEF EndIsTold

\* The rows of an event whose last message is m are recorded as m says.
LEMMA ToldEndIsRecorded ==
    ASSUME sessions \in Seq(RowType), Settled(sessions), Positive(sessions),
           NEW rows, NEW w \in Seq(MessageType), NEW m \in MessageType,
           EndIsTold(sessions, event, rows, w), ws = Append(w, m),
           m.cube = event.cube, event.side \in Sides,
           m.side = event.side \/ (m.side = NoSide /\ event.side <= 0),
           sessions' = Log!With(FlushedRows(rows), m)
    PROVE  Log!KeepOpen(m) \/ Log!EndLatest(m)
<1>1. /\ Len(w) \in Nat /\ Len(ws) = Len(w) + 1
      /\ \A i \in 1..Len(w) : ws[i] = w[i]
  BY AppendProperties, LenProperties
<1>2. \A i \in 1..Len(sessions) : sessions[i] \in RowType
  BY ElementOfSeq
<1>3. \A c : OpenOf(sessions, c) = Log!Open(c) /\ Newest(sessions, c) = Log!Latest(c)
  BY DEF OpenOf, Newest, Log!Open, Log!Latest
<1>4. \A i \in Newest(sessions, event.cube) :
          /\ i \in 1..Len(sessions) /\ sessions[i].side \in Int /\ sessions[i].side > 0
          /\ sessions[i].cube = event.cube
  BY <1>2, SidesAssumption DEF Newest, OpenOf, Positive, RowType
<1>5. CASE NoneEnded(sessions, event, rows)
  <2>1. \/ Log!Open(m.cube) = {}
        \/ \E i \in Log!Latest(m.cube) : sessions[i].side = m.side
    <3>1. CASE OpenOf(sessions, event.cube) = {}
      BY <1>3, <3>1
    <3>2. CASE \E i \in Newest(sessions, event.cube) : sessions[i].side = event.side
      <4>1. PICK i \in Newest(sessions, event.cube) : sessions[i].side = event.side
        BY <3>2
      <4>2. m.side = event.side
        BY <1>4, <4>1
      <4>3. i \in Log!Latest(m.cube)
        BY ONLY <1>3, <4>1, m.cube = event.cube
      <4> QED
        BY <4>1, <4>2, <4>3
    <3> QED
      BY <1>5, <3>1, <3>2 DEF NoneEnded
  <2>2. sessions' = Log!With(sessions, m)
    BY <1>5 DEF NoneEnded
  <2> QED
    BY <2>1, <2>2 DEF Log!KeepOpen
<1>6. CASE LatestEnded(sessions, event, rows, w)
  <2> DEFINE e == w[Len(w)]
  <2>1. PICK i \in Newest(sessions, event.cube) :
              /\ i \in 1..Len(sessions) /\ sessions[i].side # event.side
              /\ Len(w) > 0 /\ e.end \in Int
              /\ TellsEnd(e, sessions[i], e.end)
              /\ FlushedRows(rows) = EndedRows(sessions, i, e.end)
    BY <1>6 DEF LatestEnded
  <2>2. Len(ws) > 1 /\ ws[Len(ws) - 1] = e
    BY <1>1, <2>1
  <2> HIDE DEF e
  <2>3. Log!Ends(e, sessions[i]) /\ e.start = sessions[i].start
    BY <2>1, NullAssumption DEF TellsEnd, Log!Ends
  <2>4. sessions[i].side # m.side
    BY <1>4, <2>1, NullAssumption
  <2>5. sessions' = Log!With([sessions EXCEPT ![i].end = e.end,
                                              ![i].duration = e.end - e.start], m)
    BY <2>1, <2>3 DEF EndedRows
  <2>6. i \in Log!Latest(m.cube)
    BY <1>3, <2>1
  <2> QED
    BY <2>2, <2>3, <2>4, <2>5, <2>6 DEF Log!EndLatest
<1> QED
  BY ONLY <1>5, <1>6, sessions \in Seq(RowType), Settled(sessions),
          EndIsTold(sessions, event, rows, w), ToldEndIsLogged

\* A message that is told is the last one.
LEMMA Told ==
    ASSUME TypeOK, TypeOK', NEW m, ws' = Append(ws, m)
    PROVE  ws'[Len(ws')] = m /\ Len(ws') = Len(ws) + 1
BY DEF TypeOK

\* Every statement of an event, every failure of it and every crash is a
\* step of SessionLog or changes nothing that it speaks of.
LEMMA StepIsLogged ==
    TypeOK /\ TypeOK' /\ Located /\ TableInv /\ LogInv /\ [Next]_vars
      => [Log!Next]_(Log!vars)
<1> SUFFICES ASSUME TypeOK, TypeOK', Located, TableInv, LogInv, [Next]_vars
             PROVE  [Log!Next]_(Log!vars)
  OBVIOUS
<1> USE DEF store, counters, history, Step
<1> DEFINE Nothing == UNCHANGED <<sessions, ws>> /\ (pc = "commit" <=> pc' = "commit")
           Dropped == UNCHANGED <<sessions, ws>> /\ pc = "commit" /\ pc' # "commit"
<1>1. Nothing => UNCHANGED Log!vars
  BY DEF Log!vars
<1>2. Dropped => Log!Drop
  BY DEF Log!Drop
<1>3. /\ tx \in Seq(RowType) /\ sessions \in Seq(RowType) /\ ws \in Seq(MessageType)
      /\ Len(ws) \in Nat /\ ws' \in Seq(MessageType) /\ event.cube \in Cubes
      /\ \A i \in 1..Len(sessions) : sessions[i] \in RowType
  BY ElementOfSeq, LenProperties DEF TypeOK, Events
<1>4. \A c : OpenOf(sessions, c) = Log!Open(c) /\ Newest(sessions, c) = Log!Latest(c)
  BY DEF OpenOf, Newest, Log!Open, Log!Latest
<1>5. CASE Bind \/ FindCube \/ NothingActive \/ SameSide \/ CloseActive \/ OpenNew \/ GoToSleep
  <2>1. Nothing
    BY <1>5 DEF Bind, FindCube, NothingActive, SameSide, CloseActive, OpenNew, GoToSleep
  <2> QED
    BY <1>1, <2>1
<1>6. CASE Receive \/ SocketError \/ UnknownCube \/ NullSide \/ SetBack \/ UNCHANGED vars
  <2>1. Nothing
    BY <1>6 DEF Receive, SocketError, Fault, UnknownCube, NullSide, Rollback, SetBack, vars
  <2> QED
    BY <1>1, <2>1
<1>7. CASE Crash \/ Throws
  <2>1. Nothing \/ Dropped
    BY <1>7 DEF Crash, Throws, Rollback
  <2> QED
    BY <1>1, <1>2, <2>1 DEF Log!Next
<1>8. CASE SendEnded
  <2> DEFINE m == Message("session_ended", tx[active])
  <2>1. /\ pc = "ended" /\ pc' = "open" /\ ws' = Append(ws, m) /\ UNCHANGED sessions
    BY <1>8 DEF SendEnded
  <2>2. PICK t : Closed(sessions, event, tx, active, t)
    BY <2>1 DEF LogInv
  <2>3. active \in Newest(sessions, event.cube) /\ active \in 1..Len(sessions)
    BY <2>2 DEF Closed, Newest, OpenOf
  <2>4. /\ tx[active].side = sessions[active].side /\ tx[active].end = t
        /\ tx[active].start = sessions[active].start /\ t # NoTime
    BY <1>3, <2>2, <2>3, CloseRow, NullAssumption DEF Closed
  <2>5. m.cube = event.cube /\ Log!Ends(m, sessions[active])
    BY <2>3, <2>4 DEF Message, Log!Ends, Newest, OpenOf
  <2>6. ws'[Len(ws')] = m /\ Len(ws') > Len(ws)
    BY <2>1, Told
  <2> HIDE DEF m
  <2>7. Log!TellEnd(m)
    BY <1>4, <2>1, <2>3, <2>5 DEF Log!TellEnd, Log!Tell
  <2> QED
    BY <2>1, <2>6, <2>7 DEF Log!Next, Log!Announce
<1>9. CASE SendStarted
  <2> DEFINE m == Message("session_started", tx[Len(tx)])
  <2>1. /\ pc = "started" /\ pc' = "commit" /\ ws' = Append(ws, m) /\ UNCHANGED sessions
    BY <1>9 DEF SendStarted
  <2>2. PICK rows \in Seq(RowType), t \in Int :
            event.side > 0 /\ tx = Append(rows, Row(t))
    BY <2>1 DEF LogInv
  <2>3. tx[Len(tx)] = Row(t)
    BY <2>1, <2>2, RowTyped, AppendProperties DEF Located
  <2>4. Log!Starts(m)
    BY <2>2, <2>3 DEF Log!Starts, Message, Row
  <2>5. ws'[Len(ws')] = m /\ Len(ws') > Len(ws)
    BY <2>1, Told
  <2> HIDE DEF m
  <2>6. Log!TellEvent(m)
    BY <2>1, <2>4 DEF Log!TellEvent, Log!Tell
  <2> QED
    BY <2>1, <2>5, <2>6 DEF Log!Next, Log!Announce
<1>10. CASE SendStatus
  <2>1. /\ pc = "status" /\ pc' = "commit" /\ ws' = Append(ws, StatusMessage)
        /\ UNCHANGED sessions
    BY <1>10 DEF SendStatus, StatusMessage
  <2>2. Log!Sleeps(StatusMessage)
    BY DEF Log!Sleeps, StatusMessage
  <2>3. ws'[Len(ws')] = StatusMessage /\ Len(ws') > Len(ws)
    BY <2>1, Told
  <2>4. Log!TellEvent(StatusMessage)
    BY <2>1, <2>2 DEF Log!TellEvent, Log!Tell
  <2> QED
    BY <2>1, <2>3, <2>4 DEF Log!Next, Log!Announce
<1>11. CASE Commit
  <2>1. /\ pc = "commit" /\ pc' = "listen" /\ UNCHANGED ws
        /\ sessions' = FlushedRows(tx)
    BY <1>11 DEF Commit, FlushedRows
  <2>2. event.side \in Sides /\ event.side \in Int /\ Settled(sessions) /\ Positive(sessions)
    BY <2>1, SidesAssumption DEF Located, TableInv, LogInv
  <2>3. CASE \E w : SleepDone(w)
    <3>1. PICK w \in Seq(MessageType) :
            /\ EndIsTold(sessions, event, tx, w) /\ event.side <= 0
            /\ ws = Append(w, StatusMessage)
      BY <2>3 DEF SleepDone
    <3>2. /\ StatusMessage \in MessageType /\ StatusMessage.cube = event.cube
          /\ StatusMessage.side = NoSide
      BY <1>3 DEF StatusMessage, MessageType, Times
    <3>3. sessions' = Log!With(FlushedRows(tx), StatusMessage)
      BY <2>1 DEF Log!With, Log!Starts, StatusMessage
    <3>4. Log!KeepOpen(StatusMessage) \/ Log!EndLatest(StatusMessage)
      BY ONLY <1>3, <2>2, <3>1, <3>2, <3>3, ToldEndIsRecorded
    <3>5. ws[Len(ws)] = StatusMessage
      BY <3>1, <3>2, AppendProperties
    <3> QED
      BY <2>1, <3>4, <3>5 DEF Log!Next, Log!Record
  <2>4. CASE \E rows, w, t : StartDone(rows, w, t)
    <3>1. PICK rows \in Seq(RowType), w \in Seq(MessageType), t \in Int :
            /\ EndIsTold(sessions, event, rows, w) /\ event.side > 0
            /\ tx = Append(rows, Row(t))
            /\ ws = Append(w, Message("session_started", Row(t)))
      BY <2>4 DEF StartDone
    <3> DEFINE m == Message("session_started", Row(t))
    <3>2. Row(t) \in RowType /\ Row(t).end = NoTime
      BY <2>2, RowTyped DEF Row
    <3>3. m \in MessageType /\ m.cube = event.cube /\ m.side = event.side
      BY <1>3, <2>2, <3>2 DEF Message, MessageType, Row, Times
    <3>4. sessions' = Append(FlushedRows(rows), Row(t))
      BY <2>1, <3>1, <3>2, FlushAppend
    <3>5. /\ Log!Starts(m)
          /\ Row(t) = [cube |-> m.cube, side |-> m.side, start |-> m.start,
                       end |-> NoTime, duration |-> NoTime]
      BY <3>1 DEF Log!Starts, Message, Row
    <3> HIDE DEF m
    <3>6. sessions' = Log!With(FlushedRows(rows), m)
      BY <3>4, <3>5 DEF Log!With
    <3>7. ws = Append(w, m)
      BY <3>1 DEF m
    <3>8. Log!KeepOpen(m) \/ Log!EndLatest(m)
      BY ONLY <1>3, <2>2, <3>1, <3>3, <3>6, <3>7, ToldEndIsRecorded
    <3>9. ws[Len(ws)] = m
      BY <3>1, <3>3, <3>7, AppendProperties
    <3> QED
      BY <2>1, <3>8, <3>9 DEF Log!Next, Log!Record
  <2> QED
    BY <2>1, <2>3, <2>4 DEF LogInv
<1> QED
  BY <1>5, <1>6, <1>7, <1>8, <1>9, <1>10, <1>11 DEF Next, ProcessEvent

\* The table and the messages to the subscribers implement SessionLog: the
\* sessions change by whole events, each of them told before it is saved,
\* whatever datagrams, exceptions and crashes there are.
THEOREM BackendImplementsLog == Spec => ImplementsLog
<1>1. Init => Log!Init
  BY DEF Init, Log!Init
<1>2. TypeOK /\ TypeOK' /\ Located /\ TableInv /\ LogInv /\ [Next]_vars
        => [Log!Next]_(Log!vars)
  BY StepIsLogged
<1> QED
  BY <1>1, <1>2, TypeInvariant, TableInvIsInvariant, LogInvIsInvariant, PTL
     DEF Spec, ImplementsLog, Log!Spec
=============================================================================
