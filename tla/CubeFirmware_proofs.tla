-------------------------- MODULE CubeFirmware_proofs --------------------------
(***************************************************************************)
(* The firmware, for every set of poses, any number of movements and       *)
(* faults, and any clock: what a sleeping chip knows, and that it          *)
(* implements SideReporter.                                                *)
(***************************************************************************)
EXTENDS CubeFirmware, SequenceTheorems, TLAPS

\* The side of a reading is 0 or a face.
LEMMA SideType ==
    ASSUME NEW a, NEW b, NEW c
    PROVE  get_cube_side(a, b, c) \in {0} \union Faces
BY DEF get_cube_side, Faces

-----------------------------------------------------------------------------
(* What a sleeping chip knows.                                             *)

\* Nobody can move the cube unnoticed: after the sample a movement marks it
\* as out of date, from the clearing of the latch on the armed sensor keeps
\* it latched.  The sensor is armed by then, and what is stored is the
\* sample.
FreshInv ==
    /\ pc \in {"clear", "sleep", "asleep"} => mpu = "armed"
    /\ pc \in {"configure", "clear"} => rtc.current_cube_side = new_side
    /\ (pc \in Window /\ ~missed) => new_side = SideOf(pose)
    /\ (pc \in {"sleep", "asleep"} /\ ~missed /\ ~latch) =>
            rtc.current_cube_side = SideOf(pose)

LEMMA FreshInvIsInvariant == Spec => []FreshInv
<1> USE DEF FreshInv, Window, Syncing, Connecting, Sending
<1>1. Init => FreshInv
  BY DEF Init
<1>2. FreshInv /\ [Next]_vars => FreshInv'
  <2> SUFFICES ASSUME FreshInv, [Next]_vars
               PROVE  FreshInv'
    OBVIOUS
  <2> USE DEF world, sensor, cpu, history, SyncStep
  <2>1. CASE Move
    <3>1. CASE pose' = pose
      BY <2>1, <3>1 DEF Move
    <3>2. CASE pose' # pose
      BY <2>1, <3>2 DEF Move
    <3> QED
      BY <3>1, <3>2
  <2>2. CASE Tick
    BY <2>2 DEF Tick
  <2>3. CASE PowerLoss
    BY <2>3 DEF PowerLoss
  <2>4. CASE PowerOn
    BY <2>4 DEF PowerOn
  <2>5. CASE Abort
    BY <2>5 DEF Abort, Reset
  <2>6. CASE Wake
    BY <2>6 DEF Wake
  <2>7. CASE Enter
    BY <2>7 DEF Enter
  <2>8. CASE Read
    BY <2>8 DEF Read, SideOf
  <2>9. CASE ReadFails
    BY <2>9 DEF ReadFails
  <2>10. CASE Decide
    BY <2>10 DEF Decide
  <2>11. CASE NvsInit \/ WifiStart \/ WaitBit \/ WaitTimeout \/ StartClient
                \/ Publish \/ StopClient \/ WifiStop
    BY <2>11 DEF NvsInit, WifiStart, WaitBit, WaitTimeout, StartClient,
                 Publish, StopClient, WifiStop
  <2>12. CASE LinkUp \/ LinkDown \/ wifi_event_handler \/ Delivery
    BY <2>12 DEF LinkUp, LinkDown, Radio, wifi_event_handler, Delivery
  <2>13. CASE Store
    BY <2>13 DEF Store
  <2>14. CASE Configure
    BY <2>14 DEF Configure
  <2>15. CASE ConfigureFails
    BY <2>15 DEF ConfigureFails, Reset
  <2>16. CASE ClearInterrupt
    BY <2>16 DEF ClearInterrupt
  <2>17. CASE ClearFails
    BY <2>17 DEF ClearFails
  <2>18. CASE DeepSleep
    BY <2>18 DEF DeepSleep
  <2>19. CASE UNCHANGED vars
    BY <2>19 DEF vars
  <2> QED
    BY <2>1, <2>2, <2>3, <2>4, <2>5, <2>6, <2>7, <2>8, <2>9, <2>10, <2>11,
       <2>12, <2>13, <2>14, <2>15, <2>16, <2>17, <2>18, <2>19
       DEF Next, Cpu, Environment
<1> QED
  BY <1>1, <1>2, PTL DEF Spec

\* A movement outside the window from the sample to the clearing of the latch
\* is never lost: without a wake-up pending the stored side is the real one.
THEOREM SleepsOnTheRightSide == Spec => []AsleepSideIsCurrent
<1>1. FreshInv => AsleepSideIsCurrent
  BY DEF FreshInv, AsleepSideIsCurrent
<1> QED
  BY <1>1, FreshInvIsInvariant, PTL

-----------------------------------------------------------------------------
(* The refinement of SideReporter.                                         *)

\* What the mapping needs: the attempts are well formed, one is being made
\* while the chip is connecting or sending, and before the store nothing is
\* remembered after a reset.
ReportInv ==
    /\ attempts \in Seq(AttemptType)
    /\ life \in Nat
    /\ new_side \in SideCodes
    /\ rtc.current_cube_side \in SideCodes
    /\ now_us \in Int /\ rtc.last_wakeup_us \in Int
    /\ booted_at \in Int /\ clock \in Int /\ stay_since \in Int
    /\ pc \in Places
    /\ cause \in {"EXT0", "other"}
    /\ pc \in Syncing => attempts # <<>>
    /\ (cause = "other" /\ pc \in {"off", "boot", "read", "decide"}) =>
          rtc.current_cube_side = -1

\* Recording the outcome of an attempt leaves what it reports alone.
LEMMA OutcomeOnly ==
    ASSUME NEW a \in Seq(AttemptType), a # <<>>, NEW o \in Outcomes,
           NEW b, b = [a EXCEPT ![Len(a)].outcome = o]
    PROVE  /\ b \in Seq(AttemptType)
           /\ b # <<>> /\ Len(b) = Len(a)
           /\ ReportsOf(b) = ReportsOf(a)
<1>1. Len(a) \in 1..Len(a) /\ a[Len(a)] \in AttemptType
  OBVIOUS
<1>2. [a[Len(a)] EXCEPT !.outcome = o] \in AttemptType
  BY <1>1 DEF AttemptType
<1>3. b \in Seq(AttemptType) /\ Len(b) = Len(a) /\ b # <<>>
  BY <1>1, <1>2
<1>4. ASSUME NEW i \in 1..Len(a)
      PROVE  ReportOf(b[i]) = ReportOf(a[i])
  <2>1. CASE i = Len(a)
    <3>1. b[i] = [a[i] EXCEPT !.outcome = o]
      BY <1>3, <2>1
    <3> QED
      BY <1>1, <2>1, <3>1 DEF ReportOf, AttemptType
  <2>2. CASE i # Len(a)
    BY <2>2
  <2> QED
    BY <2>1, <2>2
<1> QED
  BY <1>3, <1>4 DEF ReportsOf

\* One more attempt is one more report.
LEMMA ReportsOfAppend ==
    ASSUME NEW a \in Seq(AttemptType), NEW x \in AttemptType
    PROVE  ReportsOf(Append(a, x)) = Append(ReportsOf(a), ReportOf(x))
<1> DEFINE T == {ReportOf(y) : y \in AttemptType}
           n == Len(a)
           b == Append(a, x)
<1>1. /\ n \in Nat
      /\ Len(b) = n + 1
      /\ \A i \in 1..n : b[i] = a[i] /\ a[i] \in AttemptType
      /\ b[n + 1] = x
  OBVIOUS
<1>2. ReportsOf(a) \in [1..n -> T]
  BY <1>1 DEF ReportsOf
<1>3. ReportsOf(a) \in Seq(T) /\ Len(ReportsOf(a)) = n
  BY <1>1, <1>2
<1>4. /\ Len(Append(ReportsOf(a), ReportOf(x))) = n + 1
      /\ \A i \in 1..n : Append(ReportsOf(a), ReportOf(x))[i] = ReportsOf(a)[i]
      /\ Append(ReportsOf(a), ReportOf(x))[n + 1] = ReportOf(x)
      /\ Append(ReportsOf(a), ReportOf(x)) \in Seq(T)
  BY <1>3, AppendProperties, ReportOf(x) \in T
<1>5. /\ ReportsOf(b) \in [1..n + 1 -> T]
      /\ \A i \in 1..n : ReportsOf(b)[i] = ReportsOf(a)[i]
      /\ ReportsOf(b)[n + 1] = ReportOf(x)
  BY <1>1 DEF ReportsOf
<1>6. ReportsOf(b) \in Seq(T) /\ Len(ReportsOf(b)) = n + 1
  BY <1>1, <1>5
<1> QED
  BY <1>1, <1>4, <1>5, <1>6, SeqEqual

\* The attempt about to be made is well formed.
LEMMA AttemptTyped ==
    ReportInv => attempts \in Seq(AttemptType) /\ Attempt \in AttemptType
BY DEF ReportInv, Attempt, AttemptType, Outcomes

LEMMA ReportInvIsInvariant == Spec => []ReportInv
<1> USE DEF ReportInv, Places, Running, Window, Syncing, Connecting, Sending
<1>0. /\ -1 \in SideCodes
      /\ \A x, y, z : get_cube_side(x, y, z) \in SideCodes
  BY SideType DEF SideCodes
<1>1. Init => ReportInv
  BY <1>0 DEF Init, RtcInit
<1>2. ReportInv /\ [Next]_vars => ReportInv'
  <2> SUFFICES ASSUME ReportInv, [Next]_vars
               PROVE  ReportInv'
    OBVIOUS
  <2> USE DEF world, sensor, cpu, history, SyncStep
  <2>1. CASE Move \/ Tick
    BY <2>1 DEF Move, Tick
  <2>2. CASE PowerLoss
    BY <2>2, <1>0 DEF PowerLoss, RtcInit
  <2>3. CASE Abort \/ ConfigureFails
    BY <2>3, <1>0 DEF Abort, ConfigureFails, Reset, RtcInit
  <2>4. CASE PowerOn \/ Wake
    BY <2>4 DEF PowerOn, Wake
  <2>5. CASE Enter
    BY <2>5 DEF Enter
  <2>6. CASE Read \/ ReadFails
    <3>1. new_side' \in SideCodes
      BY <2>6, <1>0 DEF Read, ReadFails, SideOf
    <3> QED
      BY <2>6, <3>1 DEF Read, ReadFails
  <2>7. CASE Decide
    <3>1. Attempt \in AttemptType
      BY AttemptTyped
    <3>2. Append(attempts, Attempt) \in Seq(AttemptType)
      BY <3>1
    <3>3. Append(attempts, Attempt) # <<>>
      BY <3>1
    <3> QED
      BY <2>7, <3>2, <3>3 DEF Decide
  <2>8. CASE NvsInit \/ WifiStart \/ WaitBit \/ StartClient \/ StopClient
                \/ WifiStop
    BY <2>8 DEF NvsInit, WifiStart, WaitBit, StartClient, StopClient, WifiStop
  <2>9. CASE WaitTimeout \/ Publish \/ Delivery
    <3>1. /\ attempts # <<>>
          /\ \E o \in Outcomes :
                attempts' = [attempts EXCEPT ![Len(attempts)].outcome = o]
      BY <2>9 DEF WaitTimeout, Publish, Delivery, SetOutcome, Outcomes
    <3>2. attempts' \in Seq(AttemptType) /\ attempts' # <<>>
      BY <3>1, OutcomeOnly
    <3> QED
      BY <2>9, <3>2 DEF WaitTimeout, Publish, Delivery
  <2>10. CASE LinkUp \/ LinkDown \/ wifi_event_handler
    BY <2>10 DEF LinkUp, LinkDown, Radio, wifi_event_handler
  <2>11. CASE Store
    BY <2>11 DEF Store
  <2>12. CASE Configure \/ ClearInterrupt \/ ClearFails
    BY <2>12 DEF Configure, ClearInterrupt, ClearFails
  <2>13. CASE DeepSleep
    BY <2>13, <1>0 DEF DeepSleep
  <2>14. CASE UNCHANGED vars
    BY <2>14 DEF vars
  <2> QED
    BY <2>1, <2>2, <2>3, <2>4, <2>5, <2>6, <2>7, <2>8, <2>9, <2>10, <2>11,
       <2>12, <2>13, <2>14 DEF Next, Cpu, Environment
<1> QED
  BY <1>1, <1>2, PTL DEF Spec

\* Every step of the firmware is a step of SideReporter or leaves its state
\* alone: only the decision observes, and only the loss of the RTC memory
\* forgets.
LEMMA StepRefines ==
    ReportInv /\ [Next]_vars => [Reporter!Next]_(Reporter!vars)
<1> SUFFICES ASSUME ReportInv, [Next]_vars
             PROVE  \/ Reporter!Next
                    \/ UNCHANGED <<ReportedSide, Reports, life>>
  BY DEF Reporter!vars
<1> USE DEF Syncing, Connecting, Sending, Window, Running, Places
<1> USE DEF world, sensor, cpu, history, SyncStep
<1>0. ASSUME UNCHANGED attempts
      PROVE  UNCHANGED Reports
  BY <1>0 DEF Reports
<1>1. CASE Move \/ Tick \/ PowerOn \/ Wake \/ Enter
  BY <1>1, <1>0 DEF Move, Tick, PowerOn, Wake, Enter, ReportedSide
<1>2. CASE PowerLoss \/ Abort \/ ConfigureFails
  <2>1. ReportedSide' = -1 /\ life' = life + 1 /\ UNCHANGED attempts
    BY <1>2 DEF PowerLoss, Abort, ConfigureFails, Reset, RtcInit, ReportedSide
  <2> QED
    BY <2>1, <1>0 DEF Reporter!Next, Reporter!Forget
<1>3. CASE Read \/ ReadFails
  BY <1>3, <1>0 DEF Read, ReadFails, ReportedSide
<1>4. CASE Decide
  <2>1. /\ ReportedSide = rtc.current_cube_side
        /\ ReportedSide' = new_side
        /\ new_side \in SideCodes
        /\ life' = life
    BY <1>4 DEF Decide, ReportedSide, ReportInv
  <2>2. CASE cause = "EXT0" /\ rtc.current_cube_side \notin {-1, new_side}
    <3>1. attempts' = Append(attempts, Attempt)
      BY <1>4, <2>2 DEF Decide
    <3>2. ReportOf(Attempt)
            = [side |-> ReportedSide, to |-> new_side, life |-> life]
      BY <2>1 DEF ReportOf, Attempt
    <3>3. Reports' = Append(Reports, ReportOf(Attempt))
      <4>1. attempts \in Seq(AttemptType) /\ Attempt \in AttemptType
        BY AttemptTyped
      <4> QED
        BY <3>1, <4>1, ReportsOfAppend DEF Reports
    <3> QED
      BY <2>1, <2>2, <3>2, <3>3 DEF Reporter!Next, Reporter!Observe
  <2>3. CASE ~(cause = "EXT0" /\ rtc.current_cube_side \notin {-1, new_side})
    <3>1. UNCHANGED attempts
      BY <1>4, <2>3 DEF Decide
    <3>2. ReportedSide \in {-1, new_side}
      BY <1>4, <2>1, <2>3 DEF Decide, ReportInv
    <3> QED
      BY <2>1, <3>1, <3>2, <1>0 DEF Reporter!Next, Reporter!Observe
  <2> QED
    BY <2>2, <2>3
<1>5. CASE NvsInit \/ WifiStart \/ WaitBit \/ StartClient \/ StopClient
              \/ WifiStop
  BY <1>5, <1>0 DEF NvsInit, WifiStart, WaitBit, StartClient, StopClient,
                    WifiStop, ReportedSide
<1>6. CASE WaitTimeout \/ Publish \/ Delivery
  <2>1. \E o \in Outcomes :
            attempts' = [attempts EXCEPT ![Len(attempts)].outcome = o]
    BY <1>6 DEF WaitTimeout, Publish, Delivery, SetOutcome, Outcomes
  <2>2. attempts # <<>> /\ attempts \in Seq(AttemptType)
    BY <1>6 DEF WaitTimeout, Publish, Delivery, ReportInv
  <2>3. UNCHANGED Reports
    BY <2>1, <2>2, OutcomeOnly DEF Reports
  <2> QED
    BY <1>6, <2>3 DEF WaitTimeout, Publish, Delivery, ReportedSide
<1>7. CASE LinkUp \/ LinkDown \/ wifi_event_handler
  BY <1>7, <1>0 DEF LinkUp, LinkDown, Radio, wifi_event_handler, ReportedSide
<1>8. CASE Store
  BY <1>8, <1>0 DEF Store, ReportedSide
<1>9. CASE Configure \/ ClearInterrupt \/ ClearFails \/ DeepSleep
  BY <1>9, <1>0 DEF Configure, ClearInterrupt, ClearFails, DeepSleep,
                    ReportedSide
<1>10. CASE UNCHANGED vars
  BY <1>10, <1>0 DEF vars, ReportedSide
<1> QED
  BY <1>1, <1>2, <1>3, <1>4, <1>5, <1>6, <1>7, <1>8, <1>9, <1>10
     DEF Next, Cpu, Environment

LEMMA InitRefines == Init => Reporter!Init
<1>1. Init => ReportedSide = -1 /\ Reports = <<>> /\ life = 0
  BY DEF Init, ReportedSide, Reports, ReportsOf, RtcInit, Syncing, Connecting, Sending
<1> QED
  BY <1>1 DEF Reporter!Init

\* The firmware implements SideReporter, whatever the poses and the bounds.
THEOREM FirmwareImplementsReporter == Spec => ImplementsReporter
  BY InitRefines, StepRefines, ReportInvIsInvariant, PTL
     DEF Spec, ImplementsReporter, Reporter!Spec

\* The last report of the present life went to the side remembered now (if
\* that side could be told), so the next report continues the chain.
ReporterInv ==
    /\ Reporter!TypeOK
    /\ Reporter!Chain
    /\ Reports # <<>> =>
          /\ Reports[Len(Reports)].life <= life
          /\ (Reports[Len(Reports)].life = life /\ Reports[Len(Reports)].to # -1)
                => ReportedSide = Reports[Len(Reports)].to

LEMMA LastElement ==
    ASSUME NEW S, NEW seq \in Seq(S), seq # <<>>
    PROVE  seq[Len(seq)] \in S
OBVIOUS

\* The reports of the abstract specification form a chain: none leaves out a
\* stay and none repeats one, however often the memory is lost.
THEOREM ReportsFormAChain == Reporter!Spec => []Reporter!Chain
<1>1. Reporter!Init => ReporterInv
  BY DEF Reporter!Init, ReporterInv, Reporter!TypeOK, Reporter!Chain
<1>2. ReporterInv /\ [Reporter!Next]_(Reporter!vars) => ReporterInv'
  <2> SUFFICES ASSUME ReporterInv, [Reporter!Next]_(Reporter!vars)
               PROVE  ReporterInv'
    OBVIOUS
  <2> USE DEF ReporterInv, Reporter!TypeOK
  <2>1. ASSUME NEW s \in SideCodes, Reporter!Observe(s), ReportedSide \in {-1, s}
        PROVE  ReporterInv'
    <3>1. Reports' = Reports /\ ReportedSide' = s /\ life' = life
      BY <2>1 DEF Reporter!Observe
    <3>2. Reports # <<>> /\ Reports[Len(Reports)].life = life
             /\ Reports[Len(Reports)].to # -1 => ReportedSide = s
      BY <2>1 DEF Reporter!Chain
    <3> QED
      BY <3>1, <3>2 DEF Reporter!Chain
  <2>2. ASSUME NEW s \in SideCodes, Reporter!Observe(s), ReportedSide \notin {-1, s}
        PROVE  ReporterInv'
    <3> DEFINE r == [side |-> ReportedSide, to |-> s, life |-> life]
               n == Len(Reports)
    <3>1. Reports' = Append(Reports, r) /\ ReportedSide' = s /\ life' = life
      BY <2>2 DEF Reporter!Observe
    <3>2. r \in [side: SideCodes, to: SideCodes, life: Nat]
      BY <2>2
    <3>3. /\ n \in Nat
          /\ Len(Reports') = n + 1
          /\ \A i \in 1..n : Reports'[i] = Reports[i]
          /\ Reports'[n + 1] = r
      BY <3>1
    <3>4. Reporter!TypeOK'
      BY <3>1, <3>2
    <3>5. ASSUME NEW i \in 1..Len(Reports')
          PROVE  Reports'[i].side # -1 /\ Reports'[i].side # Reports'[i].to
      <4>1. CASE i = n + 1
        BY <2>2, <3>3, <4>1
      <4>2. CASE i \in 1..n
        BY <3>3, <4>2 DEF Reporter!Chain
      <4> QED
        BY <3>3, <4>1, <4>2
    <3>6. ASSUME NEW i \in 1..Len(Reports') - 1
          PROVE  Reporter!Linked(Reports'[i], Reports'[i + 1])
      <4>1. CASE i = n
        <5>1. n # 0 /\ Reports # <<>>
          BY <3>3, <4>1
        <5>2. Reports'[i] = Reports[n] /\ Reports'[i + 1] = r
          BY <3>3, <4>1
        <5> QED
          BY <5>1, <5>2 DEF Reporter!Linked
      <4>2. CASE i \in 1..n - 1
        <5>1. Reports'[i] = Reports[i] /\ Reports'[i + 1] = Reports[i + 1]
          BY <3>3, <4>2
        <5> QED
          BY <4>2, <5>1 DEF Reporter!Chain
      <4> QED
        BY <3>3, <4>1, <4>2
    <3>7. Reporter!Chain'
      BY <3>5, <3>6 DEF Reporter!Chain, Reporter!Linked
    <3>8. Reports'[Len(Reports')] = r
      BY <3>3
    <3> QED
      BY <3>1, <3>4, <3>7, <3>8
  <2>3. CASE Reporter!Forget
    <3>1. /\ Reports' = Reports /\ ReportedSide' = -1
          /\ life' = life + 1 /\ life \in Nat
      BY <2>3 DEF Reporter!Forget
    <3>2. ASSUME Reports # <<>>
          PROVE  Reports[Len(Reports)].life \in Nat
      <4>1. Reports[Len(Reports)] \in [side: SideCodes, to: SideCodes, life: Nat]
        BY <3>2, LastElement
      <4> QED
        BY <4>1
    <3>3. Reports # <<>> =>
            /\ Reports[Len(Reports)].life <= life'
            /\ Reports[Len(Reports)].life # life'
      BY <3>1, <3>2
    <3>4. Reporter!TypeOK' /\ Reporter!Chain'
      BY <3>1 DEF Reporter!Chain
    <3> QED
      BY <3>1, <3>3, <3>4
  <2>4. CASE UNCHANGED Reporter!vars
    BY <2>4 DEF Reporter!vars, Reporter!Chain
  <2> QED
    BY <2>1, <2>2, <2>3, <2>4 DEF Reporter!Next
<1>3. ReporterInv => Reporter!Chain
  BY DEF ReporterInv
<1> QED
  BY <1>1, <1>2, <1>3, PTL DEF Reporter!Spec

\* Attempts form a chain, however often the chip was woken, reset or powered
\* off: SideReporter's chain, read through the mapping.
THEOREM AttemptsFormAChain == Spec => []AttemptsChain
<1>1. ReportInv /\ Reporter!Chain => AttemptsChain
  <2> SUFFICES ASSUME ReportInv, Reporter!Chain,
                      NEW i \in 1..Len(attempts) - 1
               PROVE  (/\ attempts[i].life = attempts[i + 1].life
                       /\ attempts[i].to # -1)
                      => attempts[i + 1].side = attempts[i].to
    BY DEF AttemptsChain
  <2>1. /\ Len(attempts) \in Nat
        /\ i \in 1..Len(attempts) /\ i + 1 \in 1..Len(attempts)
    BY DEF ReportInv
  <2>2. Len(Reports) = Len(attempts)
    BY <2>1 DEF Reports, ReportsOf
  <2>3. Reporter!Linked(Reports[i], Reports[i + 1])
    BY <2>2 DEF Reporter!Chain
  <2>4. /\ Reports[i] = ReportOf(attempts[i])
        /\ Reports[i + 1] = ReportOf(attempts[i + 1])
    BY <2>1 DEF Reports, ReportsOf
  <2> QED
    BY <2>3, <2>4 DEF Reporter!Linked, ReportOf
<1>2. Spec => Reporter!Spec
  BY InitRefines, StepRefines, ReportInvIsInvariant, PTL DEF Spec, Reporter!Spec
<1> QED
  BY <1>1, <1>2, ReportsFormAChain, ReportInvIsInvariant, PTL

-----------------------------------------------------------------------------
(* Every change of the stored side is preceded by an attempt to report it. *)

LastReport == ReportOf(attempts[Len(attempts)])

\* From the decision to the store, a change of side about to be stored is
\* the last attempt made.
ChangeInv ==
    /\ ReportInv
    /\ ( /\ pc \in Syncing \union {"store"}
         /\ rtc.current_cube_side \notin {-1, new_side} ) =>
          /\ attempts # <<>>
          /\ LastReport = [side |-> rtc.current_cube_side, to |-> new_side,
                           life |-> life]

LEMMA ChangeInvIsInvariant == Spec => []ChangeInv
<1> USE DEF Places, Running, Window, Syncing, Connecting, Sending
<1>1. Init => ChangeInv
  <2>1. Init => ReportInv
    BY SideType DEF Init, ReportInv, RtcInit, SideCodes
  <2> QED
    BY <2>1 DEF Init, ChangeInv
<1>2. ChangeInv /\ ReportInv' /\ [Next]_vars => ChangeInv'
  <2> SUFFICES ASSUME ChangeInv, ReportInv', [Next]_vars
               PROVE  ChangeInv'
    OBVIOUS
  <2> USE DEF ChangeInv, LastReport, world, sensor, cpu, history, SyncStep
  <2>1. CASE Move \/ Tick \/ PowerOn \/ PowerLoss \/ Abort \/ ConfigureFails
    BY <2>1 DEF Move, Tick, PowerOn, PowerLoss, Abort, ConfigureFails, Reset,
                RtcInit
  <2>2. CASE Wake \/ Enter \/ Read \/ ReadFails
    BY <2>2 DEF Wake, Enter, Read, ReadFails
  <2>3. CASE Decide
    <3>1. CASE cause = "EXT0" /\ rtc.current_cube_side \notin {-1, new_side}
      <4>1. /\ attempts' = Append(attempts, Attempt)
            /\ UNCHANGED <<rtc, new_side, life>>
        BY <2>3, <3>1 DEF Decide
      <4>2. attempts \in Seq(AttemptType) /\ Attempt \in AttemptType
        BY AttemptTyped
      <4>3. attempts' # <<>> /\ attempts'[Len(attempts')] = Attempt
        BY <4>1, <4>2, AppendProperties
      <4> QED
        BY <4>1, <4>3 DEF ReportOf, Attempt
    <3>2. CASE ~(cause = "EXT0" /\ rtc.current_cube_side \notin {-1, new_side})
      BY <2>3, <3>2 DEF Decide, ReportInv
    <3> QED
      BY <3>1, <3>2
  <2>4. CASE NvsInit \/ WifiStart \/ WaitBit \/ StartClient \/ StopClient
                \/ WifiStop
    BY <2>4 DEF NvsInit, WifiStart, WaitBit, StartClient, StopClient, WifiStop
  <2>5. CASE WaitTimeout \/ Publish \/ Delivery
    <3>1. \E o \in Outcomes :
              attempts' = [attempts EXCEPT ![Len(attempts)].outcome = o]
      BY <2>5 DEF WaitTimeout, Publish, Delivery, SetOutcome, Outcomes
    <3>2. attempts # <<>> /\ attempts \in Seq(AttemptType)
      BY <2>5 DEF WaitTimeout, Publish, Delivery, ReportInv
    <3>3. attempts' \in Seq(AttemptType) /\ Len(attempts') = Len(attempts)
      BY <3>1, <3>2, OutcomeOnly
    <3>4. ReportsOf(attempts') = ReportsOf(attempts)
      BY <3>1, <3>2, OutcomeOnly
    <3>5. LastReport' = LastReport
      <4>1. Len(attempts) \in 1..Len(attempts)
        BY <3>2
      <4>2. /\ ReportsOf(attempts)[Len(attempts)] = LastReport
            /\ ReportsOf(attempts')[Len(attempts)] = LastReport'
        BY <3>3, <4>1 DEF ReportsOf
      <4> QED
        BY <3>4, <4>2
    <3>6. attempts' # <<>>
      BY <3>2, <3>3
    <3> QED
      BY <2>5, <3>5, <3>6 DEF WaitTimeout, Publish, Delivery
  <2>6. CASE LinkUp \/ LinkDown \/ wifi_event_handler
    BY <2>6 DEF LinkUp, LinkDown, Radio, wifi_event_handler
  <2>7. CASE Store \/ Configure \/ ClearInterrupt \/ ClearFails \/ DeepSleep
    BY <2>7 DEF Store, Configure, ClearInterrupt, ClearFails, DeepSleep
  <2>8. CASE UNCHANGED vars
    BY <2>8 DEF vars
  <2> QED
    BY <2>1, <2>2, <2>3, <2>4, <2>5, <2>6, <2>7, <2>8
       DEF Next, Cpu, Environment
<1> QED
  BY <1>1, <1>2, ReportInvIsInvariant, PTL DEF Spec

\* No stored side is replaced by another without an attempt to report that
\* very change, whatever happened between the decision and the store.
THEOREM ChangesAreReported == Spec => NoSilentChange
<1>1. ChangeInv /\ [Next]_vars =>
        [ /\ rtc'.current_cube_side # rtc.current_cube_side
          /\ rtc.current_cube_side # -1
          /\ life' = life
          => /\ attempts # <<>>
             /\ attempts[Len(attempts)].side = rtc.current_cube_side
             /\ attempts[Len(attempts)].to = rtc'.current_cube_side
             /\ attempts[Len(attempts)].life = life ]_vars
  <2> SUFFICES ASSUME ChangeInv, [Next]_vars,
                      rtc'.current_cube_side # rtc.current_cube_side,
                      rtc.current_cube_side # -1, life' = life
               PROVE  /\ attempts # <<>>
                      /\ attempts[Len(attempts)].side = rtc.current_cube_side
                      /\ attempts[Len(attempts)].to = rtc'.current_cube_side
                      /\ attempts[Len(attempts)].life = life
    OBVIOUS
  <2> USE DEF world, sensor, cpu, history, SyncStep
  <2>1. CASE Store
    <3>1. pc = "store" /\ rtc'.current_cube_side = new_side
      BY <2>1 DEF Store
    <3>2. /\ attempts # <<>>
          /\ LastReport = [side |-> rtc.current_cube_side, to |-> new_side,
                           life |-> life]
      BY <3>1 DEF ChangeInv
    <3> QED
      BY <3>1, <3>2 DEF LastReport, ReportOf
  <2>2. CASE PowerLoss \/ Abort \/ ConfigureFails
    <3>1. life \in Nat /\ life' = life + 1
      BY <2>2 DEF PowerLoss, Abort, ConfigureFails, Reset, ChangeInv, ReportInv
    <3> QED
      BY <3>1
  <2>3. ASSUME ~Store, ~(PowerLoss \/ Abort \/ ConfigureFails)
        PROVE  rtc' = rtc
    BY <2>3 DEF Next, Cpu, Environment, Move, Tick, PowerOn, Wake, Enter, Read,
       ReadFails, Decide, NvsInit, WifiStart, WaitBit, WaitTimeout,
       StartClient, Publish, StopClient, WifiStop, LinkUp, LinkDown, Radio,
       wifi_event_handler, Delivery, Configure, ClearInterrupt, ClearFails,
       DeepSleep, vars
  <2> QED
    BY <2>1, <2>2, <2>3
<1> QED
  BY <1>1, ChangeInvIsInvariant, PTL DEF Spec, NoSilentChange

-----------------------------------------------------------------------------
(* Types.                                                                  *)

\* The part of the state ReportInv does not speak of.
OtherTypes ==
    /\ pose \in Poses
    /\ clock \in Nat /\ turns \in Nat /\ faults \in Nat
    /\ mpu \in {"asleep", "awake", "armed"}
    /\ booted_at \in Nat
    /\ rtc \in RtcType
    /\ wifi \in WifiType

Flags == latch \in BOOLEAN /\ missed \in BOOLEAN

LEMMA FlagsInvariant == Spec => []Flags
<1>1. Init => Flags
  BY DEF Init, Flags
<1>2. Flags /\ [Next]_vars => Flags'
  <2> SUFFICES ASSUME Flags, [Next]_vars
               PROVE  Flags'
    OBVIOUS
  <2> USE DEF Flags, world, sensor, cpu, history, SyncStep
  <2>1. CASE Move
    <3>1. latch' = (latch \/ mpu = "armed")
      BY <2>1 DEF Move
    <3>2. missed' = (missed \/ (pc \in Window /\ pose' # pose))
      BY <2>1 DEF Move
    <3>3. latch' \in BOOLEAN
      BY <3>1, Zenon
    <3>4. missed' \in BOOLEAN
      BY <3>2, Zenon
    <3> QED
      BY <3>3, <3>4
  <2>2. CASE Read
    <3>1. missed' = (mpu = "asleep") /\ latch' = latch
      BY <2>2 DEF Read
    <3> QED
      BY <3>1, Zenon
  <2>3. ASSUME ~Move, ~Read
        PROVE  latch' \in {latch, FALSE} /\ missed' \in {missed, FALSE, TRUE}
    BY <2>3 DEF Next, Cpu, Environment, Tick, PowerOn, PowerLoss, Abort, Reset,
       Wake, Enter, ReadFails, Decide, NvsInit, WifiStart, WaitBit,
       WaitTimeout, StartClient, Publish, StopClient, WifiStop, LinkUp,
       LinkDown, Radio, wifi_event_handler, Delivery, Store, Configure,
       ConfigureFails, ClearInterrupt, ClearFails, DeepSleep, vars
  <2> QED
    BY <2>1, <2>2, <2>3
<1> QED
  BY <1>1, <1>2, PTL DEF Spec

\* The records the resets go back to have their types.
LEMMA InitialRecords == RtcInit \in RtcType /\ WifiOff \in WifiType
<1>1. RtcInit \in RtcType
  BY DEF RtcInit, RtcType, SideCodes
<1>2. <<>> \in Seq(Events)
  OBVIOUS
<1> QED
  BY <1>1, <1>2 DEF WifiOff, WifiType

\* The station's events are queued and handled one by one.
LEMMA StationTyped ==
    ASSUME WifiStart \/ WifiStop \/ LinkUp \/ LinkDown \/ wifi_event_handler,
           wifi \in WifiType
    PROVE  wifi' \in WifiType
<1>1. CASE WifiStart
  <2>1. <<"STA_START">> \in Seq(Events)
    BY DEF Events
  <2> QED
    BY <1>1, <2>1 DEF WifiStart, WifiType
<1>2. CASE WifiStop
  BY <1>2 DEF WifiStop, WifiType
<1>3. CASE LinkUp \/ LinkDown
  <2>1. PICK e \in Events, link \in {"up", "down"} :
            wifi' = [wifi EXCEPT !.link = link, !.events = Append(@, e)]
    BY <1>3 DEF LinkUp, LinkDown, Radio, Events
  <2>2. Append(wifi.events, e) \in Seq(Events)
    BY DEF WifiType
  <2> QED
    BY <2>1, <2>2 DEF WifiType
<1>4. CASE wifi_event_handler
  <2> DEFINE rest == [wifi EXCEPT !.events = Tail(@)]
  <2>1. wifi.events \in Seq(Events) /\ wifi.events # <<>>
    BY <1>4 DEF wifi_event_handler, WifiType
  <2>2. Tail(wifi.events) \in Seq(Events)
    BY <2>1, HeadTailProperties
  <2>3. rest \in WifiType
    BY <2>2 DEF WifiType
  <2>4. CASE Head(wifi.events) = "GOT_IP"
    <3>1. wifi' = [rest EXCEPT !.connected = TRUE, !.bit = TRUE]
      BY <1>4, <2>4 DEF wifi_event_handler
    <3> QED
      BY <2>3, <3>1 DEF WifiType
  <2>5. CASE Head(wifi.events) # "GOT_IP"
    <3>1. PICK link \in {"joining", rest.link} :
             wifi' = [rest EXCEPT !.connected = FALSE, !.link = link]
      BY <1>4, <2>5 DEF wifi_event_handler
    <3> HIDE DEF rest
    <3> QED
      BY <2>3, <3>1 DEF WifiType
  <2> QED
    BY <2>4, <2>5
<1> QED
  BY <1>1, <1>2, <1>3, <1>4

LEMMA OtherTypesInvariant == Spec => []OtherTypes
<1> USE DEF OtherTypes
<1>1. Init => OtherTypes
  BY InitialRecords DEF Init
<1>2. OtherTypes /\ ReportInv /\ [Next]_vars => OtherTypes'
  <2> SUFFICES ASSUME OtherTypes, ReportInv, [Next]_vars
               PROVE  OtherTypes'
    OBVIOUS
  <2> USE DEF world, sensor, cpu, history, SyncStep
  <2>1. CASE Move \/ Tick \/ PowerOn
    BY <2>1 DEF Move, Tick, PowerOn
  <2>2. CASE PowerLoss
    BY <2>2, InitialRecords DEF PowerLoss, Fault
  <2>3. CASE Abort \/ ConfigureFails
    BY <2>3, InitialRecords DEF Abort, ConfigureFails, Reset, Fault
  <2>4. CASE Wake \/ Enter \/ Read \/ ReadFails \/ Decide
    BY <2>4 DEF Wake, Enter, Read, ReadFails, Decide, Fault
  <2>5. CASE NvsInit \/ WaitBit \/ WaitTimeout \/ StartClient \/ Publish
                \/ StopClient \/ Delivery
    BY <2>5 DEF NvsInit, WaitBit, WaitTimeout, StartClient, Publish,
                StopClient, Delivery
  <2>6. CASE WifiStart \/ WifiStop \/ LinkUp \/ LinkDown \/ wifi_event_handler
    <3>1. wifi' \in WifiType
      BY <2>6, StationTyped
    <3> QED
      BY <2>6, <3>1 DEF WifiStart, WifiStop, LinkUp, LinkDown, Radio,
                        wifi_event_handler
  <2>7. CASE Store
    <3>1. rtc' \in RtcType
      BY <2>7 DEF Store, RtcType, ReportInv
    <3> QED
      BY <2>7, <3>1 DEF Store
  <2>8. CASE Configure \/ ClearInterrupt \/ ClearFails
    BY <2>8 DEF Configure, ClearInterrupt, ClearFails, Fault
  <2>9. CASE DeepSleep
    BY <2>9, InitialRecords DEF DeepSleep
  <2>10. CASE UNCHANGED vars
    BY <2>10 DEF vars
  <2> QED
    BY <2>1, <2>2, <2>3, <2>4, <2>5, <2>6, <2>7, <2>8, <2>9, <2>10
       DEF Next, Cpu, Environment
<1> QED
  BY <1>1, <1>2, ReportInvIsInvariant, PTL DEF Spec

\* Every variable keeps its type, whatever the constants.
THEOREM TypeCorrect == Spec => []TypeOK
<1>1. ReportInv /\ OtherTypes /\ Flags => TypeOK
  BY DEF ReportInv, OtherTypes, Flags, TypeOK
<1> QED
  BY <1>1, ReportInvIsInvariant, OtherTypesInvariant, FlagsInvariant, PTL
=============================================================================
