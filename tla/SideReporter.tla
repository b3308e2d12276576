----------------------------- MODULE SideReporter ------------------------------
(***************************************************************************)
(* What the firmware promises, without sensor, sleep or network: it sees   *)
(* one side after another, remembers the last one, and makes exactly one   *)
(* report of every side it leaves.  Its memory may be lost (a reset, an    *)
(* empty battery); the side of that moment is never reported.              *)
(* CubeFirmware implements this specification.                             *)
(***************************************************************************)
EXTENDS Integers, Sequences

CONSTANT SideCode      \* what an observation can yield; -1 is "unknown"

VARIABLES
    side,     \* the side remembered, -1 if none
    reports,  \* the reports made: [side, to, life]
    life      \* how many times the memory has been lost

vars == <<side, reports, life>>

Init ==
    /\ side = -1
    /\ reports = <<>>
    /\ life = 0

\* A side is observed; the remembered one, if it is another, is reported.
Observe(s) ==
    /\ reports' = IF side \in {-1, s} THEN reports
                  ELSE Append(reports, [side |-> side, to |-> s, life |-> life])
    /\ side' = s
    /\ UNCHANGED life

Forget ==
    /\ side' = -1
    /\ life' = life + 1
    /\ UNCHANGED reports

Next == (\E s \in SideCode : Observe(s)) \/ Forget

Spec == Init /\ [][Next]_vars

-----------------------------------------------------------------------------
TypeOK ==
    /\ side \in SideCode \union {-1}
    /\ reports \in Seq([side: SideCode, to: SideCode, life: Nat])
    /\ life \in Nat

\* Reports form a chain: each one leaves the side the one before went to,
\* unless that side could not be told or the memory was lost in between.
Linked(r, s) == r.life = s.life /\ r.to # -1 => s.side = r.to

Chain ==
    /\ \A i \in 1..Len(reports) :
          reports[i].side # -1 /\ reports[i].side # reports[i].to
    /\ \A i \in 1..Len(reports) - 1 : Linked(reports[i], reports[i + 1])
=============================================================================
