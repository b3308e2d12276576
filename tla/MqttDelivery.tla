----------------------------- MODULE MqttDelivery ------------------------------
(***************************************************************************)
(* What the MQTT client promises about each request, whatever happens to   *)
(* the connection: how its fate may change, and how that goes with what    *)
(* the broker passed on.  MqttClient implements it.                        *)
(***************************************************************************)
EXTENDS MqttOutbox

CONSTANT Requests

VARIABLES
    fate,  \* what became of each request
    passed \* how often the broker passed on its message, up to 2

vars == <<fate, passed>>

Numbers == {r.no : r \in Requests}

Init == fate = [no \in Numbers |-> "new"] /\ passed = [no \in Numbers |-> 0]

\* The requests that are waited for.
Stored == {no \in DOMAIN fate : fate[no] = "stored"}

\* The messages nobody confirms.
Unconfirmed(r) == r.type = PUBLISH /\ r.qos = 0

\* The messages that the broker is to pass on, and to confirm.
Tracked(r) == r.type = PUBLISH /\ r.qos > 0

\* The fates when the requests up are given up.
Given(up, what) == [no \in DOMAIN fate |-> IF no \in up THEN what ELSE fate[no]]

-----------------------------------------------------------------------------
\* A request that is asked for is kept until it is answered; only a message
\* that nobody confirms may be lost at once.  Old ones may expire meanwhile.
Ask(r) ==
    /\ fate[r.no] = "new"
    /\ \E what \in IF Unconfirmed(r) THEN {"stored", "sent", "lost"} ELSE {"stored"},
          old \in SUBSET Stored :
             fate' = [Given(old, "expired") EXCEPT ![r.no] = what]
    /\ UNCHANGED passed

\* At most once if that is what was asked for.
PassOn(r) ==
    /\ Tracked(r) /\ fate[r.no] # "new"
    /\ r.qos = 2 => passed[r.no] = 0
    /\ passed' = [passed EXCEPT ![r.no] = IF @ < 2 THEN @ + 1 ELSE 2]
    /\ UNCHANGED fate

\* A message is only reported as published when it was passed on.
Confirm(r) ==
    /\ fate[r.no] = "stored"
    /\ r.type = PUBLISH => Tracked(r) /\ passed[r.no] > 0
    /\ fate' = [fate EXCEPT ![r.no] = "acked"]
    /\ UNCHANGED passed

SendOnly(r) ==
    /\ fate[r.no] = "stored" /\ Unconfirmed(r)
    /\ fate' = [fate EXCEPT ![r.no] = "sent"]
    /\ UNCHANGED passed

\* Some that are waited for become too old, or the client stops: then all go.
GiveUp ==
    /\ \/ \E old \in SUBSET Stored : fate' = Given(old, "expired")
       \/ fate' = Given(Stored, "purged")
    /\ UNCHANGED passed

Next ==
    \/ \E r \in Requests : Ask(r) \/ PassOn(r) \/ Confirm(r) \/ SendOnly(r)
    \/ GiveUp

Spec == Init /\ [][Next]_vars
=============================================================================
