----------------------------- MODULE MCMqttClient -----------------------------
(***************************************************************************)
(* TLC instance of MqttClient: messages of all three qualities of service  *)
(* and a subscription.                                                     *)
(***************************************************************************)
EXTENDS MqttClient

MCPublish(no, qos) == [no |-> no, type |-> PUBLISH, qos |-> qos]
MCRequest(no, type) == [no |-> no, type |-> type, qos |-> 0]

MCRequests == {MCPublish(1, 0), MCPublish(2, 1), MCPublish(3, 2), MCRequest(4, SUBSCRIBE)}

\* A message that waits behind a request of another kind.
MCQueue == {MCPublish(2, 1), MCRequest(4, SUBSCRIBE)}
=============================================================================
