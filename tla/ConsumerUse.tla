---------------------------- MODULE ConsumerUse ----------------------------
(***************************************************************************)
(* What the plugin promises about every consumer object of the Pulsar      *)
(* client library: a message of a consumer is dispatched by at most one    *)
(* goroutine at a time, only while the consumer is open, and a consumer is *)
(* never closed underneath a dispatch (the Ack or Nack that ends it would  *)
(* hit a closed consumer).  ReceiveLoops implements this specification.    *)
(***************************************************************************)
CONSTANTS
  Handles,              \* consumer objects the client may hand out
  Goroutines            \* whoever may dispatch messages

VARIABLES
  status,               \* life of each consumer object
  users                 \* the goroutines dispatching a message of each object

vars == <<status, users>>

Init ==
  /\ status = [h \in Handles |-> "absent"]
  /\ users = [h \in Handles |-> {}]

\* client.Subscribe returns a new consumer.
Open(h) ==
  /\ status[h] = "absent"
  /\ status' = [status EXCEPT ![h] = "open"]
  /\ UNCHANGED users

\* Goroutine g takes a message of h to the application's handler; nobody
\* else is dispatching one.
Begin(h, g) ==
  /\ status[h] = "open"
  /\ users[h] = {}
  /\ users' = [users EXCEPT ![h] = {g}]
  /\ UNCHANGED status

\* The dispatch of h by g ends, with Ack or Nack.
End(h, g) ==
  /\ users[h] = {g}
  /\ users' = [users EXCEPT ![h] = {}]
  /\ UNCHANGED status

\* Some consumers, none of them in use, are closed.
Close(H) ==
  /\ \A h \in H : users[h] = {}
  /\ status' = [h \in Handles |-> IF h \in H THEN "closed" ELSE status[h]]
  /\ UNCHANGED users

Next ==
  \/ \E h \in Handles : Open(h) \/ \E g \in Goroutines : Begin(h, g) \/ End(h, g)
  \/ \E H \in SUBSET Handles : Close(H)

Spec == Init /\ [][Next]_vars
=============================================================================
