------------------------------ MODULE Delivery ------------------------------
(***************************************************************************)
(* At-least-once delivery, as an application that subscribes sees it: a    *)
(* message is acknowledged only after a handler has processed it, is given *)
(* up only where that is asked for and after it has come back Limit times, *)
(* and once it is settled neither comes back nor changes its fate.         *)
(* Dispatch implements this specification.                                 *)
(***************************************************************************)
EXTENDS Naturals

CONSTANTS
  Msgs,                 \* messages of a subscription
  GivesUp,              \* whether messages are given up at all
  Limit                 \* returns before a message may be given up

VARIABLES
  fate,                 \* pending, acked or dead
  processed,            \* messages a handler has accepted
  returns               \* how often a message has come back, up to Limit

vars == <<fate, processed, returns>>

Init ==
  /\ fate = [m \in Msgs |-> "pending"]
  /\ processed = {}
  /\ returns = [m \in Msgs |-> 0]

\* A handler accepts a message, perhaps one that has been accepted before.
Process(m) ==
  /\ processed' = processed \cup {m}
  /\ UNCHANGED <<fate, returns>>

\* The subscription moves past a message.
Settle(m, how) ==
  /\ fate[m] = "pending"
  /\ how = "acked" => m \in processed
  /\ how = "dead" => GivesUp /\ returns[m] = Limit
  /\ fate' = [fate EXCEPT ![m] = how]
  /\ UNCHANGED <<processed, returns>>

\* A message that was refused will be delivered again.
Return(m) ==
  /\ fate[m] = "pending" /\ returns[m] < Limit
  /\ returns' = [returns EXCEPT ![m] = @ + 1]
  /\ UNCHANGED <<fate, processed>>

Next == \E m \in Msgs : Process(m) \/ Return(m) \/ \E how \in {"acked", "dead"} : Settle(m, how)

Spec == Init /\ [][Next]_vars
=============================================================================
