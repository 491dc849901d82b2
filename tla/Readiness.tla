----------------------------- MODULE Readiness -----------------------------
(***************************************************************************)
(* What the framework may conclude from the plugin's runtime contract: the *)
(* plugin announces itself only while it works, and it withdraws the       *)
(* announcement, in a step of its own, before it stops working.            *)
(* Lifecycle implements this specification.                                *)
(***************************************************************************)
CONSTANT Resources      \* names under which the plugin announces itself

VARIABLES
  working,              \* whether the plugin can be used
  announced             \* the resources that say so

vars == <<working, announced>>

Init == working = FALSE /\ announced = {}

\* A step towards or away from a working plugin, which nobody relies on.
Change ==
  /\ announced = {}
  /\ working' \in BOOLEAN
  /\ UNCHANGED announced

\* The end of a start.  Some registrations may fail.
Announce ==
  /\ working
  /\ announced = {}
  /\ announced' \in SUBSET Resources
  /\ UNCHANGED working

\* The beginning of a stop, or of another start.
Withdraw ==
  /\ announced' = {}
  /\ UNCHANGED working

Next == Change \/ Announce \/ Withdraw

Spec == Init /\ [][Next]_vars
=============================================================================
