---------------------------- MODULE OrderedSend ----------------------------
(***************************************************************************)
(* What a caller of the Produce methods is promised: the broker gets the   *)
(* messages of a call in order, the next one only after the one before has *)
(* been confirmed, and the call's report is true and final: nothing is     *)
(* confirmed after it, and at most one message is stored after an error.   *)
(* Producers implements this specification.                                *)
(***************************************************************************)
EXTENDS Naturals

CONSTANT Calls

VARIABLES
  size,                 \* messages a call was given
  stored, confirmed,    \* how many of them the broker has, and has confirmed
  report                \* idle, open, or what the call returned

vars == <<size, stored, confirmed, report>>

Init ==
  /\ size = [c \in Calls |-> 0]
  /\ stored = size /\ confirmed = size
  /\ report = [c \in Calls |-> "idle"]

Report(c, from, to) ==
  /\ report[c] = from
  /\ report' = [report EXCEPT ![c] = to]

\* The application calls, with any number of messages.
Ask(c) ==
  /\ Report(c, "idle", "open")
  /\ size' \in [Calls -> Nat]
  /\ \A d \in Calls \ {c} : size'[d] = size[d]
  /\ UNCHANGED <<stored, confirmed>>

Store(c) ==
  /\ report[c] \in {"open", "error"}
  /\ stored[c] = confirmed[c] /\ stored[c] < size[c]
  /\ stored' = [stored EXCEPT ![c] = @ + 1]
  /\ UNCHANGED <<size, confirmed, report>>

Confirm(c) ==
  /\ report[c] = "open"
  /\ confirmed[c] < stored[c]
  /\ confirmed' = [confirmed EXCEPT ![c] = @ + 1]
  /\ UNCHANGED <<size, stored, report>>

Answer(c) ==
  /\ \/ confirmed[c] = size[c] /\ Report(c, "open", "ok")
     \/ confirmed[c] < size[c] /\ Report(c, "open", "error")
     \/ stored[c] = 0 /\ Report(c, "open", "refused")
  /\ UNCHANGED <<size, stored, confirmed>>

Next == \E c \in Calls : Ask(c) \/ Store(c) \/ Confirm(c) \/ Answer(c)

Spec == Init /\ [][Next]_vars
=============================================================================
