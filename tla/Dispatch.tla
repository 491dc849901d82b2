------------------------------ MODULE Dispatch ------------------------------
(***************************************************************************)
(* What happens to a message: dispatchMessage and invokeHandler, the       *)
(* receive loops around them, and the subscription at the broker that they *)
(* answer to.  The registry of consumers and the calls that start and stop *)
(* loops are in ReceiveLoops; here each loop has a consumer of its own and *)
(* all of them share one subscription, as the regex consumers of several   *)
(* plugins, or the consumers of a shared subscription, do.                 *)
(*                                                                         *)
(* The broker's side is external.  A consumer prefetches messages into its *)
(* receiver queue.  A connection that drops loses the queue and the acks   *)
(* sent over it, and the broker takes back what the consumer had not       *)
(* acknowledged.  A message that was negatively acknowledged too often     *)
(* goes to the dead letter topic, if the consumer it comes to next has a   *)
(* dead letter policy; a consumer without one gets it again and again.     *)
(***************************************************************************)
EXTENDS Naturals

CONSTANTS
  Msgs,            \* messages of the subscription
  Loops,           \* receive loops, and the consumer each of them drains
  DeadLettering,   \* the consumers with a dead letter policy: those whose
                   \* configuration has one, never a regex consumer
  MaxDeliveries,   \* redeliveries before a message is dead-lettered
  MaxDrops,        \* bound on the connections that drop
  None             \* no message

\* Where a message can be other than with a consumer.
Places == {"backlog", "acked", "dead"}

ASSUME DispatchAssumption ==
  /\ None \notin Msgs
  /\ Loops \cap Places = {}
  /\ DeadLettering \subseteq Loops
  /\ MaxDeliveries \in Nat /\ MaxDrops \in Nat

VARIABLES
  at,              \* where the broker sees a message: a consumer, or a place
  redelivered,     \* redeliveries of a message, up to MaxDeliveries
  queue,           \* receiver queue of each consumer
  nacked,          \* <<consumer, message>> awaiting the redelivery delay
  conn, drops,     \* whether a consumer is connected; connections lost so far
  open,            \* the consumers have not been closed
  pc, holds,       \* control of each loop, and the message it has in hand
  handled,         \* messages a handler has returned nil for
  closed           \* p.closed

broker == <<at, redelivered, queue, nacked, conn, drops, open>>
vars == <<broker, pc, holds, handled, closed>>

TypeOK ==
  /\ at \in [Msgs -> Places \cup Loops]
  /\ redelivered \in [Msgs -> 0 .. MaxDeliveries]
  /\ queue \in [Loops -> SUBSET Msgs]
  /\ nacked \in SUBSET (Loops \X Msgs)
  /\ conn \in [Loops -> BOOLEAN] /\ drops \in 0 .. MaxDrops
  /\ open \in BOOLEAN /\ closed \in BOOLEAN
  /\ pc \in [Loops -> {"select", "received", "handler", "ack", "nack", "ended"}]
  /\ holds \in [Loops -> Msgs \cup {None}]
  /\ \A l \in Loops : holds[l] = None <=> pc[l] \in {"select", "ended"}
  /\ handled \in SUBSET Msgs

Init ==
  /\ at = [m \in Msgs |-> "backlog"]
  /\ redelivered = [m \in Msgs |-> 0]
  /\ queue = [l \in Loops |-> {}]
  /\ nacked = {}
  /\ conn = [l \in Loops |-> TRUE] /\ drops = 0
  /\ open = TRUE /\ closed = FALSE
  /\ pc = [l \in Loops |-> "select"]
  /\ holds = [l \in Loops |-> None]
  /\ handled = {}

-----------------------------------------------------------------------------
(* The broker and the client library                                       *)

\* The broker hands a message to a consumer; one with a dead letter policy
\* passes it on to the dead letter topic when it has been redelivered too
\* often.
Deliver(l, m) ==
  /\ open /\ conn[l] /\ at[m] = "backlog"
  /\ IF l \in DeadLettering /\ redelivered[m] = MaxDeliveries
       THEN at' = [at EXCEPT ![m] = "dead"] /\ UNCHANGED queue
       ELSE at' = [at EXCEPT ![m] = l] /\ queue' = [queue EXCEPT ![l] = @ \cup {m}]
  /\ UNCHANGED <<redelivered, nacked, conn, drops, open, pc, holds, handled, closed>>

\* The redelivery delay of a negative acknowledgement is over.  The broker
\* ignores the request if the consumer no longer has the message.
Redeliver(l, m) ==
  /\ conn[l] /\ <<l, m>> \in nacked
  /\ nacked' = nacked \ {<<l, m>>}
  /\ IF at[m] = l
       THEN /\ at' = [at EXCEPT ![m] = "backlog"]
            /\ queue' = [queue EXCEPT ![l] = @ \ {m}]
            /\ redelivered' = [redelivered EXCEPT ![m] = IF @ < MaxDeliveries THEN @ + 1 ELSE @]
       ELSE UNCHANGED <<at, queue, redelivered>>
  /\ UNCHANGED <<conn, drops, open, pc, holds, handled, closed>>

\* What the consumers in S have not acknowledged returns to the backlog.
TakeBack(S) ==
  /\ at' = [m \in Msgs |-> IF at[m] \in S THEN "backlog" ELSE at[m]]
  /\ queue' = [l \in Loops |-> IF l \in S THEN {} ELSE queue[l]]

Drop(l) ==
  /\ open /\ conn[l] /\ drops < MaxDrops
  /\ drops' = drops + 1
  /\ conn' = [conn EXCEPT ![l] = FALSE]
  /\ TakeBack({l})
  /\ UNCHANGED <<redelivered, nacked, open, pc, holds, handled, closed>>

Restore(l) ==
  /\ open /\ ~conn[l]
  /\ conn' = [conn EXCEPT ![l] = TRUE]
  /\ UNCHANGED <<at, redelivered, queue, nacked, drops, open, pc, holds, handled, closed>>

-----------------------------------------------------------------------------
(* A receive loop                                                          *)

Goto(l, from, to) ==
  /\ pc[l] = from
  /\ pc' = [pc EXCEPT ![l] = to]

Receive(l, m) ==
  /\ m \in queue[l]
  /\ Goto(l, "select", "received")
  /\ queue' = [queue EXCEPT ![l] = @ \ {m}]
  /\ holds' = [holds EXCEPT ![l] = m]
  /\ UNCHANGED <<at, redelivered, nacked, conn, drops, open, handled, closed>>

\* The loop's context is done, or closeChan is closed.
Leave(l) ==
  /\ Goto(l, "select", "ended")
  /\ UNCHANGED <<broker, holds, handled, closed>>

\* Another Subscribe call starts a loop on the same consumer.
Resume(l) ==
  /\ open /\ ~closed
  /\ Goto(l, "ended", "select")
  /\ UNCHANGED <<broker, holds, handled, closed>>

\* isClosed after a receive: the message in hand is neither acked nor nacked.
CheckReleased(l) ==
  /\ pc[l] = "received"
  /\ pc' = [pc EXCEPT ![l] = IF closed THEN "ended" ELSE "handler"]
  /\ holds' = [holds EXCEPT ![l] = None]
  /\ UNCHANGED <<broker, handled, closed>>
CheckAcksFirst(l) ==
  /\ pc[l] = "received"
  /\ pc' = [pc EXCEPT ![l] = IF closed THEN "ended" ELSE "handler"]
  /\ holds' = [holds EXCEPT ![l] = IF closed THEN None ELSE @]
  /\ at' = [at EXCEPT ![holds[l]] = IF closed THEN @ ELSE "acked"]
  /\ UNCHANGED <<redelivered, queue, nacked, conn, drops, open, handled, closed>>
Check(l) ==
  /\ pc[l] = "received"
  /\ pc' = [pc EXCEPT ![l] = IF closed THEN "ended" ELSE "handler"]
  /\ holds' = [holds EXCEPT ![l] = IF closed THEN None ELSE @]
  /\ UNCHANGED <<broker, handled, closed>>

\* The handler returns nil.
HandlerOk(l) ==
  /\ Goto(l, "handler", "ack")
  /\ handled' = handled \cup {holds[l]}
  /\ UNCHANGED <<broker, holds, closed>>

\* The handler returns an error.
HandlerFails(l) ==
  /\ Goto(l, "handler", "nack")
  /\ UNCHANGED <<broker, holds, handled, closed>>

\* The handler panics: the deferred function recovers and sets the error, and
\* the message is nacked like any other.
HandlerPanicsSwallowed(l) ==
  /\ Goto(l, "handler", "ack")
  /\ UNCHANGED <<broker, holds, handled, closed>>
HandlerPanicsUnrecovered(l) ==
  /\ Goto(l, "handler", "ended")
  /\ holds' = [holds EXCEPT ![l] = None]
  /\ UNCHANGED <<broker, handled, closed>>
HandlerPanics(l) ==
  /\ Goto(l, "handler", "nack")
  /\ UNCHANGED <<broker, holds, handled, closed>>

\* consumer.Ack, whose error is ignored: without a connection it is lost.
Ack(l) ==
  /\ Goto(l, "ack", "select")
  /\ holds' = [holds EXCEPT ![l] = None]
  /\ at' = [at EXCEPT ![holds[l]] = IF conn[l] /\ @ # "dead" THEN "acked" ELSE @]
  /\ UNCHANGED <<redelivered, queue, nacked, conn, drops, open, handled, closed>>

\* consumer.Nack starts the redelivery delay.
NackForgotten(l) ==
  /\ Goto(l, "nack", "select")
  /\ holds' = [holds EXCEPT ![l] = None]
  /\ UNCHANGED <<broker, handled, closed>>
Nack(l) ==
  /\ Goto(l, "nack", "select")
  /\ holds' = [holds EXCEPT ![l] = None]
  /\ nacked' = nacked \cup {<<l, holds[l]>>}
  /\ UNCHANGED <<at, redelivered, queue, conn, drops, open, handled, closed>>

-----------------------------------------------------------------------------
(* The plugin stops                                                        *)

Close ==
  /\ ~closed
  /\ closed' = TRUE
  /\ UNCHANGED <<broker, pc, holds, handled>>

\* closeAllResources, once every loop has ended.
CloseConsumersKept ==
  /\ open /\ closed /\ \A l \in Loops : pc[l] = "ended"
  /\ open' = FALSE
  /\ UNCHANGED <<at, redelivered, queue, nacked, conn, drops, pc, holds, handled, closed>>
CloseConsumers ==
  /\ open /\ closed /\ \A l \in Loops : pc[l] = "ended"
  /\ open' = FALSE
  /\ conn' = [l \in Loops |-> FALSE]
  /\ nacked' = {}
  /\ TakeBack(Loops)
  /\ UNCHANGED <<redelivered, drops, pc, holds, handled, closed>>

-----------------------------------------------------------------------------
Dispatching(l) ==
  Check(l) \/ HandlerOk(l) \/ HandlerFails(l) \/ HandlerPanics(l) \/ Ack(l) \/ Nack(l)
LoopStep(l) == Dispatching(l) \/ (\E m \in Msgs : Receive(l, m))

Next ==
  \/ \E l \in Loops : \/ LoopStep(l) \/ Leave(l) \/ Resume(l) \/ Drop(l) \/ Restore(l)
                      \/ \E m \in Msgs : Deliver(l, m) \/ Redeliver(l, m)
  \/ Close \/ CloseConsumers

Spec == Init /\ [][Next]_vars

\* Goroutines are scheduled, handlers return, a closed plugin's loops leave
\* their select (or their next Check ends them), connections come back, and
\* the broker delivers and redelivers.  The receiver queue, a set here, is first
\* in, first out, so that no message stays in it while the loop takes others:
\* hence strong fairness of Receive for each message.  Calls of the application
\* and lost connections need not happen.
Fairness ==
  /\ \A l \in Loops : WF_vars(LoopStep(l)) /\ WF_vars(closed /\ Leave(l)) /\ WF_vars(Restore(l))
  /\ \A m \in Msgs : WF_vars(\E l \in Loops : Deliver(l, m))
  /\ \A l \in Loops, m \in Msgs : WF_vars(Redeliver(l, m)) /\ SF_vars(Receive(l, m))
  /\ WF_vars(CloseConsumers)

FairSpec == Spec /\ Fairness

-----------------------------------------------------------------------------
\* A message leaves the subscription as acknowledged only if a handler has
\* returned nil for it: errors, panics, lost connections and redeliveries
\* never acknowledge a message nobody has processed.
AckedWasHandled == \A m \in Msgs : at[m] = "acked" => m \in handled

\* Whatever a consumer has taken from the broker and not settled, somebody
\* still answers for: it is in the receiver queue, in the hands of the loop,
\* or waits for its redelivery.  Only a plugin that is closing drops a
\* message, and it closes the consumer next.
NothingForgotten ==
  \A m \in Msgs, l \in Loops :
    at[m] = l => m \in queue[l] \/ holds[l] = m \/ <<l, m>> \in nacked \/ closed

\* As long as every consumer has a loop from some point on, every message is
\* acknowledged or dead-lettered in the end, or a consumer without a dead
\* letter policy takes it to its handler and nacks it again and again:
\* failures, panics, ignored errors of Ack and dropped connections delay a
\* message and never leave it behind.
EventuallySettled ==
  \A m \in Msgs :
    <>[](\A l \in Loops : pc[l] # "ended") =>
      \/ <>(at[m] \in {"acked", "dead"})
      \/ []<>(\E l \in Loops \ DeadLettering : pc[l] = "nack" /\ holds[l] = m)

\* Stopping the plugin gives every message that it had taken and not settled
\* back to the broker, also those whose loop was cancelled long before.
StopReturnsAll == closed ~> \A m \in Msgs : at[m] \in Places

\* What has become of a message.
Fate == [m \in Msgs |-> IF at[m] \in {"acked", "dead"} THEN at[m] ELSE "pending"]

\* Through lost connections, acks and nacks that arrive after the message has
\* gone to another consumer, panics and a shutdown, the plugin and the broker
\* together deliver at least once and settle a message once.
D == INSTANCE Delivery WITH Limit <- MaxDeliveries, GivesUp <- DeadLettering # {}, fate <- Fate, processed <- handled,
                            returns <- redelivered
DeliversAtLeastOnce == D!Spec
=============================================================================
