--------------------------- MODULE DispatchProofs ---------------------------
(***************************************************************************)
(* Proofs about Dispatch, for any number of messages, loops, redeliveries  *)
(* and lost connections.                                                   *)
(***************************************************************************)
EXTENDS Dispatch, TLAPS

\* A disconnected consumer has no message, and an ack is about to be sent
\* only for a message that has been handled.
Custody ==
  /\ \A l \in Loops, m \in Msgs : at[m] = l => conn[l]
  /\ \A l \in Loops : pc[l] = "ack" => holds[l] \in handled

Inv == TypeOK /\ Custody /\ AckedWasHandled /\ NothingForgotten

\* Every message is in the backlog and every loop waits in its select.
LEMMA InitInv == Init => Inv
<1> SUFFICES ASSUME Init PROVE Inv
  OBVIOUS
<1>1. TypeOK
  <2>1. 0 \in 0 .. MaxDeliveries /\ 0 \in 0 .. MaxDrops
    BY DispatchAssumption
  <2>2. holds \in [Loops -> Msgs \cup {None}] /\ nacked \in SUBSET (Loops \X Msgs)
    BY DEF Init
  <2>3. \A l \in Loops : holds[l] = None /\ pc[l] = "select"
    BY DEF Init
  <2>4. pc \in [Loops -> {"select", "received", "handler", "ack", "nack", "ended"}]
    BY DEF Init
  <2> QED
    BY <2>1, <2>2, <2>3, <2>4 DEF Init, TypeOK, Places
<1>2. \A m \in Msgs : at[m] \notin Loops /\ at[m] # "acked"
  BY DispatchAssumption DEF Init, Places
<1>3. \A l \in Loops : pc[l] # "ack"
  BY DEF Init
<1> QED
  BY <1>1, <1>2, <1>3 DEF Inv, Custody, AckedWasHandled, NothingForgotten

\* The broker's own steps.
LEMMA BrokerStep ==
  ASSUME Inv, NEW l \in Loops,
         (\E m \in Msgs : Deliver(l, m) \/ Redeliver(l, m)) \/ Drop(l) \/ Restore(l)
  PROVE  Inv'
<1> USE DispatchAssumption DEF Inv, TypeOK, Custody, AckedWasHandled, NothingForgotten, Places
<1>1. ASSUME NEW m \in Msgs, Deliver(l, m) PROVE Inv'
  <2>1. CASE l \in DeadLettering /\ redelivered[m] = MaxDeliveries
    BY <1>1, <2>1 DEF Deliver
  <2>2. CASE ~(l \in DeadLettering /\ redelivered[m] = MaxDeliveries)
    BY <1>1, <2>2 DEF Deliver
  <2> QED
    BY <2>1, <2>2
<1>2. ASSUME NEW m \in Msgs, Redeliver(l, m) PROVE Inv'
  <2>1. CASE at[m] = l
    BY <1>2, <2>1 DEF Redeliver
  <2>2. CASE at[m] # l
    BY <1>2, <2>2 DEF Redeliver
  <2> QED
    BY <2>1, <2>2
<1>3. CASE Drop(l)
  BY <1>3 DEF Drop, TakeBack
<1>4. CASE Restore(l)
  BY <1>4 DEF Restore
<1> QED
  BY <1>1, <1>2, <1>3, <1>4

\* The steps of a loop.  A loop takes a message into its hands from the
\* queue, and lets go of it by an ack, by a nack, or because the plugin is
\* closed.
LEMMA LoopStepInv ==
  ASSUME Inv, NEW l \in Loops, LoopStep(l) \/ Leave(l) \/ Resume(l)
  PROVE  Inv'
<1> USE DispatchAssumption
    DEF Inv, TypeOK, Custody, AckedWasHandled, NothingForgotten, Places, broker, Goto
<1>1. ASSUME NEW m \in Msgs, Receive(l, m) PROVE Inv'
  BY <1>1 DEF Receive
<1>2. CASE Leave(l) \/ Resume(l)
  BY <1>2 DEF Leave, Resume
<1>3. CASE Check(l)
  BY <1>3 DEF Check
<1>4. CASE HandlerOk(l)
  BY <1>4 DEF HandlerOk
<1>5. CASE HandlerFails(l) \/ HandlerPanics(l)
  BY <1>5 DEF HandlerFails, HandlerPanics
<1>6. CASE Ack(l)
  BY <1>6 DEF Ack
<1>7. CASE Nack(l)
  BY <1>7 DEF Nack
<1> QED
  BY <1>1, <1>2, <1>3, <1>4, <1>5, <1>6, <1>7 DEF LoopStep, Dispatching

\* The invariant.
THEOREM Invariance == Spec => []Inv
<1>1. Inv /\ [Next]_vars => Inv'
  <2> SUFFICES ASSUME Inv, [Next]_vars PROVE Inv'
    OBVIOUS
  <2> USE DispatchAssumption DEF Inv, TypeOK, Custody, AckedWasHandled, NothingForgotten, Places,
                                 broker
  <2>1. CASE Close
    BY <2>1 DEF Close
  <2>2. CASE CloseConsumers
    <3>1. \A m \in Msgs : at'[m] \in Places /\ at'[m] \notin Loops /\ (at'[m] = "acked" => at[m] = "acked")
      BY <2>2 DEF CloseConsumers, TakeBack
    <3>2. at' \in [Msgs -> Places \cup Loops] /\ queue' \in [Loops -> SUBSET Msgs]
      BY <2>2 DEF CloseConsumers, TakeBack
    <3>3. UNCHANGED <<redelivered, drops, pc, holds, handled, closed>>
      BY <2>2 DEF CloseConsumers
    <3>4. nacked' = {} /\ open' = FALSE /\ conn' \in [Loops -> BOOLEAN]
      BY <2>2 DEF CloseConsumers
    <3>5. TypeOK'
      BY <3>2, <3>3, <3>4
    <3> QED
      BY <3>1, <3>3, <3>5
  <2>3. CASE UNCHANGED vars
    BY <2>3 DEF vars
  <2> QED
    BY <2>1, <2>2, <2>3, BrokerStep, LoopStepInv DEF Next
<1> QED
  BY <1>1, InitInv, PTL DEF Spec

\* Types, in particular: a loop has a message in hand exactly while it
\* dispatches.
THEOREM TypeCorrect == Spec => []TypeOK
<1>1. Inv => TypeOK
  BY DEF Inv
<1> QED
  BY <1>1, Invariance, PTL

\* Only messages a handler has accepted are acknowledged.
THEOREM AcksSound == Spec => []AckedWasHandled
<1>1. Inv => AckedWasHandled
  BY DEF Inv
<1> QED
  BY <1>1, Invariance, PTL

\* While the plugin is not closing, every message a consumer has taken is
\* queued, in hand, or waiting for its redelivery.
THEOREM NoneForgotten == Spec => []NothingForgotten
<1>1. Inv => NothingForgotten
  BY DEF Inv
<1> QED
  BY <1>1, Invariance, PTL

-----------------------------------------------------------------------------
(* At-least-once delivery                                                  *)

\* Taking messages back from consumers settles nothing and revives nothing.
LEMMA TakeBackKeepsFate ==
  ASSUME NEW S \in SUBSET Loops, TakeBack(S)
  PROVE  Fate' = Fate
  BY DispatchAssumption DEF TakeBack, Fate, Places

\* A broker step lets a message come back or gives it up, or the application
\* does not see it.
LEMMA BrokerDelivers ==
  ASSUME Inv, NEW l \in Loops,
         (\E m \in Msgs : Deliver(l, m) \/ Redeliver(l, m)) \/ Drop(l) \/ Restore(l)
  PROVE  [D!Next]_(D!vars)
<1> USE DispatchAssumption DEF Inv, TypeOK, Places
<1>1. ASSUME NEW m \in Msgs, Deliver(l, m) PROVE [D!Next]_(D!vars)
  <2>1. CASE l \in DeadLettering /\ redelivered[m] = MaxDeliveries
    <3>1. Fate' = [Fate EXCEPT ![m] = "dead"] /\ Fate[m] = "pending" /\ UNCHANGED <<handled, redelivered>>
      BY <1>1, <2>1 DEF Deliver, Fate
    <3>2. D!Settle(m, "dead")
      BY <2>1, <3>1 DEF D!Settle
    <3> QED
      BY <3>2 DEF D!Next
  <2>2. CASE ~(l \in DeadLettering /\ redelivered[m] = MaxDeliveries)
    <3>1. Fate' = Fate /\ UNCHANGED <<handled, redelivered>>
      BY <1>1, <2>2 DEF Deliver, Fate
    <3> QED
      BY <3>1 DEF D!vars
  <2> QED
    BY <2>1, <2>2
<1>2. ASSUME NEW m \in Msgs, Redeliver(l, m) PROVE [D!Next]_(D!vars)
  <2>1. CASE at[m] = l
    <3>1. Fate' = Fate /\ Fate[m] = "pending" /\ UNCHANGED handled
      BY <1>2, <2>1 DEF Redeliver, Fate
    <3>2. CASE redelivered[m] < MaxDeliveries
      <4>1. redelivered' = [redelivered EXCEPT ![m] = @ + 1]
        BY <1>2, <2>1, <3>2 DEF Redeliver
      <4>2. D!Return(m)
        BY <3>1, <3>2, <4>1 DEF D!Return
      <4> QED
        BY <4>2 DEF D!Next
    <3>3. CASE ~(redelivered[m] < MaxDeliveries)
      <4>1. redelivered' = redelivered
        BY <1>2, <2>1, <3>3 DEF Redeliver
      <4> QED
        BY <3>1, <4>1 DEF D!vars
    <3> QED
      BY <3>2, <3>3
  <2>2. CASE at[m] # l
    BY <1>2, <2>2 DEF Redeliver, Fate, D!vars
  <2> QED
    BY <2>1, <2>2
<1>3. CASE Drop(l)
  <2>1. Fate' = Fate
    BY <1>3, TakeBackKeepsFate DEF Drop
  <2> QED
    BY <1>3, <2>1 DEF Drop, D!vars
<1>4. CASE Restore(l)
  BY <1>4 DEF Restore, Fate, D!vars
<1> QED
  BY <1>1, <1>2, <1>3, <1>4

\* A loop processes a message, or settles one that has been processed.
LEMMA LoopDelivers ==
  ASSUME Inv, NEW l \in Loops, LoopStep(l) \/ Leave(l) \/ Resume(l)
  PROVE  [D!Next]_(D!vars)
<1> USE DispatchAssumption DEF Inv, TypeOK, Places, broker, Goto
<1>1. CASE HandlerOk(l)
  <2>1. holds[l] \in Msgs
    BY <1>1 DEF HandlerOk
  <2>2. D!Process(holds[l])
    BY <1>1 DEF HandlerOk, D!Process, Fate
  <2> QED
    BY <2>1, <2>2 DEF D!Next
<1>2. CASE Ack(l)
  <2> DEFINE m == holds[l]
  <2>1. m \in Msgs /\ m \in handled /\ UNCHANGED <<handled, redelivered>>
    BY <1>2 DEF Ack, Custody
  <2>2. CASE conn[l] /\ at[m] \notin {"acked", "dead"}
    <3>1. Fate' = [Fate EXCEPT ![m] = "acked"] /\ Fate[m] = "pending"
      BY <1>2, <2>1, <2>2 DEF Ack, Fate
    <3>2. D!Settle(m, "acked")
      BY <2>1, <3>1 DEF D!Settle
    <3> QED
      BY <2>1, <3>2 DEF D!Next
  <2>3. CASE ~conn[l] \/ at[m] \in {"acked", "dead"}
    <3>1. Fate' = Fate
      BY <1>2, <2>1, <2>3 DEF Ack, Fate
    <3> QED
      BY <2>1, <3>1 DEF D!vars
  <2> QED
    BY <2>2, <2>3
<1>3. CASE Leave(l) \/ Resume(l) \/ Check(l) \/ HandlerFails(l) \/ HandlerPanics(l) \/ Nack(l)
          \/ \E m \in Msgs : Receive(l, m)
  <2>1. UNCHANGED <<at, handled, redelivered>>
    BY <1>3 DEF Leave, Resume, Check, HandlerFails, HandlerPanics, Nack, Receive
  <2> QED
    BY <2>1 DEF Fate, D!vars
<1> QED
  BY <1>1, <1>2, <1>3 DEF LoopStep, Dispatching

\* The plugin implements Delivery, for any number of messages, loops, lost
\* connections and redeliveries.
THEOREM AtLeastOnce == Spec => DeliversAtLeastOnce
<1>1. Init => D!Init
  BY DEF Init, D!Init, Fate
<1>2. Inv /\ [Next]_vars => [D!Next]_(D!vars)
  <2> SUFFICES ASSUME Inv, [Next]_vars PROVE [D!Next]_(D!vars)
    OBVIOUS
  <2>1. CASE Close \/ UNCHANGED vars
    BY <2>1 DEF Close, vars, broker, Fate, D!vars
  <2>2. CASE CloseConsumers
    <3>1. Fate' = Fate
      BY <2>2, TakeBackKeepsFate DEF CloseConsumers
    <3> QED
      BY <2>2, <3>1 DEF CloseConsumers, D!vars
  <2> QED
    BY <2>1, <2>2, BrokerDelivers, LoopDelivers DEF Next
<1> QED
  BY <1>1, <1>2, Invariance, PTL DEF Spec, DeliversAtLeastOnce, D!Spec
=============================================================================
