-------------------------- MODULE ProducersProofs --------------------------
(***************************************************************************)
(* Proofs about Producers, for any number of producers, Produce calls,     *)
(* Close calls and teardowns, and batches of any length.                   *)
(***************************************************************************)
EXTENDS Producers, FiniteSetTheorems, TLAPS

\* A producer is in the map, or taken by one Close call, or has been closed.
Ownership ==
  /\ \A n \in registered : closes[n] = 0 /\ \A u \in Closers : cpc[u] = "taken" => held[u] # n
  /\ \A u \in Closers : cpc[u] = "taken" => held[u] \in Names /\ closes[held[u]] = 0
  /\ \A u, v \in Closers : cpc[u] = "taken" /\ cpc[v] = "taken" /\ held[u] = held[v] => u = v

\* What teardowns have done stays done.
TornDown ==
  /\ \A t \in Teardowns : tpc[t] # "idle" => registered = {}
  /\ \A t \in Teardowns : tpc[t] = "done" => open = {}

\* Messages are sent in order, and only the last one may be unconfirmed.
InOrder ==
  /\ \A c \in Calls : \A i \in 0 .. done[c] - 1 : <<c, i>> \in broker
  /\ \A m \in broker \cup inflight : m[2] <= done[m[1]]
  /\ \A c \in Calls : /\ pc[c] = "ok" => done[c] = len[c]
                      /\ pc[c] = "waiting" => done[c] < len[c]
                      /\ pc[c] = "idle" => done[c] = 0

Inv == TypeOK /\ RegisteredOpen /\ ClosedOnce /\ Ownership /\ TornDown /\ InOrder

\* After startup every producer is registered and open, and nothing is sent.
LEMMA InitInv == Init => Inv
<1> SUFFICES ASSUME Init PROVE Inv
  OBVIOUS
<1>1. TypeOK
  BY DEF Init, TypeOK, Finished
<1>2. RegisteredOpen /\ ClosedOnce /\ Ownership /\ TornDown
  BY DEF Init, RegisteredOpen, ClosedOnce, Ownership, TornDown
<1>3. InOrder
  BY DEF Init, InOrder
<1> QED
  BY <1>1, <1>2, <1>3 DEF Inv

\* Types are preserved.
LEMMA NextTypeOK == ASSUME Inv, [Next]_vars PROVE TypeOK'
<1> USE ProducersAssumption DEF Inv, TypeOK, Messages, Finished, Goto, traffic, callVars, closeVars
<1>1. ASSUME NEW c \in Calls, CallStep(c) PROVE TypeOK'
  <2>1. CASE PickDefault(c)
    BY <2>1 DEF PickDefault, Lengths, InOrder
  <2>2. ASSUME NEW n \in Names, PickNamed(c, n) PROVE TypeOK'
    BY <2>2 DEF PickNamed, InOrder
  <2>3. CASE Lookup(c) \/ Return(c)
    BY <2>3 DEF Lookup, Return
  <2>4. CASE Send(c)
    BY <2>4 DEF Send
  <2>5. CASE SendOK(c)
    BY <2>5 DEF SendOK, InOrder
  <2>6. CASE SendFails(c)
    BY <2>6 DEF SendFails
  <2> QED
    BY <1>1, <2>1, <2>2, <2>3, <2>4, <2>5, <2>6 DEF CallStep
<1>2. ASSUME NEW m \in inflight, Deliver(m) PROVE TypeOK'
  BY <1>2 DEF Deliver
<1>3. ASSUME NEW u \in Closers, CloseTaken(u) PROVE TypeOK'
  BY <1>3 DEF CloseTaken, Ownership
<1>4. ASSUME NEW u \in Closers, NEW n \in Names, TakeProducer(u, n) PROVE TypeOK'
  BY <1>4 DEF TakeProducer
<1>5. ASSUME NEW t \in Teardowns, CloseProducers(t) \/ CloseClient(t) PROVE TypeOK'
  BY <1>5 DEF CloseProducers, CloseClient
<1>6. CASE UNCHANGED vars
  BY <1>6 DEF vars
<1> QED
  BY <1>1, <1>2, <1>3, <1>4, <1>5, <1>6 DEF Next

\* Taking a producer out of the map and closing it are separate steps, but
\* it has one owner throughout.
LEMMA NextOwnership ==
  ASSUME Inv, [Next]_vars
  PROVE  (RegisteredOpen /\ ClosedOnce /\ Ownership /\ TornDown)'
<1> DEFINE P == RegisteredOpen /\ ClosedOnce /\ Ownership /\ TornDown
<1> USE DEF Inv, TypeOK, RegisteredOpen, ClosedOnce, Ownership, TornDown
<1>1. ASSUME UNCHANGED <<registered, open, closes, cpc, held, tpc>> PROVE P'
  BY <1>1
<1>2. ASSUME NEW c \in Calls, CallStep(c) PROVE P'
  BY <1>1, <1>2 DEF CallStep, PickDefault, PickNamed, Lookup, Send, SendOK, SendFails, Return, closeVars
<1>3. ASSUME NEW m \in inflight, Deliver(m) PROVE P'
  BY <1>1, <1>3 DEF Deliver, closeVars
<1>4. ASSUME NEW u \in Closers, CloseTaken(u) PROVE P'
  BY <1>4 DEF CloseTaken
<1>5. ASSUME NEW u \in Closers, NEW n \in Names, TakeProducer(u, n) PROVE P'
  BY <1>5 DEF TakeProducer
<1>6. ASSUME NEW t \in Teardowns, CloseProducers(t) \/ CloseClient(t) PROVE P'
  BY <1>6 DEF CloseProducers, CloseClient, closeVars
<1>7. CASE UNCHANGED vars
  BY <1>1, <1>7 DEF vars, closeVars
<1> QED
  BY <1>2, <1>3, <1>4, <1>5, <1>6, <1>7 DEF Next

\* A call sends its messages in order and stops at the first error.
LEMMA NextInOrder == ASSUME Inv, [Next]_vars PROVE InOrder'
<1> USE ProducersAssumption DEF Inv, TypeOK, InOrder, Messages, Finished, Goto
<1>1. ASSUME NEW c \in Calls, CallStep(c) PROVE InOrder'
  <2>1. CASE PickDefault(c)
    BY <2>1 DEF PickDefault, traffic
  <2>2. ASSUME NEW n \in Names, PickNamed(c, n) PROVE InOrder'
    BY <2>2 DEF PickNamed, traffic
  <2>3. CASE Lookup(c)
    BY <2>3 DEF Lookup, traffic
  <2>7. CASE Return(c)
    BY <2>7 DEF Return, traffic
  <2>4. CASE Send(c)
    BY <2>4 DEF Send
  <2>5. CASE SendOK(c)
    BY <2>5, SMTT(30) DEF SendOK
  <2>6. CASE SendFails(c)
    BY <2>6 DEF SendFails
  <2> QED
    BY <1>1, <2>1, <2>2, <2>3, <2>4, <2>5, <2>6, <2>7 DEF CallStep
<1>2. ASSUME NEW m \in inflight, Deliver(m) PROVE InOrder'
  BY <1>2 DEF Deliver, callVars
<1>3. ASSUME NEW u \in Closers, CloseTaken(u) PROVE InOrder'
  BY <1>3 DEF CloseTaken, traffic, callVars
<1>4. ASSUME NEW u \in Closers, NEW n \in Names, TakeProducer(u, n) PROVE InOrder'
  BY <1>4 DEF TakeProducer, traffic, callVars
<1>5. ASSUME NEW t \in Teardowns, CloseProducers(t) \/ CloseClient(t) PROVE InOrder'
  BY <1>5 DEF CloseProducers, CloseClient, traffic, callVars
<1>6. CASE UNCHANGED vars
  BY <1>6 DEF vars, traffic, callVars
<1> QED
  BY <1>1, <1>2, <1>3, <1>4, <1>5, <1>6 DEF Next

\* The inductive invariant.
THEOREM Invariance == Spec => []Inv
<1>1. Inv /\ [Next]_vars => Inv'
  BY NextTypeOK, NextOwnership, NextInOrder DEF Inv
<1> QED
  BY <1>1, InitInv, PTL DEF Spec

\* The types of the module, for any batch length.
THEOREM TypeCorrect == Spec => []TypeOK
<1>1. Inv => TypeOK
  BY DEF Inv
<1> QED
  BY <1>1, Invariance, PTL

\* A producer found in the map is open, at every moment of any Close calls
\* and teardowns.
THEOREM ReadyProducersOpen == Spec => []RegisteredOpen
<1>1. Inv => RegisteredOpen
  BY DEF Inv
<1> QED
  BY <1>1, Invariance, PTL

\* The plugin never closes a producer object twice.
THEOREM NoDoubleClose == Spec => []ClosedOnce
<1>1. Inv => ClosedOnce
  BY DEF Inv
<1> QED
  BY <1>1, Invariance, PTL

\* What ProduceBatch returns describes what the broker has, for batches of
\* any length.
THEOREM BatchReportsTrue == Spec => []BatchReport
<1>1. Inv => BatchReport
  BY DEF Inv, InOrder, BatchReport, TypeOK
<1> QED
  BY <1>1, Invariance, PTL

\* After a teardown has returned the library takes no further message.
THEOREM TeardownQuiet == Spec => QuietAfterTeardown
<1> DEFINE A == (\E t \in Teardowns : tpc[t] = "done") => inflight' \subseteq inflight
<1>1. Inv /\ [Next]_vars => [A]_vars
  <2> SUFFICES ASSUME Inv, [Next]_vars, NEW t \in Teardowns, tpc[t] = "done"
               PROVE  inflight' \subseteq inflight
    OBVIOUS
  <2>1. open = {}
    BY DEF Inv, TornDown
  <2>2. ASSUME NEW c \in Calls, CallStep(c) PROVE inflight' = inflight
    BY <2>1, <2>2 DEF CallStep, PickDefault, PickNamed, Lookup, Send, SendOK, SendFails, Return, traffic
  <2>3. ASSUME NEW m \in inflight, Deliver(m) PROVE inflight' \subseteq inflight
    BY <2>3 DEF Deliver
  <2>4. ASSUME NEW u \in Closers, CloseTaken(u) \/ \E n \in Names : TakeProducer(u, n)
        PROVE  inflight' = inflight
    BY <2>4 DEF CloseTaken, TakeProducer, traffic
  <2>5. ASSUME NEW s \in Teardowns, CloseProducers(s) \/ CloseClient(s) PROVE inflight' = inflight
    BY <2>5 DEF CloseProducers, CloseClient, traffic
  <2>6. CASE UNCHANGED vars
    BY <2>6 DEF vars, traffic
  <2> QED
    BY <2>2, <2>3, <2>4, <2>5, <2>6 DEF Next
<1> QED
  BY <1>1, Invariance, PTL DEF Spec, QuietAfterTeardown

-----------------------------------------------------------------------------
(* The counters                                                            *)

\* The stored messages that were confirmed to their callers, and the calls
\* that returned an error.
Confirmed == {m \in broker : m[2] < done[m[1]]}
Failing == {c \in Calls : pc[c] = "error"}

\* Each counter counts one of the two sets.  Only a call that is past its
\* lookup has messages anywhere, and never more than it was given.
Counted ==
  /\ IsFiniteSet(Confirmed) /\ Cardinality(Confirmed) = sent
  /\ IsFiniteSet(Failing) /\ Cardinality(Failing) = failed
  /\ \A m \in broker \cup inflight : /\ m[2] < len[m[1]]
                                     /\ pc[m[1]] \notin {"idle", "named", "refused"}

\* A confirmation moves one message into Confirmed, an error one call into
\* Failing; what the broker stores late changes neither.
LEMMA NextCounted == ASSUME Inv, Counted, [Next]_vars PROVE Counted'
<1> DEFINE Within == \A m \in broker \cup inflight :
                       m[2] < len[m[1]] /\ pc[m[1]] \notin {"idle", "named", "refused"}
<1> USE DEF Inv, TypeOK, Messages, Finished
<1>1. ASSUME UNCHANGED <<traffic, callVars>> PROVE Counted'
  BY <1>1 DEF Counted, Confirmed, Failing, traffic, callVars
<1>2. ASSUME NEW c \in Calls, PickDefault(c) \/ \E n \in Names : PickNamed(c, n) PROVE Counted'
  <2>1. UNCHANGED <<traffic, done>> /\ pc[c] = "idle" /\ pc' = [pc EXCEPT ![c] = "named"]
    BY <1>2 DEF PickDefault, PickNamed, Goto
  <2>2. \A d \in Calls : d # c => len'[d] = len[d]
    BY <1>2 DEF PickDefault, PickNamed
  <2>3. Confirmed' = Confirmed /\ Failing' = Failing
    BY <2>1 DEF Confirmed, Failing, traffic
  <2>4. Within'
    BY <2>1, <2>2 DEF Counted, traffic
  <2> QED
    BY <2>1, <2>3, <2>4 DEF Counted, traffic
<1>3. ASSUME NEW c \in Calls, Lookup(c) \/ Return(c) PROVE Counted'
  <2>1. UNCHANGED <<traffic, done, len>>
    BY <1>3 DEF Lookup, Return
  <2>2. /\ pc[c] \in {"named", "loop"} /\ (pc[c] = "loop" => pc'[c] = "ok")
        /\ pc'[c] \in {"loop", "refused", "ok"} /\ pc' = [pc EXCEPT ![c] = pc'[c]]
    BY <1>3 DEF Lookup, Return, Goto
  <2>3. Confirmed' = Confirmed /\ Failing' = Failing
    BY <2>1, <2>2 DEF Confirmed, Failing, traffic
  <2>4. Within'
    BY <2>1, <2>2 DEF Counted, traffic
  <2> QED
    BY <2>1, <2>3, <2>4 DEF Counted, traffic
<1>4. ASSUME NEW c \in Calls, Send(c) PROVE Counted'
  <2>1. UNCHANGED <<broker, sent, failed, done, len>> /\ pc[c] = "loop" /\ pc' = [pc EXCEPT ![c] = "waiting"]
    BY <1>4 DEF Send, Goto
  <2>2. Confirmed' = Confirmed /\ Failing' = Failing
    BY <2>1 DEF Confirmed, Failing
  <2>3. Within'
    BY <1>4, <2>1 DEF Counted, Send
  <2> QED
    BY <2>1, <2>2, <2>3 DEF Counted
<1>5. ASSUME NEW c \in Calls, SendOK(c) PROVE Counted'
  <2>1. /\ UNCHANGED <<broker, inflight, failed, len>> /\ sent' = sent + 1
        /\ pc[c] = "waiting" /\ pc' = [pc EXCEPT ![c] = "loop"]
        /\ <<c, done[c]>> \in broker /\ done' = [done EXCEPT ![c] = @ + 1]
    BY <1>5 DEF SendOK, Goto
  <2>2. Confirmed' = Confirmed \cup {<<c, done[c]>>}
    <3>1. ASSUME NEW m \in broker PROVE m[2] < done'[m[1]] <=> m[2] < done[m[1]] \/ m = <<c, done[c]>>
      <4>1. m = <<m[1], m[2]>> /\ m[1] \in Calls /\ m[2] \in Nat
        OBVIOUS
      <4>2. CASE m[1] = c
        BY <2>1, <4>1, <4>2
      <4>3. CASE m[1] # c
        BY <2>1, <4>1, <4>3
      <4> QED
        BY <4>2, <4>3
    <3> QED
      BY <2>1, <3>1 DEF Confirmed
  <2>3. <<c, done[c]>> \notin Confirmed
    BY DEF Confirmed
  <2>4. IsFiniteSet(Confirmed') /\ Cardinality(Confirmed') = sent'
    BY <2>1, <2>2, <2>3, FS_AddElement DEF Counted
  <2>5. Failing' = Failing
    BY <2>1 DEF Failing
  <2>6. Within'
    BY <2>1 DEF Counted
  <2> QED
    BY <2>1, <2>4, <2>5, <2>6 DEF Counted
<1>6. ASSUME NEW c \in Calls, SendFails(c) PROVE Counted'
  <2>1. /\ UNCHANGED <<broker, inflight, sent, len, done>> /\ failed' = failed + 1
        /\ pc[c] \in {"loop", "waiting"} /\ pc' = [pc EXCEPT ![c] = "error"]
    BY <1>6 DEF SendFails, Goto
  <2>2. Failing' = Failing \cup {c} /\ c \notin Failing
    BY <2>1 DEF Failing
  <2>3. IsFiniteSet(Failing') /\ Cardinality(Failing') = failed'
    BY <2>1, <2>2, FS_AddElement DEF Counted
  <2>4. Confirmed' = Confirmed
    BY <2>1 DEF Confirmed
  <2>5. Within'
    BY <2>1 DEF Counted
  <2> QED
    BY <2>1, <2>3, <2>4, <2>5 DEF Counted
<1>7. ASSUME NEW m \in inflight, Deliver(m) PROVE Counted'
  <2>1. UNCHANGED <<sent, failed, pc, done, len>> /\ broker' = broker \cup {m} /\ inflight' = inflight \ {m}
    BY <1>7 DEF Deliver, callVars
  <2>2. m[2] < done[m[1]] => m \in broker
    BY DEF InOrder
  <2>3. Confirmed' = Confirmed /\ Failing' = Failing
    BY <2>1, <2>2 DEF Confirmed, Failing
  <2>4. Within'
    BY <2>1 DEF Counted
  <2> QED
    BY <2>1, <2>3, <2>4 DEF Counted
<1>8. ASSUME NEW u \in Closers, CloseTaken(u) \/ \E n \in Names : TakeProducer(u, n) PROVE Counted'
  BY <1>1, <1>8 DEF CloseTaken, TakeProducer
<1>9. ASSUME NEW t \in Teardowns, CloseProducers(t) \/ CloseClient(t) PROVE Counted'
  BY <1>1, <1>9 DEF CloseProducers, CloseClient
<1>10. CASE UNCHANGED vars
  BY <1>1, <1>10 DEF vars
<1> QED
  BY <1>2, <1>3, <1>4, <1>5, <1>6, <1>7, <1>8, <1>9, <1>10 DEF Next, CallStep

\* When all calls have returned, a stored message that was not confirmed is
\* the one its call failed at, so there are at most as many as failed calls.
LEMMA CountersFollow == Inv /\ Counted => CountersBracket
<1> SUFFICES ASSUME Inv, Counted, \A c \in Calls : pc[c] \in Finished
             PROVE  sent <= Cardinality(broker) /\ Cardinality(broker) <= sent + failed
  BY DEF CountersBracket
<1> DEFINE Late == broker \ Confirmed
           call == [m \in Late |-> m[1]]
<1> USE DEF Inv, TypeOK, Messages, Finished
<1>1. \A m \in Late : m = <<m[1], m[2]>> /\ m[1] \in Failing /\ m[2] = done[m[1]]
  <2> SUFFICES ASSUME NEW m \in Late
               PROVE  m = <<m[1], m[2]>> /\ m[1] \in Failing /\ m[2] = done[m[1]]
    OBVIOUS
  <2>1. m = <<m[1], m[2]>> /\ m[1] \in Calls /\ m[2] \in Nat /\ done[m[1]] \in Nat /\ len[m[1]] \in Nat
    OBVIOUS
  <2>2. m[2] = done[m[1]]
    BY <2>1 DEF Confirmed, InOrder
  <2>3. pc[m[1]] # "ok"
    BY <2>1, <2>2 DEF Counted, InOrder
  <2>4. pc[m[1]] # "refused"
    BY DEF Counted
  <2> QED
    BY <2>1, <2>2, <2>3, <2>4 DEF Failing
<1>2. call \in Injection(Late, Failing)
  <2>1. call \in [Late -> Failing]
    BY <1>1
  <2>2. \A m, k \in Late : call[m] = call[k] => m = k
    BY <1>1
  <2> QED
    BY <2>1, <2>2 DEF Injection, IsInjective
<1>3. IsFiniteSet(Late) /\ Cardinality(Late) <= failed
  <2> HIDE DEF Late, call
  <2> QED
    BY <1>2, FS_Injection DEF Counted
<1>4. broker = Confirmed \cup Late /\ Confirmed \cap Late = {}
  BY DEF Confirmed
<1>5. Cardinality(broker) = sent + Cardinality(Late) - 0
  <2> HIDE DEF Late
  <2> QED
    BY <1>3, <1>4, FS_Union, FS_EmptySet DEF Counted
<1>6. Cardinality(Late) \in Nat
  BY <1>3, FS_CardinalityType
<1> HIDE DEF Late
<1> QED
  BY <1>3, <1>5, <1>6

\* The counters count the two sets, always.
LEMMA CountedInvariance == Spec => []Counted
<1>1. Init => Counted
  <2> SUFFICES ASSUME Init PROVE Counted
    OBVIOUS
  <2>1. Confirmed = {} /\ Failing = {} /\ broker = {} /\ inflight = {} /\ sent = 0 /\ failed = 0
    BY DEF Init, Confirmed, Failing
  <2> QED
    BY <2>1, FS_EmptySet DEF Counted
<1>2. Inv /\ Counted /\ [Next]_vars => Counted'
  BY NextCounted
<1> QED
  BY <1>1, <1>2, Invariance, PTL DEF Spec

\* Once all calls have returned, the Prometheus counters bracket what the
\* broker has stored, for any number of calls and batches of any length.
THEOREM CountersSound == Spec => []CountersBracket
  BY CountedInvariance, CountersFollow, Invariance, PTL

-----------------------------------------------------------------------------
(* The promise to the callers                                              *)

\* The two functions that OrderedSend's variables are mapped to.
storedOf == [c \in Calls |-> Stored(c)]
reportOf == [c \in Calls |-> Reported(c)]

\* Before any call nothing has been asked, stored or returned.
LEMMA InitOrdered == Init => O!Init
<1> SUFFICES ASSUME Init PROVE O!Init
  OBVIOUS
<1>1. storedOf = len
  BY DEF Init, storedOf, Stored
<1>2. reportOf = [c \in Calls |-> "idle"]
  BY DEF Init, reportOf, Reported
<1> QED
  BY <1>1, <1>2 DEF Init, O!Init, storedOf, reportOf

\* Every step of a call is a step of OrderedSend or invisible in it.
LEMMA CallOrdered ==
  ASSUME Inv, Counted, NEW c \in Calls, CallStep(c)
  PROVE  [O!Next]_(O!vars)
<1> USE DEF Inv, TypeOK, Messages, Finished
<1>1. ASSUME UNCHANGED <<done, broker>> PROVE storedOf' = storedOf
  BY <1>1 DEF storedOf, Stored
<1>2. ASSUME NEW s, pc' = [pc EXCEPT ![c] = s]
      PROVE  /\ reportOf' = [reportOf EXCEPT ![c] = Reported(c)']
             /\ Reported(c)' = IF s \in Finished \cup {"idle"} THEN s ELSE "open"
  BY <1>2 DEF reportOf, Reported
<1>3. reportOf[c] = Reported(c) /\ storedOf[c] = Stored(c)
  BY DEF reportOf, storedOf
<1>4. ASSUME reportOf' = reportOf, UNCHANGED <<len, done, broker>> PROVE UNCHANGED O!vars
  BY <1>1, <1>4 DEF O!vars, reportOf, storedOf
<1>5. CASE PickDefault(c) \/ \E n \in Names : PickNamed(c, n)
  <2>1. UNCHANGED <<done, broker>> /\ pc[c] = "idle" /\ pc' = [pc EXCEPT ![c] = "named"]
    BY <1>5 DEF PickDefault, PickNamed, Goto, traffic
  <2>2. len' \in [Calls -> Nat] /\ \A d \in Calls \ {c} : len'[d] = len[d]
    BY <1>5, ProducersAssumption DEF PickDefault, PickNamed, Lengths
  <2>3. O!Report(c, "idle", "open")
    BY <1>2, <1>3, <2>1 DEF O!Report, Reported, reportOf
  <2> QED
    BY <1>1, <2>1, <2>2, <2>3 DEF O!Ask, O!Next, storedOf
<1>6. CASE Lookup(c)
  <2>1. UNCHANGED <<done, broker, len>> /\ pc[c] = "named"
    BY <1>6 DEF Lookup, Goto, traffic
  <2>2. CASE pc' = [pc EXCEPT ![c] = "loop"]
    <3>1. reportOf' = reportOf
      BY <2>1, <2>2 DEF reportOf, Reported
    <3> QED
      BY <1>4, <2>1, <3>1
  <2>3. CASE pc' = [pc EXCEPT ![c] = "refused"]
    <3>1. Stored(c) = 0
      <4>1. \A i \in Nat : <<c, i>> \notin broker
        BY <2>1 DEF Counted
      <4>2. done[c] = 0
        <5>1. done[c] \in Nat /\ (done[c] # 0 => 0 \in 0 .. done[c] - 1)
          OBVIOUS
        <5> QED
          BY <4>1, <5>1 DEF InOrder
      <4> QED
        BY <4>1, <4>2 DEF Stored
    <3>2. O!Report(c, "open", "refused")
      BY <1>2, <1>3, <2>1, <2>3 DEF O!Report, Reported, reportOf
    <3> QED
      BY <1>1, <1>3, <2>1, <3>1, <3>2 DEF O!Answer, O!Next, storedOf
  <2> QED
    BY <1>6, <2>2, <2>3 DEF Lookup, Goto
<1>7. CASE Send(c)
  <2>1. UNCHANGED <<done, broker, len>> /\ pc[c] = "loop" /\ pc' = [pc EXCEPT ![c] = "waiting"]
    BY <1>7 DEF Send, Goto
  <2>2. reportOf' = reportOf
    BY <2>1 DEF reportOf, Reported
  <2> QED
    BY <1>4, <2>1, <2>2
<1>8. CASE SendOK(c)
  <2>1. /\ UNCHANGED <<broker, len>> /\ pc[c] = "waiting" /\ pc' = [pc EXCEPT ![c] = "loop"]
        /\ <<c, done[c]>> \in broker /\ done' = [done EXCEPT ![c] = @ + 1]
    BY <1>8 DEF SendOK, Goto
  <2>2. reportOf' = reportOf /\ reportOf[c] = "open"
    BY <2>1 DEF reportOf, Reported
  <2>3. <<c, done[c] + 1>> \notin broker
    BY DEF InOrder
  <2>4. storedOf' = storedOf /\ storedOf[c] = done[c] + 1
    BY <2>1, <2>3 DEF storedOf, Stored
  <2> QED
    <3>1. done[c] < storedOf[c]
      BY <2>4
    <3>2. O!Confirm(c)
      BY <2>1, <2>2, <2>4, <3>1 DEF O!Confirm, storedOf, reportOf
    <3> QED
      BY <3>2 DEF O!Next
<1>9. CASE SendFails(c) \/ Return(c)
  <2>1. UNCHANGED <<done, broker, len>> /\ pc[c] \in {"loop", "waiting"}
    BY <1>9 DEF SendFails, Return, Goto, traffic
  <2>2. \/ done[c] < len[c] /\ pc' = [pc EXCEPT ![c] = "error"]
        \/ done[c] = len[c] /\ pc' = [pc EXCEPT ![c] = "ok"]
    BY <1>9 DEF SendFails, Return, Goto
  <2>3. \/ done[c] < len[c] /\ O!Report(c, "open", "error")
        \/ done[c] = len[c] /\ O!Report(c, "open", "ok")
    BY <1>2, <1>3, <2>1, <2>2 DEF O!Report, Reported, reportOf
  <2> QED
    BY <1>1, <2>1, <2>3 DEF O!Answer, O!Next, storedOf
<1> QED
  BY <1>5, <1>6, <1>7, <1>8, <1>9 DEF CallStep

\* What the broker stores is the next message of its call, or one that the
\* broker has already.
LEMMA DeliverOrdered ==
  ASSUME Inv, Counted, NEW m \in inflight, Deliver(m)
  PROVE  [O!Next]_(O!vars)
<1> USE DEF Inv, TypeOK, Messages, Finished
<1> DEFINE c == m[1]
<1>1. /\ m = <<c, m[2]>> /\ c \in Calls /\ m[2] \in Nat /\ m[2] <= done[c]
      /\ m[2] < len[c] /\ pc[c] \notin {"idle", "named", "refused"}
  BY DEF InOrder, Counted
<1>2. UNCHANGED <<pc, len, done>> /\ broker' = broker \cup {m}
  BY DEF Deliver, callVars
<1>3. reportOf' = reportOf
  BY <1>2 DEF reportOf, Reported
<1>4. CASE m \in broker \/ m[2] # done[c]
  <2>1. storedOf' = storedOf
    <3>1. ASSUME NEW d \in Calls PROVE <<d, done[d]>> \in broker' <=> <<d, done[d]>> \in broker
      BY <1>1, <1>2, <1>4
    <3> QED
      BY <1>2, <3>1 DEF storedOf, Stored
  <2> QED
    BY <1>2, <1>3, <2>1 DEF O!vars, storedOf, reportOf
<1>5. CASE m \notin broker /\ m[2] = done[c]
  <2>1. <<c, done[c]>> = m
    BY <1>1, <1>5
  <2>2. Stored(c) = done[c] /\ Stored(c)' = done[c] + 1
    BY <1>2, <1>5, <2>1 DEF Stored
  <2>3. ASSUME NEW d \in Calls, d # c PROVE Stored(d)' = Stored(d)
    <3>1. <<d, done[d]>> # m
      BY <2>1, <2>3
    <3> QED
      BY <1>2, <3>1 DEF Stored
  <2>4. storedOf' = [storedOf EXCEPT ![c] = @ + 1] /\ storedOf[c] = done[c]
    BY <1>1, <2>2, <2>3 DEF storedOf
  <2>5. pc[c] # "ok"
    BY <1>1, <1>5 DEF InOrder
  <2>6. reportOf[c] \in {"open", "error"}
    BY <1>1, <2>5 DEF reportOf, Reported
  <2>7. O!Store(c)
    BY <1>1, <1>2, <1>3, <1>5, <2>4, <2>6 DEF O!Store, storedOf, reportOf
  <2> QED
    BY <1>1, <2>7 DEF O!Next
<1> QED
  BY <1>4, <1>5

\* The Produce methods keep the promise of OrderedSend, for any number of
\* calls, batches of any length, and whatever is closed meanwhile.
THEOREM PromiseKept == Spec => SendsInOrder
<1>1. Inv /\ Counted /\ [Next]_vars => [O!Next]_(O!vars)
  <2> SUFFICES ASSUME Inv, Counted, [Next]_vars PROVE [O!Next]_(O!vars)
    OBVIOUS
  <2>1. ASSUME UNCHANGED <<broker, callVars>> PROVE UNCHANGED O!vars
    <3>1. storedOf' = storedOf /\ reportOf' = reportOf /\ UNCHANGED <<len, done>>
      BY <2>1 DEF storedOf, reportOf, Stored, Reported, callVars
    <3> QED
      BY <3>1 DEF O!vars, storedOf, reportOf
  <2>2. ASSUME NEW u \in Closers, CloseTaken(u) \/ \E n \in Names : TakeProducer(u, n)
        PROVE  UNCHANGED O!vars
    BY <2>1, <2>2 DEF CloseTaken, TakeProducer, traffic
  <2>3. ASSUME NEW t \in Teardowns, CloseProducers(t) \/ CloseClient(t) PROVE UNCHANGED O!vars
    BY <2>1, <2>3 DEF CloseProducers, CloseClient, traffic
  <2>4. CASE UNCHANGED vars
    BY <2>1, <2>4 DEF vars, traffic
  <2> QED
    BY <2>2, <2>3, <2>4, CallOrdered, DeliverOrdered DEF Next
<1> QED
  BY <1>1, InitOrdered, Invariance, CountedInvariance, PTL DEF Spec, SendsInOrder, O!Spec
=============================================================================
