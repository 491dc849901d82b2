-------------------------- MODULE LifecycleProofs --------------------------
(***************************************************************************)
(* Proofs about Lifecycle, for any producers, consumers and number of      *)
(* restarts.  The first part holds even when starts and stops overlap; the *)
(* second part is about lifecycle calls that do not.                       *)
(***************************************************************************)
EXTENDS Lifecycle, TLAPS

Inv == TypeOK /\ ClientPointerValid

\* A plugin that has just been constructed has no client and no instances.
LEMMA InitInv == Init => Inv
<1> SUFFICES ASSUME Init PROVE Inv
  OBVIOUS
<1> USE LifecycleAssumption DEF Init, Nil
<1>1. checker \in [closes : {0, 1}, probes : Nat]
  BY DEF NewHealthChecker
<1>2. pc \in [Threads -> ThreadState]
  BY DEF ThreadState
<1>3. client \in Gens \cup {Nil} /\ made \in 0 .. MaxClients /\ instances \in [Names -> Gens \cup {Nil}]
  OBVIOUS
<1> QED
  BY <1>1, <1>2, <1>3 DEF Inv, TypeOK, ClientPointerValid

\* Whatever registrations fail, the contract keeps its type, and what was
\* not to be announced is not announced.
LEMMA PublishEffect ==
  ASSUME NEW v \in BOOLEAN, TypeOK, Publish(v)
  PROVE  /\ ready' \in [Contract -> BOOLEAN] /\ stale' \in SUBSET Contract
         /\ ~v => Announced' = {}
  BY DEF Publish, TypeOK, Announced

\* Types are preserved.
LEMMA NextTypeOK == ASSUME TypeOK, [Next]_vars PROVE TypeOK'
<1> USE LifecycleAssumption DEF TypeOK, Threads, Gens, Nil, core, managers, contract, ThreadState, Starting,
                                Stopping, Closing, Goto
<1>1. CASE Initialize
  <2>1. checker' \in [closes : {0, 1}, probes : Nat]
    BY <1>1 DEF Initialize, NewConnectionManager, NewHealthChecker
  <2>2. lost' \in Nat
    BY <1>1 DEF Initialize, NewConnectionManager
  <2> QED
    BY <1>1, <2>1, <2>2 DEF Initialize, NewConnectionManager
<1>2. CASE BeginStart
  BY <1>2, PublishEffect DEF BeginStart
<1>3. CASE NewClient
  <2>0. made < MaxClients => made + 1 \in Gens /\ made + 1 \in 0 .. MaxClients
    OBVIOUS
  <2>1. made' \in 0 .. MaxClients /\ client' \in Gens \cup {Nil} /\ clients' \in SUBSET Gens
    <3> HIDE DEF Gens
    <3> QED
      BY <1>3, <2>0 DEF NewClient
  <2>2. /\ ready' \in [Contract -> BOOLEAN] /\ stale' \in SUBSET Contract
        /\ todo' \in SUBSET Names
    BY <1>3, PublishEffect DEF NewClient, Names
  <2>3. pc' \in [Threads -> ThreadState]
    BY <1>3 DEF NewClient
  <2> QED
    BY <1>3, <2>1, <2>2, <2>3 DEF NewClient
<1>4. CASE CtxDone
  BY <1>4 DEF CtxDone
<1>5. ASSUME Create \/ \E n \in Names : GetClient(n) PROVE TypeOK'
  <2>1. CASE Create
    BY <2>1 DEF Create
  <2>2. ASSUME NEW n \in Names, GetClient(n) PROVE TypeOK'
    BY <2>2 DEF GetClient
  <2> QED
    BY <1>5, <2>1, <2>2
<1>6. CASE Store
  BY <1>6 DEF Store
<1>7. CASE ProducersDone \/ ConsumersDone
  BY <1>7 DEF ProducersDone, ConsumersDone, Names
<1>8. CASE StartManagers
  BY <1>8 DEF StartManagers, ConnectionStart, CheckerStart
<1>9. CASE RegisterSelf \/ VerifyHealth \/ PublishReady \/ Withdraw
  BY <1>9, PublishEffect DEF RegisterSelf, VerifyHealth, PublishReady, Withdraw
<1>10. CASE ProbeExits \/ Reconnect
  <2>1. CASE ProbeExits
    BY <2>1 DEF ProbeExits
  <2>2. CASE Reconnect
    BY <2>2 DEF Reconnect
  <2> QED
    BY <1>10, <2>1, <2>2
<1>11. ASSUME NEW t \in Stops, BeginStop(t) \/ StopStep(t) PROVE TypeOK'
  <2>1. CASE BeginStop(t)
    BY <2>1, PublishEffect DEF BeginStop
  <2>2. CASE MarkClosed(t)
    BY <2>2 DEF MarkClosed
  <2>3. CASE StopManagers(t)
    BY <2>3 DEF StopManagers, ConnectionStop, CheckerStop
  <2> QED
    BY <1>11, <2>1, <2>2, <2>3 DEF StopStep
<1>12. ASSUME NEW t \in Threads, CloseStep(t) PROVE TypeOK'
  BY <1>12 DEF CloseStep, CloseConsumers, CloseProducers, CloseClient, Shut
<1>13. CASE UNCHANGED vars
  BY <1>13 DEF vars
<1> QED
  BY <1>1, <1>2, <1>3, <1>4, <1>5, <1>6, <1>7, <1>8, <1>9, <1>10, <1>11, <1>12, <1>13
  DEF Next, StartStep

\* setClient stores a client that has just been made, and closing a client
\* resets the pointer in the same critical section.
LEMMA NextPointer == ASSUME Inv, [Next]_vars PROVE ClientPointerValid'
<1> DEFINE Same == client' = client /\ clients' = clients
<1>0. ASSUME Same PROVE ClientPointerValid'
  BY <1>0 DEF Inv, ClientPointerValid
<1>1. ASSUME NewClient PROVE Same \/ client' \in clients'
  BY <1>1 DEF NewClient
<1>2. ASSUME Create \/ \E n \in Names : GetClient(n) PROVE Same
  BY <1>2 DEF Create, GetClient, core
<1>3. ASSUME NEW t \in Threads, CloseStep(t) PROVE Same \/ client' = Nil
  BY <1>3 DEF CloseStep, CloseConsumers, CloseProducers, CloseClient
<1>4. ASSUME Initialize \/ BeginStart \/ CtxDone \/ Store \/ ProducersDone \/ ConsumersDone
             \/ ProbeExits \/ Reconnect
      PROVE Same
  BY <1>4 DEF Initialize, BeginStart, CtxDone, Store, ProducersDone, ConsumersDone, ProbeExits,
              Reconnect, core
<1>5. ASSUME StartManagers \/ RegisterSelf \/ VerifyHealth \/ PublishReady \/ Withdraw PROVE Same
  BY <1>5 DEF StartManagers, RegisterSelf, VerifyHealth, PublishReady, Withdraw, core
<1>6. ASSUME NEW t \in Stops, BeginStop(t) \/ StopStep(t) PROVE Same
  BY <1>6 DEF BeginStop, StopStep, MarkClosed, StopManagers, core
<1>7. ASSUME UNCHANGED vars PROVE Same
  BY <1>7 DEF vars, core
<1>8. client' \in clients' \/ client' = Nil => ClientPointerValid'
  BY DEF ClientPointerValid
<1> HIDE DEF Same
<1> QED
  BY <1>0, <1>1, <1>2, <1>3, <1>4, <1>5, <1>6, <1>7, <1>8 DEF Next, StartStep

\* The invariant of the first part.
THEOREM Invariance == Spec => []Inv
<1>1. Inv /\ [Next]_vars => Inv'
  BY NextTypeOK, NextPointer DEF Inv
<1> QED
  BY <1>1, InitInv, PTL DEF Spec

\* Types are kept in every lifecycle, overlapping or not; no checker closes
\* its stop channel twice.
THEOREM TypeCorrect == Spec => []TypeOK
<1>1. Inv => TypeOK
  BY DEF Inv
<1> QED
  BY <1>1, Invariance, PTL

\* p.client never designates a closed client, also when starts and stops
\* overlap.
THEOREM PointerValid == Spec => []ClientPointerValid
<1>1. Inv => ClientPointerValid
  BY DEF Inv
<1> QED
  BY <1>1, Invariance, PTL

-----------------------------------------------------------------------------
(* What overlapping calls leave in the maps                                *)

Phase(S) == pc[Starter] \in S
ProducerPhase == {"producers", "createProducer", "storeProducer"}
ConsumerPhase == {"consumers", "createConsumer", "storeConsumer"}

\* The names this start has not asked the client for yet.
Pending == todo \cup (IF Phase(ProducerPhase) THEN Consumers ELSE {})

\* Clients are numbered in the order they are made, and the pointer is to
\* the last one, if to any.
Numbered ==
  /\ client \in {Nil, made}
  /\ \A g \in clients : g <= made
  /\ \A n \in Names : instances[n] <= made

\* A start asks its client once for each name, so the instance on its way
\* into a map is not one that is registered already; it is open, or its
\* client is not.
Underway ==
  /\ Phase(ProducerPhase) => todo \subseteq Producers
  /\ Phase(ConsumerPhase) => todo \subseteq Consumers
  /\ Phase(ProducerPhase \cup ConsumerPhase) =>
       made # Nil /\ \A n \in Pending : instances[n] # made
  /\ Phase({"createProducer", "storeProducer", "createConsumer", "storeConsumer"}) =>
       \E n \in Names \ Pending : fresh = {<<n, made>>} /\ instances[n] # made
  /\ Phase({"storeProducer", "storeConsumer"}) =>
       \A o \in fresh : o \in live \/ o[2] \notin clients

OInv == Inv /\ Numbered /\ Underway /\ RegisteredIsOpen

LEMMA NextOverlap == ASSUME OInv, [Next]_vars PROVE Numbered' /\ Underway' /\ RegisteredIsOpen'
<1> DEFINE P == Numbered /\ Underway /\ RegisteredIsOpen
<1> USE LifecycleAssumption
    DEF OInv, Inv, TypeOK, Numbered, Underway, RegisteredIsOpen, Pending, Phase, ProducerPhase,
        ConsumerPhase, Goto, Threads, core, managers
<1>0. Nil \notin clients /\ Gens \subseteq Nat /\ made \in Nat
  BY DEF Nil, Gens
<1>a. ASSUME UNCHANGED <<client, clients, made, instances, live>>,
             pc'[Starter] \notin ProducerPhase \cup ConsumerPhase
      PROVE  P'
  BY <1>a
<1>1. CASE Initialize \/ BeginStart
  <2>1. UNCHANGED core /\ pc'[Starter] \in {"initialized", "client"}
    BY <1>1 DEF Initialize, BeginStart
  <2> QED
    BY <1>a, <2>1
<1>2. CASE NewClient
  <2>1. CASE pc'[Starter] = "failed"
    <3>1. UNCHANGED <<client, clients, made, instances, live>>
      BY <1>2, <2>1 DEF NewClient
    <3> QED
      BY <1>a, <2>1, <3>1
  <2>2. CASE pc'[Starter] = "producers"
    <3>1. /\ made' = made + 1 /\ client' = made + 1 /\ clients' = clients \cup {made + 1}
          /\ todo' = Producers /\ UNCHANGED <<instances, live>>
      BY <1>2, <2>2 DEF NewClient
    <3>2. made + 1 # Nil /\ \A n \in Names : instances[n] < made + 1
      BY <1>0 DEF Nil, Gens
    <3>3. Numbered'
      BY <1>0, <3>1, <3>2 DEF Gens
    <3>4. Underway'
      BY <2>2, <3>1, <3>2 DEF Names
    <3>5. RegisteredIsOpen'
      BY <3>1, <3>2
    <3> QED
      BY <3>3, <3>4, <3>5
  <2> QED
    BY <1>2, <2>1, <2>2 DEF NewClient
<1>3. CASE CtxDone \/ ProducersDone \/ ConsumersDone
  BY <1>3 DEF CtxDone, ProducersDone, ConsumersDone
<1>4. ASSUME NEW n \in Names, GetClient(n) PROVE P'
  <2>1. UNCHANGED <<client, clients, made, instances, live>> /\ n \in todo
    BY <1>4 DEF GetClient
  <2>2. CASE client = Nil
    BY <1>4, <2>1, <2>2 DEF GetClient
  <2>3. CASE client # Nil
    <3>1. client = made /\ fresh' = {<<n, made>>} /\ todo' = todo \ {n}
      BY <1>4, <2>3 DEF GetClient
    <3>2. n \notin Pending' /\ Pending' \subseteq Pending /\ instances[n] # made
      BY <1>4, <2>1, <2>3, <3>1 DEF GetClient, Names
    <3>3. pc'[Starter] \in {"createProducer", "createConsumer"}
          /\ (pc[Starter] = "producers" <=> pc'[Starter] = "createProducer")
      BY <1>4, <2>3 DEF GetClient
    <3>4. pc[Starter] \in {"producers", "consumers"}
      BY <1>4, <2>3 DEF GetClient
    <3> QED
      BY <2>1, <3>1, <3>2, <3>3, <3>4
  <2> QED
    BY <2>2, <2>3
<1>5. CASE Create
  BY <1>5 DEF Create
<1>6. CASE Store
  <2>1. PICK n \in Names \ Pending : fresh = {<<n, made>>} /\ instances[n] # made
    BY <1>6 DEF Store
  <2>2. instances' = [instances EXCEPT ![n] = made]
    <3>1. PICK o \in fresh : instances' = [instances EXCEPT ![o[1]] = o[2]]
      BY <1>6 DEF Store
    <3>2. o[1] = n /\ o[2] = made
      BY <2>1
    <3> QED
      BY <3>1, <3>2
  <2>3. UNCHANGED <<client, clients, made, live, todo>> /\ Pending' = Pending
    BY <1>6 DEF Store
  <2>4. <<n, made>> \in live \/ made \notin clients
    BY <1>6, <2>1 DEF Store
  <2>5. \/ pc[Starter] = "storeProducer" /\ pc'[Starter] = "producers"
        \/ pc[Starter] = "storeConsumer" /\ pc'[Starter] = "consumers"
    BY <1>6 DEF Store
  <2> QED
    BY <1>0, <2>1, <2>2, <2>3, <2>4, <2>5
<1>7. CASE StartManagers \/ RegisterSelf \/ VerifyHealth \/ PublishReady \/ Withdraw
  <2>1. UNCHANGED core
    BY <1>7 DEF StartManagers, RegisterSelf, VerifyHealth, PublishReady, Withdraw
  <2>2. pc'[Starter] \in {"register", "health", "publish", "up", "failed"}
    BY <1>7 DEF StartManagers, RegisterSelf, VerifyHealth, PublishReady, Withdraw
  <2> QED
    BY <1>a, <2>1, <2>2
<1>8. CASE ProbeExits \/ Reconnect
  BY <1>8 DEF ProbeExits, Reconnect
<1>9. ASSUME NEW t \in Stops, BeginStop(t) \/ StopStep(t) PROVE P'
  <2>1. UNCHANGED <<client, clients, made, instances, live, todo, fresh>>
    BY <1>9 DEF BeginStop, StopStep, MarkClosed, StopManagers, core
  <2>2. pc'[Starter] = pc[Starter]
    BY <1>9 DEF BeginStop, StopStep, MarkClosed, StopManagers
  <2> QED
    BY <2>1, <2>2
<1>10. ASSUME NEW t \in Threads, NEW S \in SUBSET Names, Shut(S),
              UNCHANGED <<client, clients, made, todo, fresh>>,
              pc'[Starter] = pc[Starter] \/ ~Phase(ProducerPhase \cup ConsumerPhase)'
       PROVE P'
  <2>1. \A n \in Names : instances'[n] = IF n \in S THEN Nil ELSE instances[n]
    BY <1>10 DEF Shut
  <2>2. live' = live \ {<<n, instances[n]>> : n \in S}
    BY <1>10 DEF Shut
  <2>3. Numbered'
    BY <1>0, <1>10, <2>1 DEF Nil
  <2>4. RegisteredIsOpen'
    BY <1>0, <1>10, <2>1, <2>2
  <2>5. ASSUME ~Phase(ProducerPhase \cup ConsumerPhase)' PROVE Underway'
    BY <2>5
  <2>6. ASSUME pc'[Starter] = pc[Starter], Phase(ProducerPhase \cup ConsumerPhase) PROVE Underway'
    <3>1. made # Nil /\ Pending' = Pending /\ \A n \in Pending : instances'[n] # made
      BY <1>10, <2>1, <2>6 DEF Names
    <3>2. \A n \in Names : instances[n] # made => instances'[n] # made /\ (<<n, made>> \in live => <<n, made>> \in live')
      BY <2>1, <2>2, <3>1
    <3>3. CASE pc[Starter] \in {"producers", "consumers"}
      BY <1>10, <2>6, <3>1, <3>3
    <3>4. CASE pc[Starter] \notin {"producers", "consumers"}
      <4>1. PICK n \in Names \ Pending : fresh = {<<n, made>>} /\ instances[n] # made
        BY <2>6, <3>4
      <4> QED
        BY <1>10, <2>6, <3>1, <3>2, <4>1
    <3> QED
      BY <3>3, <3>4
  <2> QED
    BY <1>10, <2>3, <2>4, <2>5, <2>6
<1>11. ASSUME NEW t \in Threads, CloseStep(t) PROVE P'
  <2>1. pc'[Starter] = pc[Starter] \/ ~Phase(ProducerPhase \cup ConsumerPhase)'
    BY <1>11 DEF CloseStep, CloseConsumers, CloseProducers, CloseClient
  <2>2. CASE CloseConsumers(t)
    BY <1>10, <2>1, <2>2 DEF CloseConsumers, Names
  <2>3. CASE CloseProducers(t)
    BY <1>10, <2>1, <2>3 DEF CloseProducers, Names
  <2>4. CASE CloseClient(t)
    <3>1. /\ clients' = clients \ {client} /\ client' = Nil /\ live' = {o \in live : o[2] # client}
          /\ UNCHANGED <<made, instances, todo, fresh>>
      BY <2>4 DEF CloseClient
    <3>2. Numbered'
      BY <3>1
    <3>3. RegisteredIsOpen'
      BY <3>1
    <3>4. Underway'
      BY <2>1, <3>1
    <3> QED
      BY <3>2, <3>3, <3>4
  <2> QED
    BY <1>11, <2>2, <2>3, <2>4 DEF CloseStep
<1>12. CASE UNCHANGED vars
  BY <1>12 DEF vars
<1> QED
  BY <1>1, <1>2, <1>3, <1>4, <1>5, <1>6, <1>7, <1>8, <1>9, <1>11, <1>12 DEF Next, StartStep

\* Also when starts and stops overlap, no closed producer or consumer of an
\* open client is found in the maps.
THEOREM RegisteredOpen == Spec => []RegisteredIsOpen
<1>1. Init => OInv
  BY InitInv, LifecycleAssumption
  DEF Init, OInv, Numbered, Underway, RegisteredIsOpen, Phase, ProducerPhase, ConsumerPhase, Nil, Threads
<1>2. OInv /\ Inv' /\ [Next]_vars => OInv'
  BY NextOverlap DEF OInv
<1>3. OInv => RegisteredIsOpen
  BY DEF OInv
<1> QED
  BY <1>1, <1>2, <1>3, Invariance, PTL DEF Spec

-----------------------------------------------------------------------------
(* Lifecycle calls that do not overlap                                     *)

\* Each thread runs its own program, and never two at a time: stops may run
\* together, but not during a start.
Serial ==
  /\ pc[Starter] \notin {"idle", "stopped", "mark", "stopManagers"}
  /\ \A t \in Stops : pc[t] \in {"idle", "stopped"} \cup Stopping
  /\ pc[Starter] \in Starting => started /\ \A t \in Stops : pc[t] \notin Stopping

\* The instances named in S are registered, open and of the current client.
Ready(S) == \A n \in S : instances[n] = client /\ <<n, client>> \in live

\* How far startup has come tells what exists.
Progress ==
  /\ pc[Starter] \in {"producers", "createProducer", "storeProducer"} =>
       client # Nil /\ todo \subseteq Producers
  /\ pc[Starter] \in {"consumers", "createConsumer", "storeConsumer"} =>
       client # Nil /\ todo \subseteq Consumers /\ Ready(Producers)
  /\ pc[Starter] = "producers" => Ready(Producers \ todo)
  /\ pc[Starter] = "consumers" => Ready(Consumers \ todo)
  /\ pc[Starter] \in {"createProducer", "storeProducer"} =>
       \E n \in Producers \ todo : fresh = {<<n, client>>} /\ Ready((Producers \ todo) \ {n})
  /\ pc[Starter] \in {"createConsumer", "storeConsumer"} =>
       \E n \in Consumers \ todo : fresh = {<<n, client>>} /\ Ready((Consumers \ todo) \ {n})
  /\ pc[Starter] \in {"storeProducer", "storeConsumer"} => fresh \subseteq live
  /\ pc[Starter] \in {"managers", "register", "health", "publish"} => client # Nil /\ Ready(Names)
  /\ pc[Starter] \in {"register", "health", "publish"} => connected

\* Readiness is published only between the end of a start and the stop.
ReadyShape ==
  Announced # {} => /\ pc[Starter] = "up" /\ started
                    /\ \A t \in Stops : pc[t] \notin Stopping
                    /\ client # Nil /\ connected /\ Ready(Names)

\* Only a stop sets p.closed.
ClosedByStop == closed => \E t \in Stops : pc[t] \notin {"idle", "mark"}

SInv == Inv /\ Serial /\ Progress /\ ReadyShape /\ ClosedByStop

\* Nothing is running and nothing exists.
LEMMA InitSerial == Init => SInv
<1> SUFFICES ASSUME Init PROVE SInv
  OBVIOUS
<1>1. Inv
  BY InitInv
<1> QED
  BY <1>1, LifecycleAssumption DEF Init, SInv, Serial, Progress, ReadyShape, ClosedByStop, Announced, Starting,
     Stopping, Closing, Threads

\* Starts and stops exclude each other.
LEMMA NextSerial == ASSUME Overlap = FALSE, Inv, Serial, [Next]_vars PROVE Serial'
<1> USE Overlap = FALSE, LifecycleAssumption
    DEF Inv, TypeOK, Serial, Starting, Stopping, Closing, Threads, Goto
<1>1. CASE Initialize \/ BeginStart
  BY <1>1 DEF Initialize, NewConnectionManager, BeginStart, Quiescent
<1>2. CASE NewClient \/ CtxDone \/ Store \/ ProducersDone \/ ConsumersDone
  BY <1>2 DEF NewClient, CtxDone, Store, ProducersDone, ConsumersDone
<1>3. ASSUME Create \/ \E n \in Names : GetClient(n) PROVE Serial'
  BY <1>3 DEF Create, GetClient
<1>4. CASE StartManagers \/ RegisterSelf \/ VerifyHealth \/ PublishReady \/ Withdraw \/ ProbeExits
          \/ Reconnect
  BY <1>4 DEF StartManagers, ConnectionStart, RegisterSelf, VerifyHealth, PublishReady, Withdraw,
              ProbeExits, Reconnect
<1>5. ASSUME NEW t \in Stops, BeginStop(t) \/ StopStep(t) PROVE Serial'
  BY <1>5 DEF BeginStop, StopStep, MarkClosed, StopManagers, ConnectionStop
<1>6. ASSUME NEW t \in Threads, CloseStep(t) PROVE Serial'
  BY <1>6 DEF CloseStep, CloseConsumers, CloseProducers, CloseClient
<1>7. CASE UNCHANGED vars
  BY <1>7 DEF vars
<1> QED
  BY <1>1, <1>2, <1>3, <1>4, <1>5, <1>6, <1>7 DEF Next, StartStep

\* Startup builds up what its position says, undisturbed.
LEMMA NextProgress ==
  ASSUME Overlap = FALSE, Inv, Serial, Progress, [Next]_vars
  PROVE  Progress'
<1> USE Overlap = FALSE, LifecycleAssumption
    DEF Inv, TypeOK, Progress, Ready, Threads, Goto, Names, core, managers
<1>1. CASE Initialize \/ BeginStart
  <2>1. pc'[Starter] \in {"initialized", "client"}
    BY <1>1 DEF Initialize, NewConnectionManager, BeginStart
  <2> QED
    BY <2>1
<1>2. CASE NewClient
  <2>1. CASE pc'[Starter] = "failed"
    BY <2>1
  <2>2. CASE pc'[Starter] = "producers"
    <3>0. made + 1 # Nil
      BY DEF Nil
    <3>1. client' # Nil /\ todo' = Producers
      BY <1>2, <2>2, <3>0 DEF NewClient
    <3> QED
      BY <2>2, <3>1
  <2> QED
    BY <1>2, <2>1, <2>2 DEF NewClient
<1>3. CASE CtxDone \/ ProducersDone \/ ConsumersDone
  BY <1>3 DEF CtxDone, ProducersDone, ConsumersDone
<1>4. CASE Store
  <2>1. CASE pc[Starter] = "storeProducer"
    <3>1. PICK n \in Producers \ todo : fresh = {<<n, client>>} /\ <<n, client>> \in live
                                       /\ Ready((Producers \ todo) \ {n})
      BY <2>1
    <3>2. instances' = [instances EXCEPT ![n] = client]
      <4>1. PICK o \in fresh : instances' = [instances EXCEPT ![o[1]] = o[2]]
        BY <1>4 DEF Store
      <4>2. o[1] = n /\ o[2] = client
        BY <3>1
      <4> QED
        BY <4>1, <4>2
    <3>3. pc'[Starter] = "producers"
      BY <1>4, <2>1 DEF Store
    <3>4. Ready(Producers \ todo)'
      BY <1>4, <3>1, <3>2 DEF Store
    <3> QED
      BY <1>4, <2>1, <3>3, <3>4 DEF Store
  <2>2. CASE pc[Starter] = "storeConsumer"
    <3>1. PICK n \in Consumers \ todo : fresh = {<<n, client>>} /\ <<n, client>> \in live
                                       /\ Ready((Consumers \ todo) \ {n})
      BY <2>2
    <3>2. instances' = [instances EXCEPT ![n] = client]
      <4>1. PICK o \in fresh : instances' = [instances EXCEPT ![o[1]] = o[2]]
        BY <1>4 DEF Store
      <4>2. o[1] = n /\ o[2] = client
        BY <3>1
      <4> QED
        BY <4>1, <4>2
    <3>3. pc'[Starter] = "consumers"
      BY <1>4, <2>2 DEF Store
    <3>4. Ready(Consumers \ todo)' /\ Ready(Producers)'
      BY <1>4, <2>2, <3>1, <3>2 DEF Store
    <3> QED
      BY <1>4, <2>2, <3>3, <3>4 DEF Store
  <2> QED
    BY <1>4, <2>1, <2>2 DEF Store
<1>5. ASSUME Create \/ \E n \in Names : GetClient(n) PROVE Progress'
  BY <1>5 DEF Create, GetClient
<1>6. CASE StartManagers \/ RegisterSelf \/ VerifyHealth \/ PublishReady \/ Withdraw \/ ProbeExits
          \/ Reconnect
  <2>1. CASE StartManagers
    BY <2>1 DEF StartManagers, ConnectionStart
  <2>2. CASE RegisterSelf \/ VerifyHealth
    <3>1. UNCHANGED <<client, instances, live, connected>>
      BY <2>2 DEF RegisterSelf, VerifyHealth
    <3>2. /\ pc[Starter] \in {"register", "health"}
          /\ pc'[Starter] \in {"failed", "health", "publish"}
      BY <2>2 DEF RegisterSelf, VerifyHealth
    <3> QED
      BY <3>1, <3>2
  <2>3. CASE PublishReady \/ Withdraw \/ ProbeExits \/ Reconnect
    <3>1. CASE ProbeExits \/ Reconnect
      BY <3>1 DEF ProbeExits, Reconnect
    <3>2. CASE PublishReady \/ Withdraw
      <4>1. pc'[Starter] \in {"up", "failed"}
        BY <3>2 DEF PublishReady, Withdraw
      <4> QED
        BY <4>1
    <3> QED
      BY <2>3, <3>1, <3>2
  <2> QED
    BY <1>6, <2>1, <2>2, <2>3
<1>7. ASSUME NEW t \in Stops, BeginStop(t) \/ StopStep(t) PROVE Progress'
  <2>1. CASE BeginStop(t)
    BY <2>1 DEF BeginStop, Serial, Starting, Stopping
  <2>2. CASE MarkClosed(t)
    BY <2>2 DEF MarkClosed, Serial, Starting, Stopping
  <2>3. CASE StopManagers(t)
    BY <2>3 DEF StopManagers, ConnectionStop, Serial, Starting, Stopping
  <2> QED
    BY <1>7, <2>1, <2>2, <2>3 DEF StopStep
<1>8. ASSUME NEW t \in Threads, CloseStep(t) PROVE Progress'
  BY <1>8 DEF CloseStep, CloseConsumers, CloseProducers, CloseClient, Shut, Serial, Starting, Stopping,
              Closing
<1>9. CASE UNCHANGED vars
  BY <1>9 DEF vars
<1> QED
  BY <1>1, <1>2, <1>3, <1>4, <1>5, <1>6, <1>7, <1>8, <1>9 DEF Next, StartStep

\* Readiness is withdrawn before anything it vouches for changes.
LEMMA NextReadyShape ==
  ASSUME Overlap = FALSE, SInv, [Next]_vars
  PROVE  ReadyShape'
<1>0. TypeOK /\ (UNCHANGED contract => Announced' = Announced)
  BY DEF SInv, Inv, contract, Announced
<1> USE <1>0, Overlap = FALSE, LifecycleAssumption, PublishEffect
    DEF SInv, Inv, TypeOK, ReadyShape, Ready, Threads, Goto, core, managers
<1>1. CASE Initialize \/ BeginStart
  BY <1>1 DEF Initialize, NewConnectionManager, BeginStart
<1>2. CASE NewClient \/ CtxDone \/ Store \/ ProducersDone \/ ConsumersDone
  BY <1>2 DEF NewClient, CtxDone, Store, ProducersDone, ConsumersDone
<1>3. ASSUME Create \/ \E n \in Names : GetClient(n) PROVE ReadyShape'
  BY <1>3 DEF Create, GetClient
<1>4. CASE StartManagers \/ RegisterSelf \/ VerifyHealth \/ Withdraw \/ ProbeExits \/ Reconnect
  BY <1>4 DEF StartManagers, ConnectionStart, RegisterSelf, VerifyHealth, Withdraw, ProbeExits, Reconnect
<1>5. CASE PublishReady
  BY <1>5 DEF PublishReady, Progress, Serial, Starting
<1>6. ASSUME NEW t \in Stops, BeginStop(t) \/ StopStep(t) PROVE ReadyShape'
  BY <1>6 DEF BeginStop, StopStep, MarkClosed, StopManagers, ConnectionStop, Stopping
<1>7. ASSUME NEW t \in Threads, CloseStep(t) PROVE ReadyShape'
  BY <1>7 DEF CloseStep, CloseConsumers, CloseProducers, CloseClient, Stopping, Closing
<1>8. CASE UNCHANGED vars
  BY <1>8 DEF vars
<1> QED
  BY <1>1, <1>2, <1>3, <1>4, <1>5, <1>6, <1>7, <1>8 DEF Next, StartStep

\* A stop that has set p.closed never becomes idle again.
LEMMA NextClosedByStop == ASSUME Inv, ClosedByStop, [Next]_vars PROVE ClosedByStop'
<1> USE LifecycleAssumption DEF Inv, TypeOK, ClosedByStop, Threads, Goto
<1>1. CASE Initialize \/ BeginStart \/ ProbeExits \/ Reconnect
  BY <1>1 DEF Initialize, NewConnectionManager, BeginStart, ProbeExits, Reconnect
<1>2. CASE StartStep
  BY <1>2 DEF StartStep, NewClient, CtxDone, GetClient, Create, Store, ProducersDone, ConsumersDone,
              StartManagers, ConnectionStart, RegisterSelf, VerifyHealth, PublishReady, Withdraw
<1>3. ASSUME NEW t \in Stops, BeginStop(t) \/ StopStep(t) PROVE ClosedByStop'
  BY <1>3 DEF BeginStop, StopStep, MarkClosed, StopManagers, ConnectionStop
<1>4. ASSUME NEW t \in Threads, CloseStep(t) PROVE ClosedByStop'
  BY <1>4 DEF CloseStep, CloseConsumers, CloseProducers, CloseClient
<1>5. CASE UNCHANGED vars
  BY <1>5 DEF vars
<1> QED
  BY <1>1, <1>2, <1>3, <1>4, <1>5 DEF Next

\* What is announced works.
LEMMA ReadyWorks == ASSUME SInv, Announced # {} PROVE Working
<1>1. pc[Starter] = "up" /\ client # Nil /\ client \in clients /\ connected /\ Ready(Names)
  BY DEF SInv, Inv, ReadyShape, ClientPointerValid
<1>2. closed => Restarted
  BY DEF SInv, ReadyShape, ClosedByStop, Serial, Stopping, Restarted
<1> QED
  BY <1>1, <1>2 DEF Ready, Working, IsConnected

LEMMA SerialInvariance == ASSUME Overlap = FALSE PROVE Spec => []SInv
<1>1. SInv /\ Inv' /\ [Next]_vars => SInv'
  BY Overlap = FALSE, NextSerial, NextProgress, NextReadyShape, NextClosedByStop DEF SInv
<1> QED
  BY <1>1, InitSerial, Invariance, PTL DEF Spec

\* As long as lifecycle calls do not overlap, what the plugin announces can
\* be relied upon, through every failed start, restart, re-initialization
\* and failed registration: client, producers and consumers are open, and
\* before the first stop has returned IsConnected agrees.
THEOREM ReadinessSound ==
  ASSUME Overlap = FALSE
  PROVE  Spec => []ReadyMeansUp
<1>1. SInv => ReadyMeansUp
  BY ReadyWorks DEF ReadyMeansUp
<1> QED
  BY <1>1, SerialInvariance, PTL

\* Only the end of a start announces anything.
LEMMA OnlyPublishReady ==
  ASSUME TypeOK, [Next]_vars, ~PublishReady
  PROVE  Announced' = {} \/ UNCHANGED contract
<1> USE PublishEffect
<1>1. CASE Initialize \/ BeginStart \/ ProbeExits \/ Reconnect
  BY <1>1 DEF Initialize, NewConnectionManager, BeginStart, ProbeExits, Reconnect
<1>2. CASE StartStep
  BY <1>2 DEF StartStep, NewClient, CtxDone, GetClient, Create, Store, ProducersDone, ConsumersDone,
              StartManagers, ConnectionStart, RegisterSelf, VerifyHealth, Withdraw
<1>3. ASSUME NEW t \in Stops, BeginStop(t) \/ StopStep(t) PROVE Announced' = {} \/ UNCHANGED contract
  BY <1>3 DEF BeginStop, StopStep, MarkClosed, StopManagers, ConnectionStop
<1>4. ASSUME NEW t \in Threads, CloseStep(t) PROVE UNCHANGED contract
  BY <1>4 DEF CloseStep, CloseConsumers, CloseProducers, CloseClient
<1>5. CASE UNCHANGED vars
  BY <1>5 DEF vars
<1> QED
  BY <1>1, <1>2, <1>3, <1>4, <1>5 DEF Next

\* While something is announced, the plugin can only be stopped, and the first
\* step of a stop leaves it working.
LEMMA AnnouncedSteps ==
  ASSUME SInv, SInv', [Next]_vars, Announced # {}
  PROVE  Working' /\ Announced' \in {{}, Announced}
<1>1. pc[Starter] = "up" /\ started /\ client # Nil /\ connected /\ Ready(Names) /\ Working
      /\ \A t \in Stops : pc[t] \notin Stopping
  BY ReadyWorks DEF SInv, ReadyShape
<1>2. UNCHANGED contract => Announced' = Announced
  BY DEF contract, Announced
<1>3. UNCHANGED core /\ connected' = connected /\ closed' = closed
      /\ (\A t \in Stops : pc[t] = "stopped" => pc'[t] = "stopped") => Working'
  BY <1>1 DEF core, Working, IsConnected, Restarted
<1> USE <1>1, <1>2, <1>3, LifecycleAssumption DEF SInv, Inv, TypeOK, Goto, Stopping, Closing, Threads
<1>4. CASE Initialize \/ BeginStart \/ StartStep
  BY <1>4 DEF Initialize, BeginStart, StartStep, NewClient, CtxDone, GetClient, Create, Store, ProducersDone,
              ConsumersDone, StartManagers, RegisterSelf, VerifyHealth, PublishReady, Withdraw
<1>5. CASE ProbeExits \/ Reconnect
  BY <1>5 DEF ProbeExits, Reconnect
<1>6. ASSUME NEW t \in Stops, BeginStop(t) \/ StopStep(t) PROVE Working' /\ Announced' = {}
  BY <1>6, PublishEffect DEF BeginStop, StopStep, MarkClosed, StopManagers, managers
<1>7. ASSUME NEW t \in Threads, CloseStep(t) PROVE FALSE
  BY <1>7 DEF CloseStep, CloseConsumers, CloseProducers, CloseClient
<1>8. CASE UNCHANGED vars
  BY <1>8 DEF vars, managers
<1> QED
  BY <1>4, <1>5, <1>6, <1>7, <1>8 DEF Next

\* The plugin implements Readiness: between the announcement at the end of a
\* start and its withdrawal nothing that it vouches for changes.
THEOREM ReadinessImplemented ==
  ASSUME Overlap = FALSE
  PROVE  Spec => AnnouncesWorking
<1>1. Init => R!Init
  BY DEF Init, R!Init, Working, Announced
<1>2. SInv /\ SInv' /\ [Next]_vars => [R!Next]_(R!vars)
  <2> SUFFICES ASSUME SInv, SInv', [Next]_vars PROVE [R!Next]_(R!vars)
    OBVIOUS
  <2>1. Announced' \in SUBSET Contract /\ Working' \in BOOLEAN
    BY DEF Announced, Working
  <2>2. CASE Announced # {}
    <3>1. Working /\ Working' /\ Announced' \in {{}, Announced}
      BY <2>2, AnnouncedSteps, ReadyWorks
    <3> QED
      BY <3>1 DEF R!Next, R!Withdraw, R!vars
  <2>3. CASE Announced = {} /\ Announced' = {}
    BY <2>1, <2>3 DEF R!Next, R!Change
  <2>4. CASE Announced = {} /\ Announced' # {}
    <3>1. PublishReady
      BY <2>4, OnlyPublishReady DEF SInv, Inv, contract, Announced
    <3>2. UNCHANGED <<core, connected, closed>> /\ \A t \in Stops : pc'[t] = pc[t]
      BY <3>1, LifecycleAssumption DEF PublishReady, Goto, managers, SInv, Inv, TypeOK, Threads
    <3>3. PICK r : r \in Announced'
      BY <2>4
    <3>4. Working' /\ Working
      <4>1. /\ client' # Nil /\ client' \in clients' /\ connected' /\ Ready(Names)'
            /\ closed' => Restarted'
        BY <3>3 DEF SInv, Inv, ReadyShape, ClientPointerValid, ClosedByStop, Serial, Stopping, Restarted
      <4>2. Restarted' = Restarted
        BY <3>2 DEF Restarted
      <4> QED
        BY <3>2, <4>1, <4>2 DEF core, Ready, Working, IsConnected
    <3> QED
      BY <2>1, <2>4, <3>4 DEF R!Next, R!Announce
  <2> QED
    BY <2>2, <2>3, <2>4
<1> QED
  BY <1>1, <1>2, SerialInvariance, PTL DEF Spec, AnnouncesWorking, R!Spec

-----------------------------------------------------------------------------
(* What failed starts and stops leave behind                               *)

\* There is a client only while the plugin is started or starting, or being
\* stopped, and it is the only one.
OneClient ==
  /\ clients = {client} \ {Nil}
  /\ pc[Starter] \in {"new", "initialized", "client", "withdraw", "failed"} => client = Nil
  /\ Quiescent /\ ~started => client = Nil

\* Without overlap, and when the plugin can register itself, clients come
\* and go one at a time.
LEMMA NextOneClient ==
  ASSUME Overlap = FALSE, "self" \notin MayFail, Inv, Serial, Progress, OneClient, [Next]_vars
  PROVE  OneClient'
<1> USE Overlap = FALSE, "self" \notin MayFail, LifecycleAssumption
    DEF Inv, TypeOK, OneClient, Threads, Goto, core, managers, Quiescent, Starting, Stopping, Closing
<1>1. CASE Initialize \/ BeginStart
  BY <1>1 DEF Initialize, NewConnectionManager, BeginStart, Serial
<1>2. CASE NewClient
  <2>0. made + 1 # Nil
    BY DEF Nil
  <2>1. client = Nil /\ pc[Starter] = "client"
    BY <1>2 DEF NewClient
  <2>2. CASE pc'[Starter] = "failed"
    BY <1>2, <2>1, <2>2 DEF NewClient, Serial
  <2>3. CASE pc'[Starter] = "producers"
    <3>1. clients' = {made + 1} /\ client' = made + 1
      BY <1>2, <2>1, <2>3 DEF NewClient
    <3>2. started' /\ \A t \in Stops : pc'[t] = pc[t]
      BY <1>2, <2>1, <2>3 DEF NewClient, Serial
    <3> QED
      BY <2>0, <2>1, <2>3, <3>1, <3>2
  <2> QED
    BY <1>2, <2>2, <2>3 DEF NewClient
<1>3. CASE CtxDone \/ Store \/ ProducersDone \/ ConsumersDone
  BY <1>3 DEF CtxDone, Store, ProducersDone, ConsumersDone
<1>4. ASSUME Create \/ \E n \in Names : GetClient(n) PROVE OneClient'
  BY <1>4 DEF Create, GetClient
<1>5. CASE StartManagers \/ PublishReady \/ Withdraw \/ ProbeExits \/ Reconnect
  <2>1. UNCHANGED <<client, clients, started>>
    BY <1>5 DEF StartManagers, ConnectionStart, PublishReady, Withdraw,
              ProbeExits, Reconnect
  <2>2. CASE StartManagers
    BY <2>1, <2>2 DEF StartManagers, ConnectionStart, Serial
  <2>3. CASE PublishReady \/ Withdraw
    BY <2>1, <2>3 DEF PublishReady, Withdraw, Serial
  <2>4. CASE ProbeExits \/ Reconnect
    BY <2>1, <2>4 DEF ProbeExits, Reconnect
  <2> QED
    BY <1>5, <2>2, <2>3, <2>4
<1>6. CASE RegisterSelf \/ VerifyHealth
  BY <1>6 DEF RegisterSelf, VerifyHealth, Healthy, Progress
<1>7. ASSUME NEW t \in Stops, BeginStop(t) \/ StopStep(t) PROVE OneClient'
  <2>1. UNCHANGED <<client, clients>> /\ pc'[Starter] = pc[Starter] /\ pc'[t] \in Stopping
    BY <1>7 DEF BeginStop, StopStep, MarkClosed, StopManagers, ConnectionStop
  <2>2. ~Quiescent'
    BY <2>1
  <2> QED
    BY <2>1, <2>2
<1>8. ASSUME NEW t \in Threads, CloseStep(t) PROVE OneClient'
  BY <1>8 DEF CloseStep, CloseConsumers, CloseProducers, CloseClient, Serial
<1>9. CASE UNCHANGED vars
  BY <1>9 DEF vars
<1> QED
  BY <1>1, <1>2, <1>3, <1>4, <1>5, <1>6, <1>7, <1>8, <1>9 DEF Next, StartStep

\* Only the current checker of a plugin that is up, or coming up, has a probe
\* loop that nobody has told to stop, and only one; a stop that has begun
\* will tell it, and a stop past its managers has told it.
Probes ==
  /\ lost = 0
  /\ pc[Starter] = "new" => checker.probes = 0
  /\ checker.closes = 0 /\ checker.probes > 0 =>
       /\ checker.probes = 1
       /\ pc[Starter] \in {"register", "health", "publish", "up"}
       /\ started \/ \E t \in Stops : pc[t] \in {"mark", "stopManagers"}
  /\ \A t \in Stops : pc[t] \in Closing => checker.closes > 0 \/ checker.probes = 0

\* Every start is followed by a stop before the checker is started again or
\* replaced, and that stop reaches the loop.
LEMMA NextProbes ==
  ASSUME Overlap = FALSE, "self" \notin MayFail, Inv, Serial, Progress, Probes, [Next]_vars
  PROVE  Probes'
<1> USE Overlap = FALSE, "self" \notin MayFail, LifecycleAssumption
    DEF Inv, TypeOK, Probes, Serial, Threads, Goto, core, managers, Starting, Stopping, Closing
<1>1. CASE Initialize
  <2>1. checker.closes > 0 \/ checker.probes = 0
    BY <1>1 DEF Initialize, NewConnectionManager, Quiescent
  <2>2. lost' = 0 /\ checker'.probes = 0
    BY <1>1, <2>1 DEF Initialize, NewConnectionManager, NewHealthChecker
  <2>3. pc'[Starter] = "initialized"
    BY <1>1 DEF Initialize, NewConnectionManager
  <2> QED
    BY <2>2, <2>3
<1>2. CASE BeginStart
  BY <1>2 DEF BeginStart, Quiescent
<1>3. CASE NewClient \/ CtxDone \/ Store \/ ProducersDone \/ ConsumersDone
  BY <1>3 DEF NewClient, CtxDone, Store, ProducersDone, ConsumersDone
<1>4. ASSUME Create \/ \E n \in Names : GetClient(n) PROVE Probes'
  BY <1>4 DEF Create, GetClient
<1>5. CASE StartManagers
  <2>1. checker.closes > 0 \/ checker.probes = 0
    BY <1>5 DEF StartManagers, ConnectionStart
  <2>2. checker'.closes = checker.closes /\ checker'.probes \in {checker.probes, checker.probes + 1}
    BY <1>5 DEF StartManagers, ConnectionStart, CheckerStart
  <2>3. pc'[Starter] = "register" /\ started' /\ lost' = 0
    BY <1>5 DEF StartManagers, ConnectionStart
  <2>4. \A t \in Stops : pc'[t] \notin Closing
    BY <1>5 DEF StartManagers, ConnectionStart
  <2> QED
    BY <2>1, <2>2, <2>3, <2>4
<1>6. CASE RegisterSelf \/ VerifyHealth \/ PublishReady \/ Withdraw
  BY <1>6 DEF RegisterSelf, VerifyHealth, PublishReady, Withdraw, Healthy, Progress
<1>7. CASE ProbeExits
  <2>1. checker'.closes > 0 /\ UNCHANGED <<lost, pc, started>>
    BY <1>7 DEF ProbeExits
  <2>2. pc[Starter] # "new"
    BY <1>7 DEF ProbeExits
  <2> QED
    BY <2>1, <2>2
<1>8. CASE Reconnect
  BY <1>8 DEF Reconnect
<1>9. ASSUME NEW t \in Stops, BeginStop(t) \/ StopStep(t) PROVE Probes'
  <2>1. CASE BeginStop(t)
    BY <2>1 DEF BeginStop
  <2>2. CASE MarkClosed(t)
    BY <2>2 DEF MarkClosed
  <2>3. CASE StopManagers(t)
    BY <2>3 DEF StopManagers, ConnectionStop, CheckerStop
  <2> QED
    BY <1>9, <2>1, <2>2, <2>3 DEF StopStep
<1>10. ASSUME NEW t \in Threads, CloseStep(t) PROVE Probes'
  BY <1>10 DEF CloseStep, CloseConsumers, CloseProducers, CloseClient
<1>11. CASE UNCHANGED vars
  BY <1>11 DEF vars
<1> QED
  BY <1>1, <1>2, <1>3, <1>4, <1>5, <1>6, <1>7, <1>8, <1>9, <1>10, <1>11 DEF Next, StartStep

\* No producer or consumer outlives the client that made it: without overlap
\* the client is open whenever a creation returns.
LiveHasClient == \A o \in live : o[2] \in clients

LEMMA NextLiveHasClient ==
  ASSUME Inv, Progress, LiveHasClient, [Next]_vars
  PROVE  LiveHasClient'
<1> USE LifecycleAssumption DEF Inv, TypeOK, LiveHasClient, core, managers
<1>1. CASE NewClient
  BY <1>1 DEF NewClient
<1>2. CASE Create
  <2>1. pc[Starter] \in {"createProducer", "createConsumer"}
    BY <1>2 DEF Create, Goto
  <2>2. client \in clients /\ \E n \in Names : fresh = {<<n, client>>}
    BY <2>1 DEF Progress, ClientPointerValid, Names
  <2>3. clients' = clients /\ live' \subseteq live \cup fresh
    BY <1>2 DEF Create
  <2> QED
    BY <2>2, <2>3
<1>3. ASSUME NEW t \in Threads, CloseStep(t) PROVE LiveHasClient'
  BY <1>3 DEF CloseStep, CloseConsumers, CloseProducers, CloseClient, Shut
<1>4. CASE Initialize \/ BeginStart \/ ProbeExits \/ Reconnect
  BY <1>4 DEF Initialize, NewConnectionManager, BeginStart, ProbeExits, Reconnect
<1>5. CASE StartStep /\ ~NewClient /\ ~Create
  BY <1>5 DEF StartStep, CtxDone, GetClient, Store, ProducersDone, ConsumersDone, StartManagers,
              ConnectionStart, RegisterSelf, VerifyHealth, PublishReady, Withdraw
<1>6. ASSUME NEW t \in Stops, BeginStop(t) \/ StopStep(t) PROVE LiveHasClient'
  BY <1>6 DEF BeginStop, StopStep, MarkClosed, StopManagers, ConnectionStop
<1>7. CASE UNCHANGED vars
  BY <1>7 DEF vars
<1> QED
  BY <1>1, <1>2, <1>3, <1>4, <1>5, <1>6, <1>7 DEF Next

\* The invariant of this part.  Readiness plays no role in it, so the
\* contract's registrations may fail.
CInv == Inv /\ Serial /\ Progress /\ OneClient /\ Probes /\ LiveHasClient

LEMMA OneClientInvariance ==
  ASSUME Overlap = FALSE, "self" \notin MayFail
  PROVE  Spec => []CInv
<1>1. Init => CInv
  BY InitSerial, LifecycleAssumption
  DEF Init, SInv, CInv, OneClient, Probes, LiveHasClient, NewHealthChecker, Quiescent, Starting, Stopping, Closing,
      Threads
<1>2. CInv /\ Inv' /\ [Next]_vars => CInv'
  BY Overlap = FALSE, "self" \notin MayFail, NextSerial, NextProgress, NextOneClient, NextProbes,
     NextLiveHasClient
  DEF CInv
<1> QED
  BY <1>1, <1>2, Invariance, PTL DEF Spec

\* A cleanup returns from closing the client, and from nowhere else.
LEMMA OnlyCloseClientStops ==
  ASSUME Inv, [Next]_vars, NEW t \in Stops, pc[t] = "closeClient", pc'[t] = "stopped"
  PROVE  CloseClient(t)
<1> USE LifecycleAssumption DEF Inv, TypeOK, Threads, Goto
<1>1. CASE Initialize \/ BeginStart \/ ProbeExits \/ Reconnect
  BY <1>1 DEF Initialize, NewConnectionManager, BeginStart, ProbeExits, Reconnect
<1>2. CASE StartStep
  BY <1>2 DEF StartStep, NewClient, CtxDone, GetClient, Create, Store, ProducersDone, ConsumersDone,
              StartManagers, ConnectionStart,
              RegisterSelf, VerifyHealth, PublishReady, Withdraw
<1>3. ASSUME NEW u \in Stops, BeginStop(u) \/ StopStep(u) PROVE FALSE
  BY <1>3 DEF BeginStop, StopStep, MarkClosed, StopManagers, ConnectionStop
<1>4. ASSUME NEW u \in Threads, CloseStep(u) PROVE CloseClient(t)
  BY <1>4 DEF CloseStep, CloseConsumers, CloseProducers, CloseClient
<1>5. CASE UNCHANGED vars
  BY <1>5 DEF vars
<1> QED
  BY <1>1, <1>2, <1>3, <1>4, <1>5 DEF Next

\* A start that fails, for any reason but the registration of the plugin
\* itself, leaves nothing open.
THEOREM FailedStartClean ==
  ASSUME Overlap = FALSE, "self" \notin MayFail
  PROVE  Spec => []FailedStartIsClean
<1>1. CInv => FailedStartIsClean
  <2> SUFFICES ASSUME CInv, pc[Starter] = "failed" PROVE clients = {} /\ live = {}
    BY DEF FailedStartIsClean
  <2> QED
    BY DEF CInv, OneClient, LiveHasClient
<1> QED
  BY <1>1, OneClientInvariance, PTL

\* A stop that returns, also one that runs together with another stop,
\* leaves nothing open, no probe loop that was not told to stop, and a plugin
\* that reports itself unusable.
THEOREM StopComplete ==
  ASSUME Overlap = FALSE, "self" \notin MayFail
  PROVE  Spec => StopIsComplete
<1> DEFINE A == \A t \in Stops : pc[t] = "closeClient" /\ pc'[t] = "stopped"
                  => /\ clients' = {} /\ live' = {}
                     /\ checker'.probes > 0 => checker'.closes > 0
                     /\ ~Healthy' /\ ~IsConnected'
<1>1. CInv /\ CInv' /\ [Next]_vars => [A]_vars
  <2> SUFFICES ASSUME CInv, CInv', [Next]_vars,
                      NEW t \in Stops, pc[t] = "closeClient", pc'[t] = "stopped"
               PROVE  /\ clients' = {} /\ live' = {}
                      /\ checker'.probes > 0 => checker'.closes > 0
                      /\ ~Healthy' /\ ~IsConnected'
    OBVIOUS
  <2>1. CloseClient(t)
    BY OnlyCloseClientStops DEF CInv
  <2>2. clients' = {} /\ client' = Nil
    BY <2>1 DEF CloseClient, CInv, OneClient
  <2>3. live' = {}
    BY <2>2 DEF CInv, LiveHasClient
  <2>4. checker' = checker /\ checker.probes \in Nat
    BY <2>1 DEF CloseClient, managers, CInv, Inv, TypeOK
  <2>5. checker.closes > 0 \/ checker.probes = 0
    BY DEF CInv, Probes, Closing
  <2> QED
    BY <2>2, <2>3, <2>4, <2>5 DEF Healthy, IsConnected
<1> QED
  BY <1>1, OneClientInvariance, PTL DEF Spec, StopIsComplete

\* Under the same assumptions probe loops never pile up, however often the
\* plugin is initialized, started and stopped.
THEOREM ProbesSingle ==
  ASSUME Overlap = FALSE, "self" \notin MayFail
  PROVE  Spec => []OneProbeLoop
<1>1. CInv => OneProbeLoop
  BY DEF CInv, Inv, TypeOK, Probes, OneProbeLoop
<1> QED
  BY <1>1, OneClientInvariance, PTL
=============================================================================
