----------------------------- MODULE Lifecycle -----------------------------
(***************************************************************************)
(* Starting and stopping the plugin: InitializeResources,                  *)
(* startupWithContext with every point at which it can fail,               *)
(* cleanupWithContext, the health checker and the connection manager, and  *)
(* the readiness contract published to the framework.                      *)
(*                                                                         *)
(* One goroutine starts the plugin, possibly again after a failure or a    *)
(* stop; the members of Stops are calls of cleanupWithContext.  Receive    *)
(* loops, and what stopReceivers does to them, are in ReceiveLoops.        *)
(* Objects of the client library are named after the client that made      *)
(* them: clients are numbered from 1 in the order they are created.        *)
(***************************************************************************)
EXTENDS Naturals, FiniteSets

CONSTANTS
  Producers,       \* names of the enabled producers
  Consumers,       \* names of the enabled consumers
  Stops,           \* calls of cleanupWithContext
  Starter,         \* the goroutine in startupWithContext
  MaxClients,      \* bound on the clients created
  ProbeEnabled,    \* monitoring.enable_health_check
  MayFail,         \* runtime registrations that may fail: "self", "contract"
  Overlap          \* whether a stop may begin while a start is running

Names   == Producers \cup Consumers
Threads == Stops \cup {Starter}
Gens    == 1 .. MaxClients

\* What the framework reads; each is a shared and a private resource.
Contract == {"readiness", "health"}

\* No client, or no instance registered under a name.
Nil == 0

ASSUME LifecycleAssumption ==
  /\ Producers \cap Consumers = {}
  /\ Starter \notin Stops
  /\ MaxClients \in Nat
  /\ ProbeEnabled \in BOOLEAN /\ Overlap \in BOOLEAN
  /\ MayFail \in SUBSET {"self", "contract"}

VARIABLES
  client,          \* p.client: number of the current client, or Nil
  clients,         \* the clients that are open
  made,            \* clients created so far
  instances,       \* p.producers and p.consumers: name -> maker, or Nil
  live,            \* the <<name, maker>> instances that are open
  closed,          \* p.closed; closeChan is closed just before it is set
  checker,         \* p.healthChecker: how often its stopChan was closed, and
                   \* how many probe loops it runs
  lost,            \* probe loops whose checker was replaced before it was stopped
  connected,       \* p.connectionManager.connected
  offered,         \* p.connectionManager is registered as a private resource
  started,         \* the framework's view: started, and not stopped since
  ready,           \* the runtime's value of each resource of the contract
  stale,           \* those whose last registration has failed
  pc,              \* control of each thread
  todo, fresh      \* startup: names still to create, the instance to store

core == <<client, clients, made, instances, live>>
managers == <<checker, lost, connected, offered>>
contract == <<ready, stale>>
vars == <<core, closed, managers, started, contract, pc, todo, fresh>>

Closing == {"closeConsumers", "closeProducers", "closeClient"}

\* Startup is between its first and its last step.
Starting == {"client", "producers", "createProducer", "storeProducer",
             "consumers", "createConsumer", "storeConsumer", "managers",
             "register", "health", "publish", "withdraw"} \cup Closing

\* A cleanup is between its first and its last step.
Stopping == {"mark", "stopManagers"} \cup Closing

ThreadState == {"new", "initialized", "up", "failed"} \cup Starting
               \cup {"idle", "stopped"} \cup Stopping

\* The health checker: a new one, after Start (one more goroutine in run),
\* and after Stop, which stopOnce keeps from closing stopChan again.
NewHealthChecker == [closes |-> 0, probes |-> 0]
CheckerStart(h) == [h EXCEPT !.probes = @ + 1]
CheckerStopForgotten(h) == h
CheckerStopUnguarded(h) == [h EXCEPT !.closes = @ + 1]
CheckerStop(h) == IF h.closes = 0 THEN [h EXCEPT !.closes = 1] ELSE h

\* Every variable keeps its type.  In particular the stop channel of a health
\* checker is closed once at most, however many stops run together or follow
\* each other: closing a closed channel panics.
TypeOK ==
  /\ client \in Gens \cup {Nil}
  /\ clients \in SUBSET Gens
  /\ made \in 0 .. MaxClients
  /\ instances \in [Names -> Gens \cup {Nil}]
  /\ live \in SUBSET (Names \X Gens)
  /\ closed \in BOOLEAN
  /\ checker \in [closes : {0, 1}, probes : Nat]
  /\ lost \in Nat
  /\ connected \in BOOLEAN /\ offered \in BOOLEAN
  /\ started \in BOOLEAN
  /\ ready \in [Contract -> BOOLEAN] /\ stale \in SUBSET Contract
  /\ pc \in [Threads -> ThreadState]
  /\ todo \in SUBSET Names
  /\ fresh \in SUBSET (Names \X Gens)

Init ==
  /\ client = Nil /\ clients = {} /\ made = 0
  /\ instances = [n \in Names |-> Nil]
  /\ live = {}
  /\ closed = FALSE
  /\ checker = NewHealthChecker
  /\ lost = 0
  /\ connected = FALSE /\ offered = FALSE
  /\ started = FALSE /\ ready = [r \in Contract |-> FALSE] /\ stale = {}
  /\ pc = [t \in Threads |-> IF t = Starter THEN "new" ELSE "idle"]
  /\ todo = {} /\ fresh = {}

-----------------------------------------------------------------------------
Goto(t, from, to) ==
  /\ pc[t] = from
  /\ pc' = [pc EXCEPT ![t] = to]

\* publishRuntimeContract registers one value under each name.  A
\* registration that fails is only logged, and the runtime keeps the value
\* it had.
Publish(v) ==
  \E S \in SUBSET Contract :
    /\ "contract" \notin MayFail => S = {}
    /\ ready' = [r \in Contract |-> IF r \in S THEN ready[r] ELSE v]
    /\ stale' = S

\* No start and no stop is running.
Quiescent == pc[Starter] \notin Starting /\ \A t \in Stops : pc[t] \notin Stopping

\* The connection manager: a new one, Start and Stop.
NewConnectionManager == connected' = FALSE /\ offered' = FALSE
ConnectionStart == connected' = TRUE /\ UNCHANGED offered
ConnectionStop == connected' = FALSE /\ UNCHANGED offered

-----------------------------------------------------------------------------
(* InitializeResources and startupWithContext                              *)

\* The configuration is loaded and the managers are built; on an error in
\* the framework's part or in the configuration nothing is replaced.
Initialize ==
  /\ Quiescent
  /\ \/ pc[Starter] = "new"
     \/ pc[Starter] = "failed" \/ (pc[Starter] = "up" /\ ~started)
  /\ pc' = [pc EXCEPT ![Starter] = "initialized"]
  /\ checker' = NewHealthChecker
  /\ lost' = IF checker.closes > 0 THEN lost ELSE lost + checker.probes
  /\ NewConnectionManager
  /\ UNCHANGED <<core, closed, started, contract, todo, fresh>>

\* Startup begins: after InitializeResources, again after a start that
\* failed, or again after a stop.  A context that is already done changes
\* nothing.
BeginStart ==
  /\ Overlap \/ Quiescent
  /\ pc[Starter] \in {"initialized", "failed"} \/ (pc[Starter] = "up" /\ ~started)
  /\ started' = TRUE
  /\ pc' = [pc EXCEPT ![Starter] = "client"]
  /\ Publish(FALSE)
  /\ UNCHANGED <<core, closed, managers, todo, fresh>>

\* pulsar.NewClient and setClient.
NewClient ==
  /\ \/ /\ Goto(Starter, "client", "failed")
        /\ Publish(FALSE)
        /\ UNCHANGED <<client, clients, made, todo>>
     \/ /\ made < MaxClients
        /\ Goto(Starter, "client", "producers")
        /\ made' = made + 1
        /\ client' = made + 1
        /\ clients' = clients \cup {made + 1}
        /\ todo' = Producers
        /\ UNCHANGED contract
  /\ UNCHANGED <<instances, live, closed, managers, started, fresh>>

\* The two context checks, before and after the producers are created.
CtxDoneUndone ==
  /\ todo \in {Producers, {}}
  /\ Goto(Starter, "producers", "failed")
  /\ UNCHANGED <<core, closed, managers, started, contract, todo, fresh>>
CtxDone ==
  /\ todo \in {Producers, {}}
  /\ Goto(Starter, "producers", "closeConsumers")
  /\ UNCHANGED <<core, closed, managers, started, contract, todo, fresh>>

\* createProducer or createConsumer reads the client pointer, and fails if
\* there is none.
GetClient(n) ==
  /\ n \in todo
  /\ \/ /\ client = Nil
        /\ Goto(Starter, "producers", "closeConsumers") \/ Goto(Starter, "consumers", "closeConsumers")
        /\ UNCHANGED <<todo, fresh>>
     \/ /\ client # Nil
        /\ Goto(Starter, "producers", "createProducer") \/ Goto(Starter, "consumers", "createConsumer")
        /\ fresh' = {<<n, client>>}
        /\ todo' = todo \ {n}
  /\ UNCHANGED <<core, closed, managers, started, contract>>

\* client.CreateProducer or client.Subscribe returns: it may fail, and it may
\* succeed even when the client has been closed since it was read.
Create ==
  /\ \/ /\ \/ Goto(Starter, "createProducer", "closeConsumers")
           \/ Goto(Starter, "createConsumer", "closeConsumers")
        /\ fresh' = {}
        /\ UNCHANGED live
     \/ /\ \/ Goto(Starter, "createProducer", "storeProducer")
           \/ Goto(Starter, "createConsumer", "storeConsumer")
        /\ live' = live \cup fresh
        /\ UNCHANGED fresh
  /\ UNCHANGED <<client, clients, made, instances, closed, managers, started, contract, todo>>

\* The new instance is stored under its name.
StoreForgotten ==
  /\ Goto(Starter, "storeProducer", "producers") \/ Goto(Starter, "storeConsumer", "consumers")
  /\ fresh' = {}
  /\ UNCHANGED <<client, clients, made, instances, live, closed, managers, started, contract, todo>>
Store ==
  /\ Goto(Starter, "storeProducer", "producers") \/ Goto(Starter, "storeConsumer", "consumers")
  /\ \E o \in fresh : instances' = [instances EXCEPT ![o[1]] = o[2]]
  /\ fresh' = {}
  /\ UNCHANGED <<client, clients, made, live, closed, managers, started, contract, todo>>

ProducersDone ==
  /\ todo = {}
  /\ Goto(Starter, "producers", "consumers")
  /\ todo' = Consumers
  /\ UNCHANGED <<core, closed, managers, started, contract, fresh>>

ConsumersDone ==
  /\ todo = {}
  /\ Goto(Starter, "consumers", "managers")
  /\ UNCHANGED <<core, closed, managers, started, contract, todo, fresh>>

\* healthChecker.Start launches one more probe loop; connectionManager.Start
\* marks the connection active.
StartManagers ==
  /\ Goto(Starter, "managers", "register")
  /\ checker' = IF ProbeEnabled THEN CheckerStart(checker) ELSE checker
  /\ ConnectionStart
  /\ UNCHANGED <<core, closed, lost, started, contract, todo, fresh>>

\* RegisterSharedResource(pluginName, p): an error returns without closing
\* anything.  The other registrations, the connection manager's among them,
\* only log their errors.
RegisterSelf ==
  /\ \/ /\ "self" \in MayFail
        /\ Goto(Starter, "register", "failed")
        /\ Publish(FALSE)
        /\ UNCHANGED offered
     \/ /\ Goto(Starter, "register", "health")
        /\ offered' = TRUE
        /\ UNCHANGED contract
  /\ UNCHANGED <<core, closed, checker, lost, connected, started, todo, fresh>>

\* CheckHealth, which looks at the client and at the connection flag.
Healthy == client # Nil /\ connected
VerifyHealth ==
  /\ \/ /\ ~Healthy
        /\ Goto(Starter, "health", "failed")
        /\ Publish(FALSE)
     \/ /\ Healthy
        /\ Goto(Starter, "health", "publish")
        /\ UNCHANGED contract
  /\ UNCHANGED <<core, closed, managers, started, todo, fresh>>

PublishReady ==
  /\ Goto(Starter, "publish", "up")
  /\ Publish(TRUE)
  /\ UNCHANGED <<core, closed, managers, started, todo, fresh>>

-----------------------------------------------------------------------------
(* cleanupWithContext                                                      *)

\* The contract is withdrawn first.  A context that is already done changes
\* nothing.
BeginStopSilent(t) ==
  /\ Overlap \/ pc[Starter] \notin Starting
  /\ Goto(t, "idle", "mark")
  /\ started' = FALSE
  /\ UNCHANGED <<core, closed, managers, contract, todo, fresh>>
BeginStop(t) ==
  /\ Overlap \/ pc[Starter] \notin Starting
  /\ Goto(t, "idle", "mark")
  /\ started' = FALSE
  /\ Publish(FALSE)
  /\ UNCHANGED <<core, closed, managers, todo, fresh>>

\* closeChan is closed (once) and p.closed is set.
MarkClosed(t) ==
  /\ Goto(t, "mark", "stopManagers")
  /\ closed' = TRUE
  /\ UNCHANGED <<core, managers, started, contract, todo, fresh>>

\* healthChecker.Stop and connectionManager.Stop, if they were built.
StopManagers(t) ==
  /\ Goto(t, "stopManagers", "closeConsumers")
  /\ checker' = IF pc[Starter] = "new" THEN checker ELSE CheckerStop(checker)
  /\ ConnectionStop
  /\ UNCHANGED <<core, closed, lost, started, contract, todo, fresh>>

\* A probe loop sees the closed stop channel and ends.
ProbeExits ==
  /\ checker.closes > 0 /\ checker.probes > 0
  /\ checker' = [checker EXCEPT !.probes = @ - 1]
  /\ UNCHANGED <<core, closed, lost, connected, offered, started, contract, pc, todo, fresh>>

\* Reconnect: whoever has the connection manager from the runtime sets the
\* flag, at any time, also after a stop.
Reconnect ==
  /\ offered
  /\ connected' = TRUE
  /\ UNCHANGED <<core, closed, checker, lost, offered, started, contract, pc, todo, fresh>>

-----------------------------------------------------------------------------
(* closeAllResources, on both paths                                        *)

\* The registered instances are closed and the map is reset, under its lock.
ShutKept(S) ==
  /\ live' = live \ {<<n, instances[n]>> : n \in S}
  /\ UNCHANGED instances
Shut(S) ==
  /\ live' = live \ {<<n, instances[n]>> : n \in S}
  /\ instances' = [n \in Names |-> IF n \in S THEN Nil ELSE instances[n]]

CloseConsumers(t) ==
  /\ Goto(t, "closeConsumers", "closeProducers")
  /\ Shut(Consumers)
  /\ UNCHANGED <<client, clients, made, closed, managers, started, contract, todo, fresh>>

CloseProducers(t) ==
  /\ Goto(t, "closeProducers", "closeClient")
  /\ Shut(Producers)
  /\ UNCHANGED <<client, clients, made, closed, managers, started, contract, todo, fresh>>

\* client.Close() also closes whatever the client has handed out.
CloseClientKept(t) ==
  /\ Goto(t, "closeClient", IF t = Starter THEN "withdraw" ELSE "stopped")
  /\ clients' = clients \ {client}
  /\ live' = {o \in live : o[2] # client}
  /\ UNCHANGED <<client, made, instances, closed, managers, started, contract, todo, fresh>>
CloseClient(t) ==
  /\ Goto(t, "closeClient", IF t = Starter THEN "withdraw" ELSE "stopped")
  /\ clients' = clients \ {client}
  /\ live' = {o \in live : o[2] # client}
  /\ client' = Nil
  /\ UNCHANGED <<made, instances, closed, managers, started, contract, todo, fresh>>

\* startupWithContext withdraws the contract and returns its error.
Withdraw ==
  /\ Goto(Starter, "withdraw", "failed")
  /\ Publish(FALSE)
  /\ UNCHANGED <<core, closed, managers, started, todo, fresh>>

-----------------------------------------------------------------------------
StartStep ==
  \/ NewClient \/ CtxDone \/ (\E n \in Names : GetClient(n)) \/ Create \/ Store \/ ProducersDone
  \/ ConsumersDone \/ StartManagers \/ RegisterSelf \/ VerifyHealth \/ PublishReady \/ Withdraw
StopStep(t) == MarkClosed(t) \/ StopManagers(t)
CloseStep(t) == CloseConsumers(t) \/ CloseProducers(t) \/ CloseClient(t)

Next ==
  \/ Initialize \/ BeginStart \/ StartStep \/ ProbeExits \/ Reconnect
  \/ \E t \in Stops : BeginStop(t) \/ StopStep(t)
  \/ \E t \in Threads : CloseStep(t)

Spec == Init /\ [][Next]_vars

-----------------------------------------------------------------------------
\* IsConnected(), as the application sees it.
IsConnected == ~closed /\ client # Nil /\ connected

\* The plugin has been stopped before.
Restarted == \E t \in Stops : pc[t] = "stopped"

\* The plugin works: the client is open and marked connected, every enabled
\* producer and consumer is registered, open, and of this client, and
\* IsConnected says so, which is to say that Subscribe calls are not refused.
\* The last does not hold of a plugin that is started again after a stop:
\* startup does not reset p.closed (ReadyMeansConnected).
Working ==
  /\ client \in clients /\ connected
  /\ \A n \in Names : instances[n] = client /\ <<n, client>> \in live
  /\ IsConnected \/ Restarted

\* What the plugin vouches for: the resources that say yes, not counting
\* those that say so because their withdrawal could not be registered.
Announced == {r \in Contract : ready[r]} \ stale

\* Whoever reads readiness or health = true finds the plugin working, unless
\* the last registration of that resource has failed.  In a plugin that was
\* stopped before, working does not include IsConnected.
ReadyMeansUp == Announced # {} => Working

\* The plugin announces itself only when it works, and withdraws what it
\* announced before anything changes.
R == INSTANCE Readiness WITH Resources <- Contract, working <- Working, announced <- Announced
AnnouncesWorking == R!Spec

\* "IsConnected reports whether the Pulsar client is ready and connected": a
\* plugin that has published its readiness is reported connected.
ReadyMeansConnected == Announced # {} => IsConnected

\* A start that has failed leaves no client, producer or consumer open ("to
\* avoid leaking partially-created resources").  Not so when the failure is
\* that of RegisterSharedResource.
FailedStartIsClean == pc[Starter] = "failed" => clients = {} /\ live = {}

\* When a stop returns it leaves nothing behind: no client, no producer or
\* consumer, and no probe loop that has not been told to stop.  Neither
\* CheckHealth nor IsConnected calls the plugin usable, even when a Reconnect
\* has set the connection flag again meanwhile.
StopIsComplete ==
  [][\A t \in Stops : pc[t] = "closeClient" /\ pc'[t] = "stopped"
       => /\ clients' = {} /\ live' = {}
          /\ checker'.probes > 0 => checker'.closes > 0
          /\ ~Healthy' /\ ~IsConnected']_vars

\* Even when starts and stops overlap, p.client never points to a client
\* that has been closed: closing and resetting are one critical section.
ClientPointerValid == client # Nil => client \in clients

\* Even then what GetProducer or GetConsumer would find under a name is open,
\* as long as its client is: a teardown that overtakes a start closes exactly
\* what it takes out of the maps.
RegisteredIsOpen == \A n \in Names : instances[n] \in clients => <<n, instances[n]>> \in live

\* However often the plugin is initialized, started and stopped, there is
\* one probe loop at most that has not been told to stop, and it belongs to
\* the current checker.
OneProbeLoop == lost = 0 /\ (checker.closes = 0 => checker.probes <= 1)
=============================================================================
