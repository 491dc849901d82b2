---------------------------- MODULE ReceiveLoops ----------------------------
(***************************************************************************)
(* The consuming side of the plugin: the consumer and subscription         *)
(* registries, the calls that start a receive loop (SubscribeWith,         *)
(* SubscribeWithRegex), the loops themselves, Unsubscribe, and the two     *)
(* paths that tear everything down (cleanupWithContext and a failed        *)
(* startupWithContext).                                                    *)
(*                                                                         *)
(* A member of Calls is one call of a Subscribe method together with the   *)
(* goroutine it spawns: the call ends where the goroutine begins.  A step  *)
(* is what a goroutine does inside one critical section, or between two    *)
(* accesses to shared state.  Messages carry no data here: a loop may      *)
(* receive one at any time.  Producers are not part of this module.        *)
(***************************************************************************)
EXTENDS Naturals, FiniteSets

CONSTANTS
  Configured,      \* names of the enabled consumers in the configuration
  Patterns,        \* registry keys of regex subscriptions, "regex:<pattern>"
  PlainCalls,      \* calls of SubscribeWith (and Subscribe)
  RegexCalls,      \* calls of SubscribeWithRegex
  Unsubscribers,   \* calls of Unsubscribe
  Cleaners,        \* calls of cleanupWithContext
  Starter,         \* the goroutine in startupWithContext
  StartupMayFail,  \* whether creating the client or a consumer may fail at startup
  None             \* nil, or an absent map entry

Calls     == PlainCalls \cup RegexCalls
Keys      == Configured \cup Patterns
Teardowns == Cleaners \cup {Starter}

\* The consumer objects: startup makes one per configured name and each
\* SubscribeWithRegex call makes one, so they are named after their maker.
Handles   == Configured \cup RegexCalls

ASSUME ConstantsAssumption ==
  /\ IsFiniteSet(Calls)
  /\ PlainCalls \cap RegexCalls = {}
  /\ Configured \cap Patterns = {}
  /\ Configured \cap RegexCalls = {}
  /\ Starter \notin Cleaners
  /\ None \notin Calls \cup Keys \cup Handles
  /\ StartupMayFail \in BOOLEAN

VARIABLES
  consumers,       \* p.consumers: key -> consumer object, or None
  subscriptions,   \* p.subscriptions: key -> the call whose cancel is stored
  closed,          \* p.closed
  closeChan,       \* p.closeChan has been closed
  client,          \* p.client is non-nil; the object is closed when it is reset
  recvWG,          \* counter of p.recvWG
  ctxDone,         \* the calls whose loopCtx is done
  handle,          \* state of each consumer object of the client library
  pc, key, source, \* per call: control, registry key, consumer it drains
  tpc, cancels,    \* per teardown: control, cancel funcs it collected
  fresh,           \* startup: name of the consumer being created
  upc, held        \* per Unsubscribe: control, consumer taken from the map

registry == <<consumers, subscriptions>>
callVars == <<pc, key, source>>
downVars == <<tpc, cancels, fresh>>
unsubVars == <<upc, held>>
flags    == <<closed, closeChan, client>>
vars == <<registry, flags, recvWG, ctxDone, handle, callVars, downVars, unsubVars>>

\* A stray consumer comes from a client that was closed while Subscribe was
\* in flight: client.Close() did not know of it.
HandleState == {"absent", "open", "stray", "unsubscribed", "closed"}

CallState == {"idle", "checked", "haveClient", "dialled", "duplicate", "registered",
              "select", "received", "handling", "exiting", "leaving",
              "ended", "refused"}

\* A goroutine between recvWG.Add(1) and recvWG.Done().
Counted == {"select", "received", "handling", "exiting", "leaving"}

\* A goroutine whose deferred function has not yet left the registry.
Live == {"registered", "select", "received", "handling", "exiting"}

\* A teardown that is past recvWG.Wait().
Drained == {"closeConsumers", "closeClient", "done"}

Collected == {"cancel", "wait", "blocked", "released", "panicked"} \cup Drained

StarterState == {"boot", "creating", "created", "up"}
CleanerState == {"idle", "marked"}
TeardownState == StarterState \cup CleanerState \cup {"collect"} \cup Collected

Dispatching == {c \in Calls : pc[c] = "handling"}

TypeOK ==
  /\ consumers \in [Keys -> Handles \cup {None}]
  /\ subscriptions \in [Keys -> Calls \cup {None}]
  /\ closed \in BOOLEAN /\ closeChan \in BOOLEAN /\ client \in BOOLEAN
  /\ recvWG \in Nat
  /\ ctxDone \in SUBSET Calls
  /\ handle \in [Handles -> HandleState]
  /\ pc \in [Calls -> CallState]
  /\ key \in [Calls -> Keys \cup {None}]
  /\ source \in [Calls -> Handles \cup {None}]
  /\ tpc \in [Teardowns -> TeardownState]
  /\ cancels \in [Teardowns -> SUBSET Calls]
  /\ fresh \in Configured \cup {None}
  /\ upc \in [Unsubscribers -> {"idle", "taken", "done"}]
  /\ held \in [Unsubscribers -> Handles \cup {None}]

Init ==
  /\ consumers = [k \in Keys |-> None]
  /\ subscriptions = [k \in Keys |-> None]
  /\ closed = FALSE /\ closeChan = FALSE /\ client = FALSE
  /\ recvWG = 0
  /\ ctxDone = {}
  /\ handle = [h \in Handles |-> "absent"]
  /\ pc = [c \in Calls |-> "idle"]
  /\ key = [c \in Calls |-> None]
  /\ source = [c \in Calls |-> None]
  /\ tpc = [t \in Teardowns |-> IF t = Starter THEN "boot" ELSE "idle"]
  /\ cancels = [t \in Teardowns |-> {}]
  /\ fresh = None
  /\ upc = [u \in Unsubscribers |-> "idle"]
  /\ held = [u \in Unsubscribers |-> None]

-----------------------------------------------------------------------------
(* Starting a subscription                                                 *)

Goto(c, from, to) ==
  /\ pc[c] = from
  /\ pc' = [pc EXCEPT ![c] = to]

\* The nil-handler test and the isClosed test both methods open with.  The
\* name is the caller's; Subscribe passes one it read from the registry.
Check(c, k) ==
  /\ \/ Goto(c, "idle", "refused")
     \/ ~closed /\ Goto(c, "idle", "checked")
  /\ key' = [key EXCEPT ![c] = k]
  /\ UNCHANGED <<registry, flags, recvWG, ctxDone, handle, source, downVars, unsubVars>>

\* The duplicate-subscription test under consumerMutex.
AlreadyActiveNever(k) == FALSE
AlreadyActive(k) == subscriptions[k] # None

\* SubscribeWith under consumerMutex: look the consumer up, reject a
\* duplicate, store the cancel func.
Register(c) ==
  /\ c \in PlainCalls
  /\ \/ /\ Goto(c, "checked", "refused")
        /\ consumers[key[c]] = None \/ AlreadyActive(key[c])
        /\ UNCHANGED <<subscriptions, source>>
     \/ /\ Goto(c, "checked", "registered")
        /\ consumers[key[c]] # None /\ ~AlreadyActive(key[c])
        /\ subscriptions' = [subscriptions EXCEPT ![key[c]] = c]
        /\ source' = [source EXCEPT ![c] = consumers[key[c]]]
  /\ UNCHANGED <<consumers, flags, recvWG, ctxDone, handle, key, downVars, unsubVars>>

\* SubscribeWithRegex reads the client pointer.
GetClient(c) ==
  /\ c \in RegexCalls
  /\ \/ client /\ Goto(c, "checked", "haveClient")
     \/ ~client /\ Goto(c, "checked", "refused")
  /\ UNCHANGED <<registry, flags, recvWG, ctxDone, handle, key, source, downVars, unsubVars>>

\* client.Subscribe with a topics pattern returns: it may fail, and it may
\* also succeed after another goroutine has closed the client.
Dial(c) ==
  /\ \/ /\ Goto(c, "haveClient", "refused")
        /\ UNCHANGED handle
     \/ /\ Goto(c, "haveClient", "dialled")
        /\ handle' = [handle EXCEPT ![c] = IF client THEN "open" ELSE "stray"]
  /\ UNCHANGED <<registry, flags, recvWG, ctxDone, key, source, downVars, unsubVars>>

\* SubscribeWithRegex under consumerMutex: only the subscription is looked
\* up, so an entry of p.consumers with the same key is overwritten.
RegisterRegex(c) ==
  /\ \/ /\ Goto(c, "dialled", "duplicate")
        /\ AlreadyActive(key[c])
        /\ UNCHANGED <<registry, source>>
     \/ /\ Goto(c, "dialled", "registered")
        /\ ~AlreadyActive(key[c])
        /\ consumers' = [consumers EXCEPT ![key[c]] = c]
        /\ subscriptions' = [subscriptions EXCEPT ![key[c]] = c]
        /\ source' = [source EXCEPT ![c] = c]
  /\ UNCHANGED <<flags, recvWG, ctxDone, handle, key, downVars, unsubVars>>

\* cancel() and consumer.Close() of a duplicate regex subscription.
CloseDuplicate(c) ==
  /\ Goto(c, "duplicate", "refused")
  /\ ctxDone' = ctxDone \cup {c}
  /\ handle' = [handle EXCEPT ![c] = "closed"]
  /\ UNCHANGED <<registry, flags, recvWG, key, source, downVars, unsubVars>>

\* recvWG.Add(1) and the go statement, outside consumerMutex.
SpawnUncounted(c) ==
  /\ Goto(c, "registered", "select")
  /\ UNCHANGED <<registry, flags, recvWG, ctxDone, handle, key, source, downVars, unsubVars>>
Spawn(c) ==
  /\ Goto(c, "registered", "select")
  /\ recvWG' = recvWG + 1
  /\ UNCHANGED <<registry, flags, ctxDone, handle, key, source, downVars, unsubVars>>

\* The application cancels the context it passed to the call.
CancelCtx(c) ==
  /\ pc[c] \notin {"idle", "refused", "ended"}
  /\ c \notin ctxDone
  /\ ctxDone' = ctxDone \cup {c}
  /\ UNCHANGED <<registry, flags, recvWG, handle, callVars, downVars, unsubVars>>

-----------------------------------------------------------------------------
(* The receive loop                                                        *)

\* What the two stop cases of the select wait for.
StopRequestedByCloseOnly(c) == closeChan
StopRequested(c) == closeChan \/ c \in ctxDone

Stop(c) ==
  /\ StopRequested(c)
  /\ Goto(c, "select", "exiting")
  /\ UNCHANGED <<registry, flags, recvWG, ctxDone, handle, key, source, downVars, unsubVars>>

\* A message comes out of consumer.Chan(); what the library had buffered
\* may still come out after the consumer was unsubscribed or closed.
Receive(c) ==
  /\ Goto(c, "select", "received")
  /\ UNCHANGED <<registry, flags, recvWG, ctxDone, handle, key, source, downVars, unsubVars>>

\* The channel of a consumer that is no longer open may be closed.
ChanClosed(c) ==
  /\ Goto(c, "select", "exiting")
  /\ handle[source[c]] # "open"
  /\ UNCHANGED <<registry, flags, recvWG, ctxDone, handle, key, source, downVars, unsubVars>>

\* The isClosed test that follows a receive: the message is dropped, or
\* handed to dispatchMessage.
BeginDispatchUnchecked(c) ==
  /\ Goto(c, "received", "handling")
  /\ UNCHANGED <<registry, flags, recvWG, ctxDone, handle, key, source, downVars, unsubVars>>
BeginDispatch(c) ==
  /\ \/ closed /\ Goto(c, "received", "exiting")
     \/ ~closed /\ Goto(c, "received", "handling")
  /\ UNCHANGED <<registry, flags, recvWG, ctxDone, handle, key, source, downVars, unsubVars>>

\* The handler has returned (or panicked, which invokeHandler recovers) and
\* the message is acked or nacked.  A panic of the library in Ack or Nack
\* ends the loop in its deferred recover.
EndDispatch(c) ==
  /\ \/ Goto(c, "handling", "select")
     \/ Goto(c, "handling", "exiting")
  /\ UNCHANGED <<registry, flags, recvWG, ctxDone, handle, key, source, downVars, unsubVars>>

\* The innermost deferred function, under consumerMutex: whatever is stored
\* under the key is deleted, and a regex loop also drops its consumer.
DeregisterForgotten(c) ==
  /\ Goto(c, "exiting", "leaving")
  /\ UNCHANGED <<registry, flags, recvWG, ctxDone, handle, key, source, downVars, unsubVars>>
Deregister(c) ==
  /\ Goto(c, "exiting", "leaving")
  /\ subscriptions' = [subscriptions EXCEPT ![key[c]] = None]
  /\ consumers' = IF c \in RegexCalls
                  THEN [consumers EXCEPT ![key[c]] = None]
                  ELSE consumers
  /\ UNCHANGED <<flags, recvWG, ctxDone, handle, key, source, downVars, unsubVars>>

\* sync.WaitGroup: the Done that reaches zero wakes every blocked Wait.
WakeWaiters == [t \in Teardowns |-> IF recvWG = 1 /\ tpc[t] = "blocked"
                                    THEN "released" ELSE tpc[t]]

\* The outer deferred calls: cancel(), then recvWG.Done().
LeaveUndone(c) ==
  /\ Goto(c, "leaving", "ended")
  /\ ctxDone' = ctxDone \cup {c}
  /\ UNCHANGED <<registry, flags, recvWG, handle, key, source, downVars, unsubVars>>
Leave(c) ==
  /\ Goto(c, "leaving", "ended")
  /\ ctxDone' = ctxDone \cup {c}
  /\ recvWG' = recvWG - 1
  /\ tpc' = WakeWaiters
  /\ UNCHANGED <<registry, flags, handle, key, source, cancels, fresh, unsubVars>>

-----------------------------------------------------------------------------
(* Unsubscribe                                                             *)

\* Under consumerMutex: the consumer is taken out of the registry.
TakeConsumerAndEntry(u, k) ==
  /\ upc[u] = "idle"
  /\ held' = [held EXCEPT ![u] = consumers[k]]
  /\ upc' = [upc EXCEPT ![u] = IF consumers[k] = None THEN "done" ELSE "taken"]
  /\ consumers' = [consumers EXCEPT ![k] = None]
  /\ subscriptions' = [subscriptions EXCEPT ![k] = None]
  /\ UNCHANGED <<flags, recvWG, ctxDone, handle, callVars, downVars>>
TakeConsumer(u, k) ==
  /\ upc[u] = "idle"
  /\ held' = [held EXCEPT ![u] = consumers[k]]
  /\ upc' = [upc EXCEPT ![u] = IF consumers[k] = None THEN "done" ELSE "taken"]
  /\ consumers' = [consumers EXCEPT ![k] = None]
  /\ UNCHANGED <<subscriptions, flags, recvWG, ctxDone, handle, callVars, downVars>>

\* consumer.Unsubscribe(), which may fail.
UnsubscribeBroker(u) ==
  /\ upc[u] = "taken"
  /\ upc' = [upc EXCEPT ![u] = "done"]
  /\ \/ UNCHANGED handle
     \/ handle[held[u]] = "open" /\ handle' = [handle EXCEPT ![held[u]] = "unsubscribed"]
  /\ UNCHANGED <<registry, flags, recvWG, ctxDone, callVars, downVars, held>>

-----------------------------------------------------------------------------
(* Startup, as far as it touches consumers                                 *)

TGoto(t, from, to) ==
  /\ tpc[t] = from
  /\ tpc' = [tpc EXCEPT ![t] = to]

\* NewClient and setClient; without a client there is nothing to tear down.
CreateClient ==
  /\ \/ TGoto(Starter, "boot", "creating") /\ client' = TRUE
     \/ StartupMayFail /\ TGoto(Starter, "boot", "done") /\ UNCHANGED client
  /\ UNCHANGED <<registry, closed, closeChan, recvWG, ctxDone, handle, callVars, cancels, fresh, unsubVars>>

\* client.Subscribe for one enabled consumer; an error tears down.
CreateConsumer(n) ==
  /\ handle[n] = "absent"
  /\ \/ /\ TGoto(Starter, "creating", "created")
        /\ handle' = [handle EXCEPT ![n] = "open"]
        /\ fresh' = n
     \/ /\ StartupMayFail
        /\ TGoto(Starter, "creating", "collect")
        /\ UNCHANGED <<handle, fresh>>
  /\ UNCHANGED <<registry, flags, recvWG, ctxDone, callVars, cancels, unsubVars>>

\* The new consumer is stored under its name, under consumerMutex.
StoreConsumer ==
  /\ TGoto(Starter, "created", "creating")
  /\ consumers' = [consumers EXCEPT ![fresh] = fresh]
  /\ fresh' = None
  /\ UNCHANGED <<subscriptions, flags, recvWG, ctxDone, handle, callVars, cancels, unsubVars>>

\* Every enabled consumer has been created.
FinishStartup ==
  /\ \A n \in Configured : handle[n] # "absent"
  /\ TGoto(Starter, "creating", "up")
  /\ UNCHANGED <<registry, flags, recvWG, ctxDone, handle, callVars, cancels, fresh, unsubVars>>

-----------------------------------------------------------------------------
(* Teardown: cleanupWithContext, and closeAllResources on both paths       *)

\* The framework stops the plugin only after its start has returned.
StartReturned == tpc[Starter] \in {"up", "done"}

\* cleanupWithContext: closeOnce closes closeChan.
CloseChan(t) ==
  /\ StartReturned
  /\ TGoto(t, "idle", "marked")
  /\ closeChan' = TRUE
  /\ UNCHANGED <<registry, closed, client, recvWG, ctxDone, handle, callVars, cancels, fresh, unsubVars>>

\* p.closed is set, under stateMutex.
SetClosedLate(t) ==
  /\ TGoto(t, "marked", "collect")
  /\ UNCHANGED <<registry, flags, recvWG, ctxDone, handle, callVars, cancels, fresh, unsubVars>>
SetClosed(t) ==
  /\ TGoto(t, "marked", "collect")
  /\ closed' = TRUE
  /\ UNCHANGED <<registry, closeChan, client, recvWG, ctxDone, handle, callVars, cancels, fresh, unsubVars>>

\* stopReceivers under consumerMutex: collect the cancel funcs, empty the map.
Collect(t) ==
  /\ TGoto(t, "collect", "cancel")
  /\ cancels' = [cancels EXCEPT ![t] = {subscriptions[k] : k \in Keys} \ {None}]
  /\ subscriptions' = [k \in Keys |-> None]
  /\ UNCHANGED <<consumers, flags, recvWG, ctxDone, handle, callVars, fresh, unsubVars>>

\* stopReceivers calls every collected cancel func.
CancelAll(t) ==
  /\ TGoto(t, "cancel", "wait")
  /\ ctxDone' = ctxDone \cup cancels[t]
  /\ UNCHANGED <<registry, flags, recvWG, handle, callVars, cancels, fresh, unsubVars>>

\* recvWG.Wait() is called: it returns at once on a zero counter.
Wait(t) ==
  /\ \/ recvWG = 0 /\ TGoto(t, "wait", "closeConsumers")
     \/ recvWG > 0 /\ TGoto(t, "wait", "blocked")
  /\ UNCHANGED <<registry, flags, recvWG, ctxDone, handle, callVars, cancels, fresh, unsubVars>>

\* A blocked recvWG.Wait() wakes up.  sync.WaitGroup panics if the counter
\* has been raised again before the waiter runs ("reused before previous
\* Wait has returned").
Wake(t) ==
  /\ \/ recvWG = 0 /\ TGoto(t, "released", "closeConsumers")
     \/ recvWG > 0 /\ TGoto(t, "released", "panicked")
  /\ UNCHANGED <<registry, flags, recvWG, ctxDone, handle, callVars, cancels, fresh, unsubVars>>

\* Close every registered consumer and reset the map, under consumerMutex.
CloseConsumers(t) ==
  /\ TGoto(t, "closeConsumers", "closeClient")
  /\ handle' = [h \in Handles |-> IF \E k \in Keys : consumers[k] = h
                                  THEN "closed" ELSE handle[h]]
  /\ consumers' = [k \in Keys |-> None]
  /\ UNCHANGED <<subscriptions, flags, recvWG, ctxDone, callVars, cancels, fresh, unsubVars>>

\* What p.client.Close() does to the consumers the client has handed out:
\* the library closes all of them.
CloseAll == [h \in Handles |-> IF handle[h] = "absent" THEN "absent" ELSE "closed"]

\* Close the client, if there still is one, and reset the pointer.
CloseClientOnlyPointer(t) ==
  /\ TGoto(t, "closeClient", "done")
  /\ client' = FALSE
  /\ UNCHANGED <<registry, closed, closeChan, recvWG, ctxDone, handle, callVars, cancels, fresh, unsubVars>>
CloseClient(t) ==
  /\ TGoto(t, "closeClient", "done")
  /\ client' = FALSE
  /\ handle' = IF client THEN CloseAll ELSE handle
  /\ UNCHANGED <<registry, closed, closeChan, recvWG, ctxDone, callVars, cancels, fresh, unsubVars>>

-----------------------------------------------------------------------------
KeysFor(c) == IF c \in RegexCalls THEN Patterns ELSE Keys

\* The steps a goroutine takes on its own once its call has begun.
SubscribeStep(c) ==
  \/ Register(c) \/ GetClient(c) \/ Dial(c) \/ RegisterRegex(c)
  \/ CloseDuplicate(c) \/ Spawn(c)
LoopStep(c) == BeginDispatch(c) \/ EndDispatch(c) \/ Deregister(c) \/ Leave(c)
StartStep == CreateClient \/ (\E n \in Configured : CreateConsumer(n)) \/ StoreConsumer \/ FinishStartup
TeardownStep(t) ==
  \/ SetClosed(t) \/ Collect(t) \/ CancelAll(t) \/ Wait(t) \/ Wake(t)
  \/ CloseConsumers(t) \/ CloseClient(t)

Next ==
  \/ \E c \in Calls : \E k \in KeysFor(c) : Check(c, k)
  \/ \E c \in Calls : SubscribeStep(c)
  \/ \E c \in Calls : CancelCtx(c) \/ Stop(c) \/ Receive(c) \/ ChanClosed(c)
  \/ \E c \in Calls : LoopStep(c)
  \/ \E u \in Unsubscribers : UnsubscribeBroker(u) \/ \E k \in Keys : TakeConsumer(u, k)
  \/ StartStep
  \/ \E t \in Cleaners : CloseChan(t)
  \/ \E t \in Teardowns : TeardownStep(t)

Spec == Init /\ [][Next]_vars

\* A goroutine that can run eventually does, and handlers return.  Go's
\* select picks among its ready cases at random, so a stop case that is
\* ready again and again is eventually picked (strong fairness).  Calls,
\* messages, cancellation by the application and cleanup need not happen.
Fairness ==
  /\ \A c \in Calls : WF_vars(SubscribeStep(c)) /\ WF_vars(LoopStep(c)) /\ SF_vars(Stop(c))
  /\ \A t \in Teardowns : WF_vars(TeardownStep(t))
  /\ WF_vars(StartStep)

FairSpec == Spec /\ Fairness

-----------------------------------------------------------------------------
(* Safety                                                                  *)

\* Startup has not taken its failure path.
StartupSound == tpc[Starter] \in StarterState

\* Unless a start has failed, no Ack or Nack reaches a closed consumer: while
\* a message is being dispatched its consumer has not been closed by
\* closeAllResources, by client.Close() or as a duplicate.  On the failure
\* path of startup this does not hold: closeAllResources runs there without
\* p.closed, so a loop registered after it has collected the cancel funcs is
\* neither cancelled nor kept from dispatching.
NoUseAfterClose ==
  StartupSound => \A c \in Dispatching : handle[source[c]] # "closed"

\* Unless a start has failed, two goroutines never dispatch messages of one
\* consumer at the same time, not even when one of them registered in the
\* middle of a shutdown.  On the failure path of startup they may: the entry
\* of a loop in its handler is collected while p.closed is unset, and a
\* second SubscribeWith of that consumer registers and dispatches.
ExclusiveDispatch ==
  StartupSound => \A c, d \in Dispatching : source[c] = source[d] => c = d

\* Until a teardown empties the subscription registry, the entry under a
\* live loop's key is its own: no exit of another loop may have deleted it,
\* and no other call may have replaced it.
EntryOwned ==
  (\A t \in Teardowns : tpc[t] \notin Collected)
     => \A c \in Calls : pc[c] \in Live => subscriptions[key[c]] = c

\* Once a CleanupTasks call has waited for the loops, and so also once it
\* has returned, no handler of the application is running.
QuietAfterCleanup ==
  (\E t \in Cleaners : tpc[t] \in Drained) => Dispatching = {}

\* A teardown that has returned leaves no client, and open no consumer
\* object that its client had handed out, whichever SubscribeWithRegex calls
\* were half way through.  (A consumer whose Subscribe returns after the
\* client was closed is stray: it is closed only if a teardown still finds it
\* in the registry.)
NothingLeftOpen ==
  (\E t \in Teardowns : tpc[t] = "done")
     => ~client /\ \A h \in Handles : handle[h] \in {"absent", "stray", "closed"}

\* The consumers are used as ConsumerUse prescribes: by one goroutine at a
\* time, while open, and not closed under its hands.  (Stated for a startup
\* that does not fail, see NoUseAfterClose and ExclusiveDispatch.)
Use == INSTANCE ConsumerUse WITH
         Handles <- Handles,
         Goroutines <- Calls,
         status <- [h \in Handles |-> IF handle[h] \in {"stray", "unsubscribed"}
                                      THEN "open" ELSE handle[h]],
         users <- [h \in Handles |-> {c \in Dispatching : source[c] = h}]
UsesConsumersSafely == Use!Spec

-----------------------------------------------------------------------------
(* Liveness                                                                *)

\* A cleanup that has begun returns (or hits the WaitGroup panic of Wake):
\* it never waits forever for a receive loop.
CleanupReturns ==
  \A t \in Cleaners : tpc[t] = "marked" ~> tpc[t] \in {"done", "panicked"}

\* Cancelling the context given to a Subscribe call ends its receive loop.
CancelledLoopEnds ==
  \A c \in Calls : (c \in ctxDone /\ pc[c] \in Counted) ~> pc[c] = "ended"

\* After a cleanup both registries end up empty and stay so: late
\* registrations are undone by their own loops.
RegistryDrains ==
  \A t \in Cleaners : tpc[t] = "done"
     ~> [](\A k \in Keys : consumers[k] = None /\ subscriptions[k] = None)

-----------------------------------------------------------------------------
(* What the comments of the code claim and the code does not do            *)

\* "a single consumer.Chan() must only be drained by one goroutine".
OneLoopPerConsumer ==
  \A c, d \in Calls :
    /\ pc[c] \in {"select", "received", "handling"}
    /\ pc[d] \in {"select", "received", "handling"}
    /\ source[c] = source[d]
    => c = d

\* "Unsubscribe cancels the subscription of the named consumer and removes
\* it": when Unsubscribe has returned, the context of the loop that drains
\* the consumer has been cancelled.
UnsubscribeCancelsLoop ==
  \A u \in Unsubscribers : upc[u] = "done" /\ held[u] # None
    => \A c \in Calls : pc[c] \in Counted /\ source[c] = held[u] => c \in ctxDone

\* "closeAllResources ... Safe to call during a failed startup": it returns.
FailedStartReturns == (tpc[Starter] = "collect") ~> (tpc[Starter] = "done")
=============================================================================
