# Verification of the lynx-pulsar plugin

TLA+ modules for `go-lynx/lynx-pulsar`, the Apache Pulsar plugin of the Lynx
framework: what its goroutines do to the state they share, model-checked with
TLC on small instances, with the main safety results proved by TLAPS for every
number of consumers, calls, messages, configurations, restarts and concurrent
shutdowns.

## The system

| Component | State it keeps | Operations | What is hard about it |
|---|---|---|---|
| Consumer registry and receive loops (`consumer.go`, `pulsar.go` 182-215) | `consumers`, `subscriptions` (under `consumerMutex`), `recvWG`, one goroutine per subscription | `Subscribe`, `SubscribeWith`, `SubscribeWithRegex`, `Unsubscribe`, `stopReceivers` | a subscription is several critical sections; shutdown runs between any two of them; the loops' deferred functions edit the registry |
| Plugin lifecycle (`pulsar.go` 252-597, `lifecycle_context.go`) | `client`, `closed`, `closeChan`, `closeOnce` | `InitializeResources`, `startupWithContext`, `cleanupWithContext`, `closeAllResources` | partial failure at every step, restart after failure or stop, `CleanupTasks` and `ShutdownTasks` together |
| Health checker, connection manager (`managers.go` 1-180) | probe goroutines and their stop channel, `connected` | `Start`, `Stop`, `Reconnect` | a second `Start`, a checker replaced while it runs, `Reconnect` during a stop |
| Runtime contract (`runtime_contract.go`) | readiness and health as seen by the framework | `publishRuntimeContract` | order with respect to building and tearing down; registrations that fail are only logged |
| Message dispatch (`consumer.go` 189-238) | metrics counters | `dispatchMessage`, `invokeHandler` | panics, ack or nack on a consumer that is going away, acks that are lost, redelivery |
| Producers (`producer.go`, `pulsar.go` 711-766) | `producers` (under `producerMutex`) | `Produce*`, `Close`, `createProducer` | lookup and send are separate; partial batches |
| Retry manager (`managers.go` 181-253) | retry statistics | `GetRetryDelay`, `ShouldRetry`, `RecordRetry` | float scaling, truncation, cap and overflow |
| Configuration (`pulsar.go` 235-250, 285-446, 634-689, 840-962) | `config` | `Configure`, `normalizePulsarConfig`, parsers | defaults that interact with validation, narrowing conversions, managers built from an older configuration |
| Prometheus metrics, interfaces, plugin factory, generated protobuf code | - | - | no behaviour of their own |

How they interact: the framework calls the lifecycle methods; startup builds
the client, the producers and the consumers; the application calls the
Subscribe and Produce methods from its own goroutines; each subscription spawns
a receive loop that shares the two maps, `closed`, `closeChan` and `recvWG`
with the shutdown path; readiness is the only thing the framework reads back.

## Modules

| Module | What it is |
|---|---|
| `ConsumerUse` | abstract specification: what the plugin promises about a consumer object of the client library: it is opened, dispatched from by one identified goroutine at a time, only while open, and never closed underneath a dispatch |
| `ReceiveLoops` | registry, Subscribe calls, receive loops, Unsubscribe, and both teardown paths |
| `MCReceiveLoops` | symmetry sets for TLC |
| `ReceiveLoopsProofs` | proofs: invariants, and the refinement of `ConsumerUse` (`UsesConsumersSafely`) |
| `OrderedSend` | abstract specification: what a caller of the Produce methods is promised: messages reach the broker in order, one unconfirmed at a time, and the call's answer is true and final |
| `Producers` | producer registry, Produce methods, `Close(name)`, teardown of producers |
| `ProducersProofs` | proofs: invariants, the counters, and the refinement of `OrderedSend` |
| `Readiness` | abstract specification: what the framework may conclude from the runtime contract: the plugin is announced only while it works, and the announcement is withdrawn before that changes |
| `Lifecycle` | initialization, start, stop, health checker, connection manager, readiness |
| `MCLifecycle` | symmetry set for TLC |
| `LifecycleProofs` | proofs about readiness, failed starts, stops, probe loops and the client pointer, and the refinement of `Readiness` |
| `Delivery` | abstract specification: at-least-once delivery, as an application that subscribes sees it |
| `Dispatch` | a message from the broker to its acknowledgement: receive, handler, ack or nack, redelivery, lost connections, shutdown |
| `DispatchProofs` | proofs: invariants, and the refinement of `Delivery` |
| `Config` | normalization and validation, `Configure` and `InitializeResources`, the options derived from a configuration, the retry backoff |
| `MCConfig` | the configurations TLC tries |
| `NatRecursion` | lemmas: a function defined by recursion on the naturals exists and satisfies its defining equation, and induction for sets of naturals |
| `ConfigProofs` | proofs about `Config` |

`ReceiveLoops`, `Producers`, `Lifecycle`, `Dispatch` and `Config` look at the
same program from five sides. They meet at the teardown: `Lifecycle` has all of
`closeAllResources` with one step per registry, `ReceiveLoops` has its consumer
half in detail, `Producers` its producer half, and `Dispatch` takes from `ReceiveLoops` that the
consumers are closed when every loop has ended.

### ReceiveLoops and the code

A step is what one goroutine does inside one critical section, or between two
accesses to shared state. A member of `Calls` is a Subscribe call and the
goroutine it spawns, in this order:

    SubscribeWith       idle -> checked -> registered -> select ...
    SubscribeWithRegex  idle -> checked -> haveClient -> dialled -> registered -> select ...
                                                        \-> duplicate -> refused
    receive loop        select -> received -> handling -> select
                        select | received | handling -> exiting -> leaving -> ended

`checked` is after the `isClosed` test, `registered` after the critical section
that stores the cancel func and before `recvWG.Add(1)`, `exiting` is where the
deferred functions begin, `leaving` after the one that edits the registry. The
select of the code has a stop case per source (`Stop`), a message (`Receive`)
and a closed channel (`ChanClosed`). `BeginDispatch` is the `isClosed` test
after a receive together with the decision it makes; a stop that comes later
finds the goroutine counted by `recvWG`.

A teardown is `cleanupWithContext` (`Cleaners`) or the failure path of a start
(`Starter`): close `closeChan`, set `closed` (cleanups only), collect and delete
the subscription entries, cancel them, wait for `recvWG`, close the registered
consumers, close the client. The `WaitGroup` is modelled with its waiters: a
`Wait` on a zero counter returns at once, otherwise the `Done` that reaches zero
releases it, and it panics if the counter has been raised again by the time it
runs, as the Go library does.

`Dial` is `client.Subscribe` returning to a `SubscribeWithRegex` call, with an
error or with a consumer. The client may have been closed since the call read
it; a consumer that comes back then is `stray`: `client.Close()` did not know of
it. `CreateClient` is `NewClient` at startup; if it fails the start returns with
nothing to tear down.

The mapping to `ConsumerUse` gives every consumer object the set of calls that
are dispatching one of its messages, so a second goroutine on one consumer is a
step `ConsumerUse` does not have.

Messages carry no data: a loop may receive one at any time. The default
consumer `Subscribe` looks up is any registered key.

### Producers and the code

The module begins where startup has stored the producers. A Produce call picks
a name (any registered one for the default, as a range over a Go map does),
looks it up in a second critical section, and sends: `Send` hands the message to
the library, `Deliver` is the broker, `SendOK` and `SendFails` are the two ways
`producer.Send` (or the callback of `SendAsync`) comes back. An error may come
while the message is in flight, so a message reported as failed may still be
stored. `ProduceBatch` repeats this until the first error. `Close(name)` is two
steps, as in the code; the producer part of `closeAllResources` is one, under
`producerMutex`. The Produce methods do not look at `closed`, and neither does
the model.

### Lifecycle and the code

`startupWithContext` is followed statement by statement: contract withdrawn,
client created, producers and consumers created and stored one by one (each
reads the client pointer, `GetClient`, calls the library, `Create`, which may
fail or may succeed although the client has been closed since, and is stored,
`Store`; the context is tested before and after the producers),
managers started, plugin registered with the runtime, health verified, contract
published. A failure up to the consumers goes through `closeAllResources`; a
failure of `RegisterSharedResource` or of `CheckHealth` returns directly.
`started` is the framework's knowledge: it starts a plugin again after a failure
or a stop, possibly after another `InitializeResources`. Client library objects
are named after the client that made them, so one that is overwritten and lost
is still seen.

The runtime contract is a function `ready` on `Contract`, the readiness and the
health resource. `Publish` writes one value under both, and each registration
may fail on its own: the error is only logged and the runtime keeps the old
value. `stale` remembers the resources for which that happened last. Such a
resource may say yes after a shutdown, which the code cannot prevent, so the
properties speak of `Announced`, the resources that say yes and are not stale.

`Working` is what an announcement stands for: the client is open and connected,
every enabled producer and consumer is registered, open and of this client, and
`IsConnected()` agrees. The last part is waived for a plugin that has been
stopped before (`Restarted`): `closed` is never reset, so such a plugin announces
itself and is not connected, which is the run `lifecycle_v_restart`.

The health checker is the number of times its stop channel has been closed
(`closes`, at most 1 thanks to `stopOnce`: a second close panics) and its probe
loops. The connection manager is the pair `connected`, `offered`: startup registers it
as a private resource of the runtime, and from then on whoever has it may call
`Reconnect` at any time, also during and after a stop. `InitializeResources`
replaces it, so an old one no longer matters. `performHealthCheck` writes the
values the checker was created with and is a stuttering step.

### Dispatch and the code

Each loop has its own consumer and all share one subscription. A loop goes
`select -> received -> handler -> ack | nack -> select`: `Check` is the `isClosed`
test after the receive, `HandlerOk`, `HandlerFails` and `HandlerPanics` are the
three outcomes of `invokeHandler`, `Ack` and `Nack` what
`dispatchMessage` does next. `Leave` is a loop that ends because its context is
done or the plugin closes, `Resume` another `SubscribeWith` on the same
consumer. `Close` and `CloseConsumers` are the two ends of a shutdown.

The broker is external: it hands messages to the receiver queue of a connected
consumer (`Deliver`) and takes a message back after the delay of a negative
acknowledgement (`Redeliver`). `DeadLettering` is the set of consumers with a
dead letter policy: those whose options have one (`pulsar.go` 805), never a regex
consumer (`consumer.go` 102). Such a consumer sends a message that has come back
`MaxDeliveries` times to the dead letter topic; the others take it to the handler
again and again. The receiver queue is a set, and that it is first in, first out
is expressed as fairness. The metrics counters are left out. A connection may
drop (`Drop`): the queue is lost, unacknowledged messages return to the backlog,
an `Ack` without a connection changes nothing, as its error is ignored. A loop
may still hold and acknowledge a message that meanwhile belongs to another
consumer.

### Config and the code

A configuration is a record of the sections and fields that the code tests,
replaces or converts; strings and byte arrays that are only copied (the `tls`
section, producer and consumer names, properties) are left out, and a credential
is absent, partial or complete. Durations are integers, and an unset one is 0,
which is what `AsDuration` yields for nil and what every test of the code treats
alike. `Valid` collects the error returns of `normalizePulsarConfig`, and
`Normalize` its assignments. `Configure` clones its argument, so that the object
the application keeps is another one: `clonePulsarConfig` is the step that makes
the plugin its owner, and `Edit` is the application modifying its own object.
`InitializeResources` builds the three managers from the configuration it
installs; what `Scan` leaves in the default configuration is an input.

The multiplier of the backoff is a rational `num / den`; `Scale` truncates as the
conversion to `time.Duration` does, ignoring the rounding of `float64`, and yields
`OutOfRange`, the value of the build at hand, when the product leaves the range
(`MaxDuration`). The widths (`MaxInt`, `UintSize`, `MaxDuration`) are constants:
small ones for TLC, any for the proofs.

### What is assumed of code outside the repository

* `client.Close()` closes every producer and consumer the client has handed
  out. A `Subscribe` or `CreateProducer` that is in flight meanwhile may still
  return an object, which the `Close` has then missed.
* A send on a producer that has been closed fails; the broker may store a message
  whose send has failed.
* `consumer.Chan()` may deliver what was buffered before the consumer was
  closed or unsubscribed.
* The framework stops a plugin after its start has returned. In `Lifecycle`
  this is the constant `Overlap`; what does not need it is checked and proved
  without it.
* The broker behaves as described under Dispatch. A connection that is lost is
  restored by the client library as long as the consumer is open.
* `proto.Clone` returns a copy that shares nothing with its argument.
* The registrations of one publication of the runtime contract are one step: the
  framework does not act between them.

## Runs

All bounds are the sizes of the constant sets in the cfg files, plus
`MaxClients` (clients created over the life of the plugin), `MaxBatch`
(messages in a batch), `MaxDeliveries`, `MaxDrops` (connections lost) and
`MaxAttempt` (attempts the backoff is asked for). Deadlock checking is off,
except in `config`, because those runs end: the application makes finitely many
calls and a stopped plugin has nothing to do.

| Run | Instance | Checks |
|---|---|---|
| `loops_safety` | 1 configured consumer, 1 pattern, 1 `SubscribeWith`, 2 `SubscribeWithRegex` for the pattern, startup that may fail at the client or at the consumer, 2 concurrent cleanups | `TypeOK`, `NoUseAfterClose`, `ExclusiveDispatch`, `EntryOwned`, `QuietAfterCleanup`, `NothingLeftOpen` |
| `loops_liveness` | 1 consumer, 1 pattern, 1 call of each kind (the plain one may drain the regex call's consumer), an `Unsubscribe`, 1 cleanup | `EntryOwned`, refinement of `ConsumerUse` (`UsesConsumersSafely`), `CleanupReturns`, `CancelledLoopEnds`, `RegistryDrains` |
| `producers` | 2 producers, a single send, a batch of up to 2, 2 `Close`, 2 teardowns | `TypeOK`, `RegisteredOpen`, `ClosedOnce`, `BatchReport`, `CountersBracket`, `QuietAfterTeardown`, refinement of `OrderedSend` (`SendsInOrder`) |
| `lifecycle_serial` | 2 producers, 2 consumers, 2 stops, 3 clients, one lifecycle call at a time, `Reconnect` at any time, contract registrations that fail | `TypeOK`, `ReadyMeansUp`, `FailedStartIsClean`, `OneProbeLoop`, `StopIsComplete`, refinement of `Readiness` (`AnnouncesWorking`) |
| `lifecycle_overlap` | 1 producer, 1 consumer, 2 stops, 2 clients, stops during a start, failing registrations | `ClientPointerValid`, `RegisteredIsOpen` |
| `dispatch` | 2 messages, 2 loops, one of them on a consumer with a dead letter policy, 1 redelivery before the dead letter topic, 1 lost connection, a shutdown | `TypeOK`, `AckedWasHandled`, `NothingForgotten`, `EventuallySettled`, `StopReturnsAll`, refinement of `Delivery` (`DeliversAtLeastOnce`) |
| `config` | unset, negative, small and large values and missing names in each section, any sequence of installations | `TypeOK`, `ConfigNormal`, `AuthHonoured`, `LimitsDoNotWrap`, `TickerRuns`, `BackoffCapped`, `BackoffExact`, `BackoffNeverShrinks` |

The instances are large enough for the cases that matter: two calls fight for
one key, a plain call attaches to a regex consumer, a call sits between any two
of its critical sections while a whole teardown goes by, one teardown finds what
another has left, a start fails with one producer or consumer stored and one missing, a
plugin is started three times, a message is acknowledged by one loop after the
broker has given it to the other, a multiplier of 64 or 3/2 passes the maximum
delay at the first, a later, or no attempt. In `config` one section at a time
varies: the sections are normalized independently, and two calls in a row mix
them. The proofs remove the bounds for the safety
properties.

`NoUseAfterClose`, `ExclusiveDispatch` and `UsesConsumersSafely` are statements about
a plugin whose start has not failed (`StartupSound`, or `StartupMayFail = FALSE`).
On the failure path `closeAllResources` runs while `closed` is unset and
`closeChan` is open. A `SubscribeWith` call on a consumer that startup has stored
can register after the entries have been collected, start a second loop beside
one that is still in its handler, and use the consumer after it was closed.
`loops_v_failedstart` shows another consequence, a start that does not return.

**Fairness** (`FairSpec`). Weak fairness of each call's own steps, of each
loop's steps outside the select, of each teardown and of startup: the Go
scheduler runs every goroutine that can run, and handlers are assumed to return
(a handler that does not return blocks a cleanup by design). Strong fairness of
the stop case of the select: a busy consumer makes the message case ready again
and again, and Go chooses among ready cases at random. Calls, messages,
cancellation by the application and cleanup need not happen.

In `Dispatch`: weak fairness of each loop's steps (handlers return), of leaving
the select once `closeChan` is closed, of `Restore` (the library reconnects), of
`Deliver` for each message to some consumer and of `Redeliver` (the broker
delivers, and negative acknowledgements have a finite delay), and of
`CloseConsumers`; strong fairness of `Receive` for each message, because the
receiver queue is first in, first out and no message in it is overtaken for
ever. `EventuallySettled` is about behaviours in which the loops keep running
from some point on, and has two outcomes: the message is acknowledged or dead
lettered, or a consumer without a dead letter policy refuses it again and again.
A message is not left behind because another one is refused for ever. A
consumer nobody drains keeps what it prefetched until the plugin stops, which is what `StopReturnsAll` is about. Weak fairness
of the exit is enough there: once the plugin is closed, the test after a receive
ends a loop that keeps choosing messages.

### Disagreements between the code and what it says

Each of these runs is expected to be violated; the finding in `PROJECT.json`
quotes the comment.

| Run | Property | What TLC shows |
|---|---|---|
| `loops_v_oneloop` | `OneLoopPerConsumer` | `stopReceivers` deletes the entries before the loops end; a call past its `isClosed` test then starts a second loop on the same channel. Only dispatch remains exclusive (`ExclusiveDispatch`), thanks to the second `isClosed` test. |
| `loops_v_unsubscribe` | `UnsubscribeCancelsLoop` | `Unsubscribe` leaves the loop's context and subscription entry alone |
| `loops_v_failedstart` | `FailedStartReturns` | on the failure path neither `closed` nor `closeChan` is set, so a loop registered late is never stopped and the start hangs in `Wait` |
| `lifecycle_v_leak` | `FailedStartIsClean` | a failing `RegisterSharedResource` returns with everything open |
| `lifecycle_v_restart` | `ReadyMeansConnected` | a plugin that is started after a stop publishes readiness while `IsConnected()` returns false and every Subscribe call is refused: `closed` is never reset |

Met on the way, without a run of their own:

* A regex loop that ends drops its consumer from the registry without closing
  it, so cleanup leaves that consumer to `client.Close()`; `NothingLeftOpen`
  rests on the library's behaviour.
* A regex consumer whose `Subscribe` returns after the client was closed is
  registered, finds the plugin closed, and is dropped again without being
  closed by anybody (unless a teardown closes it in between).
* When a stop overlaps a start, readiness may be published after the shutdown
  withdrew it, and a client, producer or consumer created late may stay open;
  what survives overlap is `ClientPointerValid` and `RegisteredIsOpen`.
* A message whose handler always fails comes back for ever unless the consumer
  has a dead letter policy, which a regex consumer cannot have.
* `recvWG.Add(1)` is outside any lock and may raise the counter between the
  `Done` that releases a blocked `Wait` and the waiter's return; `sync.WaitGroup`
  then panics. `ReceiveLoops` has this step (`Wake`, state `panicked`), and
  `CleanupReturns` allows for it.
* A handler that panics is counted twice in `consumerFailed` (`consumer.go` 219
  and 229).
* A token with an empty authentication type is accepted and not used.
* `Configure` does not rebuild the managers: until the next `InitializeResources`
  they work with sections of an older configuration.
* A scaled backoff delay that leaves the range of `time.Duration` may become
  negative; it is below the cap then, and `BackoffExact` and
  `BackoffNeverShrinks` are about products in range.
* A negative `batching_max_size`, `chunk_max_size` or `max_redeliver_count` is
  accepted and becomes a huge unsigned value; `LimitsDoNotWrap` excepts these.
* The defaults of the code are not those of the repository's README: subscription
  type `exclusive` (README 111 says shared), retry on message failure on (114:
  off), retries enabled (122: disabled), health checks every 30 s (126: 10 s).
* `Close(name)` is about producers only (README 281), `Subscribe` returns at once
  (`consumer.go` 13 says it blocks), and the "first" producer or consumer is
  whatever a range over a map yields (`producer.go` 12, `consumer.go` 12).

## Proofs

Every theorem holds for all values of the constants that satisfy the named
assumptions (`ConstantsAssumption`, `LifecycleAssumption`: disjointness of the
names, finitely many calls; `ProducersAssumption`; `DispatchAssumption`; in
`Config` the types of the inputs and relations between the integer widths).

`ReceiveLoopsProofs`

* `TypeCorrect`, `DispatchSafe`, `DispatchExclusive`, `EntriesOwned`,
  `CleanupQuiet`, `TeardownComplete`: `Spec => []P` for `TypeOK`,
  `NoUseAfterClose`, `ExclusiveDispatch`, `EntryOwned`, `QuietAfterCleanup`,
  `NothingLeftOpen`. The second and the third exempt a failed start, as their
  formulas say; the last exempts stray consumers.
* `Implements`: `Spec => UsesConsumersSafely` if startup does not fail, with the
  dispatching goroutines of each consumer visible to `ConsumerUse`.

None of these is inductive. The invariant ties three things together: `recvWG`
is exactly the number of goroutines between `Add` and `Done` (hence the
finiteness assumption), a teardown past its wait or merely past `SetClosed`
implies `closed`, and after that no goroutine can enter `handling`, so a zero
counter at the wait means nobody dispatches, ever after. `Inv` says when a
consumer object can be closed at all (a drained teardown, or a duplicate that
was never registered), whose entry each live loop holds while no teardown has
collected, and that an open consumer implies an open client, which gives
`NothingLeftOpen`. The refinement follows from the same invariant: each step
maps to opening, beginning, ending, closing several idle consumers, or a
stutter, and a beginning finds nobody else on its consumer because, while the
plugin is not closed, every live loop owns the entry of its key. It needs a startup that does not fail because the failure path closes
consumers without setting `closed`.

`ProducersProofs`

* `ReadyProducersOpen`, `NoDoubleClose`, `BatchReportsTrue`, `TypeCorrect`:
  `Spec => []P` for `RegisteredOpen`, `ClosedOnce`, `BatchReport`, `TypeOK`, and
  `TeardownQuiet` for the action property `QuietAfterTeardown`. The invariant
  gives every producer one owner (the map, one `Close` call, or nobody once it
  is closed) and says that a call's messages are confirmed in order, with at
  most the last one open.
* `CountersSound`: `Spec => []CountersBracket`. The set of confirmed messages has
  as many members as `sent` says, the set of failed calls as many as `failed`
  says, and a stored message that was not confirmed is the one its call failed
  at, which is an injection into the failed calls.
* `PromiseKept`: `Spec => SendsInOrder`. The broker has `done[c]` messages of a
  call, or one more when the next one is stored and not yet confirmed; `SendOK`
  is a confirmation, `Deliver` stores the next message or one that is there
  already, and every answer finds the counts that `OrderedSend` asks of it. The
  second half of the counters' invariant is what rules out a message of a call
  that was refused.

`LifecycleProofs`

* `TypeCorrect`, `PointerValid`, `RegisteredOpen`: no assumption on overlap or
  failing registrations. The pointer is reset in the critical section that
  closes the client. For `RegisteredIsOpen` the invariant follows an instance
  through its creation: one that is about to be stored is open unless its client
  has been closed meanwhile, clients are numbered and never reopened, and a
  teardown takes what it closes out of the map.
* `ReadinessSound` (no overlap; contract registrations may fail):
  `Spec => []ReadyMeansUp`. The invariant says that starts and stops exclude
  each other (`Serial`), what exists at each point of a start (`Progress`), and
  that readiness is published only from a complete start until the stop
  (`ReadyShape`), and that `closed` is set by stops alone (`ClosedByStop`), which
  gives the part of `Working` about `IsConnected()`.
* `ReadinessImplemented` (same assumption): `Spec => AnnouncesWorking`. A step that
  publishes is an announcement from a working plugin or a withdrawal and leaves
  the plugin as it is; any other step that changes whether it works happens
  while nothing is announced. The steps of a running plugin that remain, probe
  exits and `Reconnect`, keep it working.
* `FailedStartClean` and `StopComplete` (no overlap, the plugin can register
  itself): the first is `[]FailedStartIsClean`, the second the action property
  `StopIsComplete`. The invariant adds `OneClient`: there is at most one open
  client, it is the current one, and it exists only during a start, while up, or
  during a stop.
* `ProbesSingle` (same assumptions): `Spec => []OneProbeLoop`. The invariant adds
  `Probes`: a probe loop nobody has told to stop belongs to the current checker
  of a plugin that is up or coming up, or a stop that will tell it is under way.
  `StopComplete` uses it too.

`DispatchProofs`

* `TypeCorrect`, `AcksSound`, `NoneForgotten`: `Spec => []P` for `TypeOK`,
  `AckedWasHandled`, `NothingForgotten`. The invariant adds that a loop about to
  acknowledge holds a message its handler has returned nil for, and that a
  disconnected consumer has no message.
* `AtLeastOnce`: `Spec => DeliversAtLeastOnce`. Losing a connection, taking messages
  back and closing the consumers move messages without changing any fate; an
  acknowledgement that reaches the broker settles a message its handler has
  accepted, whoever has it by then.

`ConfigProofs`

* `AlwaysNormal`, `AuthUsed`, `LimitsExact`, `TickerSafe`, `CapHolds`,
  `TypeCorrect`: for every set of well-formed input configurations,
  every length of the producer and consumer lists, every integer width and every
  value of `OutOfRange`. Normalization is shown to be type-correct and idempotent
  section by section, and to preserve validity; the invariant adds that the
  managers hold sections of a normal configuration. `CapHolds` needs that the
  comparison of the delays is made after the defaults.

* `BackoffIsPower`, `BackoffGrows`: `Spec => []BackoffExact` and
  `Spec => []BackoffNeverShrinks`, for every `MaxAttempt`, by induction over the
  attempts. The library's induction theorems take an operator, which the
  provers cannot instantiate; `NatRecursion` states induction for a set (a set
  that contains 0 and is closed under successor is `Nat`, from the least element
  of its complement), builds the iterates of a function up to each n, shows that
  any two agree, and concludes that the recursive definition has a solution.
  With that `Scaled` and `Power` satisfy their equations, and both results follow
  for the set of attempts for which they hold: the uncapped scaling is a power
  until it exceeds the cap, and truncation does not shrink a delay when the
  numerator of the multiplier is at least its denominator. The sections in
  force are normal, hence the initial delay and the multiplier positive.

Only model-checked: the liveness properties (fairness is outside the prover) and
the violations.

## Not modelled

* `RecordRetry` and `GetRetryStats`: a map of the last error per operation, which
  nothing in the plugin writes; `ShouldRetry`, a comparison. A caller of
  `GetRetryStats` shares the inner maps with `RecordRetry`.
* The runtime contract beyond readiness and health: the alias, and the private
  copies of the two resources, which get the same values.
* The composition of the five modules into one: their product is beyond TLC, and
  what one takes from another is stated above.

Out of scope: Prometheus registration (calls of a library), type declarations,
the plugin factory and the generated protobuf code.
