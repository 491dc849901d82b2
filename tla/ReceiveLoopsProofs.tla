------------------------- MODULE ReceiveLoopsProofs -------------------------
(***************************************************************************)
(* Proofs about ReceiveLoops, for every set of configured consumers,       *)
(* patterns, calls and teardowns.  Everything rests on one inductive       *)
(* invariant, Inv, whose parts are proved in the order they are defined.   *)
(***************************************************************************)
EXTENDS ReceiveLoops, FiniteSetTheorems, TLAPS

Running == {c \in Calls : pc[c] \in Counted}

\* The WaitGroup counts exactly the goroutines between Add and Done.
WGExact == recvWG = Cardinality(Running)

\* A consumer object serves one registry key: its name, or the pattern of
\* the call that made it, once that call has registered it.
Serves(h, k) ==
  \/ h \in Configured /\ h = k
  \/ h \in RegexCalls /\ key[h] = k /\ pc[h] \in Live \cup {"leaving", "ended"}

\* Where each call stands determines what it knows.
CallShape ==
  \A c \in Calls :
    /\ pc[c] # "idle" => key[c] \in Keys
    /\ pc[c] \in {"haveClient", "dialled", "duplicate"} => c \in RegexCalls
    /\ pc[c] \in Live \cup {"leaving"} =>
         source[c] \in Handles /\ Serves(source[c], key[c]) /\ handle[source[c]] # "absent"
    /\ c \in RegexCalls /\ pc[c] \in {"idle", "checked", "haveClient"} => handle[c] = "absent"
    /\ pc[c] \in {"dialled", "duplicate"} => handle[c] # "absent"

\* What is registered exists and serves its key.
RegistryShape ==
  /\ \A k \in Keys : consumers[k] # None =>
        Serves(consumers[k], k) /\ handle[consumers[k]] # "absent"
  /\ \A u \in Unsubscribers : upc[u] = "taken" => held[u] \in Handles

\* Where each teardown stands determines the flags.
TeardownShape ==
  /\ tpc[Starter] \notin CleanerState
  /\ tpc[Starter] = "created" => fresh \in Configured /\ handle[fresh] # "absent"
  /\ tpc[Starter] \in {"creating", "created"} => client
  /\ tpc[Starter] = "boot" => ~client
  /\ \A t \in Cleaners :
       /\ tpc[t] \notin StarterState
       /\ tpc[Starter] \in {"boot", "creating", "created"} => tpc[t] = "idle"
       /\ tpc[t] \in {"collect"} \cup Collected => closed

\* At most one goroutine dispatches for a key, shutdown or not.
ExclusiveKey ==
  StartupSound => \A c, d \in Dispatching : key[c] = key[d] => c = d

\* A consumer is closed only once the plugin is, or as a duplicate.
ClosedWhenClosed ==
  StartupSound => \A h \in Handles :
    handle[h] = "closed" => closed \/ (h \in RegexCalls /\ pc[h] = "refused")

\* Without a client no consumer object that it knew of is open.
NoClientNoConsumer ==
  ~client => \A h \in Handles : handle[h] \in {"absent", "stray", "closed"}

Inv ==
  /\ TypeOK
  /\ WGExact
  /\ CallShape
  /\ RegistryShape
  /\ TeardownShape
  /\ EntryOwned
  /\ ExclusiveKey
  /\ QuietAfterCleanup
  /\ ClosedWhenClosed
  /\ NoUseAfterClose
  /\ NoClientNoConsumer
  /\ NothingLeftOpen

-----------------------------------------------------------------------------
(* The invariant holds initially                                           *)

\* The invariant holds when NewPulsarClient has returned.
LEMMA InitInv == Init => Inv
<1> SUFFICES ASSUME Init PROVE Inv
  OBVIOUS
<1> USE ConstantsAssumption
<1>1. TypeOK
  BY DEF Init, TypeOK, HandleState, CallState, TeardownState, StarterState, CleanerState, Teardowns
<1>2. WGExact
  <2>1. Running = {}
    BY DEF Init, Running, Counted
  <2> QED
    BY <2>1, FS_EmptySet DEF Init, WGExact
<1>3. CallShape /\ RegistryShape
  BY DEF Init, CallShape, RegistryShape, Live, Handles
<1>4. TeardownShape
  BY DEF Init, TeardownShape, Teardowns, CleanerState, StarterState, Collected, Drained
<1>5. EntryOwned /\ ExclusiveKey /\ QuietAfterCleanup /\ NoUseAfterClose
  BY DEF Init, EntryOwned, ExclusiveKey, QuietAfterCleanup, NoUseAfterClose, Live, Dispatching,
         Teardowns, Drained
<1>6. ClosedWhenClosed /\ NoClientNoConsumer /\ NothingLeftOpen
  BY DEF Init, ClosedWhenClosed, NoClientNoConsumer, NothingLeftOpen, Teardowns
<1> QED
  BY <1>1, <1>2, <1>3, <1>4, <1>5, <1>6 DEF Inv

-----------------------------------------------------------------------------
(* Every step preserves the invariant                                      *)

\* Types are preserved: recvWG in particular stays a natural number because
\* Done is only called by a goroutine that is counted.
LEMMA NextTypeOK == ASSUME Inv, [Next]_vars PROVE TypeOK'
<1> USE ConstantsAssumption DEF Inv, TypeOK, registry, callVars, downVars, unsubVars, flags
<1>1. ASSUME NEW c \in Calls, NEW k \in KeysFor(c), Check(c, k) PROVE TypeOK'
  BY <1>1 DEF Check, Goto, KeysFor, CallState, Keys
<1>2. ASSUME NEW c \in Calls, SubscribeStep(c) PROVE TypeOK'
  BY <1>2 DEF SubscribeStep, Register, GetClient, Dial, RegisterRegex, CloseDuplicate, Spawn, Goto,
              CallState, HandleState, CallShape, Handles, Keys
<1>3. ASSUME NEW c \in Calls, CancelCtx(c) \/ Stop(c) \/ Receive(c) \/ ChanClosed(c) PROVE TypeOK'
  BY <1>3 DEF CancelCtx, Stop, Receive, ChanClosed, Goto, CallState
<1>4. ASSUME NEW c \in Calls, BeginDispatch(c) \/ EndDispatch(c) \/ Deregister(c) PROVE TypeOK'
  BY <1>4 DEF BeginDispatch, EndDispatch, Deregister, Goto, CallState
<1>5. ASSUME NEW c \in Calls, Leave(c) PROVE TypeOK'
  <2>1. c \in Running
    BY <1>5 DEF Leave, Goto, Running, Counted
  <2>2. recvWG # 0
    BY <2>1, FS_EmptySet, FS_Subset DEF WGExact, Running
  <2> QED
    BY <1>5, <2>2 DEF Leave, Goto, CallState, WakeWaiters, TeardownState, Collected
<1>6. ASSUME NEW u \in Unsubscribers, UnsubscribeBroker(u) \/ \E k \in Keys : TakeConsumer(u, k)
      PROVE TypeOK'
  BY <1>6 DEF UnsubscribeBroker, TakeConsumer, HandleState
<1>7. ASSUME StartStep PROVE TypeOK'
  <2> USE DEF TGoto, TeardownState, StarterState, Teardowns
  <2>1. CASE CreateClient
    BY <2>1 DEF CreateClient, Collected, Drained
  <2>2. ASSUME NEW n \in Configured, CreateConsumer(n) PROVE TypeOK'
    BY <2>2 DEF CreateConsumer, HandleState, Handles
  <2>3. CASE StoreConsumer
    BY <2>3 DEF StoreConsumer, Handles, Keys, TeardownShape
  <2>4. CASE FinishStartup
    BY <2>4 DEF FinishStartup
  <2> QED
    BY <1>7, <2>1, <2>2, <2>3, <2>4 DEF StartStep
<1>8. ASSUME NEW t \in Cleaners, CloseChan(t) PROVE TypeOK'
  BY <1>8 DEF CloseChan, TGoto, TeardownState, CleanerState, Teardowns
<1>9. ASSUME NEW t \in Teardowns, TeardownStep(t) PROVE TypeOK'
  <2> USE DEF TGoto, TeardownState, Collected, Drained
  <2>1. CASE SetClosed(t) \/ CancelAll(t) \/ Wait(t) \/ Wake(t)
    BY <2>1 DEF SetClosed, CancelAll, Wait, Wake
  <2>2. CASE Collect(t)
    BY <2>2 DEF Collect
  <2>3. CASE CloseConsumers(t)
    BY <2>3 DEF CloseConsumers, HandleState
  <2>4. CASE CloseClient(t)
    BY <2>4 DEF CloseClient, CloseAll, HandleState
  <2> QED
    BY <1>9, <2>1, <2>2, <2>3, <2>4 DEF TeardownStep
<1>10. CASE UNCHANGED vars
  BY <1>10 DEF vars
<1> QED
  BY <1>1, <1>2, <1>3, <1>4, <1>5, <1>6, <1>7, <1>8, <1>9, <1>10 DEF Next, LoopStep

\* Only Add and Done move the WaitGroup's counter, each with the goroutine
\* it stands for.
LEMMA NextWGExact == ASSUME Inv, [Next]_vars PROVE WGExact'
<1> USE ConstantsAssumption DEF Inv, TypeOK, registry, callVars, downVars, unsubVars, flags
<1>0. IsFiniteSet(Running)
  BY FS_Subset DEF Running
<1> DEFINE Same == recvWG' = recvWG /\ Running' = Running
<1>1. ASSUME Same PROVE WGExact'
  BY <1>1 DEF WGExact
<1>2. ASSUME NEW c \in Calls, Spawn(c) PROVE WGExact'
  <2>1. c \notin Running /\ Running' = Running \cup {c}
    BY <1>2 DEF Spawn, Goto, Running, Counted
  <2> QED
    BY <1>0, <1>2, <2>1, FS_AddElement DEF Spawn, WGExact
<1>3. ASSUME NEW c \in Calls, Leave(c) PROVE WGExact'
  <2>1. c \in Running /\ Running' = Running \ {c}
    BY <1>3 DEF Leave, Goto, Running, Counted
  <2> QED
    BY <1>0, <1>3, <2>1, FS_RemoveElement DEF Leave, WGExact
<1>4. ASSUME NEW c \in Calls, NEW k \in KeysFor(c), Check(c, k) PROVE Same
  BY <1>4 DEF Check, Goto, Running, Counted
<1>5. ASSUME NEW c \in Calls,
             \/ Register(c) \/ GetClient(c) \/ Dial(c) \/ RegisterRegex(c) \/ CloseDuplicate(c)
      PROVE Same
  BY <1>5 DEF Register, GetClient, Dial, RegisterRegex, CloseDuplicate, Goto, Running, Counted
<1>6. ASSUME NEW c \in Calls,
             \/ CancelCtx(c) \/ Stop(c) \/ Receive(c) \/ ChanClosed(c)
             \/ BeginDispatch(c) \/ EndDispatch(c) \/ Deregister(c)
      PROVE Same
  BY <1>6 DEF CancelCtx, Stop, Receive, ChanClosed, BeginDispatch, EndDispatch, Deregister,
              Goto, Running, Counted
<1>7. ASSUME NEW u \in Unsubscribers, UnsubscribeBroker(u) \/ \E k \in Keys : TakeConsumer(u, k)
      PROVE Same
  BY <1>7 DEF UnsubscribeBroker, TakeConsumer, Running
<1>8. CASE StartStep
  BY <1>1, <1>8 DEF StartStep, CreateClient, CreateConsumer, StoreConsumer, FinishStartup, Running
<1>9. ASSUME NEW t \in Teardowns, TeardownStep(t) \/ CloseChan(t) PROVE Same
  BY <1>9 DEF TeardownStep, SetClosed, Collect, CancelAll, Wait, Wake, CloseConsumers, CloseClient,
              CloseChan, Running
<1>10. CASE UNCHANGED vars
  BY <1>1, <1>10 DEF vars, Running
<1> QED
  BY <1>1, <1>2, <1>3, <1>4, <1>5, <1>6, <1>7, <1>8, <1>9, <1>10
  DEF Next, SubscribeStep, LoopStep, Teardowns

\* A step of a goroutine keeps what its position says about it, and no step
\* takes a consumer object back.
LEMMA NextCallShape == ASSUME Inv, [Next]_vars PROVE CallShape'
<1> USE ConstantsAssumption DEF Inv, TypeOK, CallShape, Serves, Live, Handles, Keys, Calls,
                                registry, callVars, downVars, unsubVars, flags
<1>1. ASSUME NEW c \in Calls, NEW k \in KeysFor(c), Check(c, k) PROVE CallShape'
  BY <1>1 DEF Check, Goto, KeysFor
<1>2. ASSUME NEW c \in Calls, Register(c) PROVE CallShape'
  BY <1>2 DEF Register, Goto, RegistryShape
<1>3. ASSUME NEW c \in Calls, GetClient(c) \/ Dial(c) PROVE CallShape'
  BY <1>3 DEF GetClient, Dial, Goto
<1>4. ASSUME NEW c \in Calls, RegisterRegex(c) PROVE CallShape'
  BY <1>4 DEF RegisterRegex, Goto
<1>5. ASSUME NEW c \in Calls, CloseDuplicate(c) \/ Spawn(c) PROVE CallShape'
  BY <1>5 DEF CloseDuplicate, Spawn, Goto
<1>6. ASSUME NEW c \in Calls, CancelCtx(c) \/ Stop(c) \/ Receive(c) \/ ChanClosed(c) PROVE CallShape'
  BY <1>6 DEF CancelCtx, Stop, Receive, ChanClosed, Goto
<1>7. ASSUME NEW c \in Calls, LoopStep(c) PROVE CallShape'
  BY <1>7 DEF LoopStep, BeginDispatch, EndDispatch, Deregister, Leave, Goto
<1>8. ASSUME NEW u \in Unsubscribers, UnsubscribeBroker(u) \/ \E k \in Keys : TakeConsumer(u, k)
      PROVE CallShape'
  BY <1>8 DEF UnsubscribeBroker, TakeConsumer, RegistryShape
<1>9. CASE StartStep
  BY <1>9 DEF StartStep, CreateClient, CreateConsumer, StoreConsumer, FinishStartup
<1>10. ASSUME NEW t \in Teardowns, TeardownStep(t) \/ CloseChan(t) PROVE CallShape'
  <2>1. CASE CloseConsumers(t)
    BY <2>1 DEF CloseConsumers, RegistryShape
  <2>2. CASE CloseClient(t)
    BY <2>2 DEF CloseClient, CloseAll
  <2> QED
    BY <1>10, <2>1, <2>2 DEF TeardownStep, SetClosed, Collect, CancelAll, Wait, Wake, CloseChan
<1>11. CASE UNCHANGED vars
  BY <1>11 DEF vars
<1> QED
  BY <1>1, <1>2, <1>3, <1>4, <1>5, <1>6, <1>7, <1>8, <1>9, <1>10, <1>11
  DEF Next, SubscribeStep, Teardowns

\* Whatever is stored under a key keeps serving it: a call that has
\* registered its consumer never goes back.
LEMMA NextRegistryShape == ASSUME Inv, [Next]_vars PROVE RegistryShape'
<1> USE ConstantsAssumption DEF Inv, TypeOK, RegistryShape, Serves, Live, Handles, Keys, Calls,
                                registry, callVars, downVars, unsubVars, flags
<1>1. ASSUME NEW c \in Calls, NEW k \in KeysFor(c), Check(c, k) PROVE RegistryShape'
  BY <1>1 DEF Check, Goto, KeysFor
<1>2. ASSUME NEW c \in Calls, SubscribeStep(c) PROVE RegistryShape'
  <2>1. CASE RegisterRegex(c)
    BY <2>1 DEF RegisterRegex, Goto, CallShape
  <2> QED
    BY <1>2, <2>1 DEF SubscribeStep, Register, GetClient, Dial, CloseDuplicate, Spawn, Goto
<1>3. ASSUME NEW c \in Calls, CancelCtx(c) \/ Stop(c) \/ Receive(c) \/ ChanClosed(c)
      PROVE RegistryShape'
  BY <1>3 DEF CancelCtx, Stop, Receive, ChanClosed, Goto
<1>4. ASSUME NEW c \in Calls, LoopStep(c) PROVE RegistryShape'
  BY <1>4 DEF LoopStep, BeginDispatch, EndDispatch, Deregister, Leave, Goto
<1>5. ASSUME NEW u \in Unsubscribers, UnsubscribeBroker(u) \/ \E k \in Keys : TakeConsumer(u, k)
      PROVE RegistryShape'
  BY <1>5 DEF UnsubscribeBroker, TakeConsumer
<1>6. CASE StartStep
  BY <1>6 DEF StartStep, CreateClient, CreateConsumer, StoreConsumer, FinishStartup, TGoto,
              TeardownShape
<1>7. ASSUME NEW t \in Teardowns, TeardownStep(t) \/ CloseChan(t) PROVE RegistryShape'
  BY <1>7 DEF TeardownStep, SetClosed, Collect, CancelAll, Wait, Wake, CloseConsumers, CloseClient,
              CloseAll, CloseChan
<1>8. CASE UNCHANGED vars
  BY <1>8 DEF vars
<1> QED
  BY <1>1, <1>2, <1>3, <1>4, <1>5, <1>6, <1>7, <1>8 DEF Next, Teardowns

\* Cleanup marks the plugin closed before it touches a loop, and begins only
\* after startup has returned.
LEMMA NextTeardownShape == ASSUME Inv, [Next]_vars PROVE TeardownShape'
<1> USE ConstantsAssumption DEF Inv, TypeOK, TeardownShape, Handles, Teardowns, CleanerState, StarterState,
                                Collected, Drained, registry, callVars, downVars, unsubVars, flags
<1>1. ASSUME NEW c \in Calls, NEW k \in KeysFor(c), Check(c, k) PROVE TeardownShape'
  BY <1>1 DEF Check
<1>2. ASSUME NEW c \in Calls, SubscribeStep(c) PROVE TeardownShape'
  BY <1>2 DEF SubscribeStep, Register, GetClient, Dial, RegisterRegex, CloseDuplicate, Spawn
<1>3. ASSUME NEW c \in Calls,
             \/ CancelCtx(c) \/ Stop(c) \/ Receive(c) \/ ChanClosed(c)
             \/ BeginDispatch(c) \/ EndDispatch(c) \/ Deregister(c)
      PROVE TeardownShape'
  BY <1>3 DEF CancelCtx, Stop, Receive, ChanClosed, BeginDispatch, EndDispatch, Deregister
<1>4. ASSUME NEW c \in Calls, Leave(c) PROVE TeardownShape'
  BY <1>4 DEF Leave, WakeWaiters
<1>5. ASSUME NEW u \in Unsubscribers, UnsubscribeBroker(u) \/ \E k \in Keys : TakeConsumer(u, k)
      PROVE TeardownShape'
  BY <1>5 DEF UnsubscribeBroker, TakeConsumer, RegistryShape
<1>6. CASE StartStep
  BY <1>6 DEF StartStep, CreateClient, CreateConsumer, StoreConsumer, FinishStartup, TGoto
<1>7. ASSUME NEW t \in Cleaners, CloseChan(t) PROVE TeardownShape'
  BY <1>7 DEF CloseChan, StartReturned, TGoto
<1>8. ASSUME NEW t \in Teardowns, TeardownStep(t) PROVE TeardownShape'
  BY <1>8 DEF TeardownStep, SetClosed, Collect, CancelAll, Wait, Wake, CloseConsumers, CloseClient,
              CloseAll, TGoto
<1>9. CASE UNCHANGED vars
  BY <1>9 DEF vars
<1> QED
  BY <1>1, <1>2, <1>3, <1>4, <1>5, <1>6, <1>7, <1>8, <1>9 DEF Next, LoopStep

\* Before any teardown collects the cancel funcs, a live loop finds its own
\* cancel func under its key: registration is refused while one is stored,
\* and only its owner deletes it.
LEMMA NextEntryOwned == ASSUME Inv, [Next]_vars PROVE EntryOwned'
<1> USE ConstantsAssumption DEF Inv, TypeOK, EntryOwned, Live, Collected, Drained, Keys,
                                registry, callVars, downVars, unsubVars, flags
<1>1. ASSUME NEW c \in Calls, NEW k \in KeysFor(c), Check(c, k) PROVE EntryOwned'
  BY <1>1 DEF Check, Goto
<1>2. ASSUME NEW c \in Calls, Register(c) \/ RegisterRegex(c) PROVE EntryOwned'
  BY <1>2 DEF Register, RegisterRegex, AlreadyActive, Goto, CallShape
<1>3. ASSUME NEW c \in Calls, GetClient(c) \/ Dial(c) \/ CloseDuplicate(c) \/ Spawn(c) PROVE EntryOwned'
  BY <1>3 DEF GetClient, Dial, CloseDuplicate, Spawn, Goto
<1>4. ASSUME NEW c \in Calls,
             \/ CancelCtx(c) \/ Stop(c) \/ Receive(c) \/ ChanClosed(c)
             \/ BeginDispatch(c) \/ EndDispatch(c)
      PROVE EntryOwned'
  BY <1>4 DEF CancelCtx, Stop, Receive, ChanClosed, BeginDispatch, EndDispatch, Goto
<1>5. ASSUME NEW c \in Calls, Deregister(c) PROVE EntryOwned'
  BY <1>5 DEF Deregister, Goto, CallShape
<1>6. ASSUME NEW c \in Calls, Leave(c) PROVE EntryOwned'
  BY <1>6 DEF Leave, WakeWaiters, Goto
<1>7. ASSUME NEW u \in Unsubscribers, UnsubscribeBroker(u) \/ \E k \in Keys : TakeConsumer(u, k)
      PROVE EntryOwned'
  BY <1>7 DEF UnsubscribeBroker, TakeConsumer
<1>8. CASE StartStep
  BY <1>8 DEF StartStep, CreateClient, CreateConsumer, StoreConsumer, FinishStartup, TGoto, Teardowns
<1>9. ASSUME NEW t \in Teardowns, TeardownStep(t) \/ CloseChan(t) PROVE EntryOwned'
  BY <1>9 DEF TeardownStep, SetClosed, Collect, CancelAll, Wait, Wake, CloseConsumers, CloseClient,
              CloseChan, TGoto
<1>10. CASE UNCHANGED vars
  BY <1>10 DEF vars
<1> QED
  BY <1>1, <1>2, <1>3, <1>4, <1>5, <1>6, <1>7, <1>8, <1>9, <1>10 DEF Next, SubscribeStep, LoopStep,
     Teardowns

\* While the plugin is open and startup has not failed, no teardown has
\* collected the cancel funcs yet, so every live loop owns its entry.
LEMMA OpenMeansOwned ==
  ASSUME Inv, StartupSound, ~closed
  PROVE  \A c \in Calls : pc[c] \in Live => subscriptions[key[c]] = c
  BY ConstantsAssumption DEF Inv, StartupSound, EntryOwned, TeardownShape, StarterState, Collected,
                             Drained, Teardowns

\* A teardown whose Wait has just returned finds no dispatch in progress.
LEMMA DrainedMeansQuiet == ASSUME Inv, recvWG = 0 PROVE Dispatching = {}
<1>1. IsFiniteSet(Running)
  BY ConstantsAssumption, FS_Subset DEF Running
<1>2. Running = {}
  BY <1>1, FS_EmptySet DEF Inv, WGExact
<1> QED
  BY <1>2 DEF Running, Dispatching, Counted

\* A dispatch begins only while the plugin is open, when the loop owns its
\* key: a second dispatch for the key cannot be in progress.
LEMMA NextExclusiveKey == ASSUME Inv, [Next]_vars PROVE ExclusiveKey'
<1> USE ConstantsAssumption DEF Inv, TypeOK, ExclusiveKey, Dispatching, StartupSound, StarterState,
                                Teardowns, registry, callVars, downVars, unsubVars, flags
<1>1. ASSUME NEW c \in Calls, NEW k \in KeysFor(c), Check(c, k) PROVE ExclusiveKey'
  BY <1>1 DEF Check, Goto
<1>2. ASSUME NEW c \in Calls, SubscribeStep(c) PROVE ExclusiveKey'
  BY <1>2 DEF SubscribeStep, Register, GetClient, Dial, RegisterRegex, CloseDuplicate, Spawn, Goto
<1>3. ASSUME NEW c \in Calls, BeginDispatch(c) PROVE ExclusiveKey'
  <2>1. CASE closed \/ ~StartupSound
    BY <1>3, <2>1 DEF BeginDispatch, Goto
  <2>2. CASE ~closed /\ StartupSound
    <3>1. \A d \in Calls : pc[d] \in Live => subscriptions[key[d]] = d
      BY <2>2, OpenMeansOwned
    <3> QED
      BY <1>3, <3>1 DEF BeginDispatch, Goto, Live
  <2> QED
    BY <2>1, <2>2
<1>4. ASSUME NEW c \in Calls,
             \/ CancelCtx(c) \/ Stop(c) \/ Receive(c) \/ ChanClosed(c)
             \/ EndDispatch(c) \/ Deregister(c) \/ Leave(c)
      PROVE ExclusiveKey'
  BY <1>4 DEF CancelCtx, Stop, Receive, ChanClosed, EndDispatch, Deregister, Leave, WakeWaiters, Goto
<1>5. ASSUME NEW u \in Unsubscribers, UnsubscribeBroker(u) \/ \E k \in Keys : TakeConsumer(u, k)
      PROVE ExclusiveKey'
  BY <1>5 DEF UnsubscribeBroker, TakeConsumer
<1>6. CASE StartStep
  BY <1>6 DEF StartStep, CreateClient, CreateConsumer, StoreConsumer, FinishStartup, TGoto
<1>7. ASSUME NEW t \in Teardowns, TeardownStep(t) \/ CloseChan(t) PROVE ExclusiveKey'
  BY <1>7 DEF TeardownStep, SetClosed, Collect, CancelAll, Wait, Wake, CloseConsumers, CloseClient,
              CloseChan, TGoto
<1>8. CASE UNCHANGED vars
  BY <1>8 DEF vars
<1> QED
  BY <1>1, <1>2, <1>3, <1>4, <1>5, <1>6, <1>7, <1>8 DEF Next, LoopStep

\* No dispatch begins once the plugin is closed, and a cleanup passes Wait
\* only when the count of running loops is zero.
LEMMA NextQuiet == ASSUME Inv, [Next]_vars PROVE QuietAfterCleanup'
<1> USE ConstantsAssumption DEF Inv, TypeOK, QuietAfterCleanup, Dispatching, Drained, Teardowns,
                                registry, callVars, downVars, unsubVars, flags
<1>1. ASSUME NEW c \in Calls, NEW k \in KeysFor(c), Check(c, k) PROVE QuietAfterCleanup'
  BY <1>1 DEF Check, Goto
<1>2. ASSUME NEW c \in Calls, SubscribeStep(c) PROVE QuietAfterCleanup'
  BY <1>2 DEF SubscribeStep, Register, GetClient, Dial, RegisterRegex, CloseDuplicate, Spawn, Goto
<1>3. ASSUME NEW c \in Calls, BeginDispatch(c) PROVE QuietAfterCleanup'
  BY <1>3 DEF BeginDispatch, Goto, TeardownShape, Collected
<1>4. ASSUME NEW c \in Calls,
             \/ CancelCtx(c) \/ Stop(c) \/ Receive(c) \/ ChanClosed(c)
             \/ EndDispatch(c) \/ Deregister(c) \/ Leave(c)
      PROVE QuietAfterCleanup'
  BY <1>4 DEF CancelCtx, Stop, Receive, ChanClosed, EndDispatch, Deregister, Leave, WakeWaiters, Goto
<1>5. ASSUME NEW u \in Unsubscribers, UnsubscribeBroker(u) \/ \E k \in Keys : TakeConsumer(u, k)
      PROVE QuietAfterCleanup'
  BY <1>5 DEF UnsubscribeBroker, TakeConsumer
<1>6. CASE StartStep
  BY <1>6 DEF StartStep, CreateClient, CreateConsumer, StoreConsumer, FinishStartup, TGoto
<1>7. ASSUME NEW t \in Teardowns, TeardownStep(t) \/ CloseChan(t) PROVE QuietAfterCleanup'
  <2>1. CASE recvWG = 0 /\ (Wait(t) \/ Wake(t))
    BY <2>1, DrainedMeansQuiet DEF Wait, Wake
  <2> QED
    BY <1>7, <2>1 DEF TeardownStep, SetClosed, Collect, CancelAll, Wait, Wake, CloseConsumers,
                      CloseClient, CloseChan, TGoto
<1>8. CASE UNCHANGED vars
  BY <1>8 DEF vars
<1> QED
  BY <1>1, <1>2, <1>3, <1>4, <1>5, <1>6, <1>7, <1>8 DEF Next, LoopStep

\* Only a cleanup, after p.closed was set, or the rejection of a duplicate
\* closes a consumer.
LEMMA NextClosedWhenClosed == ASSUME Inv, [Next]_vars PROVE ClosedWhenClosed'
<1> USE ConstantsAssumption DEF Inv, TypeOK, ClosedWhenClosed, StartupSound, StarterState, Teardowns,
                                Handles, Calls, registry, callVars, downVars, unsubVars, flags
<1>1. ASSUME NEW c \in Calls, NEW k \in KeysFor(c), Check(c, k) PROVE ClosedWhenClosed'
  BY <1>1 DEF Check, Goto
<1>2. ASSUME NEW c \in Calls, SubscribeStep(c) PROVE ClosedWhenClosed'
  BY <1>2 DEF SubscribeStep, Register, GetClient, Dial, RegisterRegex, CloseDuplicate, Spawn, Goto,
              CallShape
<1>3. ASSUME NEW c \in Calls, CancelCtx(c) \/ Stop(c) \/ Receive(c) \/ ChanClosed(c) \/ LoopStep(c)
      PROVE ClosedWhenClosed'
  BY <1>3 DEF CancelCtx, Stop, Receive, ChanClosed, LoopStep, BeginDispatch, EndDispatch, Deregister,
              Leave, WakeWaiters, Goto
<1>4. ASSUME NEW u \in Unsubscribers, UnsubscribeBroker(u) \/ \E k \in Keys : TakeConsumer(u, k)
      PROVE ClosedWhenClosed'
  BY <1>4 DEF UnsubscribeBroker, TakeConsumer
<1>5. CASE StartStep
  BY <1>5 DEF StartStep, CreateClient, CreateConsumer, StoreConsumer, FinishStartup, TGoto
<1>6. ASSUME NEW t \in Teardowns, TeardownStep(t) \/ CloseChan(t) PROVE ClosedWhenClosed'
  BY <1>6 DEF TeardownStep, SetClosed, Collect, CancelAll, Wait, Wake, CloseConsumers, CloseClient,
              CloseChan, TGoto, TeardownShape, Collected, Drained
<1>7. CASE UNCHANGED vars
  BY <1>7 DEF vars
<1> QED
  BY <1>1, <1>2, <1>3, <1>4, <1>5, <1>6, <1>7 DEF Next, Teardowns

\* A dispatch begins on a consumer that is not closed, and a consumer is
\* closed only when nothing is dispatched, or before anyone drains it.
LEMMA NextNoUseAfterClose == ASSUME Inv, [Next]_vars PROVE NoUseAfterClose'
<1> USE ConstantsAssumption DEF Inv, TypeOK, NoUseAfterClose, Dispatching, StartupSound, StarterState,
                                Teardowns, Handles, registry, callVars, downVars, unsubVars, flags
<1>1. ASSUME NEW c \in Calls, NEW k \in KeysFor(c), Check(c, k) PROVE NoUseAfterClose'
  BY <1>1 DEF Check, Goto
<1>2. ASSUME NEW c \in Calls, SubscribeStep(c) PROVE NoUseAfterClose'
  <2>1. CASE CloseDuplicate(c)
    <3>1. \A d \in Dispatching : source[d] # c
      BY <2>1 DEF CloseDuplicate, Goto, CallShape, Serves, Live
    <3> QED
      BY <2>1, <3>1 DEF CloseDuplicate, Goto, CallShape
  <2>2. CASE Dial(c)
    BY <2>2 DEF Dial, Goto, CallShape, Live
  <2> QED
    BY <1>2, <2>1, <2>2 DEF SubscribeStep, Register, GetClient, RegisterRegex, Spawn, Goto
<1>3. ASSUME NEW c \in Calls, BeginDispatch(c) PROVE NoUseAfterClose'
  BY <1>3 DEF BeginDispatch, Goto, CallShape, Serves, Live, ClosedWhenClosed
<1>4. ASSUME NEW c \in Calls,
             \/ CancelCtx(c) \/ Stop(c) \/ Receive(c) \/ ChanClosed(c)
             \/ EndDispatch(c) \/ Deregister(c) \/ Leave(c)
      PROVE NoUseAfterClose'
  BY <1>4 DEF CancelCtx, Stop, Receive, ChanClosed, EndDispatch, Deregister, Leave, WakeWaiters, Goto
<1>5. ASSUME NEW u \in Unsubscribers, UnsubscribeBroker(u) \/ \E k \in Keys : TakeConsumer(u, k)
      PROVE NoUseAfterClose'
  BY <1>5 DEF UnsubscribeBroker, TakeConsumer, RegistryShape, CallShape, Live
<1>6. CASE StartStep
  BY <1>6 DEF StartStep, CreateClient, CreateConsumer, StoreConsumer, FinishStartup, TGoto, CallShape, Live
<1>7. ASSUME NEW t \in Teardowns, TeardownStep(t) \/ CloseChan(t) PROVE NoUseAfterClose'
  BY <1>7 DEF TeardownStep, SetClosed, Collect, CancelAll, Wait, Wake, CloseConsumers, CloseClient,
              CloseChan, TGoto, QuietAfterCleanup, Drained
<1>8. CASE UNCHANGED vars
  BY <1>8 DEF vars
<1> QED
  BY <1>1, <1>2, <1>3, <1>4, <1>5, <1>6, <1>7, <1>8 DEF Next, LoopStep

\* Consumers are only made through the client, and closing the client
\* closes them: nothing is open without one, in particular after a teardown.
LEMMA NextNothingOpen == ASSUME Inv, [Next]_vars PROVE NoClientNoConsumer' /\ NothingLeftOpen'
<1> DEFINE P == NoClientNoConsumer /\ NothingLeftOpen
<1> USE ConstantsAssumption DEF Inv, TypeOK, NoClientNoConsumer, NothingLeftOpen, Teardowns, Handles,
                                registry, callVars, downVars, unsubVars, flags
<1>1. ASSUME NEW c \in Calls, NEW k \in KeysFor(c), Check(c, k) PROVE P'
  BY <1>1 DEF Check
<1>2. ASSUME NEW c \in Calls, SubscribeStep(c) PROVE P'
  BY <1>2 DEF SubscribeStep, Register, GetClient, Dial, RegisterRegex, CloseDuplicate, Spawn
<1>3. ASSUME NEW c \in Calls, CancelCtx(c) \/ Stop(c) \/ Receive(c) \/ ChanClosed(c) \/ LoopStep(c)
      PROVE P'
  BY <1>3 DEF CancelCtx, Stop, Receive, ChanClosed, LoopStep, BeginDispatch, EndDispatch, Deregister,
              Leave, WakeWaiters
<1>4. ASSUME NEW u \in Unsubscribers, UnsubscribeBroker(u) \/ \E k \in Keys : TakeConsumer(u, k)
      PROVE P'
  BY <1>4 DEF UnsubscribeBroker, TakeConsumer, RegistryShape
<1>5. CASE StartStep
  BY <1>5 DEF StartStep, CreateClient, CreateConsumer, StoreConsumer, FinishStartup, TGoto, TeardownShape
<1>6. ASSUME NEW t \in Teardowns, TeardownStep(t) \/ CloseChan(t) PROVE P'
  BY <1>6 DEF TeardownStep, SetClosed, Collect, CancelAll, Wait, Wake, CloseConsumers, CloseClient,
              CloseAll, CloseChan, TGoto, RegistryShape, HandleState
<1>7. CASE UNCHANGED vars
  BY <1>7 DEF vars
<1> QED
  BY <1>1, <1>2, <1>3, <1>4, <1>5, <1>6, <1>7 DEF Next, Teardowns

\* Every step keeps the invariant.
LEMMA NextInv == Inv /\ [Next]_vars => Inv'
<1> SUFFICES ASSUME Inv, [Next]_vars PROVE Inv'
  OBVIOUS
<1>1. TypeOK' /\ WGExact' /\ CallShape'
  BY NextTypeOK, NextWGExact, NextCallShape
<1>2. RegistryShape' /\ TeardownShape' /\ EntryOwned'
  BY NextRegistryShape, NextTeardownShape, NextEntryOwned
<1>3. ExclusiveKey' /\ QuietAfterCleanup' /\ ClosedWhenClosed'
  BY NextExclusiveKey, NextQuiet, NextClosedWhenClosed
<1>4. NoUseAfterClose' /\ NoClientNoConsumer' /\ NothingLeftOpen'
  BY NextNoUseAfterClose, NextNothingOpen
<1> QED
  BY <1>1, <1>2, <1>3, <1>4 DEF Inv

-----------------------------------------------------------------------------
(* What follows                                                            *)

\* The invariant holds in every reachable state.
THEOREM Invariance == Spec => []Inv
  BY InitInv, NextInv, PTL DEF Spec

\* Every variable keeps its type; the WaitGroup counter never goes negative
\* (a negative counter makes recvWG.Done() panic).
THEOREM TypeCorrect == Spec => []TypeOK
<1>1. Inv => TypeOK
  BY DEF Inv
<1> QED
  BY <1>1, Invariance, PTL

\* Unless a start has failed, dispatchMessage never acks or nacks on a
\* consumer that has been closed.
THEOREM DispatchSafe == Spec => []NoUseAfterClose
<1>1. Inv => NoUseAfterClose
  BY DEF Inv
<1> QED
  BY <1>1, Invariance, PTL

\* A consumer serves one key only, so exclusivity per key is exclusivity per
\* consumer object.
LEMMA SourceDeterminesKey ==
  ASSUME Inv, NEW c \in Calls, NEW d \in Calls, pc[c] \in Live, pc[d] \in Live, source[c] = source[d]
  PROVE  key[c] = key[d]
  BY ConstantsAssumption DEF Inv, CallShape, Serves

\* Unless a start has failed, messages of one consumer are never handled by
\* two goroutines at once, a subscription that races with the shutdown
\* included.
THEOREM DispatchExclusive == Spec => []ExclusiveDispatch
<1>1. Inv => ExclusiveDispatch
  BY SourceDeterminesKey DEF Inv, ExclusiveDispatch, ExclusiveKey, Dispatching, Live
<1> QED
  BY <1>1, Invariance, PTL

\* Until a teardown collects the cancel funcs, every live loop can be
\* cancelled through the registry.
THEOREM EntriesOwned == Spec => []EntryOwned
<1>1. Inv => EntryOwned
  BY DEF Inv
<1> QED
  BY <1>1, Invariance, PTL

\* When recvWG.Wait() has returned in a cleanup, no handler runs any more,
\* although goroutines may still be spawned after it.
THEOREM CleanupQuiet == Spec => []QuietAfterCleanup
<1>1. Inv => QuietAfterCleanup
  BY DEF Inv
<1> QED
  BY <1>1, Invariance, PTL

\* closeAllResources leaves neither a client nor an open consumer of that
\* client behind, on the shutdown path and on the failed-startup path.
THEOREM TeardownComplete == Spec => []NothingLeftOpen
<1>1. Inv => NothingLeftOpen
  BY DEF Inv
<1> QED
  BY <1>1, Invariance, PTL

-----------------------------------------------------------------------------
(* ReceiveLoops implements ConsumerUse as long as startup does not fail    *)

\* No consumer exists and nothing is dispatched at first.
LEMMA InitImplements == Init => Use!Init
  BY DEF Init, Use!Init, Dispatching

\* If startup cannot fail it stays on its success path.
LEMMA StarterSound == ASSUME StartupMayFail = FALSE PROVE Spec => []StartupSound
<1>1. Init => StartupSound
  BY DEF Init, StartupSound, StarterState, Teardowns
<1>2. TypeOK /\ TeardownShape /\ StartupSound /\ [Next]_vars => StartupSound'
  <2> SUFFICES ASSUME TypeOK, TeardownShape, StartupSound, [Next]_vars PROVE StartupSound'
    OBVIOUS
  <2> USE ConstantsAssumption DEF TypeOK, StartupSound, StarterState, Teardowns, downVars
  <2>1. ASSUME NEW c \in Calls, NEW k \in KeysFor(c), Check(c, k) PROVE StartupSound'
    BY <2>1 DEF Check
  <2>2. ASSUME NEW c \in Calls, SubscribeStep(c) PROVE StartupSound'
    BY <2>2 DEF SubscribeStep, Register, GetClient, Dial, RegisterRegex, CloseDuplicate, Spawn
  <2>3. ASSUME NEW c \in Calls, CancelCtx(c) \/ Stop(c) \/ Receive(c) \/ ChanClosed(c) \/ LoopStep(c)
        PROVE StartupSound'
    BY <2>3 DEF CancelCtx, Stop, Receive, ChanClosed, LoopStep, BeginDispatch, EndDispatch,
                Deregister, Leave, WakeWaiters
  <2>4. ASSUME NEW u \in Unsubscribers, UnsubscribeBroker(u) \/ \E k \in Keys : TakeConsumer(u, k)
        PROVE StartupSound'
    BY <2>4 DEF UnsubscribeBroker, TakeConsumer
  <2>5. CASE StartStep
    BY <2>5, StartupMayFail = FALSE
    DEF StartStep, CreateClient, CreateConsumer, StoreConsumer, FinishStartup, TGoto
  <2>6. ASSUME NEW t \in Teardowns, TeardownStep(t) \/ CloseChan(t) PROVE StartupSound'
    BY <2>6 DEF TeardownStep, SetClosed, Collect, CancelAll, Wait, Wake, CloseConsumers, CloseClient,
                CloseChan, TGoto
  <2>7. CASE UNCHANGED vars
    BY <2>7 DEF vars
  <2> QED
    BY <2>1, <2>2, <2>3, <2>4, <2>5, <2>6, <2>7 DEF Next
<1>3. Inv => TypeOK /\ TeardownShape
  BY DEF Inv
<1> QED
  BY <1>1, <1>2, <1>3, Invariance, PTL DEF Spec

\* Opening, dispatching and closing are steps of ConsumerUse; every other
\* step of the plugin stutters.
LEMMA StepImplements ==
  ASSUME Inv, Inv', StartupSound, StartupSound', [Next]_vars
  PROVE  [Use!Next]_(Use!vars)
<1> DEFINE status == [h \in Handles |-> IF handle[h] \in {"stray", "unsubscribed"}
                                       THEN "open" ELSE handle[h]]
           users == [h \in Handles |-> {c \in Dispatching : source[c] = h}]
           Same == status' = status /\ users' = users
<1> USE ConstantsAssumption DEF Inv, TypeOK, Dispatching, registry, callVars, downVars, unsubVars, flags
<1> DEFINE Goal == [Use!Next]_(Use!vars)
<1>0. ASSUME Same PROVE Goal
  BY <1>0 DEF Use!vars
<1>a. ASSUME NEW h \in Handles, NEW c \in Calls, Use!Open(h) \/ Use!Begin(h, c) \/ Use!End(h, c)
      PROVE Goal
  BY <1>a DEF Use!Next
<1>c. ASSUME NEW h \in Handles, Use!Open(h) PROVE Goal
  BY <1>c DEF Use!Next
<1>b. ASSUME NEW H \in SUBSET Handles, Use!Close(H) PROVE Goal
  BY <1>b DEF Use!Next
<1> SUFFICES Goal
  OBVIOUS
<1> HIDE DEF Goal
<1>1. ASSUME NEW c \in Calls, NEW k \in KeysFor(c), Check(c, k) PROVE Same
  BY <1>1 DEF Check, Goto
<1>2. ASSUME NEW c \in Calls, Register(c) \/ GetClient(c) \/ RegisterRegex(c) \/ Spawn(c) PROVE Same
  BY <1>2 DEF Register, GetClient, RegisterRegex, Spawn, Goto
<1>3. ASSUME NEW c \in Calls, Dial(c) PROVE c \in Handles /\ (Same \/ Use!Open(c))
  <2>1. CASE handle' = handle
    BY <1>3, <2>1 DEF Dial, Goto, CallShape, Handles
  <2>2. CASE handle' = [handle EXCEPT ![c] = IF client THEN "open" ELSE "stray"]
    <3>1. c \in Handles /\ handle[c] = "absent" /\ users' = users
      BY <1>3 DEF Dial, Goto, CallShape, Handles
    <3>2. status' = [status EXCEPT ![c] = "open"]
      BY <2>2, <3>1
    <3> QED
      BY <3>1, <3>2 DEF Use!Open
  <2> QED
    BY <1>3, <2>1, <2>2 DEF Dial
<1>4. ASSUME NEW c \in Calls, CloseDuplicate(c) PROVE c \in RegexCalls /\ Use!Close({c})
  <2>1. c \in RegexCalls /\ c \in Handles
    BY <1>4 DEF CloseDuplicate, Goto, CallShape, Handles
  <2>2. \A d \in Dispatching : source[d] # c
    BY <1>4 DEF CloseDuplicate, Goto, CallShape, Serves, Live
  <2>3. users' = users
    BY <1>4 DEF CloseDuplicate, Goto
  <2>4. status' = [h \in Handles |-> IF h \in {c} THEN "closed" ELSE status[h]]
    BY <1>4, <2>1 DEF CloseDuplicate
  <2> QED
    BY <2>1, <2>2, <2>3, <2>4 DEF Use!Close
<1>5. ASSUME NEW c \in Calls,
             CancelCtx(c) \/ Stop(c) \/ Receive(c) \/ ChanClosed(c) \/ Deregister(c) \/ Leave(c)
      PROVE Same
  BY <1>5 DEF CancelCtx, Stop, Receive, ChanClosed, Deregister, Leave, Goto
<1>6. ASSUME NEW c \in Calls, BeginDispatch(c) PROVE Goal
  <2>1. CASE closed
    BY <1>0, <1>6, <2>1 DEF BeginDispatch, Goto
  <2>2. CASE ~closed
    <3>1. pc[c] = "received" /\ pc' = [pc EXCEPT ![c] = "handling"] /\ source' = source /\ handle' = handle
      BY <1>6, <2>2 DEF BeginDispatch, Goto
    <3>2. source[c] \in Handles /\ status[source[c]] = "open"
      BY <2>2, <3>1 DEF CallShape, Serves, Live, ClosedWhenClosed, HandleState
    <3>3. \A d \in Dispatching : source[d] # source[c]
      BY <3>1, <2>2, OpenMeansOwned, SourceDeterminesKey DEF Live
    <3>4. users' = [users EXCEPT ![source[c]] = {c}]
      <4>1. Dispatching' = Dispatching \cup {c}
        BY <3>1
      <4>2. \A h \in Handles : users'[h] = IF h = source[c] THEN {c} ELSE users[h]
        BY <3>1, <3>3, <4>1
      <4> QED
        BY <3>2, <4>2
    <3>5. PICK h \in Handles : h = source[c]
      BY <3>2
    <3>6. Use!Begin(h, c)
      BY <3>1, <3>2, <3>3, <3>4, <3>5 DEF Use!Begin
    <3> QED
      BY <3>6, <1>a
  <2> QED
    BY <2>1, <2>2
<1>7. ASSUME NEW c \in Calls, EndDispatch(c) PROVE Goal
  <2>1. source[c] \in Handles /\ c \in Dispatching
    BY <1>7 DEF EndDispatch, Goto, CallShape, Live
  <2>2. \A d \in Dispatching : source[d] = source[c] => d = c
    BY <2>1, SourceDeterminesKey DEF ExclusiveKey, Live
  <2>3. Dispatching' = Dispatching \ {c} /\ source' = source /\ handle' = handle
    BY <1>7 DEF EndDispatch, Goto
  <2>4. users' = [users EXCEPT ![source[c]] = {}]
    <3>1. \A h \in Handles : users'[h] = IF h = source[c] THEN {} ELSE users[h]
      BY <2>1, <2>2, <2>3
    <3> QED
      BY <2>1, <3>1
  <2>5. PICK h \in Handles : h = source[c]
    BY <2>1
  <2>6. users[h] = {c}
    BY <2>1, <2>2, <2>5
  <2>7. Use!End(h, c)
    BY <2>3, <2>4, <2>5, <2>6 DEF Use!End
  <2> QED
    BY <2>7, <1>a
<1>8. ASSUME NEW u \in Unsubscribers, UnsubscribeBroker(u) \/ \E k \in Keys : TakeConsumer(u, k)
      PROVE Same
  BY <1>8 DEF UnsubscribeBroker, TakeConsumer, RegistryShape
<1>9. ASSUME CreateClient \/ StoreConsumer \/ FinishStartup PROVE Same
  BY <1>9 DEF CreateClient, StoreConsumer, FinishStartup
<1>10. ASSUME NEW n \in Configured, CreateConsumer(n) PROVE n \in Handles /\ (Same \/ Use!Open(n))
  <2>1. CASE handle' = handle
    BY <1>10, <2>1 DEF CreateConsumer, Handles
  <2>2. CASE handle' = [handle EXCEPT ![n] = "open"]
    <3>1. n \in Handles /\ handle[n] = "absent" /\ users' = users
      BY <1>10 DEF CreateConsumer, Handles
    <3>2. status' = [status EXCEPT ![n] = "open"]
      BY <2>2, <3>1
    <3> QED
      BY <3>1, <3>2 DEF Use!Open
  <2> QED
    BY <1>10, <2>1, <2>2 DEF CreateConsumer
<1>11. ASSUME NEW t \in Teardowns,
              CloseChan(t) \/ SetClosed(t) \/ Collect(t) \/ CancelAll(t) \/ Wait(t) \/ Wake(t)
       PROVE Same
  BY <1>11 DEF CloseChan, SetClosed, Collect, CancelAll, Wait, Wake
<1>12. ASSUME NEW t \in Teardowns, CloseConsumers(t) \/ CloseClient(t)
       PROVE Goal
  <2>1. Dispatching = {}
    BY <1>12 DEF CloseConsumers, CloseClient, TGoto, StartupSound, StarterState, QuietAfterCleanup,
                 Drained, Teardowns
  <2>2. users' = users /\ \A h \in Handles : users[h] = {}
    BY <1>12, <2>1 DEF CloseConsumers, CloseClient
  <2>3. CASE CloseConsumers(t)
    <3>0. PICK H \in SUBSET Handles : H = {h \in Handles : \E k \in Keys : consumers[k] = h}
      OBVIOUS
    <3>1. status' = [h \in Handles |-> IF h \in H THEN "closed" ELSE status[h]]
      BY <2>3, <3>0 DEF CloseConsumers
    <3>2. Use!Close(H)
      BY <2>2, <3>1 DEF Use!Close
    <3> QED
      BY <3>2, <1>b
  <2>4. CASE CloseClient(t)
    <3>0. PICK H \in SUBSET Handles : H = IF client THEN {h \in Handles : handle[h] # "absent"} ELSE {}
      OBVIOUS
    <3>1. status' = [h \in Handles |-> IF h \in H THEN "closed" ELSE status[h]]
      BY <2>4, <3>0 DEF CloseClient, CloseAll
    <3>2. Use!Close(H)
      BY <2>2, <3>1 DEF Use!Close
    <3> QED
      BY <3>2, <1>b
  <2> QED
    BY <1>12, <2>3, <2>4
<1>13. ASSUME UNCHANGED vars PROVE Same
  BY <1>13 DEF vars
<1> HIDE DEF Same
<1> QED
  BY <1>0, <1>c, <1>b, <1>1, <1>2, <1>3, <1>4, <1>5, <1>6, <1>7, <1>8, <1>9, <1>10, <1>11, <1>12, <1>13
  DEF Next, SubscribeStep, LoopStep, StartStep, TeardownStep, Teardowns, Handles

\* The plugin uses every consumer object the way ConsumerUse prescribes,
\* shutdown included, as long as startup does not take its failure path.
THEOREM Implements == ASSUME StartupMayFail = FALSE PROVE Spec => UsesConsumersSafely
<1>1. Inv /\ Inv' /\ StartupSound /\ StartupSound' /\ [Next]_vars => [Use!Next]_(Use!vars)
  BY StepImplements
<1> QED
  BY <1>1, InitImplements, StarterSound, Invariance, StartupMayFail = FALSE, PTL
  DEF Spec, UsesConsumersSafely, Use!Spec
=============================================================================
