----------------------------- MODULE Producers -----------------------------
(***************************************************************************)
(* The producing side of a plugin that has been started: the producer      *)
(* registry, the Produce methods, Close(name), and what closeAllResources  *)
(* does to producers.                                                      *)
(*                                                                         *)
(* Every Produce method finds a producer and then sends one message, or a  *)
(* batch of them one after the other; no lock is held while sending.  A    *)
(* producer object is named after the configured producer it belongs to.   *)
(***************************************************************************)
EXTENDS Naturals, FiniteSets

CONSTANTS
  Names,           \* the enabled producers
  Singles,         \* calls of Produce, ProduceWith, ProduceWithProperties, ProduceAsync
  Batches,         \* calls of ProduceBatch
  MaxBatch,        \* bound on the length of a batch
  Closers,         \* calls of Close(name)
  Teardowns,       \* calls of closeAllResources
  None             \* no name

Calls == Singles \cup Batches

ASSUME ProducersAssumption ==
  /\ Singles \cap Batches = {}
  /\ MaxBatch \in Nat
  /\ None \notin Names

VARIABLES
  registered,      \* p.producers: the names that are in the map
  open,            \* the producer objects that are open
  closes,          \* how often the plugin has called Close on each of them
  inflight,        \* messages handed to an open producer, <<call, index>>
  broker,          \* messages the broker has stored
  sent, failed,    \* the two Prometheus counters
  pc, target, len, done,  \* per call: control, name, messages, confirmed ones
  cpc, held,       \* per Close: control, producer it took
  tpc              \* per teardown: control

callVars == <<pc, target, len, done>>
closeVars == <<cpc, held>>
traffic == <<inflight, broker, sent, failed>>
vars == <<registered, open, closes, traffic, callVars, closeVars, tpc>>

Messages == Calls \X Nat
Finished == {"ok", "error", "refused"}

TypeOK ==
  /\ registered \in SUBSET Names
  /\ open \in SUBSET Names
  /\ closes \in [Names -> Nat]
  /\ inflight \in SUBSET Messages /\ broker \in SUBSET Messages
  /\ sent \in Nat /\ failed \in Nat
  /\ pc \in [Calls -> {"idle", "named", "loop", "waiting"} \cup Finished]
  /\ target \in [Calls -> Names \cup {None}]
  /\ len \in [Calls -> Nat] /\ done \in [Calls -> Nat]
  /\ \A c \in Calls : done[c] <= len[c]
  /\ cpc \in [Closers -> {"idle", "taken", "done"}]
  /\ held \in [Closers -> Names \cup {None}]
  /\ tpc \in [Teardowns -> {"idle", "closeClient", "done"}]

\* Startup has created and stored every enabled producer.
Init ==
  /\ registered = Names /\ open = Names
  /\ closes = [n \in Names |-> 0]
  /\ inflight = {} /\ broker = {}
  /\ sent = 0 /\ failed = 0
  /\ pc = [c \in Calls |-> "idle"]
  /\ target = [c \in Calls |-> None]
  /\ len = [c \in Calls |-> 0] /\ done = [c \in Calls |-> 0]
  /\ cpc = [u \in Closers |-> "idle"] /\ held = [u \in Closers |-> None]
  /\ tpc = [t \in Teardowns |-> "idle"]

-----------------------------------------------------------------------------
(* The Produce methods                                                     *)

Goto(c, from, to) ==
  /\ pc[c] = from
  /\ pc' = [pc EXCEPT ![c] = to]

Lengths(c) == IF c \in Batches THEN 0 .. MaxBatch ELSE {1}

\* defaultProducerName: the first key a range over the map yields, which in
\* Go is any of them, or "" (not a producer's name).
PickDefault(c) ==
  /\ Goto(c, "idle", "named")
  /\ \E n \in registered \cup {None} :
       /\ n = None => registered = {}
       /\ target' = [target EXCEPT ![c] = n]
  /\ \E l \in Lengths(c) : len' = [len EXCEPT ![c] = l]
  /\ UNCHANGED <<registered, open, closes, traffic, done, closeVars, tpc>>

\* ProduceWith is given a name by its caller.
PickNamed(c, n) ==
  /\ c \in Singles
  /\ Goto(c, "idle", "named")
  /\ target' = [target EXCEPT ![c] = n]
  /\ len' = [len EXCEPT ![c] = 1]
  /\ UNCHANGED <<registered, open, closes, traffic, done, closeVars, tpc>>

\* GetProducer: a second critical section; the name may be gone by now.
Lookup(c) ==
  /\ \/ target[c] \in registered /\ Goto(c, "named", "loop")
     \/ target[c] \notin registered /\ Goto(c, "named", "refused")
  /\ UNCHANGED <<registered, open, closes, traffic, target, len, done, closeVars, tpc>>

\* producer.Send or SendAsync hands the next message to the library, which
\* accepts it if the producer is open.
SendPastEnd(c) ==
  /\ done[c] <= len[c]
  /\ target[c] \in open
  /\ Goto(c, "loop", "waiting")
  /\ inflight' = inflight \cup {<<c, done[c]>>}
  /\ UNCHANGED <<registered, open, closes, broker, sent, failed, target, len, done, closeVars, tpc>>
Send(c) ==
  /\ done[c] < len[c]
  /\ target[c] \in open
  /\ Goto(c, "loop", "waiting")
  /\ inflight' = inflight \cup {<<c, done[c]>>}
  /\ UNCHANGED <<registered, open, closes, broker, sent, failed, target, len, done, closeVars, tpc>>

\* The broker stores a message, perhaps after its Send has timed out or its
\* producer has been closed.
Deliver(m) ==
  /\ inflight' = inflight \ {m}
  /\ broker' = broker \cup {m}
  /\ UNCHANGED <<registered, open, closes, sent, failed, callVars, closeVars, tpc>>

\* The broker's acknowledgement arrives: the message counts as sent, and a
\* batch goes on with the next one.
SendOK(c) ==
  /\ <<c, done[c]>> \in broker
  /\ Goto(c, "waiting", "loop")
  /\ done' = [done EXCEPT ![c] = @ + 1]
  /\ sent' = sent + 1
  /\ UNCHANGED <<registered, open, closes, inflight, broker, failed, target, len, closeVars, tpc>>

\* Send returns an error, at once (producer closed, context done, queue
\* full) or while waiting: the call returns it, and a batch ends here.
SendFailsSkipped(c) ==
  /\ done[c] < len[c]
  /\ Goto(c, "loop", "loop") \/ Goto(c, "waiting", "loop")
  /\ done' = [done EXCEPT ![c] = @ + 1]
  /\ failed' = failed + 1
  /\ UNCHANGED <<registered, open, closes, inflight, broker, sent, target, len, closeVars, tpc>>
SendFailsCountedSent(c) ==
  /\ done[c] < len[c]
  /\ Goto(c, "loop", "error") \/ Goto(c, "waiting", "error")
  /\ sent' = sent + 1
  /\ UNCHANGED <<registered, open, closes, inflight, broker, failed, target, len, done, closeVars, tpc>>
SendFails(c) ==
  /\ done[c] < len[c]
  /\ Goto(c, "loop", "error") \/ Goto(c, "waiting", "error")
  /\ failed' = failed + 1
  /\ UNCHANGED <<registered, open, closes, inflight, broker, sent, target, len, done, closeVars, tpc>>

\* Every message has been sent.
Return(c) ==
  /\ done[c] = len[c]
  /\ Goto(c, "loop", "ok")
  /\ UNCHANGED <<registered, open, closes, traffic, target, len, done, closeVars, tpc>>

-----------------------------------------------------------------------------
(* Close(name) and closeAllResources                                       *)

\* Under producerMutex the producer is taken out of the map ...
TakeProducerKept(u, n) ==
  /\ cpc[u] = "idle"
  /\ cpc' = [cpc EXCEPT ![u] = IF n \in registered THEN "taken" ELSE "done"]
  /\ held' = [held EXCEPT ![u] = n]
  /\ UNCHANGED <<registered, open, closes, traffic, callVars, tpc>>
TakeProducer(u, n) ==
  /\ cpc[u] = "idle"
  /\ cpc' = [cpc EXCEPT ![u] = IF n \in registered THEN "taken" ELSE "done"]
  /\ held' = [held EXCEPT ![u] = n]
  /\ registered' = registered \ {n}
  /\ UNCHANGED <<open, closes, traffic, callVars, tpc>>

\* ... and then closed, outside the lock: sends on it fail from now on.
CloseTaken(u) ==
  /\ cpc[u] = "taken"
  /\ cpc' = [cpc EXCEPT ![u] = "done"]
  /\ open' = open \ {held[u]}
  /\ closes' = [closes EXCEPT ![held[u]] = @ + 1]
  /\ UNCHANGED <<registered, traffic, callVars, held, tpc>>

\* closeAllResources closes every registered producer and resets the map,
\* all under producerMutex ...
CloseProducers(t) ==
  /\ tpc[t] = "idle"
  /\ tpc' = [tpc EXCEPT ![t] = "closeClient"]
  /\ open' = open \ registered
  /\ closes' = [n \in Names |-> IF n \in registered THEN closes[n] + 1 ELSE closes[n]]
  /\ registered' = {}
  /\ UNCHANGED <<traffic, callVars, closeVars>>

\* ... and then the client, which closes what is left of its producers.
CloseClientForgotten(t) ==
  /\ tpc[t] = "closeClient"
  /\ tpc' = [tpc EXCEPT ![t] = "done"]
  /\ UNCHANGED <<registered, open, closes, traffic, callVars, closeVars>>
CloseClient(t) ==
  /\ tpc[t] = "closeClient"
  /\ tpc' = [tpc EXCEPT ![t] = "done"]
  /\ open' = {}
  /\ UNCHANGED <<registered, closes, traffic, callVars, closeVars>>

CallStep(c) ==
  \/ PickDefault(c) \/ (\E n \in Names : PickNamed(c, n)) \/ Lookup(c)
  \/ Send(c) \/ SendOK(c) \/ SendFails(c) \/ Return(c)

Next ==
  \/ \E c \in Calls : CallStep(c)
  \/ \E m \in inflight : Deliver(m)
  \/ \E u \in Closers : CloseTaken(u) \/ \E n \in Names : TakeProducer(u, n)
  \/ \E t \in Teardowns : CloseProducers(t) \/ CloseClient(t)

Spec == Init /\ [][Next]_vars

-----------------------------------------------------------------------------
\* A producer that IsProducerReady reports, and that GetProducer hands out,
\* is open: Close and closeAllResources never leave a closed producer in the
\* map, however they interleave.
RegisteredOpen == registered \subseteq open

\* However many Close(name) calls and teardowns run together, the plugin
\* closes a producer object once.
ClosedOnce == \A n \in Names : closes[n] <= 1

\* What ProduceBatch reports is true even when its producer is closed half
\* way: success means that every message is stored, and failure at message i
\* that all messages before i are stored and none after i.
BatchReport ==
  \A c \in Calls :
    /\ pc[c] = "ok" => \A i \in 0 .. len[c] - 1 : <<c, i>> \in broker
    /\ pc[c] = "error" => /\ \A i \in 0 .. done[c] - 1 : <<c, i>> \in broker
                          /\ \A m \in broker : m[1] = c => m[2] <= done[c]

\* Once all calls have returned, the counters bracket what the broker has
\* stored: every message counted as sent is there, and the ones there that
\* are not counted as sent are counted as failed (a Send that timed out).
CountersBracket ==
  (\A c \in Calls : pc[c] \in Finished)
     => sent <= Cardinality(broker) /\ Cardinality(broker) <= sent + failed

\* When closeAllResources has returned the client library takes no further
\* message: a Produce call that was half way may still call Send, which fails,
\* also on a producer that a Close call has taken and not yet closed.
QuietAfterTeardown ==
  [][(\E t \in Teardowns : tpc[t] = "done") => inflight' \subseteq inflight]_vars

\* How many messages of a call the broker has, and what the call returned.
Stored(c) == IF <<c, done[c]>> \in broker THEN done[c] + 1 ELSE done[c]
Reported(c) == IF pc[c] \in Finished \cup {"idle"} THEN pc[c] ELSE "open"

O == INSTANCE OrderedSend WITH
       size <- len,
       stored <- [c \in Calls |-> Stored(c)],
       confirmed <- done,
       report <- [c \in Calls |-> Reported(c)]

\* The Produce methods send in order and stop at the first error, and what
\* they return is true and final, while producers are closed and timed out
\* messages are stored late.
SendsInOrder == O!Spec
=============================================================================
