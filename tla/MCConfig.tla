------------------------------ MODULE MCConfig ------------------------------
(***************************************************************************)
(* Configurations for TLC: one section at a time takes every combination   *)
(* of unset, negative, small and large values, the others stay unset.      *)
(***************************************************************************)
EXTENDS Config

Unset == [serviceUrl |-> "", connection |-> Nil, retry |-> Nil, monitoring |-> Nil,
          producers |-> <<>>, consumers |-> <<>>, auth |-> Nil]

MCStrings ==
  {"", "pulsar://localhost:6650", "lynx_pulsar", "none", "java_string_hash", "exclusive", "latest", "durable",
   "default-producer", "default-topic", "default-consumer", "default-subscription",
   "app", "a", "t", "s", "x", "token", "oauth2", "tls", "other"}

Connections ==
  [connectionTimeout : {0, 500}, operationTimeout : {-1, 500}, keepAliveInterval : {500},
   maxConnectionsPerHost : {-1, 4}]
Retries ==
  [enable : {TRUE}, maxAttempts : {0, 5}, initialDelay : {0, 50, 20000}, maxDelay : {-1, 50, 30000},
   num : {0, 1, 3, 64}, den : {1, 2}, jitter : {-1, 0}]
Monitorings ==
  [enableHealthCheck : BOOLEAN, metricsNamespace : {"", "app"}, healthCheckInterval : {-5, 0, 10}]

ProducerOptions ==
  {[EmptyProducerOptions EXCEPT !.batchingEnabled = b, !.enableChunking = TRUE, !.batchingMaxMessages = n,
                                !.batchingMaxSize = z, !.chunkMaxSize = z] :
     b \in BOOLEAN, n \in {-1, 0, 7}, z \in {-1, 0, 9}}
ProducerLists ==
  {<<Nil>>} \cup
  {<<[name |-> n, enabled |-> e, topic |-> t, options |-> o]>> :
     n \in {"", "a"}, e \in BOOLEAN, t \in {"", "t"}, o \in {Nil} \cup ProducerOptions}
ConsumerOptions ==
  {[EmptyConsumerOptions EXCEPT !.receiverQueueSize = q, !.maxRedeliverCount = d] :
     q \in {-1, 5}, d \in {Nil, -1, 0, 3}}
ConsumerLists ==
  {<<Nil>>} \cup
  {<<[name |-> n, enabled |-> e, topics |-> t, subscriptionName |-> "s", options |-> o]>> :
     n \in {"", "a"}, e \in BOOLEAN, t \in {0, 2}, o \in {Nil} \cup ConsumerOptions}
Auths ==
  [type : {"", "token", "oauth2", "tls", "other"}, token : {"", "x"},
   oauth2 : {"absent", "partial", "complete"}, tlsAuth : {"absent", "partial", "complete"}]

\* The integer indefinite value, which amd64 builds produce.
Indefinite == -MaxDuration - 1

MCInputs ==
  {Unset}
  \cup {[Unset EXCEPT !.connection = x] : x \in Connections}
  \cup {[Unset EXCEPT !.retry = x] : x \in Retries}
  \cup {[Unset EXCEPT !.monitoring = x] : x \in Monitorings}
  \cup {[Unset EXCEPT !.producers = x] : x \in ProducerLists}
  \cup {[Unset EXCEPT !.consumers = x] : x \in ConsumerLists}
  \cup {[Unset EXCEPT !.auth = x] : x \in Auths}
=============================================================================
