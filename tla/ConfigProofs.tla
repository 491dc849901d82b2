---------------------------- MODULE ConfigProofs ----------------------------
(***************************************************************************)
(* Proofs about Config, for every set of configurations: each section's    *)
(* normalization yields a section of the right type on which it is the     *)
(* identity, which makes the properties of p.config inductive.             *)
(***************************************************************************)
EXTENDS Config, NatRecursion, TLAPS

\* A limit or a connection count stays an int32.
LEMMA DefaultsFit ==
  /\ 1 \in Int32 /\ 3 \in Int32 /\ 1000 \in Int32 /\ 0 \in Int32
  /\ \A v \in Int32 : Positive(v, 1) \in Int32 /\ Positive(v, 3) \in Int32 /\ Positive(v, 1000) \in Int32
  BY WidthAssumption DEF Int32, Positive

\* The plugin's keywords are strings.
LEMMA Keywords ==
  /\ "" \in Strings /\ "pulsar://localhost:6650" \in Strings /\ "lynx_pulsar" \in Strings
  /\ "none" \in Strings /\ "java_string_hash" \in Strings
  /\ "exclusive" \in Strings /\ "latest" \in Strings /\ "durable" \in Strings
  /\ "default-producer" \in Strings /\ "default-topic" \in Strings
  /\ "default-consumer" \in Strings /\ "default-subscription" \in Strings
  BY StringAssumption

\* Filling in a name once is enough.
LEMMA NamedTwice ==
  ASSUME NEW s \in Strings, NEW d \in Strings, d # ""
  PROVE  Named(s, d) \in Strings /\ Named(Named(s, d), d) = Named(s, d)
  BY DEF Named

\* Connection section.
LEMMA ConnectionNormal ==
  ASSUME NEW c \in ConnectionSections \cup {Nil}
  PROVE  /\ NormalConnection(c) \in ConnectionSections
         /\ NormalConnection(NormalConnection(c)) = NormalConnection(c)
<1>1. DefaultConnection \in ConnectionSections
  BY DefaultsFit DEF DefaultConnection, ConnectionSections
<1>2. NormalConnection(DefaultConnection) = DefaultConnection
  BY <1>1, NilAssumption DEF DefaultConnection, NormalConnection, Positive
<1>3. ASSUME c \in ConnectionSections
      PROVE  /\ NormalConnection(c) \in ConnectionSections
             /\ NormalConnection(NormalConnection(c)) = NormalConnection(c)
  <2>1. c # Nil
    BY <1>3, NilAssumption
  <2>2. NormalConnection(c) \in ConnectionSections
    BY <1>3, <2>1, DefaultsFit DEF NormalConnection, ConnectionSections, Positive
  <2>3. NormalConnection(c) # Nil
    BY <2>2, NilAssumption
  <2> QED
    BY <1>3, <2>1, <2>2, <2>3 DEF NormalConnection, ConnectionSections, Positive
<1> QED
  BY <1>1, <1>2, <1>3 DEF NormalConnection

\* Retry section: what is accepted once is accepted again, with its delays
\* in order.
LEMMA RetryNormal ==
  ASSUME NEW r \in RetrySections \cup {Nil}
  PROVE  /\ NormalRetry(r) \in RetrySections
         /\ NormalRetry(NormalRetry(r)) = NormalRetry(r)
         /\ ValidRetry(r) => /\ ValidRetry(NormalRetry(r))
                             /\ NormalRetry(r).initialDelay <= NormalRetry(r).maxDelay
<1> DEFINE Goal(s) ==
      /\ NormalRetry(s) \in RetrySections
      /\ NormalRetry(NormalRetry(s)) = NormalRetry(s)
      /\ ValidRetry(s) => /\ ValidRetry(NormalRetry(s))
                          /\ NormalRetry(s).initialDelay <= NormalRetry(s).maxDelay
<1>1. DefaultRetry \in RetrySections
  BY DefaultsFit DEF DefaultRetry, RetrySections
<1>2. NormalRetry(DefaultRetry) = DefaultRetry
  BY <1>1, NilAssumption DEF DefaultRetry, NormalRetry, Positive
<1>3. CASE r = Nil
  <2>1. NormalRetry(r) = DefaultRetry
    BY <1>3 DEF NormalRetry
  <2>2. DefaultRetry.initialDelay <= DefaultRetry.maxDelay /\ DefaultRetry.jitter >= 0
    BY DEF DefaultRetry
  <2>3. ValidRetry(DefaultRetry)
    BY <1>2, <2>2 DEF ValidRetry
  <2> QED
    BY <1>1, <1>2, <2>1, <2>2, <2>3
<1>4. CASE r \in RetrySections
  <2>1. r # Nil
    BY <1>4, NilAssumption
  <2>2. NormalRetry(r) \in RetrySections
    BY <1>4, <2>1, DefaultsFit DEF NormalRetry, RetrySections, Positive
  <2>3. NormalRetry(r) # Nil
    BY <2>2, NilAssumption
  <2>4. NormalRetry(NormalRetry(r)) = NormalRetry(r)
    BY <1>4, <2>1, <2>2, <2>3 DEF NormalRetry, RetrySections, Positive
  <2>5. NormalRetry(r).jitter = r.jitter
    BY <2>1 DEF NormalRetry
  <2> QED
    BY <2>1, <2>2, <2>3, <2>4, <2>5 DEF ValidRetry
<1> QED
  BY <1>3, <1>4

\* The normal initial delay and multiplier are positive.
LEMMA RetryPositive ==
  ASSUME NEW r \in RetrySections \cup {Nil}
  PROVE  NormalRetry(r).initialDelay > 0 /\ NormalRetry(r).num > 0
<1>1. CASE r = Nil
  BY <1>1 DEF NormalRetry, DefaultRetry
<1>2. CASE r # Nil
  <2>1. r.initialDelay \in Int /\ r.num \in Int
    BY <1>2 DEF RetrySections
  <2> QED
    BY <1>2, <2>1 DEF NormalRetry, Positive
<1> QED
  BY <1>1, <1>2

\* Monitoring section: the interval is positive.
LEMMA MonitoringNormal ==
  ASSUME NEW m \in MonitoringSections \cup {Nil}
  PROVE  /\ NormalMonitoring(m) \in MonitoringSections
         /\ NormalMonitoring(NormalMonitoring(m)) = NormalMonitoring(m)
         /\ NormalMonitoring(m).healthCheckInterval > 0
<1>0. "lynx_pulsar" \in Strings /\ "lynx_pulsar" # ""
  BY Keywords
<1>1. DefaultMonitoring \in MonitoringSections
  BY <1>0 DEF DefaultMonitoring, MonitoringSections
<1>2. NormalMonitoring(DefaultMonitoring) = DefaultMonitoring
  BY <1>1, NilAssumption DEF DefaultMonitoring, NormalMonitoring, Positive, Named
<1>3. CASE m = Nil
  BY <1>1, <1>2, <1>3 DEF NormalMonitoring, DefaultMonitoring
<1>4. CASE m \in MonitoringSections
  <2>1. m # Nil
    BY <1>4, NilAssumption
  <2> DEFINE n == Named(m.metricsNamespace, "lynx_pulsar")
             i == Positive(m.healthCheckInterval, 30000)
  <2>2. NormalMonitoring(m) = [enableHealthCheck |-> m.enableHealthCheck, metricsNamespace |-> n,
                               healthCheckInterval |-> i]
    BY <2>1 DEF NormalMonitoring
  <2>3. /\ m.metricsNamespace \in Strings /\ m.healthCheckInterval \in Int
        /\ m.enableHealthCheck \in BOOLEAN
    BY <1>4 DEF MonitoringSections
  <2>4. n \in Strings /\ Named(n, "lynx_pulsar") = n
    BY <1>0, <2>3, NamedTwice
  <2>5. i \in Int /\ i > 0 /\ Positive(i, 30000) = i
    BY <2>3 DEF Positive
  <2>6. NormalMonitoring(m) \in MonitoringSections
    BY <2>2, <2>3, <2>4, <2>5 DEF MonitoringSections
  <2>7. NormalMonitoring(m) # Nil
    BY <2>6, NilAssumption
  <2>8. NormalMonitoring(NormalMonitoring(m))
          = [enableHealthCheck |-> m.enableHealthCheck, metricsNamespace |-> Named(n, "lynx_pulsar"),
             healthCheckInterval |-> Positive(i, 30000)]
    BY <2>2, <2>7 DEF NormalMonitoring
  <2> QED
    BY <2>2, <2>4, <2>5, <2>6, <2>8
<1> QED
  BY <1>3, <1>4
\* A producer entry: the number of messages in a batch is positive.
LEMMA ProducerNormal ==
  ASSUME NEW p \in ProducerEntries
  PROVE  /\ NormalProducer(p) \in ProducerEntries
         /\ NormalProducer(NormalProducer(p)) = NormalProducer(p)
         /\ NormalProducer(p).options \in ProducerOptionSections
         /\ NormalProducer(p).options.batchingMaxMessages > 0
         /\ ValidProducer(p) => ValidProducer(NormalProducer(p))
<1> DEFINE o == IF p.options = Nil THEN EmptyProducerOptions ELSE p.options
           f == FillProducerOptions(o)
<1>0. "none" \in Strings /\ "none" # "" /\ "java_string_hash" \in Strings /\ "java_string_hash" # ""
  BY Keywords
<1>1. o \in ProducerOptionSections
  <2>1. EmptyProducerOptions \in ProducerOptionSections
    <3>1. "" \in Strings
      BY Keywords
    <3>2. 0 \in Int32
      BY DefaultsFit
    <3>3. ASSUME NEW z \in Int32, NEW e \in Strings, NEW b \in BOOLEAN
          PROVE  [sendTimeout |-> 0, maxPendingMessages |-> z, batchingEnabled |-> b,
                  batchingMaxPublishDelay |-> 0, batchingMaxMessages |-> z, batchingMaxSize |-> z,
                  enableChunking |-> b, chunkMaxSize |-> z, compressionType |-> e, hashingScheme |-> e]
                 \in ProducerOptionSections
      BY DEF ProducerOptionSections
    <3> QED
      BY <3>1, <3>2, <3>3, Zenon DEF EmptyProducerOptions
  <2> QED
    BY <2>1 DEF ProducerEntries
<1> HIDE DEF o
<1>2. /\ o.sendTimeout \in Int /\ o.maxPendingMessages \in Int32 /\ o.batchingEnabled \in BOOLEAN
      /\ o.batchingMaxPublishDelay \in Int /\ o.batchingMaxMessages \in Int32 /\ o.batchingMaxSize \in Int32
      /\ o.enableChunking \in BOOLEAN /\ o.chunkMaxSize \in Int32
      /\ o.compressionType \in Strings /\ o.hashingScheme \in Strings
  BY <1>1 DEF ProducerOptionSections
<1> DEFINE rec(st, mp, pd, mm, ct, hs) ==
      [sendTimeout |-> st, maxPendingMessages |-> mp, batchingEnabled |-> o.batchingEnabled,
       batchingMaxPublishDelay |-> pd, batchingMaxMessages |-> mm, batchingMaxSize |-> o.batchingMaxSize,
       enableChunking |-> o.enableChunking, chunkMaxSize |-> o.chunkMaxSize,
       compressionType |-> ct, hashingScheme |-> hs]
           a == Positive(o.sendTimeout, 30000)
           b == Positive(o.maxPendingMessages, 1000)
           c == Positive(o.batchingMaxPublishDelay, 10)
           d == Positive(o.batchingMaxMessages, 1000)
           e == Named(o.compressionType, "none")
           g == Named(o.hashingScheme, "java_string_hash")
<1>3. f = rec(a, b, c, d, e, g)
  BY DEF FillProducerOptions
<1>4. /\ a \in Int /\ c \in Int /\ b \in Int32 /\ d \in Int32 /\ d > 0
      /\ Positive(a, 30000) = a /\ Positive(b, 1000) = b /\ Positive(c, 10) = c /\ Positive(d, 1000) = d
  BY <1>2, DefaultsFit, WidthAssumption DEF Positive, Int32
<1>5. /\ e \in Strings /\ g \in Strings
      /\ Named(e, "none") = e /\ Named(g, "java_string_hash") = g
  BY <1>0, <1>2, NamedTwice
<1> HIDE DEF a, b, c, d, e, g
<1>6. f \in ProducerOptionSections /\ f.batchingMaxMessages > 0
  BY <1>2, <1>3, <1>4, <1>5 DEF ProducerOptionSections
<1>7. FillProducerOptions(f) = f
  <2>1. FillProducerOptions(f)
          = rec(Positive(a, 30000), Positive(b, 1000), Positive(c, 10), Positive(d, 1000),
                Named(e, "none"), Named(g, "java_string_hash"))
    BY <1>3 DEF FillProducerOptions
  <2> QED
    BY <1>3, <1>4, <1>5, <2>1
<1> HIDE DEF f
<1>8. NormalProducer(p) = [name |-> p.name, enabled |-> p.enabled, topic |-> p.topic, options |-> f]
  BY DEF NormalProducer, ProducerEntries, f, o
<1>9. f # Nil
  BY <1>6, NilAssumption
<1>10. NormalProducer(p) \in ProducerEntries
  BY <1>6, <1>8 DEF ProducerEntries
<1>11. NormalProducer(NormalProducer(p)) = NormalProducer(p)
  BY <1>7, <1>8, <1>9 DEF NormalProducer
<1>12. NormalProducer(p) # Nil
  BY <1>10, NilAssumption
<1>13. ValidProducer(p) => ValidProducer(NormalProducer(p))
  <2>1. /\ NormalProducer(p).enabled = p.enabled /\ NormalProducer(p).name = p.name
        /\ NormalProducer(p).topic = p.topic
    BY <1>8
  <2> QED
    BY <1>12, <2>1, Zenon DEF ValidProducer
<1> QED
  BY <1>6, <1>8, <1>10, <1>11, <1>13

\* A consumer entry.
LEMMA ConsumerNormal ==
  ASSUME NEW c \in ConsumerEntries
  PROVE  /\ NormalConsumer(c) \in ConsumerEntries
         /\ NormalConsumer(NormalConsumer(c)) = NormalConsumer(c)
         /\ NormalConsumer(c).options \in ConsumerOptionSections
         /\ ValidConsumer(c) => ValidConsumer(NormalConsumer(c))
<1> DEFINE o == IF c.options = Nil THEN EmptyConsumerOptions ELSE c.options
           f == FillConsumerOptions(o)
<1>0. /\ "exclusive" \in Strings /\ "exclusive" # "" /\ "latest" \in Strings /\ "latest" # ""
      /\ "durable" \in Strings /\ "durable" # ""
  BY Keywords
<1>1. o \in ConsumerOptionSections
  <2>1. EmptyConsumerOptions \in ConsumerOptionSections
    <3>1. "" \in Strings
      BY Keywords
    <3>2. 0 \in Int32
      BY DefaultsFit
    <3>3. ASSUME NEW z \in Int32, NEW e \in Strings, NEW b \in BOOLEAN
          PROVE  [subscriptionType |-> e, subscriptionInitialPosition |-> e, subscriptionMode |-> e,
                  receiverQueueSize |-> z, negativeAckDelay |-> 0, retry |-> b, maxRedeliverCount |-> Nil]
                 \in ConsumerOptionSections
      BY DEF ConsumerOptionSections
    <3> QED
      BY <3>1, <3>2, <3>3, Zenon DEF EmptyConsumerOptions
  <2> QED
    BY <2>1 DEF ConsumerEntries
<1> HIDE DEF o
<1>2. /\ o.subscriptionType \in Strings /\ o.subscriptionInitialPosition \in Strings
      /\ o.subscriptionMode \in Strings /\ o.receiverQueueSize \in Int32 /\ o.negativeAckDelay \in Int
      /\ o.retry \in BOOLEAN /\ o.maxRedeliverCount \in Int32 \cup {Nil}
  BY <1>1 DEF ConsumerOptionSections
<1> DEFINE rec(st, ip, sm, qs, nd) ==
      [subscriptionType |-> st, subscriptionInitialPosition |-> ip, subscriptionMode |-> sm,
       receiverQueueSize |-> qs, negativeAckDelay |-> nd,
       retry |-> o.retry, maxRedeliverCount |-> o.maxRedeliverCount]
           a == Named(o.subscriptionType, "exclusive")
           b == Named(o.subscriptionInitialPosition, "latest")
           d == Named(o.subscriptionMode, "durable")
           e == Positive(o.receiverQueueSize, 1000)
           g == Positive(o.negativeAckDelay, 60000)
<1>3. f = rec(a, b, d, e, g)
  BY DEF FillConsumerOptions
<1>4. e \in Int32 /\ g \in Int /\ Positive(e, 1000) = e /\ Positive(g, 60000) = g
  BY <1>2, DefaultsFit, WidthAssumption DEF Positive, Int32
<1>5. /\ a \in Strings /\ b \in Strings /\ d \in Strings
      /\ Named(a, "exclusive") = a /\ Named(b, "latest") = b /\ Named(d, "durable") = d
  BY <1>0, <1>2, NamedTwice
<1> HIDE DEF a, b, d, e, g
<1>6. f \in ConsumerOptionSections
  BY <1>2, <1>3, <1>4, <1>5 DEF ConsumerOptionSections
<1>7. FillConsumerOptions(f) = f
  <2>1. FillConsumerOptions(f)
          = rec(Named(a, "exclusive"), Named(b, "latest"), Named(d, "durable"),
                Positive(e, 1000), Positive(g, 60000))
    BY <1>3 DEF FillConsumerOptions
  <2> QED
    BY <1>3, <1>4, <1>5, <2>1
<1> HIDE DEF f
<1>8. NormalConsumer(c) = [name |-> c.name, enabled |-> c.enabled, topics |-> c.topics,
                           subscriptionName |-> c.subscriptionName, options |-> f]
  BY DEF NormalConsumer, ConsumerEntries, f, o
<1>9. f # Nil
  BY <1>6, NilAssumption
<1>10. NormalConsumer(c) \in ConsumerEntries
  BY <1>6, <1>8 DEF ConsumerEntries
<1>11. NormalConsumer(NormalConsumer(c)) = NormalConsumer(c)
  BY <1>7, <1>8, <1>9 DEF NormalConsumer
<1>12. NormalConsumer(c) # Nil
  BY <1>10, NilAssumption
<1>13. ValidConsumer(c) => ValidConsumer(NormalConsumer(c))
  <2>1. /\ NormalConsumer(c).enabled = c.enabled /\ NormalConsumer(c).name = c.name
        /\ NormalConsumer(c).topics = c.topics /\ NormalConsumer(c).subscriptionName = c.subscriptionName
    BY <1>8
  <2> QED
    BY <1>12, <2>1, Zenon DEF ValidConsumer
<1> QED
  BY <1>6, <1>8, <1>10, <1>11, <1>13

\* Normalization as a whole: what it accepts it makes normal.
LEMMA NormalizeNormal ==
  ASSUME NEW c \in RawConfigs, Valid(c)
  PROVE  /\ Normalize(c) \in RawConfigs
         /\ Valid(Normalize(c))
         /\ Normalize(Normalize(c)) = Normalize(c)
         /\ Normalize(c).monitoring.healthCheckInterval \in Int
         /\ Normalize(c).monitoring.healthCheckInterval > 0
         /\ Normalize(c).connection \in ConnectionSections
         /\ Normalize(c).retry \in RetrySections
         /\ Normalize(c).retry.initialDelay <= Normalize(c).retry.maxDelay
<1> DEFINE n == Normalize(c)
           P == [i \in DOMAIN c.producers |-> NormalProducer(c.producers[i])]
           C == [i \in DOMAIN c.consumers |-> NormalConsumer(c.consumers[i])]
           url == Named(c.serviceUrl, "pulsar://localhost:6650")
<1>1. /\ c.serviceUrl \in Strings /\ c.connection \in ConnectionSections \cup {Nil}
      /\ c.retry \in RetrySections \cup {Nil} /\ c.monitoring \in MonitoringSections \cup {Nil}
      /\ c.producers \in Seq(ProducerEntries \cup {Nil}) /\ c.consumers \in Seq(ConsumerEntries \cup {Nil})
      /\ c.auth \in AuthSections \cup {Nil}
  BY DEF RawConfigs
<1>2. n = [serviceUrl |-> url, connection |-> NormalConnection(c.connection),
           retry |-> NormalRetry(c.retry), monitoring |-> NormalMonitoring(c.monitoring),
           producers |-> P, consumers |-> C, auth |-> c.auth]
  BY DEF Normalize
<1>3. \A i \in DOMAIN c.producers : c.producers[i] \in ProducerEntries
  <2>1. \A i \in DOMAIN c.producers : c.producers[i] \in ProducerEntries \cup {Nil}
    BY <1>1
  <2>2. \A i \in DOMAIN c.producers : c.producers[i] # Nil
    BY Zenon DEF Valid, ValidProducer
  <2> QED
    BY <2>1, <2>2
<1>4. \A i \in DOMAIN c.consumers : c.consumers[i] \in ConsumerEntries
  <2>1. \A i \in DOMAIN c.consumers : c.consumers[i] \in ConsumerEntries \cup {Nil}
    BY <1>1
  <2>2. \A i \in DOMAIN c.consumers : c.consumers[i] # Nil
    BY Zenon DEF Valid, ValidConsumer
  <2> QED
    BY <2>1, <2>2
<1>5. P \in Seq(ProducerEntries \cup {Nil}) /\ C \in Seq(ConsumerEntries \cup {Nil})
  <2>1. \A i \in DOMAIN c.producers : NormalProducer(c.producers[i]) \in ProducerEntries
    BY <1>3, ProducerNormal
  <2>2. \A i \in DOMAIN c.consumers : NormalConsumer(c.consumers[i]) \in ConsumerEntries
    BY <1>4, ConsumerNormal
  <2> QED
    BY <1>1, <2>1, <2>2
<1>6. url \in Strings /\ Named(url, "pulsar://localhost:6650") = url
  <2>1. "pulsar://localhost:6650" \in Strings /\ "pulsar://localhost:6650" # ""
    BY Keywords
  <2> QED
    BY <1>1, <2>1, NamedTwice
<1>7. n \in RawConfigs
  BY <1>1, <1>2, <1>5, <1>6, ConnectionNormal, RetryNormal, MonitoringNormal DEF RawConfigs
<1>8. n # Nil
  BY <1>7, NilAssumption
<1>9. Valid(n)
  <2>1. \A i \in DOMAIN P : ValidProducer(P[i])
    BY <1>3, ProducerNormal DEF Valid
  <2>2. \A i \in DOMAIN C : ValidConsumer(C[i])
    BY <1>4, ConsumerNormal DEF Valid
  <2>3. ValidRetry(NormalRetry(c.retry))
    BY <1>1, RetryNormal DEF Valid
  <2>4. n.retry = NormalRetry(c.retry) /\ n.producers = P /\ n.consumers = C /\ n.auth = c.auth
    BY <1>2
  <2>5. ValidAuth(c.auth)
    BY DEF Valid
  <2> HIDE DEF P, C, n
  <2> QED
    BY <1>8, <2>1, <2>2, <2>3, <2>4, <2>5 DEF Valid
<1>10. Normalize(n) = n
  <2>1. [i \in DOMAIN P |-> NormalProducer(P[i])] = P
    BY <1>3, ProducerNormal
  <2>2. [i \in DOMAIN C |-> NormalConsumer(C[i])] = C
    BY <1>4, ConsumerNormal
  <2>3. /\ NormalConnection(NormalConnection(c.connection)) = NormalConnection(c.connection)
        /\ NormalRetry(NormalRetry(c.retry)) = NormalRetry(c.retry)
        /\ NormalMonitoring(NormalMonitoring(c.monitoring)) = NormalMonitoring(c.monitoring)
    BY <1>1, ConnectionNormal, RetryNormal, MonitoringNormal
  <2> HIDE DEF P, C, url
  <2>4. Normalize(n) =
          [serviceUrl |-> Named(url, "pulsar://localhost:6650"),
           connection |-> NormalConnection(NormalConnection(c.connection)),
           retry |-> NormalRetry(NormalRetry(c.retry)),
           monitoring |-> NormalMonitoring(NormalMonitoring(c.monitoring)),
           producers |-> [i \in DOMAIN P |-> NormalProducer(P[i])],
           consumers |-> [i \in DOMAIN C |-> NormalConsumer(C[i])], auth |-> c.auth]
    BY <1>2 DEF Normalize
  <2> QED
    BY <1>2, <1>6, <2>1, <2>2, <2>3, <2>4
<1>11. /\ n.monitoring = NormalMonitoring(c.monitoring) /\ n.connection = NormalConnection(c.connection)
       /\ n.retry = NormalRetry(c.retry)
  BY <1>2
<1>12. n.monitoring.healthCheckInterval \in Int
  BY <1>1, <1>11, MonitoringNormal DEF MonitoringSections
<1> HIDE DEF n
<1> QED
  BY <1>1, <1>7, <1>9, <1>10, <1>11, <1>12, ConnectionNormal, RetryNormal, MonitoringNormal DEF Valid, n

\* The built-in configuration is valid and normal.
LEMMA DefaultNormal ==
  /\ defaultPulsarConfig \in RawConfigs
  /\ Valid(defaultPulsarConfig)
  /\ Normalize(defaultPulsarConfig) = defaultPulsarConfig
<1> DEFINE po == DefaultProducer.options
           co == DefaultConsumer.options
<1>1. po \in ProducerOptionSections /\ FillProducerOptions(po) = po
  <2>1. "none" \in Strings /\ "java_string_hash" \in Strings /\ "none" # "" /\ "java_string_hash" # ""
    BY Keywords
  <2>2. 0 \in Int32 /\ 1000 \in Int32
    BY DefaultsFit
  <2>3. po \in ProducerOptionSections
    BY <2>1, <2>2 DEF DefaultProducer, ProducerOptionSections
  <2>4. FillProducerOptions(po) = po
    <3>1. /\ Named("none", "none") = "none"
          /\ Named("java_string_hash", "java_string_hash") = "java_string_hash"
      BY <2>1 DEF Named
    <3>2. Positive(30000, 30000) = 30000 /\ Positive(1000, 1000) = 1000 /\ Positive(10, 10) = 10
      BY DEF Positive
    <3> QED
      BY <3>1, <3>2 DEF DefaultProducer, FillProducerOptions
  <2> QED
    BY <2>3, <2>4
<1>2. co \in ConsumerOptionSections /\ FillConsumerOptions(co) = co
  <2>1. /\ "exclusive" \in Strings /\ "latest" \in Strings /\ "durable" \in Strings
        /\ "exclusive" # "" /\ "latest" # "" /\ "durable" # ""
    BY Keywords
  <2>2. 1000 \in Int32
    BY DefaultsFit
  <2>3. co \in ConsumerOptionSections
    BY <2>1, <2>2 DEF DefaultConsumer, ConsumerOptionSections
  <2>4. FillConsumerOptions(co) = co
    <3>1. /\ Named("exclusive", "exclusive") = "exclusive" /\ Named("latest", "latest") = "latest"
          /\ Named("durable", "durable") = "durable"
      BY <2>1 DEF Named
    <3>2. Positive(1000, 1000) = 1000 /\ Positive(60000, 60000) = 60000
      BY DEF Positive
    <3> QED
      BY <3>1, <3>2 DEF DefaultConsumer, FillConsumerOptions
  <2> QED
    BY <2>3, <2>4
<1>3. /\ DefaultProducer \in ProducerEntries /\ ValidProducer(DefaultProducer)
      /\ NormalProducer(DefaultProducer) = DefaultProducer
  <2>1. "default-producer" \in Strings /\ "default-topic" \in Strings
    BY Keywords
  <2>2. DefaultProducer = [name |-> "default-producer", enabled |-> TRUE, topic |-> "default-topic",
                           options |-> po]
    BY DEF DefaultProducer
  <2> HIDE DEF po
  <2>3. DefaultProducer \in ProducerEntries
    BY <1>1, <2>1, <2>2 DEF ProducerEntries
  <2>4. DefaultProducer # Nil /\ po # Nil
    BY <1>1, <2>3, NilAssumption
  <2>5. ValidProducer(DefaultProducer)
    BY <2>2, <2>4 DEF ValidProducer
  <2>6. NormalProducer(DefaultProducer) = DefaultProducer
    <3>1. DefaultProducer.options = po
      BY DEF po
    <3>2. NormalProducer(DefaultProducer) = [DefaultProducer EXCEPT !.options = FillProducerOptions(po)]
      BY <2>4, <3>1 DEF NormalProducer
    <3> QED
      BY <1>1, <2>3, <3>1, <3>2 DEF ProducerEntries
  <2> QED
    BY <2>3, <2>5, <2>6
<1>4. /\ DefaultConsumer \in ConsumerEntries /\ ValidConsumer(DefaultConsumer)
      /\ NormalConsumer(DefaultConsumer) = DefaultConsumer
  <2>1. "default-consumer" \in Strings /\ "default-subscription" \in Strings
    BY Keywords
  <2>2. DefaultConsumer = [name |-> "default-consumer", enabled |-> TRUE, topics |-> 1,
                           subscriptionName |-> "default-subscription", options |-> co]
    BY DEF DefaultConsumer
  <2> HIDE DEF co
  <2>3. DefaultConsumer \in ConsumerEntries
    BY <1>2, <2>1, <2>2 DEF ConsumerEntries
  <2>4. DefaultConsumer # Nil /\ co # Nil
    BY <1>2, <2>3, NilAssumption
  <2>5. ValidConsumer(DefaultConsumer)
    BY <2>2, <2>4 DEF ValidConsumer
  <2>6. NormalConsumer(DefaultConsumer) = DefaultConsumer
    <3>1. DefaultConsumer.options = co
      BY DEF co
    <3>2. NormalConsumer(DefaultConsumer) = [DefaultConsumer EXCEPT !.options = FillConsumerOptions(co)]
      BY <2>4, <3>1 DEF NormalConsumer
    <3> QED
      BY <1>2, <2>3, <3>1, <3>2 DEF ConsumerEntries
  <2> QED
    BY <2>3, <2>5, <2>6
<1>5. /\ DefaultConnection \in ConnectionSections /\ NormalConnection(DefaultConnection) = DefaultConnection
      /\ DefaultRetry \in RetrySections /\ NormalRetry(DefaultRetry) = DefaultRetry /\ ValidRetry(DefaultRetry)
      /\ DefaultMonitoring \in MonitoringSections /\ NormalMonitoring(DefaultMonitoring) = DefaultMonitoring
  <2>1. /\ NormalConnection(Nil) = DefaultConnection /\ NormalRetry(Nil) = DefaultRetry
        /\ NormalMonitoring(Nil) = DefaultMonitoring /\ ValidRetry(Nil)
    BY DEF NormalConnection, NormalRetry, NormalMonitoring, ValidRetry
  <2> QED
    BY <2>1, ConnectionNormal, RetryNormal, MonitoringNormal
<1>6. /\ "pulsar://localhost:6650" \in Strings
      /\ Named("pulsar://localhost:6650", "pulsar://localhost:6650") = "pulsar://localhost:6650"
  BY Keywords DEF Named
<1> HIDE DEF po, co
<1>7. defaultPulsarConfig \in RawConfigs
  BY <1>3, <1>4, <1>5, <1>6 DEF defaultPulsarConfig, RawConfigs
<1>8. Valid(defaultPulsarConfig)
  <2>1. defaultPulsarConfig # Nil
    BY <1>7, NilAssumption
  <2>2. /\ defaultPulsarConfig.retry = DefaultRetry /\ defaultPulsarConfig.auth = Nil
        /\ defaultPulsarConfig.producers = <<DefaultProducer>>
        /\ defaultPulsarConfig.consumers = <<DefaultConsumer>>
    BY DEF defaultPulsarConfig
  <2>3. /\ \A i \in DOMAIN <<DefaultProducer>> : ValidProducer(<<DefaultProducer>>[i])
        /\ \A i \in DOMAIN <<DefaultConsumer>> : ValidConsumer(<<DefaultConsumer>>[i])
    <3>1. DOMAIN <<DefaultProducer>> = {1} /\ <<DefaultProducer>>[1] = DefaultProducer
      OBVIOUS
    <3>2. DOMAIN <<DefaultConsumer>> = {1} /\ <<DefaultConsumer>>[1] = DefaultConsumer
      OBVIOUS
    <3> QED
      BY <1>3, <1>4, <3>1, <3>2, Zenon
  <2>4. ValidAuth(Nil)
    BY DEF ValidAuth
  <2> QED
    BY <1>5, <2>1, <2>2, <2>3, <2>4 DEF Valid
<1>9. Normalize(defaultPulsarConfig) = defaultPulsarConfig
  <2>1. /\ [i \in DOMAIN <<DefaultProducer>> |-> NormalProducer(<<DefaultProducer>>[i])] = <<DefaultProducer>>
        /\ [i \in DOMAIN <<DefaultConsumer>> |-> NormalConsumer(<<DefaultConsumer>>[i])] = <<DefaultConsumer>>
    BY <1>3, <1>4
  <2> QED
    BY <1>5, <1>6, <2>1 DEF defaultPulsarConfig, Normalize
<1> QED
  BY <1>7, <1>8, <1>9

-----------------------------------------------------------------------------
(* The invariant                                                           *)

\* What the managers hold came from a normal configuration, and p.config is
\* never an object the application can reach.
ManagersNormal ==
  /\ owner = "plugin"
  /\ health # Nil => health > 0
  /\ retry # Nil => /\ 0 < retry.initialDelay /\ retry.initialDelay <= retry.maxDelay
                    /\ retry.num > 0
  /\ health = Nil <=> retry = Nil

Inv == TypeOK /\ ConfigNormal /\ ManagersNormal

\* Normalization fills in the sections that are absent.
LEMMA SectionsPresent ==
  ASSUME NEW c \in RawConfigs, Valid(c)
  PROVE  Nil \notin {Normalize(c).connection, Normalize(c).retry, Normalize(c).monitoring}
<1>1. /\ c.monitoring \in MonitoringSections \cup {Nil}
      /\ Normalize(c).monitoring = NormalMonitoring(c.monitoring)
  BY DEF RawConfigs, Normalize
<1>2. Normalize(c).monitoring \in MonitoringSections
  BY <1>1, MonitoringNormal
<1>3. Normalize(c).connection \in ConnectionSections /\ Normalize(c).retry \in RetrySections
  BY NormalizeNormal
<1> QED
  BY <1>2, <1>3, NilAssumption

\* A new plugin has the built-in configuration and no managers.
LEMMA InitInv == Init => Inv
<1> SUFFICES ASSUME Init PROVE Inv
  OBVIOUS
<1>1. Nil \notin {config.connection, config.retry, config.monitoring}
  <2>1. config = Normalize(defaultPulsarConfig)
    BY DefaultNormal DEF Init
  <2> QED
    BY <2>1, DefaultNormal, SectionsPresent
<1> QED
  BY <1>1, DefaultNormal DEF Init, Inv, TypeOK, ConfigNormal, ManagersNormal

\* InitializeResources and Configure install a normalized configuration or
\* nothing; the application's object is not p.config.
LEMMA NextInv == ASSUME Inv, [Next]_vars PROVE Inv'
<1>1. ASSUME NEW c \in Inputs, Configure(c) PROVE Inv'
  <2>1. c \in RawConfigs
    BY InputAssumption
  <2>2. /\ Valid(c) /\ config' = Normalize(c) /\ owner' = "plugin"
        /\ UNCHANGED <<health, connection, retry>>
    BY <1>1 DEF Configure, clonePulsarConfig, managers
  <2>3. config' \in RawConfigs /\ ConfigNormal'
    BY <2>1, <2>2, NormalizeNormal DEF ConfigNormal
  <2>4. Nil \notin {config'.connection, config'.retry, config'.monitoring}
    BY <2>1, <2>2, SectionsPresent
  <2> QED
    BY <2>2, <2>3, <2>4 DEF Inv, TypeOK, ManagersNormal
<1>2. ASSUME NEW c \in Inputs \cup {defaultPulsarConfig}, InitializeResources(c) PROVE Inv'
  <2>1. c \in RawConfigs
    BY InputAssumption, DefaultNormal
  <2>2. /\ Valid(c) /\ config' = Normalize(c) /\ owner' = "plugin"
        /\ health' = config'.monitoring.healthCheckInterval
        /\ connection' = config'.connection /\ retry' = config'.retry
    BY <1>2 DEF InitializeResources
  <2>3. config' \in RawConfigs /\ ConfigNormal'
    BY <2>1, <2>2, NormalizeNormal DEF ConfigNormal
  <2>4. /\ health' \in Int /\ health' > 0 /\ connection' \in ConnectionSections /\ retry' \in RetrySections
        /\ retry'.initialDelay <= retry'.maxDelay
    BY <2>1, <2>2, NormalizeNormal
  <2>7. 0 < retry'.initialDelay /\ retry'.num > 0
    <3>1. c.retry \in RetrySections \cup {Nil} /\ retry' = NormalRetry(c.retry)
      BY <2>1, <2>2 DEF RawConfigs, Normalize
    <3> QED
      BY <3>1, RetryPositive
  <2>5. health' # Nil /\ retry' # Nil
    BY <2>4, NilAssumption
  <2>6. Nil \notin {config'.connection, config'.retry, config'.monitoring}
    BY <2>1, <2>2, SectionsPresent
  <2> QED
    BY <2>2, <2>3, <2>4, <2>5, <2>6, <2>7 DEF Inv, TypeOK, ManagersNormal
<1>3. CASE Edit
  BY <1>3 DEF Edit, Inv, TypeOK, ConfigNormal, ManagersNormal, managers
<1>4. CASE UNCHANGED vars
  BY <1>4 DEF vars, Inv, TypeOK, ConfigNormal, ManagersNormal, managers
<1> QED
  BY <1>1, <1>2, <1>3, <1>4 DEF Next

THEOREM Invariance == Spec => []Inv
  BY InitInv, NextInv, PTL DEF Spec

\* Types of the configuration and of what the managers hold, and no section of
\* p.config that a manager is built from is absent.
THEOREM TypeCorrect == Spec => []TypeOK
<1>1. Inv => TypeOK
  BY DEF Inv
<1> QED
  BY <1>1, Invariance, PTL

\* p.config is valid and normal after any calls, for any configurations.
THEOREM AlwaysNormal == Spec => []ConfigNormal
<1>1. Inv => ConfigNormal
  BY DEF Inv
<1> QED
  BY <1>1, Invariance, PTL

\* time.NewTicker never panics.
THEOREM TickerSafe == Spec => []TickerRuns
<1>1. Inv => TickerRuns
  BY DEF Inv, ManagersNormal, TickerRuns
<1> QED
  BY <1>1, Invariance, PTL

\* An authentication type that was accepted is used.
THEOREM AuthUsed == Spec => []AuthHonoured
<1>1. Inv => AuthHonoured
  <2> SUFFICES ASSUME Inv, config.auth # Nil, config.auth.type # ""
               PROVE  buildClientOptions(config).authentication = config.auth.type
    BY DEF AuthHonoured
  <2>1. ValidAuth(config.auth)
    BY DEF Inv, ConfigNormal, Valid
  <2>2. CASE config.auth.type = "token" /\ config.auth.token # ""
    BY <2>2 DEF buildClientOptions
  <2>3. CASE config.auth.type = "oauth2" /\ config.auth.oauth2 = "complete"
    BY <2>3 DEF buildClientOptions
  <2>4. CASE config.auth.type = "tls" /\ config.auth.tlsAuth = "complete"
    BY <2>4 DEF buildClientOptions
  <2> QED
    BY <2>1, <2>2, <2>3, <2>4 DEF ValidAuth
<1> QED
  BY <1>1, Invariance, PTL

\* A limit that is not negative survives its conversion.
LEMMA UintExact == \A x \in Int32 : x >= 0 => Uint(x) = x
  BY WidthAssumption DEF Uint, Int32

\* Limits reach the library unchanged.
THEOREM LimitsExact == Spec => []LimitsDoNotWrap
<1>1. Inv => LimitsDoNotWrap
  <2> SUFFICES ASSUME Inv PROVE LimitsDoNotWrap
    OBVIOUS
  <2>0. 0 <= MaxInt /\ \A x \in Int32 : x <= MaxInt
    BY WidthAssumption DEF Int32
  <2>1. /\ config.producers \in Seq(ProducerEntries \cup {Nil})
        /\ config.consumers \in Seq(ConsumerEntries \cup {Nil})
    BY DEF Inv, TypeOK, RawConfigs
  <2>2. /\ config.producers = [i \in DOMAIN config.producers |-> NormalProducer(config.producers[i])]
        /\ config.consumers = [i \in DOMAIN config.consumers |-> NormalConsumer(config.consumers[i])]
    BY DEF Inv, ConfigNormal, Normalize
  <2>3. ASSUME NEW p \in Enabled(config.producers)
        PROVE  LET o == createProducer(p) IN
               /\ o.batchingMaxMessages <= MaxInt
               /\ p.options.batchingMaxSize >= 0 => o.batchingMaxSize <= MaxInt
               /\ p.options.chunkMaxSize >= 0 => o.chunkMaxMessageSize <= MaxInt
    <3>1. PICK i \in DOMAIN config.producers : p = config.producers[i]
      BY DEF Enabled
    <3>2. config.producers[i] # Nil
      BY DEF Inv, ConfigNormal, Valid, ValidProducer
    <3>3. p \in ProducerEntries
      BY <2>1, <3>1, <3>2
    <3>4. p = NormalProducer(p)
      BY <2>2, <3>1
    <3>5. p.options \in ProducerOptionSections /\ p.options.batchingMaxMessages > 0
      BY <3>3, <3>4, ProducerNormal
    <3>6. /\ p.options.batchingMaxMessages \in Int32 /\ p.options.batchingMaxSize \in Int32
          /\ p.options.chunkMaxSize \in Int32
      BY <3>5 DEF ProducerOptionSections
    <3>7. /\ Uint(p.options.batchingMaxMessages) = p.options.batchingMaxMessages
          /\ p.options.batchingMaxSize >= 0 => Uint(p.options.batchingMaxSize) = p.options.batchingMaxSize
          /\ p.options.chunkMaxSize >= 0 => Uint(p.options.chunkMaxSize) = p.options.chunkMaxSize
      BY <3>5, <3>6, UintExact DEF Int32
    <3> QED
      BY <2>0, <3>6, <3>7 DEF createProducer
  <2>4. ASSUME NEW c \in Enabled(config.consumers),
               c.options.maxRedeliverCount = Nil \/ c.options.maxRedeliverCount >= 0
        PROVE  createConsumer(c).maxDeliveries <= MaxInt
    <3>1. PICK i \in DOMAIN config.consumers : c = config.consumers[i]
      BY DEF Enabled
    <3>2. config.consumers[i] # Nil
      BY DEF Inv, ConfigNormal, Valid, ValidConsumer
    <3>3. c \in ConsumerEntries
      BY <2>1, <3>1, <3>2
    <3>4. c = NormalConsumer(c)
      BY <2>2, <3>1
    <3>5. c.options \in ConsumerOptionSections
      BY <3>3, <3>4, ConsumerNormal
    <3>6. c.options.maxRedeliverCount \in Int32 \cup {Nil}
      BY <3>5 DEF ConsumerOptionSections
    <3>7. CASE c.options.maxRedeliverCount = Nil
      BY <2>0, <3>7 DEF createConsumer
    <3>8. CASE c.options.maxRedeliverCount # Nil
      BY <2>0, <2>4, <3>6, <3>8, UintExact DEF createConsumer
    <3> QED
      BY <3>7, <3>8
  <2> QED
    BY <2>3, <2>4 DEF LimitsDoNotWrap
<1> QED
  BY <1>1, Invariance, PTL

\* The cap holds for every multiplier and every attempt, whatever the build
\* makes of a product that is out of range: the loop tests each product.
THEOREM CapHolds == Spec => []BackoffCapped
<1>1. Inv => BackoffCapped
  <2> SUFFICES ASSUME Inv, retry # Nil, NEW n \in 0 .. MaxAttempt
               PROVE  ~(GetRetryDelay(retry, n) > retry.maxDelay)
    BY DEF BackoffCapped
  <2>1. retry.initialDelay \in Int /\ retry.maxDelay \in Int /\ retry.initialDelay <= retry.maxDelay
    BY DEF Inv, TypeOK, ManagersNormal, RetrySections
  <2>2. n \in Int
    BY WidthAssumption
  <2>3. CASE n <= 0
    BY <2>1, <2>3 DEF GetRetryDelay
  <2>4. CASE n > 0 /\ \E i \in 1 .. n : Scaled(retry)[i] > retry.maxDelay
    BY <2>1, <2>2, <2>4 DEF GetRetryDelay
  <2>5. CASE n > 0 /\ ~ \E i \in 1 .. n : Scaled(retry)[i] > retry.maxDelay
    <3>1. n \in 1 .. n
      BY <2>2, <2>5
    <3>2. GetRetryDelay(retry, n) = Scaled(retry)[n]
      BY <2>2, <2>5 DEF GetRetryDelay
    <3> QED
      BY <2>5, <3>1, <3>2
  <2> QED
    BY <2>2, <2>3, <2>4, <2>5
<1> QED
  BY <1>1, Invariance, PTL

-----------------------------------------------------------------------------
(* The backoff                                                             *)

\* Multiplication keeps an order; the quotient is the greatest factor that
\* fits.
LEMMA Arithmetic ==
  /\ \A x, y, z \in Nat : x <= y => x * z <= y * z
  /\ \A x, y, z \in Nat : (x * y) * z = x * (z * y) /\ (x * y) * z \in Nat
  /\ \A x \in Nat, d \in Nat \ {0} : /\ x \div d \in Nat
                                     /\ d * (x \div d) <= x /\ x < d * (x \div d) + d
  /\ \A x \in Nat : x \div 1 = x
<1>0. ASSUME NEW x \in Nat, NEW y \in Nat, NEW z \in Nat
      PROVE  (x * y) * z = x * (z * y) /\ (x * y) * z \in Nat
  OBVIOUS
<1>1. ASSUME NEW x \in Nat, NEW d \in Nat \ {0}
      PROVE  x \div d \in Nat /\ d * (x \div d) <= x /\ x < d * (x \div d) + d
  OBVIOUS
<1> QED
  BY <1>0, <1>1

\* One multiplication of a delay that is neither negative nor above the
\* maximum is the truncated product, and a multiplier of at least 1 does not
\* make the delay shorter.
LEMMA ScaleInRange ==
  ASSUME NEW r \in RetrySections, NEW d \in Nat, d <= r.maxDelay, r.num > 0, InRange(r)
  PROVE  /\ Scale(r, d) = (d * r.num) \div r.den
         /\ Scale(r, d) \in Nat
         /\ r.num >= r.den => d <= Scale(r, d)
<1>1. r.num \in Nat /\ r.den \in Nat \ {0} /\ r.maxDelay \in Nat /\ MaxDuration \in Nat
  BY WidthAssumption DEF RetrySections
<1> DEFINE q == (d * r.num) \div r.den
<1>2. d * r.num \in Nat /\ d * r.num <= MaxDuration * r.den
  <2>1. d * r.num <= r.maxDelay * r.num
    BY <1>1, Arithmetic
  <2> QED
    BY <1>1, <2>1 DEF InRange
<1>3. q \in Nat /\ r.den * q <= d * r.num /\ d * r.num < r.den * q + r.den
  BY <1>1, <1>2, Arithmetic
<1> HIDE DEF q
<1>4. q <= MaxDuration
  BY <1>1, <1>2, <1>3
<1>5. Scale(r, d) = q
  BY <1>1, <1>3, <1>4 DEF Scale, q
<1>6. ASSUME r.num >= r.den PROVE d <= q
  <2>1. r.den * d <= d * r.num
    BY <1>1, <1>6, Arithmetic
  <2>2. r.den * d < r.den * (q + 1)
    BY <1>1, <1>3, <2>1
  <2> QED
    BY <1>1, <1>3, <2>2
<1> QED
  BY <1>3, <1>5, <1>6 DEF q

\* The recursive functions satisfy their equations.
LEMMA ScaledDef ==
  ASSUME NEW r \in RetrySections
  PROVE  /\ Scaled(r) \in [Nat -> Int] /\ Scaled(r)[0] = r.initialDelay
         /\ \A n \in Nat : Scaled(r)[n + 1] = Scale(r, Scaled(r)[n])
<1> DEFINE step == [d \in Int |-> Scale(r, d)]
<1>1. r.initialDelay \in Int /\ r.num \in Int /\ r.den \in Nat \ {0}
  BY DEF RetrySections
<1>2. ASSUME NEW d \in Int PROVE Scale(r, d) \in Int
  BY <1>1, WidthAssumption DEF Scale
<1>3. PICK f \in [Nat -> Int] : f[0] = r.initialDelay /\ \A n \in Nat : f[n + 1] = step[f[n]]
  <2>1. step \in [Int -> Int]
    BY <1>2
  <2> HIDE DEF step
  <2> QED
    BY <1>1, <2>1, RecursionToInt
<1>4. \A n \in Nat : n # 0 => n - 1 \in Nat /\ (n - 1) + 1 = n
  OBVIOUS
<1>5. f = [n \in Nat |-> IF n = 0 THEN r.initialDelay ELSE Scale(r, f[n - 1])]
  BY <1>3, <1>4
<1>6. Scaled(r) = [n \in Nat |-> IF n = 0 THEN r.initialDelay ELSE Scale(r, Scaled(r)[n - 1])]
  BY <1>5 DEF Scaled
<1>7. \A g : g = [n \in Nat |-> IF n = 0 THEN r.initialDelay ELSE Scale(r, g[n - 1])]
               => g[0] = r.initialDelay /\ \A n \in Nat : g[n + 1] = Scale(r, g[n])
  OBVIOUS
<1>8. Scaled(r)[0] = r.initialDelay /\ \A n \in Nat : Scaled(r)[n + 1] = Scale(r, Scaled(r)[n])
  BY <1>6, <1>7
<1> DEFINE P == {n \in Nat : Scaled(r)[n] \in Int}
<1>9. P = Nat
  <2>1. 0 \in P
    BY <1>1, <1>8
  <2>2. \A n \in P : n + 1 \in P
    BY <1>2, <1>8
  <2> QED
    BY <2>1, <2>2, SetInduction
<1> QED
  BY <1>6, <1>8, <1>9

LEMMA PowerDef ==
  ASSUME NEW b \in Nat
  PROVE  /\ Power(b) \in [Nat -> Nat] /\ Power(b)[0] = 1
         /\ \A n \in Nat : Power(b)[n + 1] = b * Power(b)[n]
<1> DEFINE step == [d \in Int |-> b * d]
<1>1. PICK f \in [Nat -> Int] : f[0] = 1 /\ \A n \in Nat : f[n + 1] = step[f[n]]
  <2>1. step \in [Int -> Int] /\ 1 \in Int
    OBVIOUS
  <2> HIDE DEF step
  <2> QED
    BY <2>1, RecursionToInt
<1>2. \A n \in Nat : n # 0 => n - 1 \in Nat /\ (n - 1) + 1 = n
  OBVIOUS
<1>3. f = [n \in Nat |-> IF n = 0 THEN 1 ELSE b * f[n - 1]]
  BY <1>1, <1>2
<1>4. Power(b) = [n \in Nat |-> IF n = 0 THEN 1 ELSE b * Power(b)[n - 1]]
  BY <1>3 DEF Power
<1>5. \A g : g = [n \in Nat |-> IF n = 0 THEN 1 ELSE b * g[n - 1]]
               => g[0] = 1 /\ \A n \in Nat : g[n + 1] = b * g[n]
  OBVIOUS
<1>6. Power(b)[0] = 1 /\ \A n \in Nat : Power(b)[n + 1] = b * Power(b)[n]
  BY <1>4, <1>5
<1> DEFINE P == {n \in Nat : Power(b)[n] \in Nat}
<1>7. P = Nat
  <2>1. 0 \in P
    BY <1>6
  <2>2. \A n \in P : n + 1 \in P
    BY <1>6
  <2> QED
    BY <2>1, <2>2, SetInduction
<1>8. \A g : g = [n \in Nat |-> IF n = 0 THEN 1 ELSE b * g[n - 1]]
               => ((\A n \in Nat : g[n] \in Nat) => g \in [Nat -> Nat])
  OBVIOUS
<1>9. Power(b) \in [Nat -> Nat]
  <2>1. \A n \in Nat : Power(b)[n] \in Nat
    BY <1>7
  <2> QED
    BY <1>4, <1>8, <2>1, Zenon
<1> QED
  BY <1>6, <1>9

\* A retry section as the manager holds it, whose products stay in range.
Regular(r) ==
  r \in RetrySections /\ 0 < r.initialDelay /\ r.initialDelay <= r.maxDelay /\ r.num > 0 /\ InRange(r)

\* Up to and including the first product above the maximum, the loop of
\* GetRetryDelay computes the powers of an integral multiplier.
LEMMA ScaledIsPower ==
  ASSUME NEW r, Regular(r), r.den = 1
  PROVE  \A n \in Nat :
           (\A j \in 0 .. n - 1 : r.initialDelay * Power(r.num)[j] <= r.maxDelay)
             => Scaled(r)[n] = r.initialDelay * Power(r.num)[n]
<1>1. r \in RetrySections /\ r.initialDelay \in Nat /\ r.num \in Nat
  BY DEF Regular, RetrySections
<1> DEFINE x == r.initialDelay
           pow == Power(r.num)
           P == {n \in Nat : (\A j \in 0 .. n - 1 : x * pow[j] <= r.maxDelay) => Scaled(r)[n] = x * pow[n]}
<1>2. x \in Nat /\ pow \in [Nat -> Nat] /\ pow[0] = 1 /\ \A n \in Nat : pow[n + 1] = r.num * pow[n]
  BY <1>1, PowerDef
<1>3. Scaled(r)[0] = x /\ \A n \in Nat : Scaled(r)[n + 1] = Scale(r, Scaled(r)[n])
  BY <1>1, ScaledDef
<1> HIDE DEF x, pow
<1>4. 0 \in P
  BY <1>2, <1>3
<1>5. ASSUME NEW n \in P PROVE n + 1 \in P
  <2>1. n \in Nat /\ n + 1 \in Nat /\ n \in 0 .. (n + 1) - 1 /\ 0 .. n - 1 \subseteq 0 .. (n + 1) - 1
    OBVIOUS
  <2> SUFFICES ASSUME \A j \in 0 .. (n + 1) - 1 : x * pow[j] <= r.maxDelay
               PROVE  Scaled(r)[n + 1] = x * pow[n + 1]
    BY <2>1
  <2>2. Scaled(r)[n] = x * pow[n] /\ x * pow[n] <= r.maxDelay /\ pow[n] \in Nat /\ x * pow[n] \in Nat
    BY <1>2, <2>1
  <2>3. Scaled(r)[n + 1] = ((x * pow[n]) * r.num) \div 1
    BY <1>1, <1>3, <2>1, <2>2, ScaleInRange DEF Regular
  <2>4. (x * pow[n]) * r.num = x * (r.num * pow[n]) /\ (x * pow[n]) * r.num \in Nat
    BY <1>1, <1>2, <2>2, Arithmetic
  <2> QED
    BY <1>2, <2>1, <2>3, <2>4, Arithmetic
<1>6. P = Nat
  BY <1>4, <1>5, SetInduction
<1> QED
  BY <1>6 DEF x, pow

\* As long as no product is above the maximum, none is below the one before.
LEMMA ScaledGrows ==
  ASSUME NEW r, Regular(r), r.num >= r.den
  PROVE  \A n \in Nat :
           (\A j \in 1 .. n : ~(Scaled(r)[j] > r.maxDelay))
             => /\ Scaled(r)[n] \in Nat /\ Scaled(r)[n] <= r.maxDelay
                /\ Scaled(r)[n] <= Scaled(r)[n + 1]
<1>1. r \in RetrySections /\ r.initialDelay \in Nat /\ r.maxDelay \in Nat /\ r.initialDelay <= r.maxDelay
  BY DEF Regular, RetrySections
<1> DEFINE s == Scaled(r)
           P == {n \in Nat : (\A j \in 1 .. n : ~(s[j] > r.maxDelay)) => s[n] \in Nat /\ s[n] <= r.maxDelay}
<1>2. s \in [Nat -> Int] /\ s[0] = r.initialDelay /\ \A n \in Nat : s[n + 1] = Scale(r, s[n])
  BY <1>1, ScaledDef
<1> HIDE DEF s
<1>3. ASSUME NEW n \in Nat, s[n] \in Nat, s[n] <= r.maxDelay PROVE s[n + 1] \in Nat /\ s[n] <= s[n + 1]
  BY <1>1, <1>2, <1>3, ScaleInRange DEF Regular
<1>4. 0 \in P
  BY <1>1, <1>2
<1>5. ASSUME NEW n \in P PROVE n + 1 \in P
  <2> SUFFICES ASSUME \A j \in 1 .. n + 1 : ~(s[j] > r.maxDelay)
               PROVE  s[n + 1] \in Nat /\ s[n + 1] <= r.maxDelay
    OBVIOUS
  <2>1. n \in Nat /\ n + 1 \in 1 .. n + 1 /\ 1 .. n \subseteq 1 .. n + 1
    OBVIOUS
  <2>2. s[n] \in Nat /\ s[n] <= r.maxDelay
    BY <2>1
  <2>3. s[n + 1] \in Nat /\ ~(s[n + 1] > r.maxDelay)
    BY <1>3, <2>1, <2>2
  <2> QED
    BY <1>1, <2>3
<1>6. P = Nat
  BY <1>4, <1>5, SetInduction
<1> QED
  BY <1>3, <1>6 DEF s

\* Inside the range of a duration, the loop of GetRetryDelay computes the
\* capped power, for every attempt.
THEOREM BackoffIsPower == Spec => []BackoffExact
<1>1. Inv => BackoffExact
  <2> SUFFICES ASSUME Inv, retry # Nil, retry.den = 1, InRange(retry), NEW n \in 0 .. MaxAttempt
               PROVE  GetRetryDelay(retry, n) =
                        IF \E k \in 0 .. n : retry.initialDelay * Power(retry.num)[k] > retry.maxDelay
                          THEN retry.maxDelay ELSE retry.initialDelay * Power(retry.num)[n]
    BY DEF BackoffExact
  <2>1. Regular(retry) /\ retry.initialDelay \in Nat /\ retry.maxDelay \in Nat /\ retry.num \in Nat
    BY DEF Inv, TypeOK, ManagersNormal, Regular, RetrySections
  <2>2. n \in Nat
    BY WidthAssumption
  <2> DEFINE want == [k \in Nat |-> retry.initialDelay * Power(retry.num)[k]]
  <2>3. \A k \in Nat : (\A j \in 0 .. k - 1 : want[j] <= retry.maxDelay) => Scaled(retry)[k] = want[k]
    BY <2>1, ScaledIsPower
  <2>4. want \in [Nat -> Nat] /\ want[0] = retry.initialDelay
    <3>1. Power(retry.num) \in [Nat -> Nat] /\ Power(retry.num)[0] = 1
      BY <2>1, PowerDef
    <3> QED
      BY <2>1, <3>1
  <2>5. want[0] <= retry.maxDelay
    BY <2>1, <2>4 DEF Regular
  <2>6. GetRetryDelay(retry, n) =
          IF \E k \in 0 .. n : want[k] > retry.maxDelay THEN retry.maxDelay ELSE want[n]
    <3> HIDE DEF want
    <3>1. CASE \E k \in 0 .. n : want[k] > retry.maxDelay
      <4> DEFINE Above == {k \in 0 .. n : want[k] > retry.maxDelay}
      <4>1. PICK k \in Above : \A j \in Above : k <= j
        <5>1. Above \in SUBSET Nat /\ Above # {}
          BY <2>2, <3>1
        <5> HIDE DEF Above
        <5> QED
          BY <5>1, LeastElement
      <4>2. k \in 1 .. n /\ k \in Nat
        BY <2>1, <2>2, <2>4, <2>5
      <4>3. \A j \in 0 .. k - 1 : want[j] <= retry.maxDelay
        BY <2>1, <2>2, <2>4, <4>1, <4>2
      <4>4. Scaled(retry)[k] > retry.maxDelay
        BY <2>3, <4>2, <4>3
      <4> QED
        BY <2>2, <3>1, <4>2, <4>4 DEF GetRetryDelay
    <3>2. CASE \A k \in 0 .. n : ~(want[k] > retry.maxDelay)
      <4>1. \A k \in 0 .. n : want[k] <= retry.maxDelay
        BY <2>1, <2>2, <2>4, <3>2
      <4>2. \A k \in 0 .. n : Scaled(retry)[k] = want[k]
        BY <2>2, <2>3, <4>1
      <4>3. ~ \E k \in 1 .. n : Scaled(retry)[k] > retry.maxDelay
        BY <2>2, <3>2, <4>2
      <4>4. CASE n = 0
        BY <2>4, <3>2, <4>4 DEF GetRetryDelay
      <4>5. CASE n # 0
        BY <2>2, <3>2, <4>2, <4>3, <4>5 DEF GetRetryDelay
      <4> QED
        BY <4>4, <4>5
    <3> QED
      BY <3>1, <3>2
  <2>7. \A k \in 0 .. n : want[k] = retry.initialDelay * Power(retry.num)[k]
    BY <2>2
  <2> HIDE DEF want
  <2> QED
    BY <2>2, <2>6, <2>7
<1> QED
  BY <1>1, Invariance, PTL

\* Inside the range of a duration, the delay does not fall from one attempt to
\* the next, also for a multiplier that is a fraction.
THEOREM BackoffGrows == Spec => []BackoffNeverShrinks
<1>1. Inv => BackoffNeverShrinks
  <2> SUFFICES ASSUME Inv, retry # Nil, retry.num >= retry.den, InRange(retry), NEW n \in 0 .. MaxAttempt
               PROVE  GetRetryDelay(retry, n) <= GetRetryDelay(retry, n + 1)
    BY DEF BackoffNeverShrinks
  <2>1. Regular(retry) /\ retry.initialDelay \in Nat /\ retry.maxDelay \in Nat /\ retry \in RetrySections
    BY DEF Inv, TypeOK, ManagersNormal, Regular, RetrySections
  <2>2. n \in Nat /\ n + 1 \in 1 .. n + 1 /\ 1 .. n \subseteq 1 .. n + 1 /\ ~(n + 1 <= 0)
    BY WidthAssumption
  <2> DEFINE s == Scaled(retry)
  <2>3. s[0] = retry.initialDelay /\ s \in [Nat -> Int]
    BY <2>1, ScaledDef
  <2>4. (\A j \in 1 .. n : ~(s[j] > retry.maxDelay)) => s[n] <= retry.maxDelay /\ s[n] <= s[n + 1]
    BY <2>1, <2>2, ScaledGrows
  <2>5. GetRetryDelay(retry, n) = IF \E i \in 1 .. n : s[i] > retry.maxDelay THEN retry.maxDelay ELSE s[n]
    BY <2>2, <2>3 DEF GetRetryDelay
  <2>6. GetRetryDelay(retry, n + 1) =
          IF \E i \in 1 .. n + 1 : s[i] > retry.maxDelay THEN retry.maxDelay ELSE s[n + 1]
    BY <2>2 DEF GetRetryDelay
  <2> HIDE DEF s
  <2> QED
    BY <2>1, <2>2, <2>4, <2>5, <2>6
<1> QED
  BY <1>1, Invariance, PTL
=============================================================================
