------------------------------- MODULE Config -------------------------------
(***************************************************************************)
(* The plugin's configuration: what normalizePulsarConfig accepts and what *)
(* it makes of it, how Configure and InitializeResources install it, the   *)
(* options a start derives from it, and the backoff of the retry manager.  *)
(*                                                                         *)
(* A configuration is a record of sections.  Durations are milliseconds;   *)
(* an unset one is 0, which is what AsDuration returns for nil.  A name or *)
(* an address is a string, "" when unset.  The fields of an OAuth2 or TLS  *)
(* credential matter only by being complete.                               *)
(***************************************************************************)
EXTENDS Integers, Sequences

CONSTANTS
  Nil,             \* a section, entry or manager that is absent
  Inputs,          \* configurations the application and the runtime supply
  Garbage,         \* what the application may turn its own object into
  Strings,         \* names, addresses and keywords
  MaxInt,          \* largest int32
  UintSize,        \* size of an unsigned type: 2^64 for uint, 2^32 for uint32
  MaxDuration,     \* largest time.Duration
  OutOfRange,      \* what the build makes of a float64 beyond MaxDuration
  MaxAttempt       \* bound on the attempts the backoff is asked for

Int32 == -MaxInt - 1 .. MaxInt

ConnectionSections ==
  [connectionTimeout : Int, operationTimeout : Int, keepAliveInterval : Int, maxConnectionsPerHost : Int32]
RetrySections ==
  [enable : BOOLEAN, maxAttempts : Int32, initialDelay : Int, maxDelay : Int,
   num : Int, den : Nat \ {0},          \* retry_delay_multiplier is num / den
   jitter : Int]
MonitoringSections ==
  [enableHealthCheck : BOOLEAN, metricsNamespace : Strings, healthCheckInterval : Int]
ProducerOptionSections ==
  [sendTimeout : Int, maxPendingMessages : Int32, batchingEnabled : BOOLEAN, batchingMaxPublishDelay : Int,
   batchingMaxMessages : Int32, batchingMaxSize : Int32, enableChunking : BOOLEAN, chunkMaxSize : Int32,
   compressionType : Strings, hashingScheme : Strings]
ProducerEntries ==
  [name : Strings, enabled : BOOLEAN, topic : Strings, options : ProducerOptionSections \cup {Nil}]
ConsumerOptionSections ==
  [subscriptionType : Strings, subscriptionInitialPosition : Strings, subscriptionMode : Strings,
   receiverQueueSize : Int32, negativeAckDelay : Int,
   retry : BOOLEAN,                     \* one of the two fields that enable it is set
   maxRedeliverCount : Int32 \cup {Nil}] \* of the dead letter policy, if there is one
ConsumerEntries ==
  [name : Strings, enabled : BOOLEAN, topics : Nat, subscriptionName : Strings,
   options : ConsumerOptionSections \cup {Nil}]
AuthSections ==
  [type : Strings, token : Strings, oauth2 : {"absent", "partial", "complete"},
   tlsAuth : {"absent", "partial", "complete"}]

RawConfigs ==
  [serviceUrl : Strings,
   connection : ConnectionSections \cup {Nil}, retry : RetrySections \cup {Nil},
   monitoring : MonitoringSections \cup {Nil},
   producers : Seq(ProducerEntries \cup {Nil}), consumers : Seq(ConsumerEntries \cup {Nil}),
   auth : AuthSections \cup {Nil}]

ASSUME InputAssumption == Inputs \subseteq RawConfigs /\ Garbage \in RawConfigs
ASSUME StringAssumption ==
  {"", "pulsar://localhost:6650", "lynx_pulsar", "none", "java_string_hash", "exclusive", "latest",
   "durable", "default-producer", "default-topic", "default-consumer", "default-subscription"}
     \subseteq Strings
ASSUME WidthAssumption ==
  /\ MaxInt \in Nat /\ MaxInt >= 1000
  /\ UintSize \in Nat /\ UintSize > 2 * MaxInt
  /\ MaxDuration \in Nat /\ OutOfRange \in Int
  /\ MaxAttempt \in Nat
ASSUME NilAssumption ==
  /\ Nil \notin ConnectionSections /\ Nil \notin RetrySections /\ Nil \notin MonitoringSections
  /\ Nil \notin ProducerEntries /\ Nil \notin ProducerOptionSections
  /\ Nil \notin ConsumerEntries /\ Nil \notin ConsumerOptionSections
  /\ Nil \notin AuthSections /\ Nil \notin RawConfigs /\ Nil \notin Int

-----------------------------------------------------------------------------
(* normalizePulsarConfig, section by section                               *)

\* A number or duration that is not positive, or a name that is empty, gets
\* its default.
Positive(v, default) == IF v <= 0 THEN default ELSE v
Named(s, default) == IF s = "" THEN default ELSE s

DefaultConnection ==
  [connectionTimeout |-> 30000, operationTimeout |-> 30000, keepAliveInterval |-> 30000,
   maxConnectionsPerHost |-> 1]
DefaultRetry ==
  [enable |-> TRUE, maxAttempts |-> 3, initialDelay |-> 100, maxDelay |-> 30000,
   num |-> 2, den |-> 1, jitter |-> 1]
DefaultMonitoring ==
  [enableHealthCheck |-> TRUE, metricsNamespace |-> "lynx_pulsar", healthCheckInterval |-> 30000]

NormalConnectionAbsent(c) ==
  IF c = Nil THEN Nil
  ELSE [connectionTimeout |-> Positive(c.connectionTimeout, 30000),
        operationTimeout |-> Positive(c.operationTimeout, 30000),
        keepAliveInterval |-> Positive(c.keepAliveInterval, 30000),
        maxConnectionsPerHost |-> Positive(c.maxConnectionsPerHost, 1)]
NormalConnection(c) ==
  IF c = Nil THEN DefaultConnection
  ELSE [connectionTimeout |-> Positive(c.connectionTimeout, 30000),
        operationTimeout |-> Positive(c.operationTimeout, 30000),
        keepAliveInterval |-> Positive(c.keepAliveInterval, 30000),
        maxConnectionsPerHost |-> Positive(c.maxConnectionsPerHost, 1)]

NormalRetry(r) ==
  IF r = Nil THEN DefaultRetry
  ELSE [enable |-> r.enable, maxAttempts |-> Positive(r.maxAttempts, 3),
        initialDelay |-> Positive(r.initialDelay, 100), maxDelay |-> Positive(r.maxDelay, 30000),
        num |-> IF r.num <= 0 THEN 2 ELSE r.num, den |-> IF r.num <= 0 THEN 1 ELSE r.den,
        jitter |-> r.jitter]

\* The delays are compared after their defaults have been filled in.
ValidRetryTooEarly(r) ==
  r # Nil => r.initialDelay <= r.maxDelay /\ r.jitter >= 0
ValidRetry(r) ==
  r # Nil => NormalRetry(r).initialDelay <= NormalRetry(r).maxDelay /\ r.jitter >= 0

NormalMonitoringUnset(m) ==
  IF m = Nil THEN DefaultMonitoring ELSE [m EXCEPT !.metricsNamespace = Named(@, "lynx_pulsar")]
NormalMonitoring(m) ==
  IF m = Nil THEN DefaultMonitoring
  ELSE [enableHealthCheck |-> m.enableHealthCheck,
        metricsNamespace |-> Named(m.metricsNamespace, "lynx_pulsar"),
        healthCheckInterval |-> Positive(m.healthCheckInterval, 30000)]

EmptyProducerOptions ==
  [sendTimeout |-> 0, maxPendingMessages |-> 0, batchingEnabled |-> FALSE, batchingMaxPublishDelay |-> 0,
   batchingMaxMessages |-> 0, batchingMaxSize |-> 0, enableChunking |-> FALSE, chunkMaxSize |-> 0,
   compressionType |-> "", hashingScheme |-> ""]

FillProducerOptionsNoLimit(o) ==
  [o EXCEPT !.sendTimeout = Positive(@, 30000), !.maxPendingMessages = Positive(@, 1000),
            !.batchingMaxPublishDelay = Positive(@, 10),
            !.compressionType = Named(@, "none"), !.hashingScheme = Named(@, "java_string_hash")]
FillProducerOptions(o) ==
  [sendTimeout |-> Positive(o.sendTimeout, 30000),
   maxPendingMessages |-> Positive(o.maxPendingMessages, 1000),
   batchingEnabled |-> o.batchingEnabled,
   batchingMaxPublishDelay |-> Positive(o.batchingMaxPublishDelay, 10),
   batchingMaxMessages |-> Positive(o.batchingMaxMessages, 1000),
   batchingMaxSize |-> o.batchingMaxSize,
   enableChunking |-> o.enableChunking, chunkMaxSize |-> o.chunkMaxSize,
   compressionType |-> Named(o.compressionType, "none"),
   hashingScheme |-> Named(o.hashingScheme, "java_string_hash")]

ValidProducer(p) == p # Nil /\ (p.enabled => p.name # "" /\ p.topic # "")
NormalProducer(p) ==
  [p EXCEPT !.options = FillProducerOptions(IF @ = Nil THEN EmptyProducerOptions ELSE @)]

EmptyConsumerOptions ==
  [subscriptionType |-> "", subscriptionInitialPosition |-> "", subscriptionMode |-> "",
   receiverQueueSize |-> 0, negativeAckDelay |-> 0, retry |-> FALSE, maxRedeliverCount |-> Nil]

FillConsumerOptions(o) ==
  [subscriptionType |-> Named(o.subscriptionType, "exclusive"),
   subscriptionInitialPosition |-> Named(o.subscriptionInitialPosition, "latest"),
   subscriptionMode |-> Named(o.subscriptionMode, "durable"),
   receiverQueueSize |-> Positive(o.receiverQueueSize, 1000),
   negativeAckDelay |-> Positive(o.negativeAckDelay, 60000),
   retry |-> o.retry, maxRedeliverCount |-> o.maxRedeliverCount]

ValidConsumer(c) == c # Nil /\ (c.enabled => c.name # "" /\ c.topics > 0 /\ c.subscriptionName # "")
NormalConsumer(c) ==
  [c EXCEPT !.options = FillConsumerOptions(IF @ = Nil THEN EmptyConsumerOptions ELSE @)]

ValidAuthLax(a) ==
  a # Nil =>
  \/ a.type = ""
  \/ a.type = "token"
  \/ a.type = "oauth2" /\ a.oauth2 # "partial"
  \/ a.type = "tls" /\ a.tlsAuth = "complete"
ValidAuth(a) ==
  a # Nil =>
  \/ a.type = ""
  \/ a.type = "token" /\ a.token # ""
  \/ a.type = "oauth2" /\ a.oauth2 = "complete"
  \/ a.type = "tls" /\ a.tlsAuth = "complete"

\* The first problem met is returned as an error.
Valid(c) ==
  /\ c # Nil
  /\ ValidRetry(c.retry)
  /\ \A i \in DOMAIN c.producers : ValidProducer(c.producers[i])
  /\ \A i \in DOMAIN c.consumers : ValidConsumer(c.consumers[i])
  /\ ValidAuth(c.auth)

Normalize(c) ==
  [serviceUrl |-> Named(c.serviceUrl, "pulsar://localhost:6650"),
   connection |-> NormalConnection(c.connection),
   retry |-> NormalRetry(c.retry),
   monitoring |-> NormalMonitoring(c.monitoring),
   producers |-> [i \in DOMAIN c.producers |-> NormalProducer(c.producers[i])],
   consumers |-> [i \in DOMAIN c.consumers |-> NormalConsumer(c.consumers[i])],
   auth |-> c.auth]

DefaultProducer ==
  [name |-> "default-producer", enabled |-> TRUE, topic |-> "default-topic",
   options |-> [sendTimeout |-> 30000, maxPendingMessages |-> 1000, batchingEnabled |-> TRUE,
                batchingMaxPublishDelay |-> 10, batchingMaxMessages |-> 1000, batchingMaxSize |-> 0,
                enableChunking |-> FALSE, chunkMaxSize |-> 0,
                compressionType |-> "none", hashingScheme |-> "java_string_hash"]]
DefaultConsumer ==
  [name |-> "default-consumer", enabled |-> TRUE, topics |-> 1, subscriptionName |-> "default-subscription",
   options |-> [subscriptionType |-> "exclusive", subscriptionInitialPosition |-> "latest",
                subscriptionMode |-> "durable", receiverQueueSize |-> 1000, negativeAckDelay |-> 60000,
                retry |-> TRUE, maxRedeliverCount |-> Nil]]
defaultPulsarConfig ==
  [serviceUrl |-> "pulsar://localhost:6650",
   connection |-> DefaultConnection, retry |-> DefaultRetry, monitoring |-> DefaultMonitoring,
   producers |-> <<DefaultProducer>>, consumers |-> <<DefaultConsumer>>, auth |-> Nil]

-----------------------------------------------------------------------------
(* What a start hands to the client library                                *)

\* A value the parser does not know is replaced by its default.
Parse(known, default, s) == IF s \in known THEN s ELSE default
parseSubscriptionType(s) == Parse({"shared", "failover", "key_shared"}, "exclusive", s)
parseSubscriptionMode(s) == Parse({"non_durable"}, "durable", s)
parseCompressionType(s) == Parse({"lz4", "zlib", "zstd", "snappy"}, "none", s)
parseHashingScheme(s) == Parse({"murmur3_32hash"}, "java_string_hash", s)
parseSubscriptionInitialPosition(s) == Parse({"earliest"}, "latest", s)

\* Conversion of an int32 to an unsigned type.
Uint(x) == x % UintSize

\* Authentication of the client: the kind that was built, or "none".
buildClientOptions(c) ==
  [url |-> c.serviceUrl, connection |-> c.connection,
   authentication |->
     IF \/ c.auth # Nil /\ c.auth.type = "token" /\ c.auth.token # ""
        \/ c.auth # Nil /\ c.auth.type = "oauth2" /\ c.auth.oauth2 # "absent"
        \/ c.auth # Nil /\ c.auth.type = "tls" /\ c.auth.tlsAuth # "absent"
     THEN c.auth.type ELSE "none"]

\* ProducerOptions: a limit that is not set stays 0, the library's default.
createProducer(p) ==
  LET o == p.options IN
  [topic |-> p.topic, sendTimeout |-> o.sendTimeout, maxPendingMessages |-> o.maxPendingMessages,
   batchingMaxPublishDelay |-> IF o.batchingEnabled THEN o.batchingMaxPublishDelay ELSE 0,
   batchingMaxMessages |-> IF o.batchingEnabled THEN Uint(o.batchingMaxMessages) ELSE 0,
   batchingMaxSize |-> IF o.batchingEnabled THEN Uint(o.batchingMaxSize) ELSE 0,
   chunkMaxMessageSize |-> IF o.enableChunking THEN Uint(o.chunkMaxSize) ELSE 0,
   compressionType |-> parseCompressionType(o.compressionType),
   hashingScheme |-> parseHashingScheme(o.hashingScheme)]

createConsumer(c) ==
  LET o == c.options IN
  [subscriptionName |-> c.subscriptionName, type |-> parseSubscriptionType(o.subscriptionType),
   position |-> parseSubscriptionInitialPosition(o.subscriptionInitialPosition),
   mode |-> parseSubscriptionMode(o.subscriptionMode), receiverQueueSize |-> o.receiverQueueSize,
   nackRedeliveryDelay |-> o.negativeAckDelay, retryEnable |-> o.retry,
   maxDeliveries |-> IF o.maxRedeliverCount = Nil THEN 0 ELSE Uint(o.maxRedeliverCount)]

Enabled(entries) == {entries[i] : i \in {j \in DOMAIN entries : entries[j].enabled}}

-----------------------------------------------------------------------------
(* The retry manager                                                       *)

\* time.Duration(float64(delay) * multiplier): truncation, and no check of
\* the range.
Scale(r, delay) ==
  LET product == IF delay >= 0 THEN (delay * r.num) \div r.den ELSE -((-delay * r.num) \div r.den)
  IN  IF product \in -MaxDuration .. MaxDuration THEN product ELSE OutOfRange

Scaled(r) == LET s[n \in Nat] == IF n = 0 THEN r.initialDelay ELSE Scale(r, s[n - 1]) IN s

\* The loop scales once per attempt and leaves at the first delay above the
\* maximum.
GetRetryDelayUncapped(r, attempt) ==
  IF attempt <= 0 THEN r.initialDelay ELSE Scaled(r)[attempt]
GetRetryDelayCappedLast(r, attempt) ==
  IF attempt <= 0 THEN r.initialDelay
  ELSE IF Scaled(r)[attempt] > r.maxDelay THEN r.maxDelay ELSE Scaled(r)[attempt]
GetRetryDelay(r, attempt) ==
  IF attempt <= 0 THEN r.initialDelay
  ELSE IF \E i \in 1 .. attempt : Scaled(r)[i] > r.maxDelay THEN r.maxDelay
  ELSE Scaled(r)[attempt]

-----------------------------------------------------------------------------
VARIABLES
  config,          \* p.config
  owner,           \* who can modify p.config: the plugin or the application
  health,          \* interval of p.healthChecker, or Nil
  connection,      \* section held by p.connectionManager, or Nil
  retry            \* section held by p.retryManager, or Nil

managers == <<health, connection, retry>>
vars == <<config, owner, managers>>

\* Whatever was configured, the sections that the managers are built from are
\* there.
TypeOK ==
  /\ config \in RawConfigs
  /\ Nil \notin {config.connection, config.retry, config.monitoring}
  /\ owner \in {"plugin", "application"}
  /\ health \in Int \cup {Nil}
  /\ connection \in ConnectionSections \cup {Nil}
  /\ retry \in RetrySections \cup {Nil}

Init ==
  /\ config = defaultPulsarConfig
  /\ owner = "plugin"
  /\ health = Nil /\ connection = Nil /\ retry = Nil

\* A configuration object: its content, and who else can reach it.
clonePulsarConfigShared(o) == o
clonePulsarConfig(o) == [o EXCEPT !.owner = "plugin"]

\* Configure: a nil configuration, another type, and a configuration that is
\* not valid change nothing.
Configure(c) ==
  LET normalized == clonePulsarConfig([owner |-> "application", value |-> c]) IN
  /\ Valid(normalized.value)
  /\ config' = Normalize(normalized.value)
  /\ owner' = normalized.owner
  /\ UNCHANGED managers

\* InitializeResources with the configuration that Scan returned, or the
\* default one when there is none.  On an error nothing is replaced.
InitializeResources(c) ==
  /\ Valid(c)
  /\ config' = Normalize(c)
  /\ owner' = "plugin"
  /\ health' = config'.monitoring.healthCheckInterval
  /\ connection' = config'.connection
  /\ retry' = config'.retry

\* The application modifies the object it once passed to Configure.
Edit ==
  /\ config' = IF owner = "application" THEN Garbage ELSE config
  /\ UNCHANGED <<owner, managers>>

Next ==
  \/ \E c \in Inputs : Configure(c)
  \/ \E c \in Inputs \cup {defaultPulsarConfig} : InitializeResources(c)
  \/ Edit

Spec == Init /\ [][Next]_vars

-----------------------------------------------------------------------------
\* Whatever sequence of Configure and InitializeResources calls, accepted or
\* refused, and whatever the application does to its own object: p.config is
\* valid and normalizing it again would not change it.
ConfigNormal == Valid(config) /\ Normalize(config) = config

\* A configured authentication is never silently dropped: if the accepted
\* configuration names a type, the client is built with that type.
\* (Normalization and the client options decide separately.)
AuthHonoured ==
  config.auth # Nil /\ config.auth.type # "" =>
    buildClientOptions(config).authentication = config.auth.type

\* The unsigned limits handed to the library are the configured ones: the
\* number of messages in a batch always, the three limits that are not
\* validated unless they are negative.
LimitsDoNotWrap ==
  /\ \A p \in Enabled(config.producers) :
       LET o == createProducer(p) IN
       /\ o.batchingMaxMessages <= MaxInt
       /\ p.options.batchingMaxSize >= 0 => o.batchingMaxSize <= MaxInt
       /\ p.options.chunkMaxSize >= 0 => o.chunkMaxMessageSize <= MaxInt
  /\ \A c \in Enabled(config.consumers) :
       c.options.maxRedeliverCount = Nil \/ c.options.maxRedeliverCount >= 0
         => createConsumer(c).maxDeliveries <= MaxInt

\* The health checker never gets an interval for which time.NewTicker
\* panics, in a goroutine that nobody recovers.
TickerRuns == health # Nil => health > 0

\* No delay of the retry manager exceeds max_delay, for any attempt and also
\* if the multiplication leaves the range of a duration.
BackoffCapped ==
  retry # Nil => \A n \in 0 .. MaxAttempt : ~(GetRetryDelay(retry, n) > retry.maxDelay)

\* Whether the product of any delay up to max_delay stays in range.
InRange(r) == r.maxDelay * r.num <= MaxDuration * r.den

Power(b) == LET p[k \in Nat] == IF k = 0 THEN 1 ELSE b * p[k - 1] IN p

\* If the multiplication stays in range, the delays are those of the usual
\* definition: the initial delay times the multiplier to the power of the
\* attempt, and at most max_delay.
BackoffExact ==
  retry # Nil /\ retry.den = 1 /\ InRange(retry) =>
    \A n \in 0 .. MaxAttempt :
      GetRetryDelay(retry, n) =
        IF \E k \in 0 .. n : retry.initialDelay * Power(retry.num)[k] > retry.maxDelay
          THEN retry.maxDelay ELSE retry.initialDelay * Power(retry.num)[n]

\* A multiplier of at least 1, a fraction too, never makes a later attempt
\* wait less than an earlier one, although each product is truncated.
BackoffNeverShrinks ==
  retry # Nil /\ retry.num >= retry.den /\ InRange(retry) =>
    \A n \in 0 .. MaxAttempt : GetRetryDelay(retry, n) <= GetRetryDelay(retry, n + 1)
=============================================================================
