------------------------- MODULE EventServiceProofs -------------------------
(***************************************************************************)
(* Theorems about EventService, for every value of its constants: the      *)
(* types of its connections, and that its parts, run together, still       *)
(* behave as their own modules say.                                        *)
(***************************************************************************)
EXTENDS EventService, TLAPS

(***************************************************************************)
(* Type correctness of the connections                                     *)
(***************************************************************************)
\* What disconnect closes is there: the consumer was given a connection, and the
\* provider has kept that one or another in its fields
HasConnection ==
  /\ consumer # NoConnection /\ stopping = "no" => connection \in opened
  /\ stopping \in {"channel", "connection"} => connection \in opened

ConnectionInv == TypeOK /\ HasConnection

LEMMA BrokerSteps ==
  ASSUME ConnectionInv,
         \/ BrokerFails \/ BrokerReturns
         \/ \E c \in Connections : ConnectionBreaks(c) \/ Connects(c)
  PROVE  ConnectionInv'
<1>1. UNCHANGED <<opened, closed, connection, consumer, readiness, stopping>>
  BY DEF BrokerFails, BrokerReturns, ConnectionBreaks, Connects
<1>2. brokerUp' \in BOOLEAN
  BY DEF BrokerFails, BrokerReturns, ConnectionBreaks, Connects, ConnectionInv, TypeOK
<1>3. up' \subseteq opened \ closed
  BY DEF BrokerFails, BrokerReturns, ConnectionBreaks, Connects, ConnectionInv, TypeOK
<1>4. outages' \in Nat
  BY DEF BrokerFails, BrokerReturns, ConnectionBreaks, Connects, ConnectionInv, TypeOK
<1>5. QED
  BY <1>1, <1>2, <1>3, <1>4 DEF ConnectionInv, TypeOK, HasConnection

LEMMA ConnectSteps ==
  ASSUME ConnectionInv, NEW c \in Connections, SubscribeToEvents(c) \/ Probe(c)
  PROVE  ConnectionInv'
<1>1. /\ opened \subseteq opened' /\ opened' \subseteq Connections
      /\ connection' \in opened'
      /\ closed' = closed /\ up' = up
  <2>1. CASE Usable /\ UNCHANGED <<opened, closed, up, connection>>
    BY <2>1 DEF Usable, ConnectionInv, TypeOK
  <2>2. CASE Connect(c)
    BY <2>2 DEF Connect, Replaced, ConnectionInv, TypeOK
  <2>3. QED
    BY <2>1, <2>2 DEF SubscribeToEvents, Probe
<1>2. consumer' \in opened' /\ stopping = "no"
  <2>1. CASE SubscribeToEvents(c)
    BY <1>1, <2>1 DEF SubscribeToEvents, Connect, Usable, ConnectionInv, TypeOK
  <2>2. CASE Probe(c)
    BY <1>1, <2>2 DEF Probe, ConnectionInv, TypeOK
  <2>3. QED
    BY <2>1, <2>2
<1>3. UNCHANGED <<brokerUp, stopping, outages>>
  BY DEF SubscribeToEvents, Probe
<1>4. readiness' \in BOOLEAN
  <2>1. CASE SubscribeToEvents(c)
    BY <2>1 DEF SubscribeToEvents, ConnectionInv, TypeOK
  <2>2. CASE readiness' = (connection' \in up')
    BY <2>2
  <2>3. QED
    BY <2>1, <2>2 DEF Probe
<1>5. QED
  BY <1>1, <1>2, <1>3, <1>4 DEF ConnectionInv, TypeOK, HasConnection

LEMMA StopSteps ==
  ASSUME ConnectionInv, CloseChannel \/ CloseConnection \/ ClearFields
  PROVE  ConnectionInv'
<1> USE DEF ConnectionInv, TypeOK, HasConnection
<1>1. CASE CloseChannel
  BY <1>1 DEF CloseChannel, ConsumerLeft
<1>2. CASE CloseConnection
  BY <1>2 DEF CloseConnection
<1>3. CASE ClearFields
  BY <1>3 DEF ClearFields
<1>4. QED
  BY <1>1, <1>2, <1>3

LEMMA ConnectionInvStep == ConnectionInv /\ [ServiceNext]_serviceVars => ConnectionInv'
<1> SUFFICES ASSUME ConnectionInv, [ServiceNext]_serviceVars PROVE ConnectionInv'
  OBVIOUS
<1>1. CASE UNCHANGED connectionVars
  BY <1>1 DEF connectionVars, vars, ConnectionInv, TypeOK, HasConnection
<1>2. CASE ProcessRestarts
  BY <1>2 DEF ProcessRestarts, ConnectionInv, TypeOK, HasConnection
<1>3. ASSUME NEW c \in Connections, Bootstrap(c) PROVE ConnectionInv'
  BY <1>3, ConnectSteps DEF Bootstrap
<1>4. CASE \/ WithChannel(BrokerFails) \/ WithChannel(BrokerReturns)
           \/ WithChannel(CloseChannel) \/ WithChannel(CloseConnection)
           \/ WithChannel(ClearFields)
  BY <1>4, BrokerSteps, StopSteps DEF WithChannel
<1>5. ASSUME NEW c \in Connections, WithChannel(ConnectionBreaks(c) \/ Connects(c) \/ Probe(c))
      PROVE  ConnectionInv'
  BY <1>5, BrokerSteps, ConnectSteps DEF WithChannel
<1>6. QED
  BY <1>1, <1>2, <1>3, <1>4, <1>5
     DEF ServiceNext, serviceVars, OpenChannel, FirstRefreshFails, ReadActive, InstallMap,
         PublishEvent, DeliverEvent, FinishEvent, SettlePost, EditWebhook

LEMMA InitConnection == ServiceInit => ConnectionInv
<1> SUFFICES ASSUME ServiceInit PROVE ConnectionInv
  OBVIOUS
<1>1. brokerUp \in BOOLEAN /\ readiness \in BOOLEAN
  BY DEF ServiceInit, Init
<1>2. /\ opened = {} /\ closed = {} /\ up = {} /\ outages = 0
      /\ connection = NoConnection /\ consumer = NoConnection /\ stopping = "no"
  BY DEF ServiceInit, Init
<1>3. QED
  BY <1>1, <1>2 DEF ConnectionInv, TypeOK, HasConnection

\* The provider's fields, the consumer and what is up are connections that have been
\* opened and not closed, through replacements, shutdowns and restarts.
THEOREM ConnectionTypes == ServiceSpec => []TypeOK
<1>1. ConnectionInv => TypeOK
  BY DEF ConnectionInv
<1>2. QED
  BY <1>1, InitConnection, ConnectionInvStep, PTL DEF ServiceSpec

(***************************************************************************)
(* The parts of the service behave as their modules say                    *)
(***************************************************************************)
\* The map inside the service is a WebhookCache
LEMMA CacheStep == [ServiceNext]_serviceVars => [Cache!Next]_(Cache!vars)
<1> SUFFICES ASSUME [ServiceNext]_serviceVars, ~UNCHANGED cacheVars PROVE Cache!Next
  BY DEF cacheVars, Cache!vars
<1>1. \/ ProcessRestarts
      \/ \E r \in Readers : ReadActive(r) \/ InstallMap(r)
      \/ \E h \in Hooks : EditWebhook(h)
  BY DEF ServiceNext, serviceVars, WithChannel, OpenChannel, FirstRefreshFails, Bootstrap,
         PublishEvent, DeliverEvent, FinishEvent, SettlePost
<1>2. CASE ProcessRestarts
  BY <1>2 DEF ProcessRestarts, Cache!Next
<1>3. ASSUME NEW r \in Readers, ReadActive(r) \/ InstallMap(r) PROVE Cache!Next
  BY <1>3 DEF ReadActive, InstallMap, Cache!Next
<1>4. ASSUME NEW h \in Hooks, EditWebhook(h) PROVE Cache!Next
  BY <1>4 DEF EditWebhook, Cache!Next
<1>5. QED
  BY <1>1, <1>2, <1>3, <1>4

\* Started, restarted and edited inside the service, the map that events are posted
\* to is at any time one whole answer of the database.
THEOREM ServiceImplementsCache == ServiceSpec => Cache!Spec
<1>1. ServiceInit => Cache!Init
  BY DEF ServiceInit
<1>2. QED
  BY <1>1, CacheStep, PTL DEF ServiceSpec, Cache!Spec

\* The rows and the answers of the database name webhooks of Hooks only
CacheType ==
  /\ DOMAIN active \subseteq Hooks
  /\ DOMAIN cached \subseteq Hooks
  /\ \A r \in DOMAIN reads : DOMAIN reads[r] \subseteq Hooks

LEMMA CacheTypeInvariant == Cache!Spec => []CacheType
<1>1. Cache!Init => CacheType
  BY DEF Cache!Init, Cache!Partial, Cache!Nothing, CacheType
<1>2. CacheType /\ [Cache!Next]_(Cache!vars) => CacheType'
  <2> SUFFICES ASSUME CacheType, [Cache!Next]_(Cache!vars) PROVE CacheType'
    OBVIOUS
  <2>1. ASSUME NEW h \in Hooks, Cache!Edit(h) PROVE CacheType'
    BY <2>1 DEF Cache!Edit, Cache!Partial, CacheType
  <2>2. ASSUME NEW r \in Readers, Cache!Read(r) \/ Cache!Install(r) PROVE CacheType'
    BY <2>2 DEF Cache!Read, Cache!Install, CacheType
  <2>3. CASE Cache!Reset
    BY <2>3 DEF Cache!Reset, Cache!Nothing, CacheType
  <2>4. CASE UNCHANGED Cache!vars
    BY <2>4 DEF Cache!vars, CacheType
  <2>5. QED
    BY <2>1, <2>2, <2>3, <2>4 DEF Cache!Next
<1>3. QED
  BY <1>1, <1>2, PTL DEF Cache!Spec

\* The consumer inside the service takes steps of EventConsumer: its channel follows
\* the connections, and a refresh of the map is all it sees of the database
LEMMA ConsumerStep ==
  CacheType /\ [ServiceNext]_serviceVars => [Consumer!Next]_(Consumer!vars)
<1> SUFFICES ASSUME CacheType, [ServiceNext]_serviceVars
             PROVE  [Consumer!Next]_(Consumer!vars)
  OBVIOUS
<1>1. ASSUME UNCHANGED consumerVars, UNCHANGED cached
      PROVE  UNCHANGED Consumer!vars
  BY <1>1 DEF consumerVars, Consumer!vars
<1>2. ASSUME ChannelFollows, UNCHANGED cached
      PROVE  [Consumer!Next]_(Consumer!vars)
  BY <1>1, <1>2 DEF ChannelFollows, Consumer!Next
<1>3. CASE \/ WithChannel(BrokerFails) \/ WithChannel(BrokerReturns)
           \/ WithChannel(CloseChannel) \/ WithChannel(CloseConnection)
           \/ WithChannel(ClearFields)
           \/ \E c \in Connections :
                WithChannel(ConnectionBreaks(c) \/ Connects(c) \/ Probe(c))
  BY <1>2, <1>3 DEF WithChannel, cacheVars
<1>4. CASE OpenChannel \/ ProcessRestarts
  BY <1>4 DEF OpenChannel, ProcessRestarts, Consumer!Next
<1>5. ASSUME NEW m \in Msgs, PublishEvent(m) \/ DeliverEvent(m)
      PROVE  [Consumer!Next]_(Consumer!vars)
  BY <1>5 DEF PublishEvent, DeliverEvent, Consumer!Next
<1>6. ASSUME NEW s \in Slots, FinishEvent(s) \/ \E h \in Hooks : SettlePost(s, h)
      PROVE  [Consumer!Next]_(Consumer!vars)
  BY <1>6 DEF FinishEvent, SettlePost, Consumer!Next
<1>7. ASSUME NEW r \in Readers, InstallMap(r)
      PROVE  [Consumer!Next]_(Consumer!vars)
  <2>1. UNCHANGED consumerVars /\ (DOMAIN cached)' \in SUBSET Hooks
    BY <1>7 DEF InstallMap, Cache!Install, CacheType
  <2>2. CASE (DOMAIN cached)' = DOMAIN cached
    BY <2>1, <2>2 DEF consumerVars, Consumer!vars
  <2>3. CASE (DOMAIN cached)' # DOMAIN cached
    BY <2>1, <2>3 DEF consumerVars, Consumer!RefreshCache, Consumer!brokerVars,
                      Consumer!Next
  <2>4. QED
    BY <2>2, <2>3
<1>8. CASE \/ FirstRefreshFails
           \/ \E c \in Connections : Bootstrap(c)
           \/ \E r \in Readers : ReadActive(r)
           \/ \E h \in Hooks : EditWebhook(h)
           \/ UNCHANGED serviceVars
  BY <1>1, <1>8 DEF FirstRefreshFails, Bootstrap, ReadActive, EditWebhook, serviceVars,
                    cacheVars, Cache!Read, Cache!Edit
<1>9. QED
  BY <1>3, <1>4, <1>5, <1>6, <1>7, <1>8 DEF ServiceNext

\* On connections that a probe may replace, with a map that a database fills, and
\* through shutdowns and restarts, the consumer still behaves as EventConsumer, so
\* what EventConsumerProofs says of that holds of the service.
THEOREM ServiceImplementsConsumer == ServiceSpec => Consumer!Spec
<1>1. ServiceInit => Consumer!Init
  BY DEF ServiceInit
<1>2. ServiceSpec => []CacheType
  BY ServiceImplementsCache, CacheTypeInvariant, PTL
<1>3. QED
  BY <1>1, <1>2, ConsumerStep, PTL DEF ServiceSpec, Consumer!Spec

(***************************************************************************)
(* The service keeps what the consumer promises                            *)
(***************************************************************************)
\* The theorems about EventConsumer, of the consumer inside the service
ConsumerProofs == INSTANCE EventConsumerProofs WITH
  connected <- channel,
  cached <- DOMAIN cached,
  MaxDisconnects <- MaxOutages + 1

\* What EventConsumer assumes of its constants, of the ones it is given here
LEMMA ConsumerAssumptions ==
  /\ Malformed \subseteq Msgs
  /\ ConsumerProofs!IsFiniteSet(Slots)
  /\ Prefetch \in Nat \ {0}
  /\ MaxOutages + 1 \in Nat /\ MaxCrashes \in Nat
<1>1. IsFiniteSet(Slots) = ConsumerProofs!IsFiniteSet(Slots)
  BY DEF IsFiniteSet, ConsumerProofs!IsFiniteSet
<1>2. QED
  BY <1>1, MessagesAssumption, HandlersAssumption, CrashesAssumption, BoundAssumption

LEMMA SameCardinality ==
  ASSUME NEW S
  PROVE  Consumer!Cardinality(S) = ConsumerProofs!Cardinality(S)
BY DEF Consumer!Cardinality, ConsumerProofs!Cardinality

\* The two instances of EventConsumer take the same steps
LEMMA SameSteps == [Consumer!Next]_(Consumer!vars) => [ConsumerProofs!Next]_(ConsumerProofs!vars)
<1>1. Consumer!Next => ConsumerProofs!Next
  BY SameCardinality
     DEF Consumer!Next, Consumer!Publish, Consumer!Deliver, Consumer!Finish,
         Consumer!Settle, Consumer!Disconnect, Consumer!Reconnect, Consumer!Crash,
         Consumer!RefreshCache, Consumer!FinishAcked, Consumer!FinishRejected,
         Consumer!FinishUnsent, Consumer!LoseChannel, Consumer!Outstanding,
         Consumer!Nothing, Consumer!MayFinish, Consumer!Acked, Consumer!Processed,
         Consumer!OtherHandlers, Consumer!Targets, Consumer!PrefetchAllows,
         Consumer!brokerVars,
         ConsumerProofs!Next, ConsumerProofs!Publish, ConsumerProofs!Deliver,
         ConsumerProofs!Finish, ConsumerProofs!Settle, ConsumerProofs!Disconnect,
         ConsumerProofs!Reconnect, ConsumerProofs!Crash, ConsumerProofs!RefreshCache,
         ConsumerProofs!FinishAcked, ConsumerProofs!FinishRejected,
         ConsumerProofs!FinishUnsent, ConsumerProofs!LoseChannel,
         ConsumerProofs!Outstanding, ConsumerProofs!Nothing, ConsumerProofs!MayFinish,
         ConsumerProofs!Acked, ConsumerProofs!Processed, ConsumerProofs!OtherHandlers,
         ConsumerProofs!Targets, ConsumerProofs!PrefetchAllows, ConsumerProofs!brokerVars
<1>2. QED
  BY <1>1 DEF Consumer!vars, ConsumerProofs!vars

LEMMA ServiceIsConsumer == ServiceSpec => ConsumerProofs!Spec
<1>1. Consumer!Init => ConsumerProofs!Init
  BY DEF Consumer!Init, ConsumerProofs!Init, Consumer!Nothing, ConsumerProofs!Nothing
<1>2. QED
  BY <1>1, ServiceImplementsConsumer, SameSteps, PTL DEF Consumer!Spec, ConsumerProofs!Spec

\* In the service, until a connection is lost, an event leaves the queue only when it
\* has been processed.
THEOREM ServiceAcksWhenFinished == ServiceSpec => []Consumer!AckedWhenFinished
<1>1. ConsumerProofs!Spec => []ConsumerProofs!AckedWhenFinished
  BY ConsumerAssumptions, ConsumerProofs!AckedMessagesAreFinished
<1>2. ConsumerProofs!AckedWhenFinished => Consumer!AckedWhenFinished
  BY DEF ConsumerProofs!AckedWhenFinished, Consumer!AckedWhenFinished
<1>3. QED
  BY <1>1, <1>2, ServiceIsConsumer, PTL

\* In the service, with its outages, probes, failed starts and shutdowns, losing an
\* event still takes both a lost connection and an end of the process.
THEOREM ServiceLosesByTwoFaults == ServiceSpec => []Consumer!LossTakesTwoFaults
<1>1. ConsumerProofs!Spec => []ConsumerProofs!LossTakesTwoFaults
  BY ConsumerAssumptions, ConsumerProofs!LossNeedsBoth
<1>2. ConsumerProofs!LossTakesTwoFaults => Consumer!LossTakesTwoFaults
  BY DEF ConsumerProofs!LossTakesTwoFaults, Consumer!LossTakesTwoFaults,
         ConsumerProofs!NotLost, Consumer!NotLost, ConsumerProofs!Outstanding,
         Consumer!Outstanding, ConsumerProofs!Attended, Consumer!Attended
<1>3. QED
  BY <1>1, <1>2, ServiceIsConsumer, PTL

\* In the service, until a connection is lost or the process ends, no event is
\* processed twice.
THEOREM ServiceProcessesOnce == ServiceSpec => []Consumer!ProcessedOnce
<1>1. ConsumerProofs!Spec => []ConsumerProofs!ProcessedOnce
  BY ConsumerAssumptions, ConsumerProofs!EventsProcessedOnce
<1>2. ConsumerProofs!ProcessedOnce => Consumer!ProcessedOnce
  BY DEF ConsumerProofs!ProcessedOnce, Consumer!ProcessedOnce, ConsumerProofs!Outstanding,
         Consumer!Outstanding, ConsumerProofs!Attended, Consumer!Attended
<1>3. QED
  BY <1>1, <1>2, ServiceIsConsumer, PTL

\* In the service, until a connection is lost, no more events than the prefetch limit
\* are attended at once.
THEOREM ServiceWithinPrefetch == ServiceSpec => []Consumer!AttendedWithinPrefetch
<1>1. ConsumerProofs!Spec => []ConsumerProofs!AttendedWithinPrefetch
  BY ConsumerAssumptions, ConsumerProofs!PrefetchBoundsHandlers
<1>2. ConsumerProofs!AttendedWithinPrefetch => Consumer!AttendedWithinPrefetch
  BY SameCardinality DEF ConsumerProofs!AttendedWithinPrefetch, Consumer!AttendedWithinPrefetch
<1>3. QED
  BY <1>1, <1>2, ServiceIsConsumer, PTL

\* From the queue to the webhooks the whole service is at-least-once delivery.
THEOREM ServiceIsAtLeastOnce == ServiceSpec => Consumer!ImplementsAtLeastOnce
<1>1. ConsumerProofs!Spec => ConsumerProofs!ImplementsAtLeastOnce
  BY ConsumerAssumptions, ConsumerProofs!ConsumerIsAtLeastOnce
<1>2. ConsumerProofs!Abstract!Init => Consumer!Abstract!Init
  BY DEF ConsumerProofs!Abstract!Init, Consumer!Abstract!Init, ConsumerProofs!Abstract!Idle,
         Consumer!Abstract!Idle, ConsumerProofs!Outstanding, Consumer!Outstanding
<1>3. [ConsumerProofs!Abstract!Next]_(ConsumerProofs!Abstract!vars)
        => [Consumer!Abstract!Next]_(Consumer!Abstract!vars)
  <2>1. ConsumerProofs!Abstract!Next => Consumer!Abstract!Next
    BY DEF ConsumerProofs!Outstanding, Consumer!Outstanding,
           ConsumerProofs!Abstract!Next, ConsumerProofs!Abstract!Publish,
           ConsumerProofs!Abstract!Take, ConsumerProofs!Abstract!Attempt,
           ConsumerProofs!Abstract!Remove, ConsumerProofs!Abstract!Complete,
           ConsumerProofs!Abstract!Interrupt, ConsumerProofs!Abstract!Degrade,
           ConsumerProofs!Abstract!ChangeWanted, ConsumerProofs!Abstract!Attended,
           ConsumerProofs!Abstract!Idle, Consumer!Abstract!Next,
           Consumer!Abstract!Publish, Consumer!Abstract!Take,
           Consumer!Abstract!Attempt, Consumer!Abstract!Remove,
           Consumer!Abstract!Complete, Consumer!Abstract!Interrupt,
           Consumer!Abstract!Degrade, Consumer!Abstract!ChangeWanted,
           Consumer!Abstract!Attended, Consumer!Abstract!Idle
  <2>2. QED
    BY <2>1 DEF ConsumerProofs!Abstract!vars, Consumer!Abstract!vars,
                ConsumerProofs!Outstanding, Consumer!Outstanding
<1>4. ConsumerProofs!ImplementsAtLeastOnce => Consumer!ImplementsAtLeastOnce
  BY <1>2, <1>3, PTL DEF ConsumerProofs!ImplementsAtLeastOnce, Consumer!ImplementsAtLeastOnce,
                         ConsumerProofs!Abstract!Spec, Consumer!Abstract!Spec
<1>5. QED
  BY <1>1, <1>4, ServiceIsConsumer

(***************************************************************************)
(* Starting and ending                                                     *)
(***************************************************************************)
\* The consumer's channel is on its own connection, and the consumer is registered
\* only once the first refresh is over
StartOrder ==
  /\ channel => consumer \in up
  /\ consumer # NoConnection => firstRefresh # "pending"

LEMMA ChannelFollowsStep ==
  ASSUME StartOrder, ChannelFollows
  PROVE  /\ channel' => channel /\ consumer \in up' /\ consumer' # NoConnection
         /\ UNCHANGED <<handlers, finished>>
BY DEF ChannelFollows, consumerVars, StartOrder, Consumer!Disconnect, Consumer!LoseChannel

LEMMA WithChannelStep ==
  ASSUME StartOrder,
         \/ WithChannel(BrokerFails) \/ WithChannel(BrokerReturns)
         \/ WithChannel(CloseChannel) \/ WithChannel(CloseConnection)
         \/ WithChannel(ClearFields)
         \/ \E c \in Connections : WithChannel(ConnectionBreaks(c) \/ Connects(c) \/ Probe(c))
  PROVE  StartOrder'
<1>1. ChannelFollows /\ firstRefresh' = firstRefresh
  BY DEF WithChannel
<1>2. consumer' = consumer \/ consumer' = NoConnection
  BY DEF WithChannel, BrokerFails, BrokerReturns, CloseChannel, ConsumerLeft, CloseConnection,
         ClearFields, ConnectionBreaks, Connects, Probe
<1>3. QED
  BY <1>1, <1>2, ChannelFollowsStep DEF StartOrder

LEMMA StartOrderStep ==
  ConnectionInv /\ StartOrder /\ [ServiceNext]_serviceVars => StartOrder'
<1> SUFFICES ASSUME ConnectionInv, StartOrder, [ServiceNext]_serviceVars PROVE StartOrder'
  OBVIOUS
<1>1. ASSUME NEW c \in Connections, Bootstrap(c) PROVE StartOrder'
  <2>1. ~channel
    BY <1>1, NoConnectionAssumption
       DEF Bootstrap, SubscribeToEvents, StartOrder, ConnectionInv, TypeOK
  <2>2. channel' = channel /\ firstRefresh' = firstRefresh /\ firstRefresh # "pending"
    BY <1>1 DEF Bootstrap, MaySubscribe, consumerVars
  <2>3. QED
    BY <2>1, <2>2 DEF StartOrder
<1>2. CASE OpenChannel
  BY <1>2, NoConnectionAssumption
     DEF OpenChannel, Consumer!Reconnect, connectionVars, vars, StartOrder, ConnectionInv, TypeOK
<1>3. CASE ProcessRestarts
  BY <1>3 DEF ProcessRestarts, Consumer!Crash, Consumer!LoseChannel, StartOrder
<1>4. ASSUME NEW s \in Slots, FinishEvent(s) PROVE StartOrder'
  BY <1>4 DEF FinishEvent, Consumer!Finish, Consumer!FinishAcked, Consumer!FinishRejected,
              Consumer!FinishUnsent, Consumer!LoseChannel, Consumer!brokerVars,
              connectionVars, vars, StartOrder
<1>5. ASSUME \/ FirstRefreshFails
             \/ \E r \in Readers : ReadActive(r) \/ InstallMap(r)
             \/ \E m \in Msgs : PublishEvent(m) \/ DeliverEvent(m)
             \/ \E s \in Slots, h \in Hooks : SettlePost(s, h)
             \/ \E h \in Hooks : EditWebhook(h)
             \/ UNCHANGED serviceVars
      PROVE  /\ UNCHANGED <<channel, consumer, up>>
             /\ firstRefresh # "pending" => firstRefresh' # "pending"
  BY <1>5 DEF FirstRefreshFails, ReadActive, InstallMap, PublishEvent, DeliverEvent, SettlePost,
              EditWebhook, Consumer!Publish, Consumer!Deliver, Consumer!Settle,
              Consumer!brokerVars, consumerVars, connectionVars, vars, serviceVars
<1>6. QED
  BY <1>1, <1>2, <1>3, <1>4, <1>5, WithChannelStep DEF ServiceNext, StartOrder

LEMMA StartInvariant == ServiceSpec => [](ConnectionInv /\ StartOrder)
<1>1. ServiceInit => StartOrder
  BY DEF ServiceInit, Init, Consumer!Init, StartOrder
<1>2. QED
  BY <1>1, InitConnection, ConnectionInvStep, StartOrderStep, PTL DEF ServiceSpec

\* What keeps the consumer of a stopped provider going: a connection that is not its own
OtherConnection ==
  stopping # "no" /\ consumer # NoConnection => \E c \in opened : c # consumer

LEMMA OtherConnectionStep ==
  ConnectionInv /\ OtherConnection /\ [ServiceNext]_serviceVars => OtherConnection'
<1> SUFFICES ASSUME ConnectionInv, OtherConnection, [ServiceNext]_serviceVars
             PROVE  OtherConnection'
  OBVIOUS
<1>1. CASE WithChannel(CloseChannel)
  <2>1. /\ connection \in opened /\ opened' = opened
        /\ consumer' # NoConnection => consumer' # connection
    BY <1>1 DEF WithChannel, CloseChannel, ConsumerLeft, ConnectionInv, HasConnection
  <2>2. QED
    BY <2>1 DEF OtherConnection
<1>2. CASE ProcessRestarts \/ \E c \in Connections : Bootstrap(c) \/ WithChannel(Probe(c))
  BY <1>2 DEF ProcessRestarts, Bootstrap, SubscribeToEvents, WithChannel, Probe, OtherConnection
<1>3. CASE \/ WithChannel(BrokerFails) \/ WithChannel(BrokerReturns)
           \/ WithChannel(CloseConnection) \/ WithChannel(ClearFields)
           \/ \E c \in Connections : WithChannel(ConnectionBreaks(c) \/ Connects(c))
  <2>1. /\ UNCHANGED <<opened, consumer>>
        /\ stopping' # "no" => stopping # "no"
    BY <1>3 DEF WithChannel, BrokerFails, BrokerReturns, CloseConnection, ClearFields,
                ConnectionBreaks, Connects
  <2>2. QED
    BY <2>1 DEF OtherConnection
<1>4. CASE UNCHANGED connectionVars
  BY <1>4 DEF connectionVars, vars, OtherConnection
<1>5. QED
  BY <1>1, <1>2, <1>3, <1>4
     DEF ServiceNext, serviceVars, OpenChannel, FirstRefreshFails, ReadActive, InstallMap,
         PublishEvent, DeliverEvent, FinishEvent, SettlePost, EditWebhook, WithChannel

\* After a shutdown has begun the consumer goes on only where a probe has opened a
\* connection beside its own, however many there are.
THEOREM SilenceAfterShutdown == ServiceSpec => []SilentAfterShutdown
<1>1. ServiceInit => OtherConnection
  BY DEF ServiceInit, Init, OtherConnection
<1>2. ConnectionInv /\ StartOrder /\ OtherConnection => SilentAfterShutdown
  BY NoConnectionAssumption
     DEF ConnectionInv, TypeOK, StartOrder, OtherConnection, SilentAfterShutdown
<1>3. QED
  BY <1>1, <1>2, StartInvariant, OtherConnectionStep, PTL DEF ServiceSpec

(***************************************************************************)
(* Events leave the queue posted                                           *)
(***************************************************************************)
\* Of message m and webhook h: whoever processes m posts it to h, or already has
PostedInv(m, h) ==
  /\ m \in finished => <<m, h>> \in posted
  /\ \A s \in DOMAIN handlers :
       handlers[s].msg = m => h \in handlers[s].todo \/ <<m, h>> \in posted

LEMMA DeliverPosts ==
  ASSUME NEW m \in Msgs \ Malformed, NEW h \in Hooks, NEW n \in Msgs,
         ConnectionInv, StartOrder, Subscribed(h), PostedInv(m, h), DeliverEvent(n)
  PROVE  PostedInv(m, h)'
<1>1. finished' = finished /\ posted' = posted
  BY DEF DeliverEvent, Consumer!Deliver
<1>2. h \in DOMAIN cached
  <2>1. channel
    BY DEF DeliverEvent, Consumer!Deliver
  <2>2. QED
    BY <2>1, NoConnectionAssumption DEF Subscribed, StartOrder, ConnectionInv, TypeOK
<1>3. \E s \in Slots \ DOMAIN handlers :
        handlers' = [q \in DOMAIN handlers \cup {s} |->
                       IF q = s
                       THEN [msg |-> n, tag |-> nextTag, todo |-> Consumer!Targets(n)]
                       ELSE handlers[q]]
  BY DEF DeliverEvent, Consumer!Deliver
<1>4. n = m => h \in Consumer!Targets(n)
  BY <1>2 DEF Consumer!Targets
<1>5. QED
  BY <1>1, <1>3, <1>4 DEF PostedInv

LEMMA SettlePosts ==
  ASSUME NEW m \in Msgs, NEW h \in Hooks, NEW s \in Slots, NEW g \in Hooks,
         Consumer!TypeOK, PostedInv(m, h), SettlePost(s, g)
  PROVE  PostedInv(m, h)'
<1>1. /\ s \in DOMAIN handlers
      /\ handlers' = [handlers EXCEPT ![s].todo = @ \ {g}]
      /\ finished' = finished
      /\ posted' = posted \cup {<<handlers[s].msg, g>>}
  BY DEF SettlePost, Consumer!Settle
<1>2. handlers \in [DOMAIN handlers -> Consumer!Handler]
  BY DEF Consumer!TypeOK
<1>3. ASSUME NEW q \in DOMAIN handlers', handlers'[q].msg = m
      PROVE  h \in handlers'[q].todo \/ <<m, h>> \in posted'
  <2>1. q \in DOMAIN handlers /\ handlers[q].msg = m
    BY <1>1, <1>2, <1>3 DEF Consumer!Handler
  <2>2. CASE q = s /\ g = h
    BY <1>1, <2>1, <2>2
  <2>3. CASE q # s \/ g # h
    BY <1>1, <1>2, <2>1, <2>3 DEF PostedInv, Consumer!Handler
  <2>4. QED
    BY <2>2, <2>3
<1>4. QED
  BY <1>1, <1>3 DEF PostedInv

LEMMA FinishPosts ==
  ASSUME NEW m \in Msgs, NEW h \in Hooks, NEW s \in Slots, PostedInv(m, h), FinishEvent(s)
  PROVE  PostedInv(m, h)'
<1>1. /\ s \in DOMAIN handlers /\ handlers[s].todo = {}
      /\ finished' = finished \cup {handlers[s].msg}
      /\ handlers' = [q \in DOMAIN handlers \ {s} |-> handlers[q]]
      /\ posted' = posted
  BY DEF FinishEvent, Consumer!Finish, Consumer!FinishAcked, Consumer!FinishRejected,
         Consumer!FinishUnsent, Consumer!MayFinish, Consumer!Processed, Consumer!OtherHandlers
<1>2. QED
  BY <1>1 DEF PostedInv

LEMMA PostedInvStep ==
  ASSUME NEW m \in Msgs \ Malformed, NEW h \in Hooks
  PROVE  /\ ConnectionInv /\ StartOrder /\ Consumer!TypeOK /\ Subscribed(h)
         /\ PostedInv(m, h) /\ [ServiceNext]_serviceVars
         => PostedInv(m, h)'
<1> SUFFICES ASSUME ConnectionInv, StartOrder, Consumer!TypeOK, Subscribed(h),
                    PostedInv(m, h), [ServiceNext]_serviceVars
             PROVE  PostedInv(m, h)'
  OBVIOUS
<1>1. CASE ProcessRestarts
  BY <1>1 DEF ProcessRestarts, Consumer!Crash, Consumer!Nothing, PostedInv
<1>2. ASSUME \/ WithChannel(BrokerFails) \/ WithChannel(BrokerReturns)
             \/ WithChannel(CloseChannel) \/ WithChannel(CloseConnection)
             \/ WithChannel(ClearFields)
             \/ \E c \in Connections : WithChannel(ConnectionBreaks(c) \/ Connects(c) \/ Probe(c))
      PROVE  PostedInv(m, h)'
  BY <1>2, ChannelFollowsStep DEF WithChannel, PostedInv
<1>3. ASSUME \/ OpenChannel \/ FirstRefreshFails
             \/ \E c \in Connections : Bootstrap(c)
             \/ \E r \in Readers : ReadActive(r) \/ InstallMap(r)
             \/ \E n \in Msgs : PublishEvent(n)
             \/ \E g \in Hooks : EditWebhook(g)
             \/ UNCHANGED serviceVars
      PROVE  UNCHANGED <<handlers, finished, posted>>
  BY <1>3 DEF OpenChannel, FirstRefreshFails, Bootstrap, ReadActive, InstallMap, PublishEvent,
              EditWebhook, Consumer!Reconnect, Consumer!Publish, consumerVars, serviceVars
<1>4. QED
  BY <1>1, <1>2, <1>3, DeliverPosts, SettlePosts, FinishPosts DEF ServiceNext, PostedInv

\* Where a message is that has left the queue
LEMMA GoneFrom ==
  ServiceSpec => [](gone \cap Msgs \subseteq
                      IF disconnects = 0 THEN finished
                      ELSE IF crashes = 0 THEN finished \cup Consumer!Attended
                      ELSE Msgs)
<1>1. ConsumerProofs!Spec => []ConsumerProofs!OneCopy
  BY ConsumerAssumptions, ConsumerProofs!OneCopyInvariant
<1>2. /\ Consumer!AckedWhenFinished /\ Consumer!LossTakesTwoFaults /\ ConsumerProofs!OneCopy
      => gone \cap Msgs \subseteq
           IF disconnects = 0 THEN finished
           ELSE IF crashes = 0 THEN finished \cup Consumer!Attended
           ELSE Msgs
  BY DEF Consumer!AckedWhenFinished, Consumer!LossTakesTwoFaults, Consumer!NotLost,
         Consumer!Outstanding, ConsumerProofs!OneCopy, ConsumerProofs!Outstanding
<1>3. QED
  BY <1>1, <1>2, ServiceIsConsumer, ServiceAcksWhenFinished, ServiceLosesByTwoFaults, PTL

\* An event that leaves the queue has been posted to every webhook that was active
\* throughout, or is being posted after a lost connection, for any number of events,
\* webhooks, refreshes and of either fault alone.
THEOREM EventsPostedBeforeGone == ServiceSpec => PostedBeforeGone
<1> DEFINE Kept(m, h) ==
             m \in gone =>
               \/ <<m, h>> \in posted
               \/ /\ disconnects > 0
                  /\ \E s \in DOMAIN handlers : handlers[s].msg = m /\ h \in handlers[s].todo
<1> SUFFICES ASSUME NEW m \in Msgs \ Malformed, NEW h \in Hooks
             PROVE  ServiceSpec => ([](Subscribed(h) /\ (disconnects = 0 \/ crashes = 0))
                                      => []Kept(m, h))
  BY DEF PostedBeforeGone
<1>1. ServiceInit => PostedInv(m, h)
  BY DEF ServiceInit, Consumer!Init, Consumer!Nothing, PostedInv
<1>2. ServiceSpec => []Consumer!TypeOK
  <2>1. ConsumerProofs!Spec => []ConsumerProofs!TypeOK
    BY ConsumerAssumptions, ConsumerProofs!TypeCorrect
  <2>2. ConsumerProofs!TypeOK => Consumer!TypeOK
    BY DEF ConsumerProofs!TypeOK, Consumer!TypeOK, ConsumerProofs!Handler, Consumer!Handler
  <2>3. QED
    BY <2>1, <2>2, ServiceIsConsumer, PTL
<1>3. /\ disconnects = 0 \/ crashes = 0
      /\ Consumer!TypeOK
      /\ gone \cap Msgs \subseteq
           IF disconnects = 0 THEN finished
           ELSE IF crashes = 0 THEN finished \cup Consumer!Attended
           ELSE Msgs
      /\ PostedInv(m, h)
      => Kept(m, h)
  <2> SUFFICES ASSUME disconnects = 0 \/ crashes = 0, disconnects \in Nat, m \in gone,
                      gone \cap Msgs \subseteq
                        IF disconnects = 0 THEN finished
                        ELSE IF crashes = 0 THEN finished \cup Consumer!Attended
                        ELSE Msgs,
                      PostedInv(m, h)
               PROVE  Kept(m, h)
    BY DEF Consumer!TypeOK
  <2>1. CASE m \in finished
    BY <2>1 DEF PostedInv
  <2>2. CASE disconnects > 0 /\ m \in Consumer!Attended
    BY <2>2 DEF PostedInv, Consumer!Attended
  <2>3. QED
    BY <2>1, <2>2
<1> HIDE DEF Kept
<1>4. QED
  BY <1>1, <1>2, <1>3, StartInvariant, PostedInvStep, GoneFrom, PTL DEF ServiceSpec
=============================================================================
