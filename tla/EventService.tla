---------------------------- MODULE EventService ----------------------------
(***************************************************************************)
(* The service as one Nest application, from the RabbitMQ queue to the     *)
(* webhooks: EventConsumer on the connections of QueueConnection, posting  *)
(* to the map of WebhookCache, in the order in which Nest starts them.     *)
(* app.listen initialises the modules and awaits the first refresh of the  *)
(* map (onModuleInit), then subscribes to the queue                        *)
(* (onApplicationBootstrap), then serves HTTP, the readiness probe         *)
(* included.  The end of the process ends all of it at once.               *)
(*                                                                         *)
(* The consumer's channel lives on the connection subscribeToEvents was    *)
(* given, which need not be the provider's current one.                    *)
(***************************************************************************)
EXTENDS QueueConnection, FiniteSets

CONSTANTS
  Msgs, Malformed, Hooks, Prefetch, Slots, MaxCrashes, \* as in EventConsumer
  Configs,                                             \* as in WebhookCache
  Readers                                              \* as in WebhookCache

ASSUME MessagesAssumption == Malformed \subseteq Msgs
ASSUME HandlersAssumption == IsFiniteSet(Slots) /\ Prefetch \in Nat \ {0}
ASSUME CrashesAssumption == MaxCrashes \in Nat

VARIABLES
  \* EventConsumer
  unpublished, ready, unacked, gone,
  channel,  \* EventConsumer's connected
  nextTag, handlers, finished, disconnects, crashes,
  \* WebhookCache
  active, cached, reads,
  \* The application
  firstRefresh, \* the refresh of onModuleInit: "pending", "loaded" or "failed"
  posted        \* history: pairs <<message, webhook>> whose postWebhook has settled

connectionVars == vars
consumerVars == <<unpublished, ready, unacked, gone, channel, nextTag, handlers,
                  finished, disconnects, crashes>>
cacheVars == <<active, cached, reads>>
serviceVars == <<connectionVars, consumerVars, cacheVars, firstRefresh, posted>>

\* Every lost connection may be the consumer's, and so may the closing one
Consumer == INSTANCE EventConsumer WITH
  connected <- channel,
  cached <- DOMAIN cached,
  MaxDisconnects <- MaxOutages + 1

Cache == INSTANCE WebhookCache WITH Ids <- Hooks

(***************************************************************************)
(* Starting and ending                                                     *)
(***************************************************************************)
\* Mutant: the consumer does not wait for the first refresh
MaySubscribe_AtOnce == TRUE

\* onApplicationBootstrap comes after every onModuleInit
MaySubscribe == firstRefresh # "pending"

Bootstrap(c) ==
  /\ MaySubscribe
  /\ SubscribeToEvents(c)
  /\ UNCHANGED <<cacheVars, consumerVars, firstRefresh, posted>>

\* The process ends and another one starts, with nothing open and nothing loaded
ProcessRestarts ==
  /\ Cache!Reset
  /\ Consumer!Crash
  /\ opened' = {}
  /\ closed' = {}
  /\ up' = {}
  /\ connection' = NoConnection
  /\ consumer' = NoConnection
  /\ readiness' = FALSE
  /\ stopping' = "no"
  /\ firstRefresh' = "pending"
  /\ UNCHANGED <<brokerUp, outages, posted>>

(***************************************************************************)
(* The webhook map                                                         *)
(***************************************************************************)
\* The cron job runs beside the application, not beside onModuleInit
ReadActive(r) ==
  /\ firstRefresh # "pending" \/ DOMAIN reads = {}
  /\ Cache!Read(r)
  /\ UNCHANGED <<connectionVars, consumerVars, firstRefresh, posted>>

InstallMap(r) ==
  /\ Cache!Install(r)
  /\ firstRefresh' = IF firstRefresh = "pending" THEN "loaded" ELSE firstRefresh
  /\ UNCHANGED <<connectionVars, consumerVars, posted>>

\* The SELECT of onModuleInit fails; the error is logged and the start goes on
FirstRefreshFails ==
  /\ firstRefresh = "pending"
  /\ DOMAIN reads = {}
  /\ firstRefresh' = "failed"
  /\ UNCHANGED <<connectionVars, cacheVars, consumerVars, posted>>

EditWebhook(h) ==
  /\ Cache!Edit(h)
  /\ UNCHANGED <<connectionVars, consumerVars, firstRefresh, posted>>

(***************************************************************************)
(* The connection and the consumer's channel                               *)
(***************************************************************************)
\* The channel is lost with the connection it is on, or closed
ChannelFollows ==
  IF channel /\ (consumer \notin up' \/ consumer' = NoConnection)
  THEN Consumer!Disconnect
  ELSE UNCHANGED consumerVars

WithChannel(ConnectionStep) ==
  /\ ConnectionStep
  /\ UNCHANGED <<cacheVars, firstRefresh, posted>>
  /\ ChannelFollows

\* The manager of the consumer's connection opens a channel on it
OpenChannel ==
  /\ consumer \in up
  /\ UNCHANGED <<connectionVars, cacheVars, firstRefresh, posted>>
  /\ Consumer!Reconnect

(***************************************************************************)
(* Events                                                                  *)
(***************************************************************************)
PublishEvent(m) ==
  /\ UNCHANGED <<connectionVars, cacheVars, firstRefresh, posted>>
  /\ Consumer!Publish(m)

DeliverEvent(m) ==
  /\ UNCHANGED <<connectionVars, cacheVars, firstRefresh, posted>>
  /\ Consumer!Deliver(m)

FinishEvent(s) ==
  /\ UNCHANGED <<connectionVars, cacheVars, firstRefresh, posted>>
  /\ Consumer!Finish(s)

SettlePost(s, h) ==
  /\ UNCHANGED <<connectionVars, cacheVars, firstRefresh>>
  /\ Consumer!Settle(s, h)
  /\ posted' = posted \cup {<<handlers[s].msg, h>>}

(***************************************************************************)
(* Specification                                                           *)
(***************************************************************************)
ServiceInit ==
  /\ Init
  /\ Cache!Init
  /\ Consumer!Init
  /\ firstRefresh = "pending"
  /\ posted = {}

ServiceNext ==
  \/ WithChannel(BrokerFails)
  \/ WithChannel(BrokerReturns)
  \/ WithChannel(CloseChannel)
  \/ WithChannel(CloseConnection)
  \/ WithChannel(ClearFields)
  \/ \E c \in Connections : WithChannel(ConnectionBreaks(c) \/ Connects(c) \/ Probe(c))
  \/ OpenChannel
  \/ ProcessRestarts
  \/ FirstRefreshFails
  \/ \E c \in Connections : Bootstrap(c)
  \/ \E r \in Readers : ReadActive(r) \/ InstallMap(r)
  \/ \E m \in Msgs : PublishEvent(m) \/ DeliverEvent(m)
  \/ \E s \in Slots : FinishEvent(s) \/ \E h \in Hooks : SettlePost(s, h)
  \/ \E h \in Hooks : EditWebhook(h)

\* What QueueConnection, WebhookDispatcher and EventConsumer assume, and that Nest
\* goes on with the start
ServiceFairness ==
  /\ WF_serviceVars(WithChannel(BrokerReturns))
  /\ \A c \in Connections : WF_serviceVars(WithChannel(Connects(c)))
  /\ WF_serviceVars(\E c \in Connections : Bootstrap(c))
  /\ WF_serviceVars(OpenChannel)
  /\ \A r \in Readers : WF_serviceVars(ReadActive(r) \/ InstallMap(r))
  /\ \A m \in Msgs : WF_serviceVars(DeliverEvent(m))
  /\ \A s \in Slots : WF_serviceVars(FinishEvent(s))
  /\ \A s \in Slots, h \in Hooks : WF_serviceVars(SettlePost(s, h))

ServiceSpec == ServiceInit /\ [][ServiceNext]_serviceVars /\ ServiceFairness

(***************************************************************************)
(* Properties                                                              *)
(***************************************************************************)
\* The map has h, or the start will load it, and no refresh under way drops it
Subscribed(h) ==
  /\ h \in DOMAIN active
  /\ \A r \in DOMAIN reads : h \in DOMAIN reads[r]
  /\ h \in DOMAIN cached \/ firstRefresh = "pending"

\* An event in the queue is posted to every webhook that is active and stays so,
\* from the queue to the POST: whatever outages, redeliveries and restarts come in
\* between, the consumer comes back, and it never starts before the map is loaded
\* (onModuleInit, onApplicationBootstrap).  Excepted are a start whose SELECT
\* failed, a shutdown, and a crash after a lost connection (see NeverLost).
EventuallyPosted ==
  \A m \in Msgs \ Malformed, h \in Hooks :
    (m \in ready /\ Subscribed(h)) ~>
      \/ <<m, h>> \in posted
      \/ h \notin DOMAIN active
      \/ firstRefresh = "failed"
      \/ stopping # "no"
      \/ disconnects > 0 /\ crashes > 0

\* An event leaves the queue only once it has been posted to every webhook that is
\* active throughout or, after a lost connection, while a handler has still to post
\* it: neither lost connections alone nor restarts alone lose an event for any such
\* webhook.  A start before the map is loaded, a refresh that drops a row, or an
\* acknowledgement ahead of a delivery would (onModuleInit, refreshWebhookMap,
\* subscribeToEvents).
PostedBeforeGone ==
  \A m \in Msgs \ Malformed, h \in Hooks :
    [](Subscribed(h) /\ (disconnects = 0 \/ crashes = 0)) =>
      [](m \in gone =>
           \/ <<m, h>> \in posted
           \/ /\ disconnects > 0
              /\ \E s \in DOMAIN handlers : handlers[s].msg = m /\ h \in handlers[s].todo)

\* Once the shutdown has begun, events are delivered only if a probe has opened a
\* connection beside the consumer's own, which disconnect then does not see
\* (disconnect, getConnection).
SilentAfterShutdown ==
  stopping # "no" /\ channel => \E c \in opened : c # consumer
=============================================================================
