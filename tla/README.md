# Safe Events Service: TLA+ models and proofs

The service consumes blockchain events from a RabbitMQ queue that the Safe
Transaction Service fills, posts each event to the webhooks subscribed to it,
and offers the same events as server-sent events. Webhooks are rows of a
Postgres table, edited through a REST API or an admin panel; a job running once
a minute deactivates those whose endpoint keeps failing and reloads the
in-memory copy that events are matched against.

This directory holds TLA+ modules of that system, TLC configurations that check
them on small instances, and TLAPS proofs of their safety properties and
refinements for all values of the constants. Paths below are relative to the repository root.

Running it, inside this directory:

    tlc -workers 2 -config MCRefreshHistory_safety.cfg MCRefreshHistory
    tlapm WebhookDispatcherProofs.tla

## 1. Inventory

### WebhookDispatcherService (`src/modules/webhook/webhookDispatcher.service.ts`)

*State.* `webhookMap`: id to `WebhookWithStats`, a `Webhook` row with
`successCount`, `failureCount` and `startTime`
(`repositories/webhook.entity.ts:174`). Settings: `WEBHOOK_AUTO_DISABLE`,
`WEBHOOK_FAILURE_THRESHOLD`, `WEBHOOK_HEALTH_MINUTES_WINDOW`.

*Operations.* `onModuleInit` (first refresh), `refreshWebhookMap` (`@Cron`, each
minute), `checkWebhooksHealth`, `disableWebhook`, `getAllActive`,
`postEveryWebhook`, `postWebhook`.

*Hard.* One Node.js process: code between two awaits is atomic and everything
interleaves at the awaits. `@Cron` does not wait for the previous firing, so
refresh runs overlap whenever the database takes longer than the minute between
two of them. A refresh awaits one UPDATE for each webhook it disables, then a
SELECT, then swaps the map; deliveries settle and operators edit rows at every
point in between. Any query may fail, and the process may end.

*Correct when.* Only webhooks that have failed are deactivated; a refresh loses
no statistics; the map comes to agree with the table; a webhook that a run
deactivates is gone from the map that run installs; an endpoint that is dead is
eventually deactivated.

### Event consumer (`src/datasources/queue/queue.provider.ts`, `src/modules/events/events.service.ts`)

*State.* An `amqp-connection-manager` connection and its `ChannelWrapper`; the
callbacks under way; at the broker, the queue and each channel's unacknowledged
deliveries.

*Operations.* `subscribeToEvents`, whose callback awaits `processEvent` (parse,
validate, push to the observable, `postEveryWebhook`) and acknowledges in a
`finally` block.

*Hard.* The channel is lost and reopened under callbacks that know nothing of
it: their messages are delivered again, delivery tags start again at 1, and the
wrapper acknowledges on whatever channel is open. The process may end between a
delivery and its acknowledgement. The prefetch setting is the only bound on what
runs at once.

*Correct when.* A message leaves the queue only once processed, none is lost,
each leaves eventually, and no more than `AMQP_PREFETCH_MESSAGES` are attended
at the same time.

### Webhook management API (`src/modules/webhook/webhook.controller.ts`, `webhook.service.ts`)

*State.* The `webhook` table; `url` is unique.

*Operations.* GET, POST, PUT, DELETE `/webhooks/:id`.

*Hard.* An operation is several queries without a transaction. `save` is a
SELECT followed by an INSERT or by an UPDATE of the columns that differ. Two
clients, the admin panel and the health job write the same row.

*Correct when.* Urls stay unique; the health job's verdict is not undone by a
request that knew nothing of it (which the code grants only from the SELECT of
`save` on, see section 3); a deleted webhook stays deleted; a row holds
what a request asked for.

### The others

| Component | State and operations | Hard | Correct when |
|---|---|---|---|
| Event filter and DTO conversion (`webhook.entity.ts`) | pure: `isEventRelevant`, `toPublicDto`, `fromPublicDto` | absent optional fields, event types outside the list | conversions are inverse; each type has one flag |
| HTTP agent and one delivery (`webhook.module.ts`, `postWebhook`) | retry count and delay of undici's `RetryAgent` | an answer lost after the endpoint acted | each delivery counted once; 2xx never counted as failure |
| Queue connection and health probe (`queue.provider.ts`, `queue.health.ts`) | `connection`, `channelWrapper`; `getConnection`, `connect`, `disconnect`, `isHealthy` | the probe calls `getConnection` too, and during an outage each call opens one more connection and replaces the fields | the probe reports on the consumer's connection; connections do not accumulate |
| Server-sent events (`events.controller.ts`, `events.service.ts`) | streams open; a filter over a hot observable | accounts are compared as they are spelled | a stream gets the events of its Safe and no others |
| Admin panel (`modules/admin/`) | sessions of AdminJS | third-party | – |
| Guards, proxy middleware (`common/`, `middleware/`) | none | – | – |
| The application (`main.ts`, lifecycle hooks) | what has been started | the order of start and end; the parts running beside each other | the consumer starts after the first refresh; an event reaches the webhooks active for it |
| Configuration, logging, migrations, `/about` | none | – | – |

### Interactions

    Transaction Service --> RabbitMQ --> consumer callback --> processEvent
                               ^               |                  |--> SSE observable
                               +---- ack ------+                  v
                                                  postEveryWebhook --> postWebhook --> endpoints
                                                        | reads          | counts on the entry
                                                        v                v
    REST API, AdminJS --> webhook table <--SELECT/UPDATE-- webhookMap (refresh job)

The dispatcher's map is shared by deliveries and refresh runs; the table by the
API, the admin panel and the refresh runs; the connection by the consumer and
the health probe.

## 2. Modules

| Module | What it is |
|---|---|
| `WebhookCache` | abstract: what the webhook map promises those who post from it |
| `AtLeastOnce` | abstract: what the consumer promises, without channels, tags or acknowledgements |
| `WebhookDispatcher` | map, statistics, refresh runs, deliveries, table edits, restarts |
| `RefreshHistory` | the former with history variables: which runs a later one has overtaken, what each run has deactivated |
| `EventConsumer` | queue, channel, callbacks, acknowledgements, lost connections, crashes |
| `WebhookStore` | POST, PUT and DELETE query by query beside the health job's UPDATE |
| `Delivery` | one `postWebhook` over the retrying agent, down to the chunks of the answer's body |
| `QueueConnection` | the provider's connection, shared by consumer and readiness probe |
| `EventService` | connection, consumer and webhook map as one application, in the order of Nest's lifecycle hooks |
| `WebhookFilter` | request validation, conversion to columns and back, the event filter, the filter of server-sent events |
| `MC...` | the instances for TLC |
| `...Proofs` | theorems and proofs about the module named |

How they relate:

    EventService --EXTENDS--> QueueConnection
         |--INSTANCE--> EventConsumer --implements--> AtLeastOnce
         `--INSTANCE--> WebhookCache <--implements-- WebhookDispatcher <--EXTENDS-- RefreshHistory

`WebhookStore`, `Delivery` and `WebhookFilter` are linked to the others by what
these assume of them: the edits of the table, which the theorem `StoreIsEdited`
shows `WebhookStore` to make, that each delivery ends and is counted once, and the
relation `Relevant`.

### WebhookDispatcher and the code

| Code | Model |
|---|---|
| `checkWebhooksHealth` up to its awaits | `StartRefresh`: webhooks in `Failing` get their UPDATE sent (`updating`), the other `Due` ones are reset |
| UPDATE executed by the database; it fails | `DisableWebhook`; `DisableFails` |
| the run resumes and resets the entry it holds | `FinishDisable`; `orphaned` records that the map has since dropped that entry, so that the reset is of an object no longer in the map |
| `await Promise.all`, then the SELECT executed; it fails | `LoadActive`; `LoadFails` |
| merge loop and `this.webhookMap = newWebhookMap` | `MergeSnapshot`: a cached object is kept and assigned, a new one has no counts |
| `postEveryWebhook` | `PostEveryWebhook`: one request per relevant entry |
| `postWebhook` resumed | `DeliverySucceeds`, `DeliveryFails` |
| the health window of an entry is over | `WindowPasses` |
| API and admin panel, as rows change | `CreateWebhook`, `UpdateWebhook`, `DeleteWebhook` |
| the process ends and starts again | `Restart`: some of the UPDATEs under way have landed |

Abstractions. `config` stands for all columns but `id` and `isActive`; the filter
is the relation `Relevant`. `windowPassed` stands for `getMinutesFromStartTime()
>= WEBHOOK_HEALTH_MINUTES_WINDOW`: any duration between resets is allowed. The
failure rate is compared by cross-multiplication, exact where the code divides
in floating point; the difference is listed as a hazard. Requests of an entry
that has left the map count on an object nobody reads, so `inFlight` forgets
them. How a request is retried and its answer read is left out: what matters here
is whether it succeeded. `Reliable` and `Dead` are assumptions about endpoints.

### WebhookCache and the dispatcher

`WebhookCache` has the active rows, the map and the answers of the database not
yet installed; a step edits one row, reads all of them, installs one answer, or
restarts. `WebhookDispatcher` implements it with `active` as the active rows of
`table`, `cached` as the configurations in `webhookMap` (statistics are gone) and
`reads` as the `snapshot` of each run waiting to merge. The UPDATE of
`disableWebhook` is an edit like those of operators; health checks, failed queries
and deliveries are stuttering. What it says of the code: the merge loop of
`refreshWebhookMap` never leaves a mixture of two answers, and nothing else writes
what events are matched against.

### EventConsumer and the code

| Code | Model |
|---|---|
| callback up to its first await, in `processEvent` and `postEveryWebhook` | `Deliver`: a malformed message has no targets, any other one every interested cached webhook |
| one `postWebhook` promise settles | `Settle` |
| `finally { channel.ack(message) }` | `FinishAcked`, `FinishRejected`, `FinishUnsent`: the tag is outstanding on the open channel, unknown to it, or there is no channel |
| `connect`'s setup, `channel.consume` registered again | `Reconnect` |
| connection lost; process ended | `Disconnect`; `Crash` |
| a refresh of the dispatcher's map | `RefreshCache` |

What is relied on of RabbitMQ and `amqp-connection-manager`, neither of which is
in the repository: a channel numbers its deliveries from 1; a channel that closes
puts its unacknowledged messages back in the queue; acknowledging an unknown tag
is answered with PRECONDITION_FAILED and closes the channel;
`ChannelWrapper.ack` uses the channel open now, and none if none is; after a loss
the manager opens a channel again, runs its setup and registers the consumers.
A channel closed for an unknown tag is taken to be reopened in the same way. The
queue is a set: no property depends on order. A message in transit to the process
is merged with the start of its callback, which loses only that it would return
to the queue without effect. `RefreshCache` is unconstrained, so the dispatcher's
part in this module is an over-approximation of `WebhookDispatcher`.

`AtLeastOnce` is what is left when channels and tags are taken away: a queue,
workers and what they have still to do. Its queue is `ready` together with what is
outstanding on the channel, its workers are the handlers, and it is `sound` until
a connection is lost: till then a message has at most one worker, and leaves the
queue only with the worker that has processed it. Afterwards a worker that is done
removes its own message, another one that has a worker or had one, or none. That
is the exact extent of finding 2: a misdirected acknowledgement takes one message
too early, never one that nobody has begun. Lost and reopened channels are
stuttering; a crash is `Interrupt`, which leaves open which webhooks the next
process finds.

### EventService and the code

| Code | Model |
|---|---|
| `onModuleInit` of the dispatcher, awaited by `app.listen` | `firstRefresh` is pending until `InstallMap` or `FirstRefreshFails`, which is logged and swallowed |
| `onApplicationBootstrap` of the events service, after every `onModuleInit` | `Bootstrap` |
| the readiness probe, served from then on | `Probe` of `QueueConnection` |
| `@Cron`, scheduled at bootstrap | `ReadActive` runs beside the rest once the first refresh is over |
| the consumer's channel, on the connection `subscribeToEvents` was given | `ChannelFollows`: lost with that connection, whichever one the provider has now; `OpenChannel` needs it up |
| `postEveryWebhook` | `DeliverEvent`: the targets are the ids in the map of `WebhookCache` |
| the process ends and starts again | `ProcessRestarts`: connections, channel, handlers, map and runs are gone at once |

`EventService` takes `WebhookCache` for the map, and `WebhookDispatcher` is shown
to implement that: the composition has the promise and not the statistics, which
keeps it small enough to check. All events are relevant to all webhooks in it;
what is relevant is the subject of `WebhookFilter`.

### WebhookStore and the code

`Create` is `createWebhook`, whose id is fresh, so the SELECT of `save` finds
nothing and the INSERT decides. `FindForUpdate`, `LoadForSave` and `SaveUpdates`
or `SaveInserts` are `updateWebhook`: `findOneBy`, then the two queries of
TypeORM's `save`. `Delete` is `deleteWebhook`, `Disable` the UPDATE of
`disableWebhook`. `deleted` and `overtaken` are history variables.
Relied on of TypeORM: `save` inserts when its SELECT finds no row, otherwise it
updates exactly the columns that differ from what the SELECT returned, and an
UPDATE that affects no row is no error.

### Delivery and the code

`PostWebhook` is `buildRequestOptions` and the first request; `HeadersArrive`,
`RequestFails`, `RequestAgain` are the agent, from the options
`createWebhookAgent` gives it; `ChunkArrives`, `BodyEnds`, `BodyFails` are
`readBodyWithLimit`, after which `Answer` counts; `Reject` is the catch block.
Relied on of undici: a status or error on the lists is tried again while retries
are left and rejects the request afterwards, other statuses are answers, and a
body that breaks off on an error of the list is fetched again where it can be: the
agent asks for the rest, and gives the body up if the answer is not that. `Resumable`
are the deliveries to endpoints that send the rest, for which a broken body is
retried like a request; for the others the model leaves open after how many attempts
it is given up. The pause, the request for the rest and its answer are one step, and
a request for the rest that fails is one more break of the body. A body that ends a
delivery leaves its error beside the status of the answer. This module supplies what the others assume: `WebhookDispatcher` and
`EventConsumer` let each delivery end, and count it once.

### QueueConnection and the code

`Connect` is `connect`, `Usable` the condition of `getConnection`,
`SubscribeToEvents` and `Probe` its two callers, `CloseChannel`,
`CloseConnection`, `ClearFields` the three steps of `disconnect`. Neither
`getConnection` nor `isHealthy` awaits I/O, so each is one step. Each connection
is a manager that retries until it is closed; nothing closes one that `connect`
has replaced. `EventConsumer` is the consumer's own connection of this module.

### WebhookFilter and the code

`Valid` is what the validators of `WebhookRequestDto` ask of the fields the filter
depends on, `fromPublicDto`, `toPublicDto` and `isEventRelevant` are the methods
of `Webhook`. An address is an account and its spelling, because the code compares
strings: viem's `isAddress` accepts lower case. `Relevant` of `WebhookDispatcher` stands for
`isEventRelevant`. `OpenStream` is `EventsController.sse`, which refuses an
address that is not checksummed, and `IsStreamed` the filter of
`getEventsObservableForSafe`. Chain ids are abstract, so the precision of `Number` on ids
above 2^53 is not covered.

## 3. Runs

| Run | Shows | Bounds |
|---|---|---|
| `dispatcher_safety` | `TypeOK`; `ReliableStaysActive`: a webhook whose endpoint always answers 2xx is deactivated only by an operator; `StatsSurviveRefresh`: counts of a webhook that stays cached go down only after its window or when the run that disabled it resumes; `OwnDisableTakesEffect`: what a run deactivates is not in the map it installs | `MCRefreshHistory`: 2 webhooks (one reliable, one not), 2 overlapping runs, 2 results per window and 1 open request per entry, 2 edits, 1 fault, threshold 50 |
| `dispatcher_liveness` | `CacheConverges`: the map comes to equal the active rows and stays so; `DeadIsDisabled`: a dead endpoint with events is deactivated; `ImplementsWebhookCache`: the refinement | 2 webhooks (one dead, one reliable), 2 configurations (one receives no event), 2 runs, 1 result per window, 1 edit, 1 fault, threshold 90 |
| `refresh_overlap` | violation of `NeverGoesBack`, finding 1 | 1 webhook, 2 runs, 1 edit |
| `consumer` | `TypeOK`; `AckedWhenFinished` and `AttendedWithinPrefetch` while no connection has been lost; `LossTakesTwoFaults`: no event is lost to lost connections alone nor to crashes alone; `ProcessedOnce`: until either, no event is processed twice; `EventuallyGone`: each message is eventually acknowledged; `ImplementsAtLeastOnce`: the refinement | 3 messages, one malformed, prefetch 2, 3 handlers, 1 disconnection and any number of channels closed for an unknown tag, 1 crash |
| `consumer_lost` | violation of `NeverLost`, finding 2 | 2 messages, 1 disconnection, 1 crash |
| `store_safety` | `TypeOK`; `OneWebhookPerUrl`; `ActivatedOnlyIfReadInactive`: an inactive row is activated only by a PUT that asks for it and whose save read it inactive, so a deactivation after the SELECT of save survives, one between `findOneBy` and that SELECT does not; `ReturnsOnlyIfOvertaken`: only a PUT overtaken by the DELETE brings a webhook back; `PutAppliesUnlessRaced`: a PUT answered 200 leaves its row as asked, unless the row changed under it | 2 ids, 2 urls, 2 configurations, 2 clients, 5 requests |
| `store_deleted` | violation of `DeletedStaysDeleted`, finding 3 | 1 id, 3 requests |
| `delivery` | `TypeOK`; `CountedOnce`: each delivery counts once, on its side; `RetriesExhausted`: none is given up on a status or error the agent retries before its retries are used, except in the middle of a body whose rest the endpoint does not send; `DeliveryEnds`, bodies without end included | 3 deliveries, one to an endpoint that sends the rest of a body, one to one that does not, one unparsable url, 5 statuses, 2 errors, 2 retries, limit of 3 bytes, chunks of 1 and 2 |
| `delivery_documented` | violation of `RetriesAsDocumented`, finding 4 | 1 delivery |
| `connection_resumes` | on `EventService`: `TypeOK` of the connections; `ConsumerResumes`: once outages cease the consumer's connection is back for good; `EventuallyPosted`: an event in the queue is posted to every webhook that is active and stays so, through outages, redeliveries, probes and restarts; `PostedBeforeGone`: the safety side of it, an event leaves the queue only once it is posted or being posted to those webhooks, unless a connection and the process have both been lost; `SilentAfterShutdown`: after a shutdown events are delivered only where a probe has opened a connection beside the consumer's | 1 message, 1 webhook, 2 connections in each process, 1 outage, 1 restart, 2 handlers, prefetch 1, 1 refresh run |
| `filter_events` | `PostedAsRequested`: a webhook is posted exactly what its request asks for; `RoundTrip`: GET answers what was sent, and sending it back changes nothing; `StreamGetsItsAccount`: a stream is sent exactly the events of its account | all sets of the 9 events and an unknown one, all 17 types and an unknown one, 2 chains, 1 account in 3 spellings |
| `filter_spelling` | violation of `AccountsServed`, finding 5 | 3 events, 1 chain, 1 account |

*Why these bounds.* The hazards are races between two actors about one entry, row
or tag: two refresh runs, two PUTs, an old handler and a new channel. Two of each
actor, and a second webhook or message beside the first, reach them; the
threshold of 50 makes one failure in two harmless and one in one fatal, so both
verdicts occur with two results. Two edits allow an operator to have a webhook
dropped and cached again. One disconnection makes handlers outlive their channel,
and their misdirected acknowledgements close further ones; a third message makes
the prefetch limit of two bite. Bounds on messages, handlers, edits
and faults sit in the guards named in the modules. Two configurations let a PUT
differ from the row in a column that is neither the url nor `isActive`, so that two
PUTs can be mixed in one row. In `EventService` one outage is enough for a probe to
replace the consumer's connection, for which a second one is there, and for a
handler to outlive its channel, for which a second slot is there; one restart
starts the race between first refresh and consumer over with a message already in
the queue; what more messages or handlers do to each other is the subject of
`consumer`. `MaxResults` holds an answer
back until the next reset; this only removes behaviours with more results per
window, which the theorems, stated for every bound, cover for safety.
The statuses
and errors of `Delivery` have one of each kind the code tells apart; the events of
`WebhookFilter` are all there are. `CHECK_DEADLOCK FALSE` appears where the system
stops: in `WebhookStore` at the bound on requests, in `Delivery` when all
deliveries have ended, in `EventService` after the shutdown. With its one message,
`connection_resumes` reaches `PostedBeforeGone` only where the event has been posted;
that a handler may still have to post it takes a second message, as in `consumer`,
and is left to the theorem. New connections of `QueueConnection` take their names in
a fixed order, which halves its states and nothing else.

Each property of a passing run comes with a mutant of the model, named in
`PROJECT.json` and defined next to what it replaces (`HealthChecked_NotAwaited`,
`Acked_UpTo`, ...): a plausible slip in the code that makes that run fail.

### Fairness

* `WebhookDispatcher`: each refresh run proceeds, because the cron job fires each
  minute and a query is answered or rejected; each request ends, because
  `HTTP_TIMEOUT` bounds connection, headers and body and `HTTP_MAX_RETRIES` the
  attempts; time passes; and events keep coming, an assumption about the queue
  that only `DeadIsDisabled` uses. Edits, failed queries and restarts have no
  fairness and are bounded: convergence is a claim about what happens once they
  cease.
* `EventConsumer`: the connection manager retries until it is up, the broker
  delivers what is ready, requests settle and the event loop runs callbacks.
  Publishing, disconnections and crashes have none.
* `Delivery`: something happens to a delivery within `HTTP_TIMEOUT`, and pauses
  end. There is no fairness for the end of a body: an endpoint may send chunks for
  ever, and only `WEBHOOK_MAX_RESPONSE_BYTES` makes `DeliveryEnds` hold.
* `EventService`: what the former assume of the refresh runs, the consumer and its
  handlers; besides, the broker comes back, managers keep trying, and Nest goes on
  from one lifecycle hook to the next. Outages and restarts are bounded; probes,
  edits and the shutdown need not come.

### Findings

1. *A late refresh run puts an older table into the map*
   (`webhookDispatcher.service.ts:408`): the runs overlap and each installs the
   result of its own SELECT, in whatever order they end. The next run repairs it,
   which is what `CacheConverges` says.
2. *An event can be lost* (`queue.provider.ts:192`): a handler that outlives its
   channel acknowledges its old tag on the new channel, where the tag is another
   message's. That message's own handler still runs, but if the process then ends
   nobody has it any more. It takes both faults (`LossTakesTwoFaults`).
3. *PUT can bring a deleted webhook back* (`webhook.service.ts:78`).
4. *429 and most 5xx are not retried* (`webhook.module.ts:14`), though the
   repository's README says so.
5. *An address in lower case is accepted and matches no event*
   (`webhook.entity.ts:65`). This rests on the behaviour of viem's `isAddress`,
   which is not in the repository.

Met while modelling, without a run of their own:

* After a lost connection more than the prefetch limit can run: handlers of the
  lost channel go on while the new one delivers the limit again
  (`queue.provider.ts:180`). `AttendedWithinPrefetch` is stated until then.
* A message the broker redelivers is posted under a new `X-Delivery-Id`
  (`webhookDispatcher.service.ts:297`).
* Two PUTs that load the same row and change different columns leave a mixture of
  the two requests (`webhook.service.ts:78`); `PutAppliesUnlessRaced` confines that
  to PUTs that overlap.
* A PUT that carries `isActive = true` and has found the webhook active activates it
  again if the health job deactivates it before the SELECT of `save`
  (`webhook.service.ts:78`): save compares with what its own SELECT reads, not with
  what `findOneBy` read. `ActivatedOnlyIfReadInactive` holds of what comes after.
* A delivery whose answer breaks off may fail with retries left: the agent goes on
  only with the rest of the body, and for a POST few endpoints offer that.
  `RetriesExhausted` excepts it.
* While the SELECT of the first refresh has failed, events are acknowledged without
  being posted to anybody (`webhookDispatcher.service.ts:80`); `EventuallyPosted`
  excepts them.
* After a shutdown whose connection a probe has replaced, the consumer's own
  connection is left open (`queue.provider.ts:148`). `SilentAfterShutdown` confines
  that to a probe's replacement. Only `app.close()` begins such a shutdown: `main.ts`
  enables no shutdown hooks.
* Events in a request are not checked against the list (`dtos/webhook.dto.ts:93`):
  a webhook can be subscribed to nothing.
* A url without a scheme passes `IsUrl`'s defaults, and every delivery to it fails
  (`webhookDispatcher.service.ts:253`); `Unparsable` of `Delivery` is this case.

## 4. Proofs

Every safety property of a passing run, and every refinement, is proved as well as
checked: for every set of ids, configurations, events, messages, clients and
refresh runs (handler slots and deliveries are finite sets), every threshold and
every bound, from the named ASSUMEs of the modules. No other fact is assumed.

`WebhookDispatcherProofs`

* `TypeCorrect`: `Spec => []TypeOK`.
* `ReliableWebhooksStayActive`: `Spec => ReliableStaysActive`. The property is not
  inductive: that no UPDATE of a reliable webhook is executed depends on none
  having been sent, which depends on no failure being counted on any entry the
  webhook ever has. `ReliableInv` is `TypeOK`, `NoFailureCounted` and
  `NoUpdateSent`. The arithmetic step is that a rate of no failures exceeds no
  threshold.
* `StatisticsSurviveRefresh`: `Spec => StatsSurviveRefresh`, from `TypeOK`, by
  cases on the steps that write the map.
* `DispatcherIsWebhookCache`: `Spec => ImplementsWebhookCache`, from `TypeOK`, one
  lemma for each kind of step: the merge loop installs the run's snapshot
  (`MergeSnapshotRefines`), every writer of the table edits one row
  (`TableStepsRefine`), a restart keeps some of the active rows
  (`RestartRefines`), the rest stutters.
* `OffMeansOff`: with `WEBHOOK_AUTO_DISABLE` off, or a threshold of 100 or more, the
  health job changes no row. The second half is the lemma `NoRateExceeds100`: no
  failures exceed all attempts. Every run has auto-disable on and a threshold below
  100, so this configuration, the default one, is covered by the theorem alone.

`RefreshHistoryProofs`

* `RunsTakeOutWhatTheyDisable`: `HistorySpec => OwnDisableTakesEffect`. The
  invariant `HistoryInv` is what the awaits of `refreshWebhookMap` are for: a run
  waiting to merge has no UPDATE under way and its snapshot holds nothing it has
  deactivated.

`EventConsumerProofs`

* `TypeCorrect`: `Spec => []TypeOK`.
* `AckedMessagesAreFinished`: `Spec => []AckedWhenFinished`, through `AckedInv`:
  until a connection is lost each handler's message is outstanding under the
  handler's own tag (`OwnTags`), tags in use are below the next one (`TagsUsed`),
  so an acknowledgement removes the handler's own message.
* `LossNeedsBoth`: `Spec => []LossTakesTwoFaults`, by its two halves. Without an end
  of the process, what is outstanding has a handler or is processed
  (`OutstandingAttended`), so a misdirected acknowledgement leaves a trace of the
  message (`KeptWhileUp`, lemma `EventsKeptWhileUp`). Without a lost connection, what
  is gone is processed, and what is not gone is with the broker (`Conserved`), which
  puts every outstanding message back in the queue when the channel is lost.
* `EventsProcessedOnce`: `Spec => []ProcessedOnce`. As long as neither fault has
  occurred, what is processed is gone (`FinishedGone`), and by `OneCopy` what is gone
  is nowhere else; `OwnTags` makes handlers of one message the same handler.
* `PrefetchBoundsHandlers`: `Spec => []AttendedWithinPrefetch`: by `OwnTags` the
  map from handlers to their tags is an injection into the outstanding tags,
  which are at most `Prefetch`.
* `ConsumerIsAtLeastOnce`: `Spec => ImplementsAtLeastOnce`, from the invariants
  above and `OneCopy`: a message is unpublished, ready, outstanding under one tag,
  or gone, and not two of these.

`WebhookStoreProofs`

* `TypeCorrect`, `UrlsStayUnique`, `InactiveUnlessReadInactive`, `OnlyOvertakenReturn`,
  `PutsApply`: the five properties of `store_safety`. The invariant is `TypeOK`,
  `OneWebhookPerUrl` and `UnderWay`: the webhook of a PUT under way still exists,
  unless the PUT has seen it deleted. That is what makes the INSERT of `save` the
  only way back, and only for a PUT that was overtaken. The rest is what an UPDATE
  of the columns that differ does to a row (`MergeUnraced`, `MergeActivates`).
* `StoreIsEdited`: the active rows start as `WebhookCache` says and each query changes
  those of one webhook at most, an `Edit` of `WebhookCache`. It is the assumption
  `WebhookDispatcher` and `EventService` make about the table.

`DeliveryProofs`

* `TypeCorrect`, `DeliveriesCountedOnce`, `RetriesUsedUp`. Every action moves one
  delivery that has not ended, and touches the counters only where it ends it
  (`EveryActionMoves`), so the counters are the cardinalities of the ended
  deliveries, which grow by one element at a time. `RetriesUsedUp` rests on
  `PhaseTells`: an attempt is left while a delivery pauses, and a body is read only
  of an answer that is not retried, with no error before it breaks off.

`WebhookFilterProofs`

* `PostsWhatWasRequested`, `StreamsServeTheirAccount`, `ConversionsAreInverse`. The
  invariant says that the row is the request converted, that an open stream was
  allowed, and that the event is one the transaction service sends; the lemmas are
  about `FlagEvent` (a bijection between flags and events) and `FlagTypes`.

`EventServiceProofs`

* `ConnectionTypes`: `ServiceSpec => []TypeOK`; needs that `disconnect` has
  something to close (`HasConnection`).
* `ServiceImplementsCache`: `ServiceSpec => Cache!Spec`.
* `ServiceImplementsConsumer`: `ServiceSpec => Consumer!Spec`. Two facts carry it:
  what the map holds are webhooks (`CacheType`), and the channel changes only with
  the connection it is on.
* `ServiceAcksWhenFinished`, `ServiceLosesByTwoFaults`, `ServiceProcessesOnce`,
  `ServiceWithinPrefetch`, `ServiceIsAtLeastOnce`: what `EventConsumerProofs` proves of
  the consumer, of the composed service. They come from an instance of that module
  with the service's channel, map and bound on outages, whose assumptions on the
  constants follow from those of `EventService` (`ConsumerAssumptions`).
* `SilenceAfterShutdown`: `ServiceSpec => []SilentAfterShutdown`. The channel is on
  the consumer's connection while that is up (`StartOrder`), and `disconnect` closes
  that one unless the provider's fields hold another (`OtherConnection`), which stays
  opened to the end of the process.
* `EventsPostedBeforeGone`: `ServiceSpec => PostedBeforeGone`, of the whole path from
  lifecycle hook to acknowledgement. Of one event and one webhook the invariant is
  `PostedInv`: whoever has processed the event has posted it to the webhook, and
  whoever is processing it has still to do so or has done it. It is inductive as long
  as the webhook is `Subscribed`, and because a channel is open only after the first
  refresh (`StartOrder`), so that every delivery finds the webhook in the map. Where
  an event is that has left the queue (`GoneFrom`) is `AckedWhenFinished`,
  `LossTakesTwoFaults` and `OneCopy` of the consumer.

That `WebhookDispatcher` may stand in the place of `WebhookCache`, and `WebhookStore`
in that of its edits, is an argument about the theorems `ServiceImplementsCache`,
`DispatcherIsWebhookCache` and `StoreIsEdited`, not a theorem itself.

Only model-checked: liveness (`CacheConverges`, `DeadIsDisabled`,
`EventuallyGone`, `DeliveryEnds`, `ConsumerResumes`, `EventuallyPosted`), which with
fairness and ENABLED is out of the prover's reach.

## 5. Plan

Done, in this order: `WebhookDispatcher` and `RefreshHistory`, the behaviour the
service is about; `EventConsumer`, the other half of it; `WebhookStore`, the third
writer of the table; `Delivery`, `QueueConnection` and `WebhookFilter` around
them; the abstract specifications `WebhookCache` and `AtLeastOnce` with their
refinements; `EventService`, which composes them; the proofs of all of these.

What could follow: `EventuallyPosted` and `PostedBeforeGone` with `WebhookDispatcher` itself in the place
of `WebhookCache`, whose state space is the product of two large ones.

## 6. Not modelled

* The admin panel: AdminJS is third-party; its edits of the table are those of
  `WebhookDispatcher` and `WebhookCache`, its sessions a library's.
* The patch of the admin layer in `main.ts`, the proxy and base path middleware, the
  guards and Swagger: stateless work on one request or response, unit-tested.
* Configuration, logging, migrations, `/about`: wiring and I/O.
* The lengths, texts and lists' order that request validation looks at.
* The bodies of events and the order of the queue: no property depends on them.
* The rounding of the failure rate and of chain ids above 2^53: both need
  significands of 53 bits, beyond TLC's integers, and the first concerns only a
  rate equal to the threshold.
