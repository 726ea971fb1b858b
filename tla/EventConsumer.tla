--------------------------- MODULE EventConsumer ---------------------------
(***************************************************************************)
(* The path of an event from the RabbitMQ queue to the webhooks: the       *)
(* consumer that QueueProvider.subscribeToEvents registers, which awaits   *)
(* EventsService.processEvent and acknowledges the message whatever came   *)
(* of it, over an AMQP channel that is lost and opened again.              *)
(*                                                                         *)
(* The broker and the channel wrapper are external, modelled from how they *)
(* are used: a lost channel puts its unacknowledged messages back in the   *)
(* queue, delivery tags start again at 1 on each channel, the wrapper      *)
(* acknowledges on whatever channel is open at the time, and the broker    *)
(* closes a channel that acknowledges a tag it does not know.  Handlers    *)
(* belong to the process and outlive the channel their message came from.  *)
(***************************************************************************)
EXTENDS Naturals, FiniteSets

CONSTANTS
  Msgs,           \* messages, each published once
  Malformed,      \* those processEvent gives up on: not JSON, no chainId or type
  Hooks,          \* webhooks
  Prefetch,       \* AMQP_PREFETCH_MESSAGES
  Slots,          \* bound: handlers that may run at once
  MaxDisconnects, \* bound: connections lost
  MaxCrashes      \* bound: ends of the process

ASSUME MalformedAssumption == Malformed \subseteq Msgs
ASSUME FiniteAssumption == IsFiniteSet(Slots)
ASSUME PrefetchAssumption == Prefetch \in Nat \ {0}
ASSUME BoundsAssumption == MaxDisconnects \in Nat /\ MaxCrashes \in Nat

VARIABLES
  unpublished, \* messages the transaction service has not sent yet
  ready,       \* messages in the queue, ready for delivery
  unacked,     \* tag -> message: delivered on the open channel, not acknowledged
  gone,        \* messages acknowledged: the broker has forgotten them
  connected,   \* a channel is open and the consumer registered on it
  nextTag,     \* the tag of the channel's next delivery
  handlers,    \* slot -> a consumer callback under way
  cached,      \* webhooks in the dispatcher's map that want the events
  finished,    \* messages that some handler has processed to the end
  disconnects, \* connections lost so far
  crashes      \* ends of the process so far

brokerVars == <<ready, unacked, gone, connected, nextTag>>
vars == <<unpublished, ready, unacked, gone, connected, nextTag, handlers,
          cached, finished, disconnects, crashes>>

\* todo: webhooks whose postWebhook has not settled.
Handler == [msg : Msgs, tag : Nat, todo : SUBSET Hooks]

Nothing == [i \in {} |-> i]

\* Messages outstanding at the broker, and messages with a handler at work
Outstanding == {unacked[t] : t \in DOMAIN unacked}

Attended == {handlers[s].msg : s \in DOMAIN handlers}

(***************************************************************************)
(* The broker and the channel (external)                                   *)
(***************************************************************************)
Publish(m) ==
  /\ m \in unpublished
  /\ unpublished' = unpublished \ {m}
  /\ ready' = ready \cup {m}
  /\ UNCHANGED <<unacked, gone, connected, nextTag, handlers, cached, finished,
                 disconnects, crashes>>

\* The channel is closed: its unacknowledged messages go back to the queue
LoseChannel ==
  /\ connected' = FALSE
  /\ ready' = ready \cup Outstanding
  /\ unacked' = Nothing
  /\ UNCHANGED gone

\* The handlers of the lost channel's messages know nothing of it
Disconnect ==
  /\ connected
  /\ disconnects < MaxDisconnects
  /\ disconnects' = disconnects + 1
  /\ LoseChannel
  /\ UNCHANGED <<unpublished, nextTag, handlers, cached, finished, crashes>>

\* The connection manager is up again: it opens a channel, runs its setup and
\* registers the consumer again
Reconnect ==
  /\ ~connected
  /\ connected' = TRUE
  /\ nextTag' = 1
  /\ UNCHANGED <<unpublished, ready, unacked, gone, handlers, cached, finished,
                 disconnects, crashes>>

(***************************************************************************)
(* The consumer                                                            *)
(***************************************************************************)
\* Mutant: the [undefined] that processEvent answers is taken for a webhook
Targets_Undefined(m) == IF m \in Malformed THEN {m} ELSE cached

\* processEvent up to its await: the webhooks posted to
Targets(m) == IF m \in Malformed THEN {} ELSE cached

\* Mutant: setup does not call channel.prefetch
PrefetchAllows_Unset == TRUE

\* channel.prefetch limits what the broker leaves unacknowledged on the channel
PrefetchAllows == Cardinality(DOMAIN unacked) < Prefetch

\* The broker delivers m and the callback runs up to its first await: it parses
\* and checks the message and calls postWebhook for every cached webhook.
Deliver(m) ==
  /\ connected
  /\ m \in ready
  /\ PrefetchAllows
  /\ \E s \in Slots \ DOMAIN handlers :
       handlers' = [q \in DOMAIN handlers \cup {s} |->
                      IF q = s
                      THEN [msg |-> m, tag |-> nextTag, todo |-> Targets(m)]
                      ELSE handlers[q]]
  /\ ready' = ready \ {m}
  /\ unacked' = [t \in DOMAIN unacked \cup {nextTag} |->
                   IF t = nextTag THEN m ELSE unacked[t]]
  /\ nextTag' = nextTag + 1
  /\ UNCHANGED <<unpublished, gone, connected, cached, finished, disconnects, crashes>>

\* postWebhook settles for webhook h: an answer, an error or the timeout
Settle(s, h) ==
  /\ s \in DOMAIN handlers
  /\ h \in handlers[s].todo
  /\ handlers' = [handlers EXCEPT ![s].todo = @ \ {h}]
  /\ UNCHANGED <<unpublished, brokerVars, cached, finished,
                 disconnects, crashes>>

\* Mutant: func is not awaited
MayFinish_NotAwaited(s) == s \in DOMAIN handlers

\* Mutant: the acknowledgement is in the try block and an error skips it
MayFinish_NoFinally(s) ==
  s \in DOMAIN handlers /\ handlers[s].todo = {} /\ handlers[s].msg \notin Malformed

\* The callback of s has nothing more to await and runs its finally block
MayFinish(s) == s \in DOMAIN handlers /\ handlers[s].todo = {}

\* The callback of s is over, having awaited every delivery or not
Processed(s) == {m \in {handlers[s].msg} : handlers[s].todo = {}}

OtherHandlers(s) == [q \in DOMAIN handlers \ {s} |-> handlers[q]]

\* Mutant: channel.ack(message, true)
Acked_UpTo(tag) == {t \in DOMAIN unacked : t <= tag}

\* Mutant: the message is not acknowledged
Acked_None(tag) == {}

\* The tags that channel.ack(message) acknowledges
Acked(tag) == {tag}

\* channel.ack with a tag the open channel has outstanding: whatever message
\* bears that tag there is removed from the queue
FinishAcked(s) ==
  /\ MayFinish(s)
  /\ connected
  /\ LET tag == handlers[s].tag
     IN  /\ tag \in DOMAIN unacked
         /\ gone' = gone \cup {unacked[t] : t \in Acked(tag)}
         /\ unacked' = [t \in DOMAIN unacked \ Acked(tag) |-> unacked[t]]
  /\ finished' = finished \cup Processed(s)
  /\ handlers' = OtherHandlers(s)
  /\ UNCHANGED <<unpublished, ready, connected, nextTag, cached,
                 disconnects, crashes>>

\* channel.ack with a tag the open channel does not know: the broker answers
\* PRECONDITION_FAILED and closes the channel
FinishRejected(s) ==
  /\ MayFinish(s)
  /\ connected
  /\ handlers[s].tag \notin DOMAIN unacked
  /\ LoseChannel
  /\ finished' = finished \cup Processed(s)
  /\ handlers' = OtherHandlers(s)
  /\ UNCHANGED <<unpublished, nextTag, cached, disconnects, crashes>>

\* channel.ack while no channel is open: the wrapper drops it
FinishUnsent(s) ==
  /\ MayFinish(s)
  /\ ~connected
  /\ finished' = finished \cup Processed(s)
  /\ handlers' = OtherHandlers(s)
  /\ UNCHANGED <<unpublished, brokerVars, cached, disconnects, crashes>>

Finish(s) == FinishAcked(s) \/ FinishRejected(s) \/ FinishUnsent(s)

\* The process ends, by a crash or a deployment, and is started again: its
\* handlers are gone and its channel with them, and the map is loaded anew
Crash ==
  /\ crashes < MaxCrashes
  /\ crashes' = crashes + 1
  /\ LoseChannel
  /\ handlers' = Nothing
  /\ cached' \in SUBSET Hooks
  /\ UNCHANGED <<unpublished, nextTag, finished, disconnects>>

\* The dispatcher's map is refreshed
RefreshCache ==
  /\ cached' \in SUBSET Hooks
  /\ cached' # cached
  /\ UNCHANGED <<unpublished, brokerVars, handlers, finished,
                 disconnects, crashes>>

(***************************************************************************)
(* Specification                                                           *)
(***************************************************************************)
Init ==
  /\ unpublished = Msgs
  /\ ready = {}
  /\ unacked = Nothing
  /\ gone = {}
  /\ connected = FALSE
  /\ nextTag = 1
  /\ handlers = Nothing
  /\ cached \in SUBSET Hooks
  /\ finished = {}
  /\ disconnects = 0
  /\ crashes = 0

Next ==
  \/ \E m \in Msgs : Publish(m) \/ Deliver(m)
  \/ \E s \in Slots : Finish(s) \/ \E h \in Hooks : Settle(s, h)
  \/ Disconnect
  \/ Reconnect
  \/ Crash
  \/ RefreshCache

Spec == Init /\ [][Next]_vars

\* The connection manager keeps trying ("connection will be retried until it's
\* up"), the broker delivers what is ready, every request ends by HTTP_TIMEOUT,
\* and the event loop runs what is due.
Fairness ==
  /\ WF_vars(Reconnect)
  /\ \A m \in Msgs : WF_vars(Deliver(m))
  /\ \A s \in Slots : WF_vars(Finish(s)) /\ \A h \in Hooks : WF_vars(Settle(s, h))

FairSpec == Spec /\ Fairness

(***************************************************************************)
(* Properties                                                              *)
(***************************************************************************)
TypeOK ==
  /\ unpublished \subseteq Msgs
  /\ ready \subseteq Msgs
  /\ DOMAIN unacked \subseteq Nat /\ unacked \in [DOMAIN unacked -> Msgs]
  /\ gone \subseteq Msgs
  /\ connected \in BOOLEAN
  /\ nextTag \in Nat
  /\ DOMAIN handlers \subseteq Slots /\ handlers \in [DOMAIN handlers -> Handler]
  /\ cached \subseteq Hooks
  /\ finished \subseteq Msgs
  /\ disconnects \in Nat
  /\ crashes \in Nat

\* As long as no connection has been lost, a message leaves the broker only
\* after some handler has processed it to the end, crashes notwithstanding: the
\* acknowledgement is the callback's last step (subscribeToEvents).
AckedWhenFinished == disconnects = 0 => gone \subseteq finished

\* Why it does: every handler's message is outstanding under the handler's own
\* tag, which no other handler has
OwnTags ==
  disconnects = 0 =>
    /\ connected \/ DOMAIN handlers = {}
    /\ \A s \in DOMAIN handlers :
         /\ handlers[s].tag \in DOMAIN unacked
         /\ unacked[handlers[s].tag] = handlers[s].msg
    /\ \A s, q \in DOMAIN handlers : handlers[s].tag = handlers[q].tag => s = q

TagsUsed ==
  /\ \A t \in DOMAIN unacked : t < nextTag
  /\ connected \/ DOMAIN unacked = {}

AckedInv == TypeOK /\ OwnTags /\ TagsUsed /\ AckedWhenFinished

\* As long as no connection has been lost, no more than Prefetch messages are
\* attended at the same time (getPrefetchMessages).
AttendedWithinPrefetch ==
  disconnects = 0 => Cardinality(DOMAIN handlers) <= Prefetch

\* Some trace of a published message that has not been processed: it is in the
\* broker, or a handler is at work on it
NotLost(m) == m \in unpublished \cup ready \cup Outstanding \cup Attended \cup finished

\* No event is lost to connections alone, nor to ends of the process alone: it takes
\* an acknowledgement that crosses a reconnection to remove another message, and
\* then a crash to end that message's own handler (subscribeToEvents).
LossTakesTwoFaults == disconnects = 0 \/ crashes = 0 => \A m \in Msgs : NotLost(m)

\* The one half of it: while the process is up a misdirected acknowledgement leaves
\* the message's handler at work
KeptWhileUp == crashes = 0 => \A m \in Msgs : NotLost(m)

\* Why it does: what is outstanding has a handler at work or is processed
OutstandingAttended == Outstanding \subseteq finished \cup Attended

KeptInv == TypeOK /\ KeptWhileUp /\ OutstandingAttended

\* The broker has each message in one place and delivers it under one tag
OneCopy ==
  /\ \A t, u \in DOMAIN unacked : unacked[t] = unacked[u] => t = u
  /\ unpublished \cap (ready \cup Outstanding \cup gone) = {}
  /\ ready \cap (Outstanding \cup gone) = {}
  /\ Outstanding \cap gone = {}

\* The broker forgets a message only when it is acknowledged
Conserved == Msgs \subseteq unpublished \cup ready \cup Outstanding \cup gone

\* As long as no connection has been lost and the process has not ended, no event is
\* processed twice, so no webhook is posted it twice: a processed message is neither
\* in the queue nor on the channel nor with another handler (subscribeToEvents).
ProcessedOnce ==
  disconnects = 0 /\ crashes = 0 =>
    /\ finished \cap (ready \cup Outstanding \cup Attended) = {}
    /\ \A s, q \in DOMAIN handlers : handlers[s].msg = handlers[q].msg => s = q

\* Why it is: a message is acknowledged in the step that ends its processing
FinishedGone == disconnects = 0 /\ crashes = 0 => finished \subseteq gone

\* No event is lost ("messages should be stored in our queue and when the systems
\* are up resending should be restored", README).  Violated: an acknowledgement
\* that crosses a reconnection removes another message, and a crash then ends the
\* only handler of that one.
NeverLost == \A m \in Msgs : NotLost(m)

\* Every published message is eventually acknowledged, malformed ones included:
\* none stays in the queue to be delivered for ever (subscribeToEvents).
EventuallyGone == \A m \in Msgs : m \notin unpublished ~> m \in gone

\* The consumer as AtLeastOnce sees it: what the broker holds, delivered or not,
\* is the queue, and tags and channels are gone
Abstract == INSTANCE AtLeastOnce WITH
  Workers <- Slots,
  queue <- ready \cup Outstanding,
  removed <- gone,
  jobs <- [s \in DOMAIN handlers |->
             [msg |-> handlers[s].msg, todo |-> handlers[s].todo]],
  done <- finished,
  wanted <- cached,
  sound <- disconnects = 0

\* Deliveries, acknowledgements by tag, lost channels and redeliveries implement
\* AtLeastOnce: until a connection is lost each message has one handler at a time
\* and leaves the queue with the handler that has processed it; afterwards an
\* acknowledgement removes at most one message, which some handler has begun
\* (subscribeToEvents).
ImplementsAtLeastOnce == Abstract!Spec
=============================================================================
