--------------------------- MODULE WebhookFilter ---------------------------
(***************************************************************************)
(* What a webhook is subscribed to, from the request that creates it to    *)
(* the events it is posted: validation of WebhookRequestDto, fromPublicDto *)
(* into the columns of the table, toPublicDto back, and isEventRelevant;   *)
(* and what a stream of server-sent events is sent, from the address it is *)
(* opened with to the filter of its observable.                            *)
(*                                                                         *)
(* Columns, requests and events carry only what these tell apart.  Chain   *)
(* ids are integers in requests and decimal strings in rows and events;    *)
(* an address is an account together with the way it is written, for the   *)
(* code compares addresses as strings.                                     *)
(***************************************************************************)
EXTENDS FiniteSets

CONSTANTS
  Urls,        \* urls of requests
  Chains,      \* chain ids
  Accounts,    \* accounts
  EventNames   \* strings a request may list as events

\* Events without an address carry "none" in its place
ASSUME NoAccountCalledNone == "none" \notin Accounts

VARIABLES
  request, \* the request the webhook was created from
  webhook, \* its row
  stream,  \* the address a stream of server-sent events is open for
  event    \* the event being dispatched

vars == <<request, webhook, stream, event>>

None == [kind |-> "none"]

(***************************************************************************)
(* Requests                                                                *)
(***************************************************************************)
SendEventTypes ==
  {"SEND_CONFIRMATIONS", "SEND_MULTISIG_TXS", "SEND_ETHER_TRANSFERS",
   "SEND_TOKEN_TRANSFERS", "SEND_MODULE_TXS", "SEND_SAFE_CREATIONS",
   "SEND_MESSAGES", "SEND_REORGS", "SEND_DELEGATES"}

\* An account written with its checksum, all in lower case, or with a wrong one
Spellings == {"checksummed", "lowercase", "miscased"}
Address == Accounts \X Spellings

\* viem's isAddress: lower case needs no checksum
isAddress(a) == a[2] # "miscased"

Request ==
  [kind : {"request"}, url : Urls, chains : SUBSET Chains,
   addresses : SUBSET Address, events : SUBSET EventNames]

\* The validators of WebhookRequestDto: events have to be strings and at least
\* one, addresses have to be addresses
Valid(r) == r.events # {} /\ \A a \in r.addresses : isAddress(a)

(***************************************************************************)
(* Conversions                                                             *)
(***************************************************************************)
\* map(String) and map(Number)
ChainString(n) == <<"string", n>>
ChainNumber(s) == s[2]

\* The flags of a webhook and the event each stands for in a request
FlagEvent ==
  [sendConfirmations      |-> "SEND_CONFIRMATIONS",
   sendMultisigTxs        |-> "SEND_MULTISIG_TXS",
   sendEtherTransfers     |-> "SEND_ETHER_TRANSFERS",
   sendTokenTransfers     |-> "SEND_TOKEN_TRANSFERS",
   sendModuleTransactions |-> "SEND_MODULE_TXS",
   sendSafeCreations      |-> "SEND_SAFE_CREATIONS",
   sendMessages           |-> "SEND_MESSAGES",
   sendReorgs             |-> "SEND_REORGS",
   sendDelegates          |-> "SEND_DELEGATES"]

Flags == DOMAIN FlagEvent

\* Mutant: sendEtherTransfers is set from the token transfers
Includes_Swapped(events, f) ==
  (IF f = "sendEtherTransfers" THEN "SEND_TOKEN_TRANSFERS" ELSE FlagEvent[f]) \in events

\* public_webhook.events.includes(...)
Includes(events, f) == FlagEvent[f] \in events

fromPublicDto(r) ==
  [kind |-> "webhook", url |-> r.url,
   chains |-> {ChainString(n) : n \in r.chains},
   addresses |-> r.addresses,
   flags |-> {f \in Flags : Includes(r.events, f)}]

\* Mutant: the chains of the row are not converted back
PublicChains_Strings(w) == w.chains

PublicChains(w) == {ChainNumber(s) : s \in w.chains}

toPublicDto(w) ==
  [url |-> w.url, chains |-> PublicChains(w), addresses |-> w.addresses,
   events |-> {FlagEvent[f] : f \in w.flags}]

(***************************************************************************)
(* Events                                                                  *)
(***************************************************************************)
\* The types of events that each flag lets through
FlagTypes ==
  [sendConfirmations      |-> {"NEW_CONFIRMATION", "CONFIRMATION_REQUEST"},
   sendMultisigTxs        |-> {"PENDING_MULTISIG_TRANSACTION",
                               "EXECUTED_MULTISIG_TRANSACTION",
                               "DELETED_MULTISIG_TRANSACTION"},
   sendEtherTransfers     |-> {"INCOMING_ETHER", "OUTGOING_ETHER"},
   sendTokenTransfers     |-> {"INCOMING_TOKEN", "OUTGOING_TOKEN"},
   sendModuleTransactions |-> {"MODULE_TRANSACTION"},
   sendSafeCreations      |-> {"SAFE_CREATED"},
   sendMessages           |-> {"MESSAGE_CREATED", "MESSAGE_CONFIRMATION"},
   sendReorgs             |-> {"REORG_DETECTED"},
   sendDelegates          |-> {"NEW_DELEGATE", "UPDATED_DELEGATE", "DELETED_DELEGATE"}]

\* isEventValid asks for any string: another type than those listed is possible
TxServiceEventType == (UNION {FlagTypes[f] : f \in Flags}) \cup {"OTHER"}

\* The transaction service writes addresses with their checksum.  Reorgs have
\* none, nor have delegates of no Safe.
NoAddress == <<"none", "none">>
EventAddress(t) ==
  (Accounts \X {"checksummed"})
    \cup IF t \in FlagTypes["sendDelegates"] THEN {NoAddress} ELSE {}

TxServiceEvent ==
  UNION {[kind : {"event"}, type : {t}, chainId : {ChainString(n) : n \in Chains},
          address : IF t = "REORG_DETECTED" THEN {NoAddress} ELSE EventAddress(t)] :
         t \in TxServiceEventType}

ChainMatches(w, e) == w.chains = {} \/ e.chainId \in w.chains

AddressMatches(w, e) == w.addresses = {} \/ e.address \in w.addresses

isEventRelevant(w, e) ==
  /\ ChainMatches(w, e)
  /\ AddressMatches(w, e)
  /\ \E f \in w.flags : e.type \in FlagTypes[f]

(***************************************************************************)
(* Server-sent events                                                      *)
(***************************************************************************)
\* Mutant: an address in any accepted spelling opens a stream
CanStream_AnySpelling(a) == isAddress(a)

\* sse refuses an address that is not written with its checksum
CanStream(a) == isAddress(a) /\ a[2] = "checksummed"

\* Mutant: the filter lets events without an address through
IsStreamed_NoAddress(a, e) == e.address \in {a, NoAddress}

\* The filter of getEventsObservableForSafe
IsStreamed(a, e) == e.address = a

(***************************************************************************)
(* Behaviour: an event is dispatched without an await                      *)
(***************************************************************************)
\* POST /webhooks, and PUT, which replaces every column
SaveWebhook(r) ==
  /\ event = None
  /\ Valid(r)
  /\ request' = r
  /\ webhook' = fromPublicDto(r)
  /\ UNCHANGED <<stream, event>>

DeleteWebhook ==
  /\ event = None
  /\ webhook # None
  /\ webhook' = None
  /\ request' = None
  /\ UNCHANGED <<stream, event>>

OpenStream(a) ==
  /\ event = None
  /\ stream = None
  /\ CanStream(a)
  /\ stream' = a
  /\ UNCHANGED <<request, webhook, event>>

CloseStream ==
  /\ event = None
  /\ stream # None
  /\ stream' = None
  /\ UNCHANGED <<request, webhook, event>>

\* processEvent: pushEventToEventsObservable, then postEveryWebhook
DispatchEvent(e) ==
  /\ event = None
  /\ event' = e
  /\ UNCHANGED <<request, webhook, stream>>

EventDispatched ==
  /\ event # None
  /\ event' = None
  /\ UNCHANGED <<request, webhook, stream>>

Init == request = None /\ webhook = None /\ stream = None /\ event = None

Next ==
  \/ webhook = None /\ \E r \in Request : SaveWebhook(r)
  \/ DeleteWebhook
  \/ \E a \in Address : OpenStream(a)
  \/ CloseStream
  \/ \E e \in TxServiceEvent : DispatchEvent(e)
  \/ EventDispatched

Spec == Init /\ [][Next]_vars

(***************************************************************************)
(* Properties                                                              *)
(***************************************************************************)
\* The event of a request that covers a type of event, as the enum, the columns
\* and the README name them
Subscription ==
  [t \in TxServiceEventType \ {"OTHER"} |->
     CASE t \in {"NEW_CONFIRMATION", "CONFIRMATION_REQUEST"} -> "SEND_CONFIRMATIONS"
       [] t \in {"PENDING_MULTISIG_TRANSACTION", "EXECUTED_MULTISIG_TRANSACTION",
                 "DELETED_MULTISIG_TRANSACTION"} -> "SEND_MULTISIG_TXS"
       [] t \in {"INCOMING_ETHER", "OUTGOING_ETHER"} -> "SEND_ETHER_TRANSFERS"
       [] t \in {"INCOMING_TOKEN", "OUTGOING_TOKEN"} -> "SEND_TOKEN_TRANSFERS"
       [] t = "MODULE_TRANSACTION" -> "SEND_MODULE_TXS"
       [] t = "SAFE_CREATED" -> "SEND_SAFE_CREATIONS"
       [] t \in {"MESSAGE_CREATED", "MESSAGE_CONFIRMATION"} -> "SEND_MESSAGES"
       [] t = "REORG_DETECTED" -> "SEND_REORGS"
       [] t \in {"NEW_DELEGATE", "UPDATED_DELEGATE", "DELETED_DELEGATE"} -> "SEND_DELEGATES"]

\* A webhook is posted exactly the events its request asks for: of a listed
\* event, on one of its chains if it names any, of one of its addresses as it
\* writes them if it names any (fromPublicDto, isEventRelevant).
PostedAsRequested ==
  event # None /\ webhook # None =>
    (isEventRelevant(webhook, event) <=>
       /\ event.type \in DOMAIN Subscription
       /\ Subscription[event.type] \in request.events
       /\ \A n \in Chains :
            event.chainId = ChainString(n) => request.chains = {} \/ n \in request.chains
       /\ request.addresses # {} => event.address \in request.addresses)

\* A stream is sent exactly the events of the account it was opened for, so that no
\* spelling of an address opens a stream that stays silent, and neither reorgs nor
\* delegates of no Safe reach it (sse, getEventsObservableForSafe).
StreamGetsItsAccount ==
  event # None /\ stream # None =>
    (IsStreamed(stream, event) <=> stream[1] = event.address[1])

\* GET answers what POST or PUT was sent, events without a column aside, and
\* sending that answer back changes nothing (toPublicDto, fromPublicDto).
RoundTrip ==
  webhook # None =>
    /\ toPublicDto(webhook) =
         [url |-> request.url, chains |-> request.chains, addresses |-> request.addresses,
          events |-> request.events \cap SendEventTypes]
    /\ fromPublicDto(toPublicDto(webhook)) = webhook

\* A webhook that names an account is posted the events of that account ("Each
\* address must be a valid Ethereum checksumed address", WebhookRequestDto).
\* Violated: an address in lower case is accepted and compared as a string.
AccountsServed ==
  (event # None /\ webhook # None /\ \E a \in webhook.addresses : a[1] = event.address[1])
    => AddressMatches(webhook, event)
=============================================================================
