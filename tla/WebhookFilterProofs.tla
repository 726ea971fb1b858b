------------------------- MODULE WebhookFilterProofs -------------------------
(***************************************************************************)
(* Proofs about WebhookFilter, for any urls, chains, accounts and strings  *)
(* that requests may list: webhooks are posted, and streams are sent, what *)
(* was asked for, and the two conversions are inverse to each other.       *)
(*                                                                         *)
(* The behaviour adds little: the row is always the conversion of its      *)
(* request.  The rest is about the three tables written by hand, from      *)
(* flags to events of a request and to types of events.                    *)
(***************************************************************************)
EXTENDS WebhookFilter, TLAPS

(***************************************************************************)
(* The tables                                                              *)
(***************************************************************************)
\* The nine flags
LEMMA FlagsAre ==
  Flags = {"sendConfirmations", "sendMultisigTxs", "sendEtherTransfers",
           "sendTokenTransfers", "sendModuleTransactions", "sendSafeCreations",
           "sendMessages", "sendReorgs", "sendDelegates"}
BY DEF Flags, FlagEvent

\* No two flags stand for the same event of a request
LEMMA FlagEventInjective ==
  ASSUME NEW f \in Flags, NEW g \in Flags, FlagEvent[f] = FlagEvent[g]
  PROVE  f = g
BY FlagsAre DEF FlagEvent

\* Every event of a request has a flag, and no flag stands for another string
LEMMA FlagEventOnto == {FlagEvent[f] : f \in Flags} = SendEventTypes
BY FlagsAre DEF FlagEvent, SendEventTypes

\* The types a flag lets through are those the event it stands for covers
LEMMA FlagTypesCover ==
  ASSUME NEW f \in Flags, NEW t \in TxServiceEventType
  PROVE  t \in FlagTypes[f] <=>
           t \in DOMAIN Subscription /\ Subscription[t] = FlagEvent[f]
<1>1. t \in FlagTypes[f] => t # "OTHER"
  BY FlagsAre DEF FlagTypes
<1>2. t = "OTHER" \/ \E g \in Flags : t \in FlagTypes[g]
  BY DEF TxServiceEventType
<1>3. DOMAIN Subscription = TxServiceEventType \ {"OTHER"}
  BY DEF Subscription
<1>4. CASE t = "OTHER"
  BY <1>1, <1>3, <1>4
<1>5. CASE t # "OTHER"
  BY <1>2, <1>3, <1>5, FlagsAre DEF FlagTypes, FlagEvent, Subscription
<1> QED BY <1>4, <1>5

(***************************************************************************)
(* Conversions                                                             *)
(***************************************************************************)
\* fromPublicDto gives a row of the kind of a webhook, never the absent one
LEMMA FromPublicDto ==
  ASSUME NEW r \in Request
  PROVE  LET w == fromPublicDto(r)
         IN  /\ w # None
             /\ w.url = r.url
             /\ w.addresses = r.addresses
             /\ w.chains = {ChainString(n) : n \in r.chains}
             /\ w.flags = {f \in Flags : FlagEvent[f] \in r.events}
<1>1. fromPublicDto(r).kind = "webhook" /\ None.kind = "none"
  BY DEF fromPublicDto, None
<1>2. fromPublicDto(r) # None
  BY <1>1
<1> QED BY <1>2 DEF fromPublicDto, Includes

\* A chain id survives the conversion to a string and back
LEMMA ChainRoundTrip ==
  ASSUME NEW S
  PROVE  {ChainNumber(s) : s \in {ChainString(n) : n \in S}} = S
<1>1. \A n : ChainNumber(ChainString(n)) = n
  BY DEF ChainNumber, ChainString
<1> QED BY <1>1

\* The events read back from the flags are those requested that have a flag
LEMMA EventsRoundTrip ==
  ASSUME NEW E
  PROVE  {FlagEvent[f] : f \in {g \in Flags : FlagEvent[g] \in E}} = E \cap SendEventTypes
BY FlagEventOnto

\* Setting the flags from those events again gives the same flags
LEMMA FlagsRoundTrip ==
  ASSUME NEW F \in SUBSET Flags
  PROVE  {f \in Flags : FlagEvent[f] \in {FlagEvent[g] : g \in F}} = F
BY FlagEventInjective

\* A row made from a request is answered as that request, events without a flag
\* aside, and the answer makes the same row.
LEMMA ConversionsRoundTrip ==
  ASSUME NEW r \in Request
  PROVE  LET w == fromPublicDto(r)
         IN  /\ toPublicDto(w) =
                  [url |-> r.url, chains |-> r.chains, addresses |-> r.addresses,
                   events |-> r.events \cap SendEventTypes]
             /\ fromPublicDto(toPublicDto(w)) = w
<1> DEFINE w == fromPublicDto(r)
           p == [url |-> r.url, chains |-> r.chains, addresses |-> r.addresses,
                 events |-> r.events \cap SendEventTypes]
<1>1. toPublicDto(w) = p
  <2>1. /\ w.url = r.url
        /\ w.addresses = r.addresses
        /\ w.chains = {ChainString(n) : n \in r.chains}
        /\ w.flags = {f \in Flags : FlagEvent[f] \in r.events}
    BY FromPublicDto
  <2>2. {ChainNumber(s) : s \in w.chains} = r.chains
    BY <2>1, ChainRoundTrip
  <2>3. {FlagEvent[f] : f \in w.flags} = r.events \cap SendEventTypes
    BY <2>1, EventsRoundTrip
  <2> QED BY <2>1, <2>2, <2>3 DEF toPublicDto, PublicChains
<1>2. fromPublicDto(p) = w
  <2>1. {f \in Flags : FlagEvent[f] \in r.events \cap SendEventTypes}
          = {f \in Flags : FlagEvent[f] \in r.events}
    BY FlagEventOnto
  <2> QED BY <2>1 DEF fromPublicDto, Includes
<1> QED BY <1>1, <1>2

(***************************************************************************)
(* What is posted and what is streamed                                     *)
(***************************************************************************)
\* A row made from a request matches exactly the events the request asks for.
LEMMA RelevantAsRequested ==
  ASSUME NEW r \in Request, NEW e \in TxServiceEvent
  PROVE  isEventRelevant(fromPublicDto(r), e) <=>
           /\ e.type \in DOMAIN Subscription
           /\ Subscription[e.type] \in r.events
           /\ \A n \in Chains :
                e.chainId = ChainString(n) => r.chains = {} \/ n \in r.chains
           /\ r.addresses # {} => e.address \in r.addresses
<1> DEFINE w == fromPublicDto(r)
<1>1. /\ w.addresses = r.addresses
      /\ w.chains = {ChainString(n) : n \in r.chains}
      /\ w.flags = {f \in Flags : FlagEvent[f] \in r.events}
  BY FromPublicDto
<1>2. /\ e.type \in TxServiceEventType
      /\ \E n \in Chains : e.chainId = ChainString(n)
  BY DEF TxServiceEvent
<1>3. ChainMatches(w, e) <=>
        \A n \in Chains : e.chainId = ChainString(n) => r.chains = {} \/ n \in r.chains
  <2>1. \A m, n : ChainString(m) = ChainString(n) => m = n
    BY DEF ChainString
  <2>2. w.chains = {} <=> r.chains = {}
    BY <1>1
  <2> QED BY <1>1, <1>2, <2>1, <2>2 DEF ChainMatches
<1>4. AddressMatches(w, e) <=> (r.addresses # {} => e.address \in r.addresses)
  BY <1>1 DEF AddressMatches
<1>5. (\E f \in w.flags : e.type \in FlagTypes[f]) <=>
        e.type \in DOMAIN Subscription /\ Subscription[e.type] \in r.events
  <2>1. ASSUME NEW f \in w.flags, e.type \in FlagTypes[f]
        PROVE  e.type \in DOMAIN Subscription /\ Subscription[e.type] \in r.events
    BY <1>1, <1>2, <2>1, FlagTypesCover
  <2>2. ASSUME e.type \in DOMAIN Subscription, Subscription[e.type] \in r.events
        PROVE  \E f \in w.flags : e.type \in FlagTypes[f]
    <3>1. e.type # "OTHER"
      BY <2>2 DEF Subscription
    <3>2. PICK f \in Flags : e.type \in FlagTypes[f]
      BY <1>2, <3>1 DEF TxServiceEventType
    <3>3. f \in w.flags
      BY <1>1, <1>2, <2>2, <3>2, FlagTypesCover
    <3> QED BY <3>2, <3>3
  <2> QED BY <2>1, <2>2
<1> QED BY <1>3, <1>4, <1>5 DEF isEventRelevant

\* A stream is opened only by an address written as events write theirs.
LEMMA StreamedAsRequested ==
  ASSUME NEW a \in Address, CanStream(a), NEW e \in TxServiceEvent
  PROVE  IsStreamed(a, e) <=> a[1] = e.address[1]
<1>1. a = <<a[1], "checksummed">> /\ a[1] \in Accounts
  BY DEF CanStream, Address
<1>2. e.address \in (Accounts \X {"checksummed"}) \cup {NoAddress}
  BY DEF TxServiceEvent, EventAddress
<1>3. CASE e.address \in Accounts \X {"checksummed"}
  BY <1>1, <1>3 DEF IsStreamed
<1>4. CASE e.address = NoAddress
  BY <1>1, <1>4, NoAccountCalledNone DEF IsStreamed, NoAddress
<1> QED BY <1>2, <1>3, <1>4

(***************************************************************************)
(* The invariant                                                           *)
(***************************************************************************)
\* The row is the conversion of its request, the stream was opened by an address
\* that may open one, the event is one the transaction service sends.
WebhookConverted ==
  webhook # None => request \in Request /\ webhook = fromPublicDto(request)

StreamAllowed == stream # None => stream \in Address /\ CanStream(stream)

EventSent == event # None => event \in TxServiceEvent

IInv == WebhookConverted /\ StreamAllowed /\ EventSent

LEMMA InitIInv == Init => IInv
BY DEF Init, IInv, WebhookConverted, StreamAllowed, EventSent

\* Each part is disturbed by the one action that writes what it speaks of.
LEMMA NextIInv == IInv /\ [Next]_vars => IInv'
<1> SUFFICES ASSUME IInv, [Next]_vars
             PROVE  IInv'
  OBVIOUS
<1> USE DEF IInv, WebhookConverted, StreamAllowed, EventSent
<1>1. CASE \E r \in Request : SaveWebhook(r)
  BY <1>1 DEF SaveWebhook
<1>2. CASE DeleteWebhook
  BY <1>2 DEF DeleteWebhook
<1>3. CASE \E a \in Address : OpenStream(a)
  BY <1>3 DEF OpenStream
<1>4. CASE CloseStream
  BY <1>4 DEF CloseStream
<1>5. CASE \E e \in TxServiceEvent : DispatchEvent(e)
  BY <1>5 DEF DispatchEvent
<1>6. CASE EventDispatched
  BY <1>6 DEF EventDispatched
<1>7. CASE UNCHANGED vars
  BY <1>7 DEF vars
<1> QED BY <1>1, <1>2, <1>3, <1>4, <1>5, <1>6, <1>7 DEF Next

LEMMA Invariance == Spec => []IInv
BY InitIInv, NextIInv, PTL DEF Spec

\* Webhooks are posted exactly the events their requests ask for, for any
\* requests and events (fromPublicDto, isEventRelevant).
THEOREM PostsWhatWasRequested == Spec => []PostedAsRequested
<1>1. IInv => PostedAsRequested
  BY RelevantAsRequested DEF IInv, WebhookConverted, EventSent, PostedAsRequested
<1> QED BY <1>1, Invariance, PTL

\* Streams are sent exactly the events of the account they were opened for, for
\* any accounts and spellings (sse, getEventsObservableForSafe).
THEOREM StreamsServeTheirAccount == Spec => []StreamGetsItsAccount
<1>1. IInv => StreamGetsItsAccount
  BY StreamedAsRequested DEF IInv, StreamAllowed, EventSent, StreamGetsItsAccount
<1> QED BY <1>1, Invariance, PTL

\* GET answers what was requested and PUTting the answer changes nothing, for any
\* requests (fromPublicDto, toPublicDto).
THEOREM ConversionsAreInverse == Spec => []RoundTrip
<1>1. IInv => RoundTrip
  BY ConversionsRoundTrip DEF IInv, WebhookConverted, RoundTrip
<1> QED BY <1>1, Invariance, PTL
=============================================================================
