------------------------ MODULE EventConsumerProofs ------------------------
(***************************************************************************)
(* Theorems about EventConsumer, for every value of its constants.         *)
(***************************************************************************)
EXTENDS EventConsumer, FiniteSetTheorems, TLAPS

(***************************************************************************)
(* Type correctness                                                        *)
(***************************************************************************)
LEMMA InitType == Init => TypeOK
<1> SUFFICES ASSUME Init PROVE TypeOK
  OBVIOUS
<1>1. DOMAIN Nothing = {} /\ Nothing \in [DOMAIN Nothing -> Msgs]
        /\ Nothing \in [DOMAIN Nothing -> Handler]
  BY DEF Nothing
<1>2. /\ DOMAIN unacked \subseteq Nat /\ unacked \in [DOMAIN unacked -> Msgs]
      /\ DOMAIN handlers \subseteq Slots /\ handlers \in [DOMAIN handlers -> Handler]
  BY <1>1 DEF Init
<1>3. QED
  BY <1>2 DEF Init, TypeOK

LEMMA PublishType ==
  ASSUME TypeOK, NEW m \in Msgs, Publish(m)
  PROVE  TypeOK'
BY DEF TypeOK, Publish

\* The broker's side of a lost channel
LEMMA LoseChannelType ==
  ASSUME TypeOK, LoseChannel
  PROVE  /\ ready' \subseteq Msgs
         /\ DOMAIN unacked' \subseteq Nat /\ unacked' \in [DOMAIN unacked' -> Msgs]
         /\ gone' \subseteq Msgs
         /\ connected' \in BOOLEAN
<1>1. unacked' = Nothing /\ gone' = gone
  BY DEF LoseChannel
<1>2. DOMAIN unacked' \subseteq Nat /\ unacked' \in [DOMAIN unacked' -> Msgs]
  BY <1>1 DEF Nothing
<1>3. ready' \subseteq Msgs
  BY DEF LoseChannel, TypeOK, Outstanding
<1>4. connected' \in BOOLEAN
  BY DEF LoseChannel
<1>5. QED
  BY <1>1, <1>2, <1>3, <1>4 DEF TypeOK

LEMMA DisconnectType ==
  ASSUME TypeOK, Disconnect
  PROVE  TypeOK'
BY LoseChannelType DEF TypeOK, Disconnect

LEMMA ReconnectType ==
  ASSUME TypeOK, Reconnect
  PROVE  TypeOK'
BY DEF TypeOK, Reconnect

LEMMA DeliverType ==
  ASSUME TypeOK, NEW m \in Msgs, Deliver(m)
  PROVE  TypeOK'
<1>1. Targets(m) \subseteq Hooks
  BY DEF TypeOK, Targets
<1>2. handlers' \in [DOMAIN handlers' -> Handler] /\ DOMAIN handlers' \subseteq Slots
  BY <1>1 DEF TypeOK, Deliver, Handler
<1>3. DOMAIN unacked' \subseteq Nat /\ unacked' \in [DOMAIN unacked' -> Msgs]
  BY DEF TypeOK, Deliver
<1>4. ready' \subseteq Msgs /\ nextTag' \in Nat
  BY DEF TypeOK, Deliver
<1>5. UNCHANGED <<unpublished, gone, connected, cached, finished, disconnects, crashes>>
  BY DEF Deliver
<1>6. QED
  BY <1>2, <1>3, <1>4, <1>5 DEF TypeOK

LEMMA SettleType ==
  ASSUME TypeOK, NEW s \in Slots, NEW h \in Hooks, Settle(s, h)
  PROVE  TypeOK'
<1>1. handlers' \in [DOMAIN handlers' -> Handler] /\ DOMAIN handlers' \subseteq Slots
  BY DEF TypeOK, Settle, Handler
<1>2. QED
  BY <1>1 DEF TypeOK, Settle, brokerVars

LEMMA FinishType ==
  ASSUME TypeOK, NEW s \in Slots, Finish(s)
  PROVE  TypeOK'
<1>1. s \in DOMAIN handlers /\ Processed(s) \subseteq Msgs
  BY DEF Finish, FinishAcked, FinishRejected, FinishUnsent, MayFinish, Processed, TypeOK, Handler
<1>2. OtherHandlers(s) \in [DOMAIN handlers \ {s} -> Handler]
  BY DEF OtherHandlers, TypeOK
<1>3. DOMAIN OtherHandlers(s) \subseteq Slots
  BY DEF OtherHandlers, TypeOK
<1>4. CASE FinishAcked(s)
  <2>1. DOMAIN unacked' \subseteq Nat /\ unacked' \in [DOMAIN unacked' -> Msgs]
    BY <1>4 DEF FinishAcked, TypeOK
  <2>2. gone' \subseteq Msgs
    BY <1>4 DEF FinishAcked, TypeOK, Acked
  <2>3. DOMAIN handlers' \subseteq Slots /\ handlers' \in [DOMAIN handlers' -> Handler]
    BY <1>4, <1>2, <1>3 DEF FinishAcked
  <2>4. QED
    BY <1>1, <1>4, <2>1, <2>2, <2>3 DEF FinishAcked, TypeOK
<1>5. CASE FinishRejected(s)
  <2>1. DOMAIN handlers' \subseteq Slots /\ handlers' \in [DOMAIN handlers' -> Handler]
    BY <1>5, <1>2, <1>3 DEF FinishRejected
  <2>2. QED
    BY <1>1, <1>5, <2>1, LoseChannelType DEF FinishRejected, TypeOK
<1>6. CASE FinishUnsent(s)
  <2>1. DOMAIN handlers' \subseteq Slots /\ handlers' \in [DOMAIN handlers' -> Handler]
    BY <1>6, <1>2, <1>3 DEF FinishUnsent
  <2>2. QED
    BY <1>1, <1>6, <2>1 DEF FinishUnsent, TypeOK, brokerVars
<1>7. QED
  BY <1>4, <1>5, <1>6 DEF Finish

LEMMA CrashType ==
  ASSUME TypeOK, Crash
  PROVE  TypeOK'
<1>1. DOMAIN handlers' \subseteq Slots /\ handlers' \in [DOMAIN handlers' -> Handler]
  BY DEF Crash, Nothing
<1>2. LoseChannel
  BY DEF Crash
<1>3. QED
  BY <1>1, <1>2, LoseChannelType DEF Crash, TypeOK

LEMMA NextType == TypeOK /\ [Next]_vars => TypeOK'
<1> SUFFICES ASSUME TypeOK, [Next]_vars PROVE TypeOK'
  OBVIOUS
<1>1. ASSUME NEW m \in Msgs, Publish(m) \/ Deliver(m) PROVE TypeOK'
  BY <1>1, PublishType, DeliverType
<1>2. ASSUME NEW s \in Slots, Finish(s) PROVE TypeOK'
  BY <1>2, FinishType
<1>3. ASSUME NEW s \in Slots, NEW h \in Hooks, Settle(s, h) PROVE TypeOK'
  BY <1>3, SettleType
<1>4. CASE Disconnect \/ Reconnect \/ Crash
  BY <1>4, DisconnectType, ReconnectType, CrashType
<1>5. CASE RefreshCache
  BY <1>5 DEF RefreshCache, TypeOK, brokerVars
<1>6. CASE UNCHANGED vars
  BY <1>6 DEF TypeOK, vars
<1>7. QED
  BY <1>1, <1>2, <1>3, <1>4, <1>5, <1>6 DEF Next

\* Every variable keeps its type, so each handler works for a message and a set
\* of webhooks, and no tag is outstanding twice.
THEOREM TypeCorrect == Spec => []TypeOK
BY InitType, NextType, PTL DEF Spec

(***************************************************************************)
(* What is acknowledged has been processed                                 *)
(***************************************************************************)
\* What the conjuncts of AckedInv say when no connection has been lost
LEMMA OwnTagsMeaning ==
  ASSUME AckedInv, disconnects = 0, NEW s \in DOMAIN handlers
  PROVE  /\ connected
         /\ handlers[s].tag \in DOMAIN unacked
         /\ unacked[handlers[s].tag] = handlers[s].msg
BY DEF AckedInv, OwnTags

LEMMA DeliverAcked ==
  ASSUME AckedInv, NEW m \in Msgs, Deliver(m)
  PROVE  OwnTags' /\ TagsUsed' /\ AckedWhenFinished'
<1> USE DEF AckedInv
<1>1. TagsUsed'
  BY DEF Deliver, TagsUsed, TypeOK
<1>2. AckedWhenFinished'
  BY DEF Deliver, AckedWhenFinished
<1>3. ASSUME disconnects = 0 PROVE OwnTags'
  <2>1. PICK s \in Slots \ DOMAIN handlers :
          handlers' = [q \in DOMAIN handlers \cup {s} |->
                         IF q = s
                         THEN [msg |-> m, tag |-> nextTag, todo |-> Targets(m)]
                         ELSE handlers[q]]
    BY DEF Deliver
  <2>2. \A q \in DOMAIN handlers : handlers[q].tag # nextTag /\ handlers'[q] = handlers[q]
    BY <1>3, <2>1 DEF OwnTags, TagsUsed, TypeOK
  <2>3. handlers'[s].tag = nextTag /\ handlers'[s].msg = m
    BY <2>1
  <2>4. /\ nextTag \in DOMAIN unacked' /\ unacked'[nextTag] = m
        /\ \A t \in DOMAIN unacked : t \in DOMAIN unacked' /\ unacked'[t] = unacked[t]
    BY DEF Deliver, TagsUsed, TypeOK
  <2>5. DOMAIN handlers' = DOMAIN handlers \cup {s}
    BY <2>1
  <2>6. connected'
    BY DEF Deliver
  <2>7. QED
    BY <1>3, <2>2, <2>3, <2>4, <2>5, <2>6 DEF OwnTags
<1>4. ASSUME disconnects # 0 PROVE OwnTags'
  BY <1>4 DEF Deliver, OwnTags
<1>5. QED
  BY <1>1, <1>2, <1>3, <1>4

LEMMA FinishKeepsAcked ==
  ASSUME AckedInv, NEW s \in Slots, Finish(s)
  PROVE  OwnTags' /\ TagsUsed' /\ AckedWhenFinished'
<1> USE DEF AckedInv
<1>1. s \in DOMAIN handlers /\ handlers[s].todo = {} /\ Processed(s) = {handlers[s].msg}
  BY DEF Finish, FinishAcked, FinishRejected, FinishUnsent, MayFinish, Processed
<1>2. TagsUsed'
  <2>1. CASE FinishAcked(s)
    BY <2>1 DEF FinishAcked, TagsUsed, Acked
  <2>2. CASE FinishRejected(s)
    BY <2>2 DEF FinishRejected, LoseChannel, TagsUsed, Nothing
  <2>3. CASE FinishUnsent(s)
    BY <2>3 DEF FinishUnsent, TagsUsed, brokerVars
  <2>4. QED
    BY <2>1, <2>2, <2>3 DEF Finish
<1>3. ASSUME disconnects = 0 PROVE OwnTags' /\ AckedWhenFinished'
  <2>1. FinishAcked(s)
    BY <1>1, <1>3, OwnTagsMeaning DEF Finish, FinishRejected, FinishUnsent
  <2>2. /\ gone' = gone \cup {handlers[s].msg}
        /\ finished' = finished \cup {handlers[s].msg}
    BY <1>1, <1>3, <2>1, OwnTagsMeaning DEF FinishAcked, Acked
  <2>3. /\ unacked' = [t \in DOMAIN unacked \ {handlers[s].tag} |-> unacked[t]]
        /\ handlers' = [q \in DOMAIN handlers \ {s} |-> handlers[q]]
        /\ connected' /\ disconnects' = disconnects
    BY <2>1 DEF FinishAcked, Acked, OtherHandlers
  <2>4. \A q \in DOMAIN handlers' : handlers[q].tag # handlers[s].tag
    BY <1>1, <1>3, <2>3 DEF OwnTags
  <2>5. OwnTags'
    BY <1>3, <2>3, <2>4 DEF OwnTags
  <2>6. AckedWhenFinished'
    BY <1>3, <2>2 DEF AckedWhenFinished
  <2>7. QED
    BY <2>5, <2>6
<1>4. ASSUME disconnects # 0 PROVE OwnTags' /\ AckedWhenFinished'
  BY <1>4 DEF Finish, FinishAcked, FinishRejected, FinishUnsent, OwnTags, AckedWhenFinished
<1>5. QED
  BY <1>2, <1>3, <1>4

LEMMA OthersKeepAcked ==
  ASSUME AckedInv,
         \/ \E m \in Msgs : Publish(m)
         \/ \E s \in Slots, h \in Hooks : Settle(s, h)
         \/ Disconnect \/ Reconnect \/ Crash \/ RefreshCache \/ UNCHANGED vars
  PROVE  OwnTags' /\ TagsUsed' /\ AckedWhenFinished'
<1> USE DEF AckedInv, OwnTags, TagsUsed, AckedWhenFinished
<1>1. ASSUME NEW m \in Msgs, Publish(m) PROVE OwnTags' /\ TagsUsed' /\ AckedWhenFinished'
  BY <1>1 DEF Publish
<1>2. ASSUME NEW s \in Slots, NEW h \in Hooks, Settle(s, h)
      PROVE  OwnTags' /\ TagsUsed' /\ AckedWhenFinished'
  <2>1. /\ DOMAIN handlers' = DOMAIN handlers
        /\ \A q \in DOMAIN handlers : /\ handlers'[q].tag = handlers[q].tag
                                      /\ handlers'[q].msg = handlers[q].msg
    BY <1>2 DEF Settle, TypeOK, Handler
  <2>2. UNCHANGED <<unacked, connected, nextTag, gone, finished, disconnects>>
    BY <1>2 DEF Settle, brokerVars
  <2>3. QED
    BY <2>1, <2>2
<1>3. CASE Disconnect
  BY <1>3 DEF Disconnect, LoseChannel, Nothing, TypeOK
<1>4. CASE Reconnect
  BY <1>4 DEF Reconnect
<1>5. CASE Crash
  BY <1>5 DEF Crash, LoseChannel, Nothing
<1>6. CASE RefreshCache
  BY <1>6 DEF RefreshCache, brokerVars
<1>7. CASE UNCHANGED vars
  BY <1>7 DEF vars
<1> HIDE DEF AckedInv, OwnTags, TagsUsed, AckedWhenFinished
<1>8. QED
  BY <1>1, <1>2, <1>3, <1>4, <1>5, <1>6, <1>7

LEMMA AckedInvariant == Spec => []AckedInv
<1>1. Init => AckedInv
  BY InitType DEF Init, AckedInv, OwnTags, TagsUsed, AckedWhenFinished, Nothing
<1>2. AckedInv /\ [Next]_vars => AckedInv'
  <2> SUFFICES ASSUME AckedInv, [Next]_vars PROVE AckedInv'
    OBVIOUS
  <2>1. TypeOK'
    BY NextType DEF AckedInv
  <2>2. OwnTags' /\ TagsUsed' /\ AckedWhenFinished'
    BY DeliverAcked, FinishKeepsAcked, OthersKeepAcked DEF Next
  <2>3. QED
    BY <2>1, <2>2 DEF AckedInv
<1>3. QED
  BY <1>1, <1>2, PTL DEF Spec

\* Until a connection is lost, no message leaves the broker before a handler has
\* processed it to the end: crashes cause redelivery, never loss.
THEOREM AckedMessagesAreFinished == Spec => []AckedWhenFinished
<1>1. AckedInv => AckedWhenFinished
  BY DEF AckedInv
<1>2. QED
  BY <1>1, AckedInvariant, PTL

(***************************************************************************)
(* Nothing is lost while the process is up                                 *)
(***************************************************************************)
\* A step that ends neither the process nor a handler before it has processed its
\* message, and takes nothing out of the queue without attending to it
LosesNothing ==
  /\ crashes' = crashes
  /\ unpublished \subseteq unpublished' \cup ready'
  /\ ready \subseteq ready' \cup Attended'
  /\ finished \subseteq finished'
  /\ Attended \subseteq Attended' \cup finished'
  /\ Outstanding' \subseteq Outstanding \cup Attended'

\* Such a step keeps the invariant: what is acknowledged, be it by the handler of
\* another message, was outstanding, so attended or finished
LEMMA LosesNothingKeeps ==
  ASSUME KeptInv, LosesNothing
  PROVE  KeptWhileUp' /\ OutstandingAttended'
<1>1. Outstanding' \subseteq finished' \cup Attended'
  BY DEF LosesNothing, KeptInv, OutstandingAttended
<1>2. ASSUME crashes = 0
      PROVE  \A m \in Msgs : m \in unpublished' \cup ready' \cup finished' \cup Attended'
  BY <1>2 DEF LosesNothing, KeptInv, KeptWhileUp, NotLost, OutstandingAttended
<1>3. KeptWhileUp'
  BY <1>2 DEF LosesNothing, KeptWhileUp, NotLost
<1>4. QED
  BY <1>1, <1>3 DEF OutstandingAttended

LEMMA LoseChannelMoves ==
  ASSUME LoseChannel
  PROVE  ready \subseteq ready' /\ Outstanding' = {}
BY DEF LoseChannel, Outstanding, Nothing

LEMMA FinishLosesNothing ==
  ASSUME TypeOK, NEW s \in Slots, Finish(s)
  PROVE  LosesNothing
<1>1. /\ s \in DOMAIN handlers
      /\ finished' = finished \cup {handlers[s].msg}
      /\ UNCHANGED <<unpublished, crashes>>
  BY DEF Finish, FinishAcked, FinishRejected, FinishUnsent, MayFinish, Processed
<1>2. Attended \subseteq Attended' \cup {handlers[s].msg}
  <2>1. ASSUME NEW q \in DOMAIN handlers \ {s}
        PROVE  q \in DOMAIN handlers' /\ handlers'[q].msg = handlers[q].msg
    BY DEF Finish, FinishAcked, FinishRejected, FinishUnsent, OtherHandlers, TypeOK,
           Handler
  <2>2. QED
    BY <2>1 DEF Attended
<1>3. ready \subseteq ready' /\ Outstanding' \subseteq Outstanding
  <2>1. CASE FinishAcked(s)
    BY <2>1 DEF FinishAcked, Outstanding
  <2>2. CASE FinishRejected(s)
    BY <2>2, LoseChannelMoves DEF FinishRejected
  <2>3. CASE FinishUnsent(s)
    BY <2>3 DEF FinishUnsent, brokerVars, Outstanding
  <2>4. QED
    BY <2>1, <2>2, <2>3 DEF Finish
<1>4. QED
  BY <1>1, <1>2, <1>3 DEF LosesNothing

LEMMA DeliverLosesNothing ==
  ASSUME AckedInv, NEW m \in Msgs, Deliver(m)
  PROVE  LosesNothing
<1>1. Attended' = Attended \cup {m}
  <2>1. PICK s \in Slots \ DOMAIN handlers :
          handlers' = [q \in DOMAIN handlers \cup {s} |->
                         IF q = s
                         THEN [msg |-> m, tag |-> nextTag, todo |-> Targets(m)]
                         ELSE handlers[q]]
    BY DEF Deliver
  <2>2. /\ DOMAIN handlers' = DOMAIN handlers \cup {s}
        /\ handlers'[s].msg = m
        /\ \A q \in DOMAIN handlers : handlers'[q] = handlers[q]
    BY <2>1
  <2>3. QED
    BY <2>2 DEF Attended
<1>2. Outstanding' \subseteq Outstanding \cup {m}
  BY DEF Deliver, Outstanding
<1>3. QED
  BY <1>1, <1>2 DEF Deliver, LosesNothing

LEMMA OthersLoseNothing ==
  ASSUME TypeOK,
         \/ \E m \in Msgs : Publish(m)
         \/ \E s \in Slots, h \in Hooks : Settle(s, h)
         \/ Disconnect \/ Reconnect \/ RefreshCache \/ UNCHANGED vars
  PROVE  LosesNothing
<1>1. ASSUME NEW m \in Msgs, Publish(m) PROVE LosesNothing
  BY <1>1 DEF Publish, LosesNothing, Outstanding, Attended
<1>2. ASSUME NEW s \in Slots, NEW h \in Hooks, Settle(s, h) PROVE LosesNothing
  <2>1. DOMAIN handlers' = DOMAIN handlers
        /\ \A q \in DOMAIN handlers : handlers'[q].msg = handlers[q].msg
    BY <1>2 DEF Settle, TypeOK, Handler
  <2>2. QED
    BY <1>2, <2>1 DEF Settle, brokerVars, LosesNothing, Outstanding, Attended
<1>3. CASE Disconnect
  BY <1>3, LoseChannelMoves DEF Disconnect, LosesNothing, Attended
<1>4. CASE Reconnect \/ RefreshCache \/ UNCHANGED vars
  BY <1>4 DEF Reconnect, RefreshCache, vars, brokerVars, LosesNothing, Outstanding, Attended
<1>5. QED
  BY <1>1, <1>2, <1>3, <1>4

LEMMA KeptInvariant == Spec => []KeptInv
<1>1. Init => KeptInv
  <2> SUFFICES ASSUME Init PROVE KeptInv
    OBVIOUS
  <2>1. KeptWhileUp
    BY DEF Init, KeptWhileUp, NotLost
  <2>2. OutstandingAttended
    BY DEF Init, OutstandingAttended, Outstanding, Nothing
  <2>3. QED
    BY <2>1, <2>2, InitType DEF KeptInv
<1>2. KeptInv /\ AckedInv /\ [Next]_vars => KeptInv'
  <2> SUFFICES ASSUME KeptInv, AckedInv, [Next]_vars PROVE KeptInv'
    OBVIOUS
  <2>1. TypeOK /\ TypeOK'
    BY NextType DEF KeptInv
  <2>2. CASE Crash
    <3>1. crashes' # 0
      BY <2>1, <2>2 DEF Crash, TypeOK
    <3>2. Outstanding' = {}
      BY <2>2, LoseChannelMoves DEF Crash
    <3>3. QED
      BY <2>1, <3>1, <3>2 DEF KeptInv, KeptWhileUp, OutstandingAttended
  <2>3. CASE LosesNothing
    BY <2>1, <2>3, LosesNothingKeeps DEF KeptInv
  <2>4. QED
    BY <2>1, <2>2, <2>3, FinishLosesNothing, DeliverLosesNothing, OthersLoseNothing DEF Next
<1>3. QED
  BY <1>1, <1>2, AckedInvariant, PTL DEF Spec

\* Until the process ends no event is lost, however often connections are lost
\* and acknowledgements hit the wrong message.
LEMMA EventsKeptWhileUp == Spec => []KeptWhileUp
<1>1. KeptInv => KeptWhileUp
  BY DEF KeptInv
<1>2. QED
  BY <1>1, KeptInvariant, PTL

(***************************************************************************)
(* Prefetch bounds the handlers                                            *)
(***************************************************************************)
\* The broker keeps to the channel's prefetch limit
WithinPrefetch ==
  IsFiniteSet(DOMAIN unacked) /\ Cardinality(DOMAIN unacked) <= Prefetch

LEMMA WithinPrefetchStep ==
  ASSUME TypeOK, WithinPrefetch, [Next]_vars
  PROVE  WithinPrefetch'
<1>1. ASSUME NEW m \in Msgs, Deliver(m) PROVE WithinPrefetch'
  <2>1. DOMAIN unacked' = DOMAIN unacked \cup {nextTag}
    BY <1>1 DEF Deliver
  <2>2. Cardinality(DOMAIN unacked) \in Nat /\ Cardinality(DOMAIN unacked) < Prefetch
    BY <1>1, FS_CardinalityType DEF WithinPrefetch, Deliver, PrefetchAllows
  <2>3. /\ IsFiniteSet(DOMAIN unacked \cup {nextTag})
        /\ Cardinality(DOMAIN unacked \cup {nextTag}) <= Cardinality(DOMAIN unacked) + 1
    <3>1. IsFiniteSet(DOMAIN unacked)
      BY DEF WithinPrefetch
    <3>2. /\ IsFiniteSet(DOMAIN unacked \cup {nextTag})
          /\ Cardinality(DOMAIN unacked \cup {nextTag}) =
               IF nextTag \in DOMAIN unacked
               THEN Cardinality(DOMAIN unacked) ELSE Cardinality(DOMAIN unacked) + 1
      BY <3>1, FS_AddElement
    <3>3. QED
      BY <2>2, <3>2
  <2>4. Cardinality(DOMAIN unacked \cup {nextTag}) \in Nat
    BY <2>3, FS_CardinalityType
  <2>5. QED
    BY <2>1, <2>2, <2>3, <2>4, PrefetchAssumption DEF WithinPrefetch
<1>2. ASSUME DOMAIN unacked' \subseteq DOMAIN unacked PROVE WithinPrefetch'
  <2>1. /\ IsFiniteSet(DOMAIN unacked')
        /\ Cardinality(DOMAIN unacked') <= Cardinality(DOMAIN unacked)
    BY <1>2, FS_Subset DEF WithinPrefetch
  <2>2. Cardinality(DOMAIN unacked) \in Nat /\ Cardinality(DOMAIN unacked') \in Nat
    BY <2>1, FS_CardinalityType DEF WithinPrefetch
  <2>3. QED
    BY <2>1, <2>2, PrefetchAssumption DEF WithinPrefetch
<1>3. LoseChannel => DOMAIN unacked' \subseteq DOMAIN unacked
  BY DEF LoseChannel, Nothing
<1>4. ASSUME NEW s \in Slots, Finish(s) PROVE WithinPrefetch'
  BY <1>2, <1>3, <1>4 DEF Finish, FinishAcked, FinishRejected, FinishUnsent, brokerVars
<1>5. ASSUME NEW s \in Slots, NEW h \in Hooks, Settle(s, h) PROVE WithinPrefetch'
  BY <1>2, <1>5 DEF Settle, brokerVars
<1>6. CASE Disconnect \/ Crash
  BY <1>2, <1>3, <1>6 DEF Disconnect, Crash
<1>7. CASE (\E m \in Msgs : Publish(m)) \/ Reconnect \/ RefreshCache \/ UNCHANGED vars
  BY <1>2, <1>7 DEF Publish, Reconnect, RefreshCache, vars, brokerVars
<1>8. QED
  BY <1>1, <1>4, <1>5, <1>6, <1>7 DEF Next

LEMMA WithinPrefetchInvariant == Spec => []WithinPrefetch
<1>1. Init => WithinPrefetch
  <2> SUFFICES ASSUME Init PROVE WithinPrefetch
    OBVIOUS
  <2>1. DOMAIN unacked = {}
    BY DEF Init, Nothing
  <2>2. QED
    BY <2>1, FS_EmptySet, PrefetchAssumption DEF WithinPrefetch
<1>2. TypeOK /\ WithinPrefetch /\ [Next]_vars => WithinPrefetch'
  BY WithinPrefetchStep
<1>3. QED
  BY <1>1, <1>2, TypeCorrect, PTL DEF Spec

\* Without a lost connection each handler has a tag of its own outstanding
LEMMA HandlersWithinPrefetch ==
  AckedInv /\ WithinPrefetch => AttendedWithinPrefetch
<1> SUFFICES ASSUME AckedInv, WithinPrefetch, disconnects = 0
             PROVE  Cardinality(DOMAIN handlers) <= Prefetch
  BY DEF AttendedWithinPrefetch
<1> DEFINE tagOf == [s \in DOMAIN handlers |-> handlers[s].tag]
<1>1. tagOf \in Injection(DOMAIN handlers, DOMAIN unacked)
  BY DEF AckedInv, OwnTags, Injection, IsInjective
<1>2. /\ IsFiniteSet(DOMAIN handlers)
      /\ Cardinality(DOMAIN handlers) <= Cardinality(DOMAIN unacked)
  BY <1>1, FS_Injection DEF WithinPrefetch
<1>3. Cardinality(DOMAIN handlers) \in Nat /\ Cardinality(DOMAIN unacked) \in Nat
  BY <1>2, FS_CardinalityType DEF WithinPrefetch
<1>4. QED
  BY <1>2, <1>3, PrefetchAssumption DEF WithinPrefetch

\* Until a connection is lost, no more than AMQP_PREFETCH_MESSAGES messages are
\* attended at the same time.
THEOREM PrefetchBoundsHandlers == Spec => []AttendedWithinPrefetch
BY AckedInvariant, WithinPrefetchInvariant, HandlersWithinPrefetch, PTL

(***************************************************************************)
(* The broker has each message once                                        *)
(***************************************************************************)
LEMMA FinishKeepsOneCopy ==
  ASSUME TypeOK, OneCopy, NEW s \in Slots, Finish(s)
  PROVE  OneCopy'
<1> USE DEF OneCopy, Outstanding
<1>1. CASE FinishAcked(s)
  BY <1>1 DEF FinishAcked, Acked
<1>2. CASE FinishRejected(s)
  BY <1>2 DEF FinishRejected, LoseChannel, Nothing
<1>3. CASE FinishUnsent(s)
  BY <1>3 DEF FinishUnsent, brokerVars
<1>4. QED
  BY <1>1, <1>2, <1>3 DEF Finish

LEMMA DeliverKeepsOneCopy ==
  ASSUME TypeOK, TagsUsed, OneCopy, NEW m \in Msgs, Deliver(m)
  PROVE  OneCopy' /\ Outstanding' = Outstanding \cup {m}
<1>1. /\ m \in ready /\ ready' = ready \ {m}
      /\ UNCHANGED <<unpublished, gone>>
  BY DEF Deliver
<1>2. /\ DOMAIN unacked' = DOMAIN unacked \cup {nextTag}
      /\ nextTag \notin DOMAIN unacked /\ unacked'[nextTag] = m
      /\ \A t \in DOMAIN unacked : unacked'[t] = unacked[t]
  BY DEF Deliver, TagsUsed, TypeOK
<1>3. Outstanding' = Outstanding \cup {m}
  BY <1>2 DEF Outstanding
<1>4. m \notin Outstanding
  BY <1>1 DEF OneCopy
<1>5. \A t, u \in DOMAIN unacked' : unacked'[t] = unacked'[u] => t = u
  BY <1>2, <1>4 DEF OneCopy, Outstanding
<1>6. QED
  BY <1>1, <1>3, <1>4, <1>5 DEF OneCopy

LEMMA OneCopyInvariant == Spec => []OneCopy
<1>1. Init => OneCopy
  BY DEF Init, OneCopy, Outstanding, Nothing
<1>2. AckedInv /\ OneCopy /\ [Next]_vars => OneCopy'
  <2> SUFFICES ASSUME AckedInv, OneCopy, [Next]_vars PROVE OneCopy'
    OBVIOUS
  <2>1. TypeOK /\ TagsUsed
    BY DEF AckedInv
  <2>2. ASSUME NEW m \in Msgs, Publish(m) PROVE OneCopy'
    BY <2>2 DEF Publish, OneCopy, Outstanding
  <2>3. CASE Disconnect \/ Crash
    BY <2>3 DEF Disconnect, Crash, LoseChannel, Nothing, OneCopy, Outstanding
  <2>4. CASE Reconnect \/ RefreshCache \/ UNCHANGED vars
    BY <2>4 DEF Reconnect, RefreshCache, vars, brokerVars, OneCopy, Outstanding
  <2>5. ASSUME NEW s \in Slots, NEW h \in Hooks, Settle(s, h) PROVE OneCopy'
    BY <2>5 DEF Settle, brokerVars, OneCopy, Outstanding
  <2>6. QED
    BY <2>1, <2>2, <2>3, <2>4, <2>5, FinishKeepsOneCopy, DeliverKeepsOneCopy DEF Next
<1>3. QED
  BY <1>1, <1>2, AckedInvariant, PTL DEF Spec

(***************************************************************************)
(* Loss takes two faults, repetition one                                   *)
(***************************************************************************)
LEMMA FinishConserves ==
  ASSUME Conserved, NEW s \in Slots, Finish(s)
  PROVE  Conserved'
<1> USE DEF Conserved, Outstanding
<1>1. CASE FinishAcked(s)
  BY <1>1 DEF FinishAcked, Acked
<1>2. CASE FinishRejected(s)
  BY <1>2 DEF FinishRejected, LoseChannel
<1>3. CASE FinishUnsent(s)
  BY <1>3 DEF FinishUnsent, brokerVars
<1>4. QED
  BY <1>1, <1>2, <1>3 DEF Finish

LEMMA ConservedInvariant == Spec => []Conserved
<1>1. Init => Conserved
  BY DEF Init, Conserved
<1>2. AckedInv /\ OneCopy /\ Conserved /\ [Next]_vars => Conserved'
  <2> SUFFICES ASSUME AckedInv, OneCopy, Conserved, [Next]_vars PROVE Conserved'
    OBVIOUS
  <2>1. ASSUME NEW m \in Msgs, Publish(m) PROVE Conserved'
    BY <2>1 DEF Publish, Conserved, Outstanding
  <2>2. ASSUME NEW m \in Msgs, Deliver(m) PROVE Conserved'
    <3>1. Outstanding' = Outstanding \cup {m}
      BY <2>2, DeliverKeepsOneCopy DEF AckedInv
    <3>2. QED
      BY <2>2, <3>1 DEF Deliver, Conserved
  <2>3. CASE Disconnect \/ Crash
    BY <2>3 DEF Disconnect, Crash, LoseChannel, Conserved
  <2>4. CASE Reconnect \/ RefreshCache \/ UNCHANGED vars
    BY <2>4 DEF Reconnect, RefreshCache, vars, brokerVars, Conserved, Outstanding
  <2>5. ASSUME NEW s \in Slots, NEW h \in Hooks, Settle(s, h) PROVE Conserved'
    BY <2>5 DEF Settle, brokerVars, Conserved, Outstanding
  <2>6. QED
    BY <2>1, <2>2, <2>3, <2>4, <2>5, FinishConserves DEF Next
<1>3. QED
  BY <1>1, <1>2, AckedInvariant, OneCopyInvariant, PTL DEF Spec

\* Neither lost connections alone lose an event, however many acknowledgements they
\* misdirect, nor ends of the process alone, however many deliveries they cut short.
THEOREM LossNeedsBoth == Spec => []LossTakesTwoFaults
<1>1. ASSUME KeptWhileUp, AckedWhenFinished, Conserved
      PROVE  LossTakesTwoFaults
  <2>1. disconnects = 0 => \A m \in Msgs : NotLost(m)
    BY <1>1 DEF AckedWhenFinished, Conserved, NotLost
  <2>2. crashes = 0 => \A m \in Msgs : NotLost(m)
    BY <1>1 DEF KeptWhileUp
  <2>3. QED
    BY <2>1, <2>2 DEF LossTakesTwoFaults
<1>2. QED
  BY <1>1, EventsKeptWhileUp, AckedMessagesAreFinished, ConservedInvariant, PTL

LEMMA FinishedGoneStep ==
  ASSUME AckedInv, FinishedGone, [Next]_vars
  PROVE  FinishedGone'
<1>1. ASSUME NEW s \in Slots, Finish(s) PROVE FinishedGone'
  <2>1. UNCHANGED <<disconnects, crashes>>
    BY <1>1 DEF Finish, FinishAcked, FinishRejected, FinishUnsent
  <2>2. ASSUME disconnects = 0, crashes = 0 PROVE finished' \subseteq gone'
    <3>1. s \in DOMAIN handlers
      BY <1>1 DEF Finish, FinishAcked, FinishRejected, FinishUnsent, MayFinish
    <3>2. FinishAcked(s)
      BY <1>1, <2>2, <3>1, OwnTagsMeaning DEF Finish, FinishRejected, FinishUnsent
    <3>3. gone' = gone \cup {handlers[s].msg}
      BY <2>2, <3>1, <3>2, OwnTagsMeaning DEF FinishAcked, Acked
    <3>4. finished' \subseteq finished \cup {handlers[s].msg}
      BY <3>2 DEF FinishAcked, Processed
    <3>5. QED
      BY <2>2, <3>3, <3>4 DEF FinishedGone
  <2>3. QED
    BY <2>1, <2>2 DEF FinishedGone
<1>2. ASSUME \/ \E m \in Msgs : Publish(m) \/ Deliver(m)
             \/ \E s \in Slots, h \in Hooks : Settle(s, h)
             \/ Reconnect \/ RefreshCache \/ UNCHANGED vars
      PROVE  UNCHANGED <<finished, gone, disconnects, crashes>>
  BY <1>2 DEF Publish, Deliver, Settle, Reconnect, RefreshCache, brokerVars, vars
<1>3. CASE Disconnect \/ Crash
  BY <1>3 DEF Disconnect, Crash, AckedInv, TypeOK, FinishedGone
<1>4. QED
  BY <1>1, <1>2, <1>3 DEF Next, FinishedGone

\* As long as no connection has been lost and the process has not ended, no event is
\* processed twice: repetition comes from redelivery, and that from a fault.
THEOREM EventsProcessedOnce == Spec => []ProcessedOnce
<1>1. Init => FinishedGone
  BY DEF Init, FinishedGone
<1>2. Spec => []FinishedGone
  BY <1>1, FinishedGoneStep, AckedInvariant, PTL DEF Spec
<1>3. ASSUME AckedInv, OneCopy, FinishedGone
      PROVE  ProcessedOnce
  <2> SUFFICES ASSUME disconnects = 0, crashes = 0
               PROVE  /\ finished \cap (ready \cup Outstanding \cup Attended) = {}
                      /\ \A s, q \in DOMAIN handlers : handlers[s].msg = handlers[q].msg => s = q
    BY DEF ProcessedOnce
  <2>1. Attended \subseteq Outstanding
    BY <1>3, OwnTagsMeaning DEF Attended, Outstanding
  <2>2. finished \cap (ready \cup Outstanding) = {}
    BY <1>3 DEF FinishedGone, OneCopy
  <2>3. ASSUME NEW s \in DOMAIN handlers, NEW q \in DOMAIN handlers,
               handlers[s].msg = handlers[q].msg
        PROVE  s = q
    <3>1. handlers[s].tag = handlers[q].tag
      BY <1>3, <2>3, OwnTagsMeaning DEF OneCopy
    <3>2. QED
      BY <1>3, <3>1 DEF AckedInv, OwnTags
  <2>4. QED
    BY <2>1, <2>2, <2>3
<1>4. QED
  BY <1>2, <1>3, AckedInvariant, OneCopyInvariant, PTL

(***************************************************************************)
(* Refinement of AtLeastOnce                                               *)
(***************************************************************************)
\* The queue and the jobs as AtLeastOnce sees them
Queue == ready \cup Outstanding

Jobs == [s \in DOMAIN handlers |->
           [msg |-> handlers[s].msg, todo |-> handlers[s].todo]]

LEMMA JobsAttended == {Jobs[s].msg : s \in DOMAIN Jobs} = Attended
BY DEF Jobs, Attended

RefInv == AckedInv /\ OutstandingAttended /\ OneCopy

LEMMA InitRefines == Init => Abstract!Init
<1> SUFFICES ASSUME Init PROVE Abstract!Init
  OBVIOUS
<1>1. Queue = {}
  BY DEF Init, Queue, Outstanding, Nothing
<1>2. Jobs = Abstract!Idle
  BY DEF Init, Jobs, Nothing, Abstract!Idle
<1>3. QED
  BY <1>1, <1>2 DEF Init, Queue, Jobs, Abstract!Init

LEMMA PublishRefines ==
  ASSUME RefInv, NEW m \in Msgs, Publish(m)
  PROVE  Abstract!Publish(m)
<1>1. m \notin Queue \cup gone
  BY DEF Publish, RefInv, OneCopy, Queue
<1>2. Queue' = Queue \cup {m} /\ Jobs' = Jobs
  BY DEF Publish, Queue, Jobs, Outstanding
<1>3. UNCHANGED <<gone, finished, cached, disconnects>>
  BY DEF Publish
<1>4. QED
  BY <1>1, <1>2, <1>3 DEF Abstract!Publish, Queue, Jobs

LEMMA DeliverRefines ==
  ASSUME RefInv, NEW m \in Msgs, Deliver(m)
  PROVE  \E s \in Slots : Abstract!Take(s, m)
<1>1. PICK s \in Slots \ DOMAIN handlers :
        handlers' = [q \in DOMAIN handlers \cup {s} |->
                       IF q = s
                       THEN [msg |-> m, tag |-> nextTag, todo |-> Targets(m)]
                       ELSE handlers[q]]
  BY DEF Deliver
<1>2. Jobs' = [q \in DOMAIN Jobs \cup {s} |->
                 IF q = s
                 THEN [msg |-> m, todo |-> IF m \in Malformed THEN {} ELSE cached]
                 ELSE Jobs[q]]
  BY <1>1 DEF Jobs, Targets
<1>3. s \notin DOMAIN Jobs
  BY <1>1 DEF Jobs
<1>4. m \in Queue /\ Queue' = Queue
  BY DeliverKeepsOneCopy DEF Deliver, RefInv, AckedInv, Queue
<1>5. disconnects = 0 => m \notin Attended
  <2>1. m \notin Outstanding
    BY DEF Deliver, RefInv, OneCopy
  <2>2. QED
    BY <2>1 DEF RefInv, AckedInv, OwnTags, Outstanding, Attended
<1>6. UNCHANGED <<gone, finished, cached, disconnects>>
  BY DEF Deliver
<1>7. Abstract!Attended = Attended
  BY JobsAttended DEF Abstract!Attended, Jobs
<1>8. Abstract!Take(s, m)
  BY <1>2, <1>3, <1>4, <1>5, <1>6, <1>7 DEF Abstract!Take, Queue, Jobs
<1>9. QED
  BY <1>8

LEMMA SettleRefines ==
  ASSUME RefInv, NEW s \in Slots, NEW h \in Hooks, Settle(s, h)
  PROVE  Abstract!Attempt(s, h)
<1>1. s \in DOMAIN Jobs /\ h \in Jobs[s].todo
  BY DEF Settle, Jobs
<1>2. Jobs' = [Jobs EXCEPT ![s].todo = @ \ {h}]
  BY DEF Settle, Jobs, RefInv, AckedInv, TypeOK, Handler
<1>3. Queue' = Queue /\ UNCHANGED <<gone, finished, cached, disconnects>>
  BY DEF Settle, brokerVars, Queue, Outstanding
<1>4. QED
  BY <1>1, <1>2, <1>3 DEF Abstract!Attempt, Queue, Jobs

\* A lost channel moves messages within the queue
LEMMA LoseChannelKeepsQueue ==
  ASSUME LoseChannel
  PROVE  Queue' = Queue
BY DEF LoseChannel, Queue, Outstanding, Nothing

\* An acknowledgement removes one message, of which the broker has one copy
LEMMA AckedRemoves ==
  ASSUME RefInv, NEW s \in Slots, FinishAcked(s)
  PROVE  LET m == unacked[handlers[s].tag]
         IN  /\ m \in Outstanding
             /\ Queue' = Queue \ {m}
             /\ gone' = gone \cup {m}
<1> DEFINE tag == handlers[s].tag
<1>1. /\ tag \in DOMAIN unacked
      /\ gone' = gone \cup {unacked[tag]}
      /\ unacked' = [t \in DOMAIN unacked \ {tag} |-> unacked[t]]
      /\ ready' = ready
  BY DEF FinishAcked, Acked
<1>2. Outstanding' = Outstanding \ {unacked[tag]}
  BY <1>1 DEF Outstanding, RefInv, OneCopy
<1>3. unacked[tag] \in Outstanding /\ unacked[tag] \notin ready
  BY <1>1 DEF Outstanding, RefInv, OneCopy
<1>4. QED
  BY <1>1, <1>2, <1>3 DEF Queue

LEMMA FinishRefines ==
  ASSUME RefInv, NEW s \in Slots, Finish(s)
  PROVE  Abstract!Complete(s)
<1>1. /\ s \in DOMAIN handlers /\ handlers[s].todo = {}
      /\ finished' = finished \cup {handlers[s].msg}
      /\ handlers' = [q \in DOMAIN handlers \ {s} |-> handlers[q]]
      /\ UNCHANGED <<cached, disconnects>>
  BY DEF Finish, FinishAcked, FinishRejected, FinishUnsent, MayFinish, Processed,
         OtherHandlers
<1>2. /\ s \in DOMAIN Jobs /\ Jobs[s].todo = {} /\ Jobs[s].msg = handlers[s].msg
      /\ Jobs' = [q \in DOMAIN Jobs \ {s} |-> Jobs[q]]
  BY <1>1 DEF Jobs
<1>3. Abstract!Attended = Attended
  BY JobsAttended DEF Abstract!Attended, Jobs
<1>4. \/ Abstract!Remove(handlers[s].msg)
      \/ disconnects # 0 /\ \E m \in Attended \cup finished : Abstract!Remove(m)
      \/ disconnects # 0 /\ Queue' = Queue /\ gone' = gone
  <2>1. CASE FinishAcked(s)
    <3> DEFINE m == unacked[handlers[s].tag]
    <3>1. Abstract!Remove(m) /\ m \in Attended \cup finished
      BY <2>1, AckedRemoves DEF Abstract!Remove, Queue, RefInv, OutstandingAttended
    <3>2. disconnects = 0 => m = handlers[s].msg
      BY <1>1, OwnTagsMeaning DEF RefInv
    <3>3. QED
      BY <3>1, <3>2
  <2>2. ASSUME FinishRejected(s) \/ FinishUnsent(s)
        PROVE  disconnects # 0 /\ Queue' = Queue /\ gone' = gone
    <3>1. disconnects # 0
      BY <1>1, <2>2, OwnTagsMeaning DEF FinishRejected, FinishUnsent, RefInv
    <3>2. CASE FinishRejected(s)
      BY <3>1, <3>2, LoseChannelKeepsQueue DEF FinishRejected, LoseChannel
    <3>3. CASE FinishUnsent(s)
      BY <3>1, <3>3 DEF FinishUnsent, brokerVars, Queue, Outstanding
    <3>4. QED
      BY <2>2, <3>2, <3>3
  <2>3. QED
    BY <2>1, <2>2 DEF Finish
<1>5. QED
  BY <1>1, <1>2, <1>3, <1>4 DEF Abstract!Complete, Queue, Jobs

LEMMA OthersRefine ==
  ASSUME RefInv, Disconnect \/ Reconnect \/ Crash \/ RefreshCache \/ UNCHANGED vars
  PROVE  [Abstract!Next]_(Abstract!vars)
<1>1. CASE Disconnect
  <2>1. Queue' = Queue /\ Jobs' = Jobs /\ UNCHANGED <<gone, finished, cached>>
    BY <1>1, LoseChannelKeepsQueue DEF Disconnect, LoseChannel, Jobs
  <2>2. disconnects' # 0
    BY <1>1 DEF Disconnect, RefInv, AckedInv, TypeOK
  <2>3. Abstract!Degrade
    BY <2>1, <2>2 DEF Abstract!Degrade, Queue, Jobs
  <2>4. QED
    BY <2>3 DEF Abstract!Next
<1>2. CASE Crash
  <2>1. Queue' = Queue /\ cached' \in SUBSET Hooks /\ UNCHANGED <<gone, finished, disconnects>>
    BY <1>2, LoseChannelKeepsQueue DEF Crash, LoseChannel
  <2>2. Jobs' = Abstract!Idle
    BY <1>2 DEF Crash, Jobs, Nothing, Abstract!Idle
  <2>3. Abstract!Interrupt
    BY <2>1, <2>2 DEF Abstract!Interrupt, Queue, Jobs
  <2>4. QED
    BY <2>3 DEF Abstract!Next
<1>3. CASE RefreshCache
  <2>1. /\ Queue' = Queue /\ Jobs' = Jobs /\ cached' \in SUBSET Hooks
        /\ UNCHANGED <<gone, finished, disconnects>>
    BY <1>3 DEF RefreshCache, brokerVars, Queue, Jobs, Outstanding
  <2>2. Abstract!ChangeWanted
    BY <2>1 DEF Abstract!ChangeWanted, Queue, Jobs
  <2>3. QED
    BY <2>2 DEF Abstract!Next
<1>4. CASE Reconnect \/ UNCHANGED vars
  <2>1. Queue' = Queue /\ Jobs' = Jobs /\ UNCHANGED <<gone, finished, cached, disconnects>>
    BY <1>4 DEF Reconnect, vars, Queue, Jobs, Outstanding
  <2>2. QED
    BY <2>1 DEF Abstract!vars, Queue, Jobs
<1>5. QED
  BY <1>1, <1>2, <1>3, <1>4

LEMMA NextRefines == RefInv /\ [Next]_vars => [Abstract!Next]_(Abstract!vars)
<1> SUFFICES ASSUME RefInv, [Next]_vars PROVE [Abstract!Next]_(Abstract!vars)
  OBVIOUS
<1>1. ASSUME NEW m \in Msgs, Publish(m) PROVE Abstract!Next
  BY <1>1, PublishRefines DEF Abstract!Next
<1>2. ASSUME NEW m \in Msgs, Deliver(m) PROVE Abstract!Next
  BY <1>2, DeliverRefines DEF Abstract!Next
<1>3. ASSUME NEW s \in Slots, Finish(s) PROVE Abstract!Next
  BY <1>3, FinishRefines DEF Abstract!Next
<1>4. ASSUME NEW s \in Slots, NEW h \in Hooks, Settle(s, h) PROVE Abstract!Next
  BY <1>4, SettleRefines DEF Abstract!Next
<1>5. QED
  BY <1>1, <1>2, <1>3, <1>4, OthersRefine DEF Next

\* The consumer implements AtLeastOnce, whatever the connections, the process and
\* the subscriptions do (subscribeToEvents).
THEOREM ConsumerIsAtLeastOnce == Spec => ImplementsAtLeastOnce
<1>1. Spec => []RefInv
  <2>1. AckedInv /\ KeptInv /\ OneCopy => RefInv
    BY DEF KeptInv, RefInv
  <2>2. QED
    BY <2>1, AckedInvariant, KeptInvariant, OneCopyInvariant, PTL
<1>2. QED
  BY <1>1, InitRefines, NextRefines, PTL DEF Spec, ImplementsAtLeastOnce, Abstract!Spec
=============================================================================
