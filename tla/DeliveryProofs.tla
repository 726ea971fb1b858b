--------------------------- MODULE DeliveryProofs ---------------------------
(***************************************************************************)
(* Proofs about Delivery, for any deliveries, answers, errors and limits:  *)
(* types, the two counters, and that retries are used up before a delivery *)
(* is given up.                                                            *)
(*                                                                         *)
(* Every action moves one delivery that has not ended, and touches the     *)
(* counters only where it ends it (Moves): types and counters follow from  *)
(* that, whatever the action.  The retries need the invariant to say what  *)
(* the last request of each phase ended with.                              *)
(***************************************************************************)
EXTENDS Delivery, FiniteSetTheorems, TLAPS

(***************************************************************************)
(* What every action does to phases and counters                           *)
(***************************************************************************)
\* The deliveries that have ended as p
Ended(p) == {d \in Deliveries : phase[d] = p}

\* Delivery d, which has not ended, goes on or ends and is counted
Moves(d) ==
  /\ phase[d] \in {"new", "requested", "pausing", "reading"}
  /\ \/ /\ \E p \in {"requested", "pausing", "reading"} : Become(d, p)
        /\ UNCHANGED <<successCount, failureCount>>
     \/ UNCHANGED <<phase, successCount, failureCount>>
     \/ Reject(d)
     \/ Answer(d)

LEMMA EveryActionMoves ==
  ASSUME NEW d \in Deliveries, PostWebhook(d) \/ Progress(d)
  PROVE  Moves(d)
<1>1. CASE PostWebhook(d)
  BY <1>1 DEF PostWebhook, Moves
<1>2. CASE \E s \in Statuses : HeadersArrive(d, s)
  BY <1>2 DEF HeadersArrive, RetryOrReject, Moves
<1>3. CASE \E e \in Errors : RequestFails(d, e)
  BY <1>3 DEF RequestFails, RetryOrReject, Moves
<1>4. CASE RequestAgain(d)
  BY <1>4 DEF RequestAgain, Moves
<1>5. CASE \E n \in ChunkSizes : ChunkArrives(d, n)
  BY <1>5 DEF ChunkArrives, Moves
<1>6. CASE BodyEnds(d)
  BY <1>6 DEF BodyEnds, Moves
<1>7. CASE \E e \in Errors : BodyFails(d, e)
  BY <1>7 DEF BodyFails, Moves
<1> QED BY <1>1, <1>2, <1>3, <1>4, <1>5, <1>6, <1>7 DEF Progress

\* A delivery that ends joins one of the two sets of ended ones, and no other does
LEMMA EndedGrows ==
  ASSUME NEW d \in Deliveries, NEW p \in Phases, NEW q \in {"succeeded", "failed"},
         phase \in [Deliveries -> Phases], phase[d] # q, Become(d, p)
  PROVE  Cardinality(Ended(q))' = Cardinality(Ended(q)) + (IF p = q THEN 1 ELSE 0)
<1>1. IsFiniteSet(Ended(q)) /\ d \notin Ended(q)
  BY DeliveriesAssumption, FS_Subset DEF Ended
<1>2. CASE p = q
  <2>1. Ended(q)' = Ended(q) \cup {d}
    BY <1>2 DEF Ended, Become
  <2> QED BY <1>1, <1>2, <2>1, FS_AddElement
<1>3. CASE p # q
  <2>1. Ended(q)' = Ended(q)
    BY <1>3 DEF Ended, Become
  <2> QED BY <1>1, <1>3, <2>1, FS_CardinalityType
<1> QED BY <1>2, <1>3

LEMMA MovesCount ==
  ASSUME NEW d \in Deliveries, TypeOK, CountedOnce, Moves(d)
  PROVE  CountedOnce'
<1> USE DEF TypeOK
<1>1. CountedOnce <=> /\ successCount = Cardinality(Ended("succeeded"))
                      /\ failureCount = Cardinality(Ended("failed"))
  BY DEF CountedOnce, Ended
<1>2. CountedOnce' <=> /\ successCount' = Cardinality(Ended("succeeded"))'
                       /\ failureCount' = Cardinality(Ended("failed"))'
  BY DEF CountedOnce, Ended
<1>3. phase[d] # "succeeded" /\ phase[d] # "failed"
  BY DEF Moves
<1>4. CASE /\ \E p \in {"requested", "pausing", "reading"} : Become(d, p)
           /\ UNCHANGED <<successCount, failureCount>>
  BY <1>1, <1>2, <1>3, <1>4, EndedGrows DEF Phases
<1>5. CASE UNCHANGED <<phase, successCount, failureCount>>
  <2>1. Ended("succeeded")' = Ended("succeeded") /\ Ended("failed")' = Ended("failed")
    BY <1>5 DEF Ended
  <2> QED BY <1>1, <1>2, <1>5, <2>1
<1>6. CASE Reject(d)
  BY <1>1, <1>2, <1>3, <1>6, EndedGrows DEF Phases, Reject
<1>7. CASE Answer(d)
  BY <1>1, <1>2, <1>3, <1>7, EndedGrows DEF Phases, Answer, CountAnswer
<1> QED BY <1>4, <1>5, <1>6, <1>7 DEF Moves

LEMMA MovesType ==
  ASSUME NEW d \in Deliveries, TypeOK, Moves(d)
  PROVE  phase' \in [Deliveries -> Phases] /\ successCount' \in Nat /\ failureCount' \in Nat
BY DEF TypeOK, Phases, Moves, Become, Reject, Answer, CountAnswer

(***************************************************************************)
(* The invariant                                                           *)
(***************************************************************************)
\* What the last request of a delivery tells in each phase: nothing before the
\* first, an attempt is left while it pauses, and a body is read only of an answer
\* the agent does not retry.
PhaseTells(d) ==
  /\ phase[d] = "new" => status[d] = 0 /\ error[d] = "none"
  /\ phase[d] = "pausing" => attempts[d] <= MaxRetries
  /\ phase[d] = "reading" =>
       status[d] # 0 /\ ~RetryableStatus(status[d]) /\ error[d] = "none"

\* RetriesExhausted of one delivery
ExhaustedIfFailed(d) == EndedOnRetryable(d) => attempts[d] = MaxRetries + 1

IInv ==
  /\ TypeOK
  /\ CountedOnce
  /\ \A d \in Deliveries : PhaseTells(d) /\ ExhaustedIfFailed(d)

\* The values that stand for no answer and no error are not retried
LEMMA NothingToRetry == ~RetryableStatus(0) /\ ~RetryableError("none")
BY DEF RetryableStatus, RetryableError, WEBHOOK_RETRYABLE_STATUS_CODES,
       WEBHOOK_RETRYABLE_ERROR_CODES

LEMMA InitIInv == Init => IInv
<1> SUFFICES ASSUME Init
             PROVE  IInv
  OBVIOUS
<1>1. TypeOK
  BY SettingsAssumption DEF Init, TypeOK, Phases
<1>2. CountedOnce
  <2>1. /\ {d \in Deliveries : phase[d] = "succeeded"} = {}
        /\ {d \in Deliveries : phase[d] = "failed"} = {}
    BY DEF Init
  <2> QED BY <2>1, FS_EmptySet DEF Init, CountedOnce
<1>3. \A d \in Deliveries : PhaseTells(d) /\ ExhaustedIfFailed(d)
  BY DEF Init, PhaseTells, ExhaustedIfFailed, EndedOnRetryable
<1> QED BY <1>1, <1>2, <1>3 DEF IInv

\* The other variables keep their types: only PostWebhook, RequestAgain and
\* BodyFails send a request, each with an attempt left.
LEMMA RequestTypes ==
  ASSUME NEW d \in Deliveries, TypeOK, PhaseTells(d), PostWebhook(d) \/ Progress(d)
  PROVE  /\ attempts' \in [Deliveries -> 0 .. MaxRetries + 1]
         /\ status' \in [Deliveries -> Statuses \cup {0}]
         /\ error' \in [Deliveries -> Errors \cup {"none"}]
         /\ total' \in [Deliveries -> Nat]
<1> USE SettingsAssumption DEF TypeOK
<1>1. CASE PostWebhook(d)
  BY <1>1 DEF PostWebhook
<1>2. CASE \E s \in Statuses : HeadersArrive(d, s)
  BY <1>2 DEF HeadersArrive, Ends
<1>3. CASE \E e \in Errors : RequestFails(d, e)
  BY <1>3 DEF RequestFails, Ends
<1>4. CASE RequestAgain(d)
  BY <1>4 DEF RequestAgain, PhaseTells
<1>5. CASE \E n \in ChunkSizes : ChunkArrives(d, n)
  BY <1>5, AnswersAssumption DEF ChunkArrives, AddChunk
<1>6. CASE BodyEnds(d)
  BY <1>6 DEF BodyEnds
<1>7. CASE \E e \in Errors : BodyFails(d, e)
  BY <1>7 DEF BodyFails, MayRetry
<1> QED BY <1>1, <1>2, <1>3, <1>4, <1>5, <1>6, <1>7 DEF Progress

\* A delivery is given up on an answer or an error it would retry only when no
\* attempt is left, unless it is the body that broke off and the rest is not sent.
LEMMA OwnStep ==
  ASSUME NEW d \in Deliveries, TypeOK, PhaseTells(d), ExhaustedIfFailed(d),
         PostWebhook(d) \/ Progress(d)
  PROVE  PhaseTells(d)' /\ ExhaustedIfFailed(d)'
<1> USE SettingsAssumption, NothingToRetry
    DEF TypeOK, PhaseTells, ExhaustedIfFailed, EndedOnRetryable, Become
<1>1. CASE PostWebhook(d)
  BY <1>1 DEF PostWebhook, Reject
<1>2. CASE \E s \in Statuses : HeadersArrive(d, s)
  BY <1>2, AnswersAssumption DEF HeadersArrive, Ends, RetryOrReject, MayRetry, Reject
<1>3. CASE \E e \in Errors : RequestFails(d, e)
  BY <1>3 DEF RequestFails, Ends, RetryOrReject, MayRetry, Reject
<1>4. CASE RequestAgain(d)
  BY <1>4 DEF RequestAgain
<1>5. CASE \E n \in ChunkSizes : ChunkArrives(d, n)
  BY <1>5 DEF ChunkArrives, Answer
<1>6. CASE BodyEnds(d)
  BY <1>6 DEF BodyEnds, Answer
<1>7. CASE \E e \in Errors : BodyFails(d, e)
  BY <1>7 DEF BodyFails, MayRetry, Reject
<1> QED BY <1>1, <1>2, <1>3, <1>4, <1>5, <1>6, <1>7 DEF Progress

\* A step of one delivery leaves alone what is known of another.
LEMMA OthersStep ==
  ASSUME NEW d \in Deliveries, NEW o \in Deliveries \ {d}, TypeOK,
         PostWebhook(d) \/ Progress(d)
  PROVE  /\ phase'[o] = phase[o]
         /\ attempts'[o] = attempts[o]
         /\ status'[o] = status[o]
         /\ error'[o] = error[o]
<1> USE DEF TypeOK, Become
<1>1. CASE PostWebhook(d)
  BY <1>1 DEF PostWebhook, Reject
<1>2. CASE \E s \in Statuses : HeadersArrive(d, s)
  BY <1>2 DEF HeadersArrive, Ends, RetryOrReject, Reject
<1>3. CASE \E e \in Errors : RequestFails(d, e)
  BY <1>3 DEF RequestFails, Ends, RetryOrReject, Reject
<1>4. CASE RequestAgain(d)
  BY <1>4 DEF RequestAgain
<1>5. CASE \E n \in ChunkSizes : ChunkArrives(d, n)
  BY <1>5 DEF ChunkArrives, Answer
<1>6. CASE BodyEnds(d)
  BY <1>6 DEF BodyEnds, Answer
<1>7. CASE \E e \in Errors : BodyFails(d, e)
  BY <1>7 DEF BodyFails, Reject
<1> QED BY <1>1, <1>2, <1>3, <1>4, <1>5, <1>6, <1>7 DEF Progress

LEMMA NextIInv == IInv /\ [Next]_vars => IInv'
<1> SUFFICES ASSUME IInv, [Next]_vars
             PROVE  IInv'
  OBVIOUS
<1>1. CASE UNCHANGED vars
  BY <1>1 DEF vars, IInv, TypeOK, CountedOnce, PhaseTells, ExhaustedIfFailed, EndedOnRetryable
<1>2. CASE Next
  <2>1. PICK d \in Deliveries : PostWebhook(d) \/ Progress(d)
    BY <1>2 DEF Next
  <2>2. Moves(d)
    BY <2>1, EveryActionMoves
  <2>3. TypeOK'
    BY <2>1, <2>2, MovesType, RequestTypes DEF IInv, TypeOK
  <2>4. CountedOnce'
    BY <2>2, MovesCount DEF IInv
  <2>5. PhaseTells(d)' /\ ExhaustedIfFailed(d)'
    BY <2>1, OwnStep DEF IInv
  <2>6. \A o \in Deliveries \ {d} : PhaseTells(o)' /\ ExhaustedIfFailed(o)'
    BY <2>1, OthersStep DEF IInv, PhaseTells, ExhaustedIfFailed, EndedOnRetryable
  <2> QED BY <2>3, <2>4, <2>5, <2>6 DEF IInv
<1> QED BY <1>1, <1>2

LEMMA Invariance == Spec => []IInv
BY InitIInv, NextIInv, PTL DEF Spec

\* Every variable keeps its type; in particular no delivery is tried more than
\* HTTP_MAX_RETRIES times again (createWebhookAgent).
THEOREM TypeCorrect == Spec => []TypeOK
<1>1. IInv => TypeOK
  BY DEF IInv
<1> QED BY <1>1, Invariance, PTL

\* Every delivery is counted exactly once, on the side it ended on, for any number
\* of interleaved deliveries and any answers (postWebhook).
THEOREM DeliveriesCountedOnce == Spec => []CountedOnce
<1>1. IInv => CountedOnce
  BY DEF IInv
<1> QED BY <1>1, Invariance, PTL

\* No delivery is given up on what the agent retries before its retries are used
\* up, for any number of retries; in the middle of an answer's body, for endpoints
\* that send the rest of one that broke off (createWebhookAgent).
THEOREM RetriesUsedUp == Spec => []RetriesExhausted
<1>1. IInv => RetriesExhausted
  BY DEF IInv, ExhaustedIfFailed, RetriesExhausted
<1> QED BY <1>1, Invariance, PTL
=============================================================================
