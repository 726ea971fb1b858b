------------------------------ MODULE Delivery ------------------------------
(***************************************************************************)
(* One delivery: WebhookDispatcherService.postWebhook over the RetryAgent  *)
(* that WebhookModule configures.  WebhookDispatcher takes from here that  *)
(* every delivery ends and is counted once.                                *)
(*                                                                         *)
(* The agent is external, modelled from its configuration: a status or an  *)
(* error on its lists is tried again after a pause as long as attempts are *)
(* left, and rejects the request when none is; any other status is an      *)
(* answer, any other error rejects.  An error in the middle of a body is   *)
(* tried again likewise, but only where the agent can have the rest of the *)
(* body.  Each wait, for headers or for the next chunk of the body, ends   *)
(* by HTTP_TIMEOUT; the whole body has no deadline.                        *)
(***************************************************************************)
EXTENDS Naturals, FiniteSets

CONSTANTS
  Deliveries,       \* calls of postWebhook
  Unparsable,       \* those to a webhook whose url new URL(...) rejects
  Resumable,        \* those to endpoints that send the rest of a body that broke off
  Statuses,         \* statuses endpoints answer
  Errors,           \* codes of the errors a request, or the body of its answer, can end with
  ChunkSizes,       \* sizes of a body's chunks
  MaxRetries,       \* HTTP_MAX_RETRIES
  MaxResponseBytes  \* WEBHOOK_MAX_RESPONSE_BYTES

ASSUME DeliveriesAssumption ==
  IsFiniteSet(Deliveries) /\ Unparsable \subseteq Deliveries /\ Resumable \subseteq Deliveries
ASSUME AnswersAssumption == Statuses \subseteq 100..599 /\ ChunkSizes \subseteq Nat \ {0}
ASSUME SettingsAssumption == MaxRetries \in Nat /\ MaxResponseBytes \in Nat

VARIABLES
  phase,        \* where each delivery is
  attempts,     \* requests it has sent
  status,       \* status the last request was answered with, 0 if it was not
  error,        \* error that ended the last request or the body of its answer, or "none"
  total,        \* bytes of the answer's body read so far
  successCount, \* of the webhook they all go to
  failureCount

vars == <<phase, attempts, status, error, total, successCount, failureCount>>

Phases == {"new", "requested", "pausing", "reading", "succeeded", "failed"}

Settled == {d \in Deliveries : phase[d] \in {"succeeded", "failed"}}

WEBHOOK_RETRYABLE_STATUS_CODES == {500, 502, 503, 504}

WEBHOOK_RETRYABLE_ERROR_CODES ==
  {"ECONNRESET", "ECONNREFUSED", "ENOTFOUND", "ENETDOWN", "ENETUNREACH", "EHOSTDOWN",
   "ETIMEDOUT", "UND_ERR_CONNECT_TIMEOUT", "UND_ERR_HEADERS_TIMEOUT",
   "UND_ERR_BODY_TIMEOUT", "UND_ERR_SOCKET"}

RetryableStatus(s) == s \in WEBHOOK_RETRYABLE_STATUS_CODES

RetryableError(e) == e \in WEBHOOK_RETRYABLE_ERROR_CODES

\* Mutant: the agent's option methods keeps its default, which has no POST
MayRetry_NoPost(d) == FALSE

\* Mutant: one retry too many
MayRetry_OneMore(d) == attempts[d] <= MaxRetries + 1

MayRetry(d) == attempts[d] <= MaxRetries

Become(d, p) == phase' = [phase EXCEPT ![d] = p]

\* Mutant: no return after the failure of an answer that is not 2xx
CountAnswer_FallsThrough(ok) ==
  /\ successCount' = successCount + 1
  /\ failureCount' = IF ok THEN failureCount ELSE failureCount + 1

\* incrementSuccess for a 2xx answer, incrementFailure for any other
CountAnswer(ok) ==
  /\ successCount' = IF ok THEN successCount + 1 ELSE successCount
  /\ failureCount' = IF ok THEN failureCount ELSE failureCount + 1

Answered2xx(d) == status[d] >= 200 /\ status[d] < 300

\* postWebhook after the body has been read
Answer(d) ==
  /\ Become(d, IF Answered2xx(d) THEN "succeeded" ELSE "failed")
  /\ CountAnswer(Answered2xx(d))

\* postWebhook's catch block
Reject(d) ==
  /\ Become(d, "failed")
  /\ failureCount' = failureCount + 1
  /\ UNCHANGED successCount

(***************************************************************************)
(* postWebhook and the agent                                               *)
(***************************************************************************)
\* buildRequestOptions and the first request; a url that cannot be parsed
\* throws before anything is sent
PostWebhook(d) ==
  /\ phase[d] = "new"
  /\ \/ /\ d \in Unparsable
        /\ Reject(d)
        /\ UNCHANGED attempts
     \/ /\ d \notin Unparsable
        /\ Become(d, "requested")
        /\ attempts' = [attempts EXCEPT ![d] = 1]
        /\ UNCHANGED <<successCount, failureCount>>
  /\ UNCHANGED <<status, error, total>>

RetryOrReject(d, retryable) ==
  \/ /\ retryable /\ MayRetry(d)
     /\ Become(d, "pausing")
     /\ UNCHANGED <<successCount, failureCount>>
  \/ /\ ~(retryable /\ MayRetry(d))
     /\ Reject(d)

\* How the last request has ended so far
Ends(d, s, e) ==
  /\ status' = [status EXCEPT ![d] = s]
  /\ error' = [error EXCEPT ![d] = e]

\* The headers of an answer arrive
HeadersArrive(d, s) ==
  /\ phase[d] = "requested"
  /\ Ends(d, s, "none")
  /\ \/ /\ RetryableStatus(s)
        /\ RetryOrReject(d, TRUE)
     \/ /\ ~RetryableStatus(s)
        /\ Become(d, "reading")
        /\ UNCHANGED <<successCount, failureCount>>
  /\ UNCHANGED <<attempts, total>>

\* The request ends with an error or a timeout
RequestFails(d, e) ==
  /\ phase[d] = "requested"
  /\ Ends(d, 0, e)
  /\ RetryOrReject(d, RetryableError(e))
  /\ UNCHANGED <<attempts, total>>

\* minTimeout, growing by timeoutFactor up to maxTimeout, is over
RequestAgain(d) ==
  /\ phase[d] = "pausing"
  /\ Become(d, "requested")
  /\ attempts' = [attempts EXCEPT ![d] = @ + 1]
  /\ UNCHANGED <<status, error, total, successCount, failureCount>>

\* Mutant: the chunk's length is assigned, not added
AddChunk_Assigned(t, n) == n

\* total += chunk.length
AddChunk(t, n) == t + n

\* readBodyWithLimit: beyond the limit the stream is destroyed and the answer
\* is taken as read
ChunkArrives(d, n) ==
  /\ phase[d] = "reading"
  /\ total' = [total EXCEPT ![d] = AddChunk(@, n)]
  /\ \/ total'[d] > MaxResponseBytes /\ Answer(d)
     \/ total'[d] <= MaxResponseBytes /\ UNCHANGED <<phase, successCount, failureCount>>
  /\ UNCHANGED <<attempts, status, error>>

BodyEnds(d) ==
  /\ phase[d] = "reading"
  /\ Answer(d)
  /\ UNCHANGED <<attempts, status, error, total>>

\* The body breaks off or times out: the agent sends another request for the rest
\* of it, or the iteration throws, at once if the rest is not to be had
BodyFails(d, e) ==
  /\ phase[d] = "reading"
  /\ \/ /\ RetryableError(e) /\ MayRetry(d)
        /\ attempts' = [attempts EXCEPT ![d] = @ + 1]
        /\ UNCHANGED <<phase, error, successCount, failureCount>>
     \/ /\ ~(RetryableError(e) /\ MayRetry(d)) \/ d \notin Resumable
        /\ Reject(d)
        /\ error' = [error EXCEPT ![d] = e]
        /\ UNCHANGED attempts
  /\ UNCHANGED <<status, total>>

(***************************************************************************)
(* Specification                                                           *)
(***************************************************************************)
Init ==
  /\ phase = [d \in Deliveries |-> "new"]
  /\ attempts = [d \in Deliveries |-> 0]
  /\ status = [d \in Deliveries |-> 0]
  /\ error = [d \in Deliveries |-> "none"]
  /\ total = [d \in Deliveries |-> 0]
  /\ successCount = 0
  /\ failureCount = 0

Progress(d) ==
  \/ \E s \in Statuses : HeadersArrive(d, s)
  \/ \E e \in Errors : RequestFails(d, e)
  \/ RequestAgain(d)
  \/ \E n \in ChunkSizes : ChunkArrives(d, n)
  \/ BodyEnds(d)
  \/ \E e \in Errors : BodyFails(d, e)

Next == \E d \in Deliveries : PostWebhook(d) \/ Progress(d)

Spec == Init /\ [][Next]_vars

\* Something happens within HTTP_TIMEOUT, and every pause ends
FairSpec == Spec /\ \A d \in Deliveries : WF_vars(Progress(d))

(***************************************************************************)
(* Properties                                                              *)
(***************************************************************************)
TypeOK ==
  /\ phase \in [Deliveries -> Phases]
  /\ attempts \in [Deliveries -> 0 .. MaxRetries + 1]
  /\ status \in [Deliveries -> Statuses \cup {0}]
  /\ error \in [Deliveries -> Errors \cup {"none"}]
  /\ total \in [Deliveries -> Nat]
  /\ successCount \in Nat
  /\ failureCount \in Nat

\* Every delivery is counted exactly once, on the side it ended on, however
\* deliveries interleave (postWebhook): the health job judges these counts.
CountedOnce ==
  /\ successCount = Cardinality({d \in Deliveries : phase[d] = "succeeded"})
  /\ failureCount = Cardinality({d \in Deliveries : phase[d] = "failed"})

\* The delivery has ended on what the agent retries: a status on its list; an
\* error on its list before any answer; or, where the rest of a body is to be had,
\* such an error in the middle of one
EndedOnRetryable(d) ==
  /\ phase[d] = "failed"
  /\ \/ RetryableStatus(status[d])
     \/ RetryableError(error[d]) /\ (status[d] = 0 \/ d \in Resumable)

\* A delivery that failed on a status or an error the agent retries was tried
\* HTTP_MAX_RETRIES more times, except where its answer had begun and the endpoint
\* does not send the rest: it may then be given up early (createWebhookAgent).
RetriesExhausted ==
  \A d \in Deliveries : EndedOnRetryable(d) => attempts[d] = MaxRetries + 1

\* Every delivery ends, whatever the endpoint does, a body without end included:
\* the event's acknowledgement waits for it (readBodyWithLimit).
DeliveryEnds ==
  \A d \in Deliveries : phase[d] = "requested" ~> phase[d] \in {"succeeded", "failed"}

\* A delivery that failed on 429 or 5xx was tried HTTP_MAX_RETRIES more times
\* ("on `429` / `5xx` responses", README).  Violated: the agent's list has four
\* statuses, and a 429 is an answer like any other.
RetriesAsDocumented ==
  \A d \in Deliveries :
    (phase[d] = "failed" /\ status[d] \in {429} \cup 500..599)
      => attempts[d] = MaxRetries + 1
=============================================================================
