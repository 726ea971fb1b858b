------------------------- MODULE WebhookDispatcher -------------------------
(***************************************************************************)
(* WebhookDispatcherService: the in-memory map of active webhooks that     *)
(* every event is posted to, the delivery statistics kept on its entries,  *)
(* and the job that, once a minute, judges those statistics, deactivates   *)
(* failing webhooks in the database and reloads the map from it.           *)
(*                                                                         *)
(* The service is one Node.js process: what runs between two awaits is     *)
(* atomic, and everything else interleaves at the awaits.  A refresh run   *)
(* awaits the UPDATE of each webhook it disables and then the SELECT of    *)
(* the active rows.  @Cron does not wait for the previous firing, so the   *)
(* awaits of several runs interleave: Refreshes is the set of runs that    *)
(* may be under way at once.  Deliveries complete, and operators edit the  *)
(* webhook table, at any point in between.                                 *)
(***************************************************************************)
EXTENDS Naturals

CONSTANTS
  Ids,              \* ids of webhooks
  Configs,          \* what a row says besides its id and isActive: url, filters, ...
  Events,           \* kinds of event
  Relevant,         \* the pairs <<config, event>> for which isEventRelevant holds
  Refreshes,        \* refresh runs that may overlap
  Reliable,         \* webhooks whose endpoint always answers 2xx
  Dead,             \* webhooks whose endpoint never answers 2xx
  AutoDisable,      \* WEBHOOK_AUTO_DISABLE
  FailureThreshold, \* WEBHOOK_FAILURE_THRESHOLD, a percentage
  MaxResults,       \* bound: results counted on one entry between two resets
  MaxInFlight,      \* bound: unanswered requests of one entry
  MaxEdits,         \* bound: operations on the table by operators
  MaxFaults         \* bound: failed queries and restarts of the service

ASSUME RelevantAssumption == Relevant \subseteq Configs \X Events
ASSUME EndpointsAssumption ==
  Reliable \subseteq Ids /\ Dead \subseteq Ids /\ Reliable \cap Dead = {}
ASSUME SettingsAssumption ==
  AutoDisable \in BOOLEAN /\ FailureThreshold \in Nat
ASSUME BoundsAssumption ==
  /\ MaxResults \in Nat /\ MaxInFlight \in Nat
  /\ MaxEdits \in Nat /\ MaxFaults \in Nat

VARIABLES
  table,      \* the webhook table: id -> row
  webhookMap, \* the cached active webhooks: id -> WebhookWithStats
  inFlight,   \* unanswered requests made for the entry now cached under an id
  phase,      \* where each refresh run is
  updating,   \* ids whose disabling UPDATE a run has sent, not yet executed
  updated,    \* ids whose UPDATE has ended, the run not yet resumed with the answer
  orphaned,   \* ids of updating and updated whose entry has left the map meanwhile
  snapshot,   \* the rows a run's SELECT returned: id -> config
  started,    \* the startup refresh has ended: events and the cron job run
  edits,      \* operators' operations so far
  faults      \* failed queries and restarts so far

vars == <<table, webhookMap, inFlight, phase, updating, updated, orphaned,
          snapshot, started, edits, faults>>

\* The variables that hold the progress of the refresh runs
runVars == <<phase, updating, updated, orphaned, snapshot>>

(***************************************************************************)
(* Data                                                                    *)
(***************************************************************************)
\* Partial functions from Ids, the contents of a table or of a Map
Partial(S) == UNION {[D -> S] : D \in SUBSET Ids}

IsPartial(f, S) == DOMAIN f \subseteq Ids /\ f \in [DOMAIN f -> S]

Row == [isActive : BOOLEAN, config : Configs]

\* windowPassed stands for getMinutesFromStartTime() >= the health window
WebhookWithStats ==
  [config : Configs, successCount : Nat, failureCount : Nat, windowPassed : BOOLEAN]

Phases == {"idle", "checking", "loaded"}

Nothing == [i \in {} |-> i]

NewWebhookWithStats(c) ==
  [config |-> c, successCount |-> 0, failureCount |-> 0, windowPassed |-> FALSE]

resetStats(w) ==
  [w EXCEPT !.successCount = 0, !.failureCount = 0, !.windowPassed = FALSE]

\* Mutant: the rate of successes is compared
ExceedsThreshold_Successes(w) ==
  w.successCount * 100 > FailureThreshold * (w.successCount + w.failureCount)

\* getFailureRate() > webhookFailureThreshold; the rate of no results is 0
ExceedsThreshold(w) ==
  LET total == w.successCount + w.failureCount
  IN  total > 0 /\ w.failureCount * 100 > FailureThreshold * total

ActiveRows == {i \in DOMAIN table : table[i].isActive}

isEventRelevant(i, e) == <<webhookMap[i].config, e>> \in Relevant

(***************************************************************************)
(* The refresh job                                                         *)
(***************************************************************************)
\* The cached webhooks a refresh judges, and those of them it disables
Due == {i \in DOMAIN webhookMap : webhookMap[i].windowPassed}

Failing == {i \in Due : AutoDisable /\ ExceedsThreshold(webhookMap[i])}

\* refreshWebhookMap up to its first await: checkWebhooksHealth walks the
\* cached webhooks whose window has passed.  One that exceeds the threshold
\* gets its disabling UPDATE sent and is reset when that is answered, every
\* other one is reset at once.  onModuleInit awaits the first refresh.
StartRefresh(r) ==
  /\ phase[r] = "idle"
  /\ started \/ \A q \in Refreshes : phase[q] = "idle"
  /\ webhookMap' = [i \in DOMAIN webhookMap |->
                      IF i \in Due \ Failing
                      THEN resetStats(webhookMap[i])
                      ELSE webhookMap[i]]
  /\ updating' = [updating EXCEPT ![r] = Failing]
  /\ phase' = [phase EXCEPT ![r] = "checking"]
  /\ UNCHANGED <<table, inFlight, updated, orphaned, snapshot, started, edits, faults>>

\* disableWebhook: the database executes UPDATE ... SET isActive = false.
\* An id without a row affects nothing; the caller goes on all the same.
DisableWebhook(r, i) ==
  /\ i \in updating[r]
  /\ table' = [j \in DOMAIN table |->
                 IF j = i THEN [table[j] EXCEPT !.isActive = FALSE] ELSE table[j]]
  /\ updating' = [updating EXCEPT ![r] = @ \ {i}]
  /\ updated' = [updated EXCEPT ![r] = @ \cup {i}]
  /\ UNCHANGED <<webhookMap, inFlight, phase, orphaned, snapshot, started, edits, faults>>

\* disableWebhook: the UPDATE fails and the error is caught and logged
DisableFails(r, i) ==
  /\ i \in updating[r]
  /\ faults < MaxFaults
  /\ faults' = faults + 1
  /\ updating' = [updating EXCEPT ![r] = @ \ {i}]
  /\ updated' = [updated EXCEPT ![r] = @ \cup {i}]
  /\ UNCHANGED <<table, webhookMap, inFlight, phase, orphaned, snapshot, started, edits>>

\* checkWebhooksHealth after the awaited disableWebhook: whatever it answered,
\* the statistics of the entry the run is holding are reset.  The map sees
\* that only if it still holds the same entry.
FinishDisable(r, i) ==
  /\ i \in updated[r]
  /\ webhookMap' = [j \in DOMAIN webhookMap |->
                      IF j = i /\ i \notin orphaned[r]
                      THEN resetStats(webhookMap[j])
                      ELSE webhookMap[j]]
  /\ updated' = [updated EXCEPT ![r] = @ \ {i}]
  /\ orphaned' = [orphaned EXCEPT ![r] = @ \ {i}]
  /\ UNCHANGED <<table, inFlight, phase, updating, snapshot, started, edits, faults>>

\* Mutant: the disabling UPDATEs are not awaited
HealthChecked_NotAwaited(r) == phase[r] = "checking"

\* Promise.all(healthChecks) is what the SELECT waits for
HealthChecked(r) == phase[r] = "checking" /\ updating[r] = {} /\ updated[r] = {}

\* getAllActive: the database executes the SELECT
LoadActive(r) ==
  /\ HealthChecked(r)
  /\ snapshot' = [snapshot EXCEPT ![r] = [i \in ActiveRows |-> table[i].config]]
  /\ phase' = [phase EXCEPT ![r] = "loaded"]
  /\ UNCHANGED <<table, webhookMap, inFlight, updating, updated, orphaned,
                 started, edits, faults>>

\* getAllActive rejects: refreshWebhookMap logs the error and keeps the map,
\* at startup the empty one
LoadFails(r) ==
  /\ HealthChecked(r)
  /\ faults < MaxFaults
  /\ faults' = faults + 1
  /\ phase' = [phase EXCEPT ![r] = "idle"]
  /\ started' = TRUE
  /\ UNCHANGED <<table, webhookMap, inFlight, updating, updated, orphaned,
                 snapshot, edits>>

\* Mutant: every row gets a new object
MergedEntry_AlwaysNew(i, c) == NewWebhookWithStats(c)

\* Mutant: the row is not copied over the cached object
MergedEntry_NotAssigned(i, c) ==
  IF i \in DOMAIN webhookMap THEN webhookMap[i] ELSE NewWebhookWithStats(c)

\* An entry already cached keeps its object, so its statistics
MergedEntry(i, c) ==
  IF i \in DOMAIN webhookMap
  THEN [webhookMap[i] EXCEPT !.config = c]
  ELSE NewWebhookWithStats(c)

\* refreshWebhookMap after the SELECT: the new map is built and swapped in
\* without an await.  Entries left out are garbage once their requests and
\* the runs still holding them are done.
MergeSnapshot(r) ==
  /\ phase[r] = "loaded"
  /\ LET rows    == snapshot[r]
         dropped == DOMAIN webhookMap \ DOMAIN rows
     IN  /\ webhookMap' = [i \in DOMAIN rows |-> MergedEntry(i, rows[i])]
         /\ inFlight' = [i \in Ids |-> IF i \in dropped THEN 0 ELSE inFlight[i]]
         /\ orphaned' = [q \in Refreshes |->
                           orphaned[q] \cup (dropped \cap (updating[q] \cup updated[q]))]
  /\ phase' = [phase EXCEPT ![r] = "idle"]
  /\ snapshot' = [snapshot EXCEPT ![r] = Nothing]
  /\ started' = TRUE
  /\ UNCHANGED <<table, updating, updated, edits, faults>>

(***************************************************************************)
(* Deliveries                                                              *)
(***************************************************************************)
\* postEveryWebhook: one request per cached webhook the event is relevant to
PostEveryWebhook(e) ==
  /\ started
  /\ LET targets == {i \in DOMAIN webhookMap : isEventRelevant(i, e)}
     IN  /\ targets # {}
         /\ \A i \in targets : inFlight[i] < MaxInFlight
         /\ inFlight' = [i \in Ids |->
                           IF i \in targets THEN inFlight[i] + 1 ELSE inFlight[i]]
  /\ UNCHANGED <<table, webhookMap, runVars, started, edits, faults>>

\* Mutant: a result without a request
CanCount_AnyTime(i) ==
  /\ i \in DOMAIN webhookMap
  /\ webhookMap[i].successCount + webhookMap[i].failureCount < MaxResults

\* An answer reaches the entry cached under i, within the bound
CanCount(i) ==
  /\ i \in DOMAIN webhookMap
  /\ inFlight[i] > 0
  /\ webhookMap[i].successCount + webhookMap[i].failureCount < MaxResults

\* postWebhook: a 2xx answer, read to its end
DeliverySucceeds(i) ==
  /\ CanCount(i)
  /\ i \notin Dead
  /\ webhookMap' = [webhookMap EXCEPT ![i].successCount = @ + 1]
  /\ inFlight' = [inFlight EXCEPT ![i] = @ - 1]
  /\ UNCHANGED <<table, runVars, started, edits, faults>>

\* Mutant: the error path returns without counting the failure
DeliveryFails_NotCounted(i) ==
  /\ CanCount(i)
  /\ i \notin Reliable
  /\ inFlight' = [inFlight EXCEPT ![i] = @ - 1]
  /\ UNCHANGED <<table, webhookMap, runVars, started, edits, faults>>

\* postWebhook: another status, a timeout, a network error, retries exhausted
\* or a body that cannot be read
DeliveryFails(i) ==
  /\ CanCount(i)
  /\ i \notin Reliable
  /\ webhookMap' = [webhookMap EXCEPT ![i].failureCount = @ + 1]
  /\ inFlight' = [inFlight EXCEPT ![i] = @ - 1]
  /\ UNCHANGED <<table, runVars, started, edits, faults>>

\* WEBHOOK_HEALTH_MINUTES_WINDOW minutes have gone by since startTime
WindowPasses(i) ==
  /\ i \in DOMAIN webhookMap
  /\ ~webhookMap[i].windowPassed
  /\ webhookMap' = [webhookMap EXCEPT ![i].windowPassed = TRUE]
  /\ UNCHANGED <<table, inFlight, runVars, started, edits, faults>>

(***************************************************************************)
(* The environment of the service                                          *)
(***************************************************************************)
\* POST, PUT and DELETE /webhooks and the admin panel, as the table sees them
EditTable(newTable) ==
  /\ edits < MaxEdits
  /\ edits' = edits + 1
  /\ table' = newTable
  /\ UNCHANGED <<webhookMap, inFlight, runVars, started, faults>>

CreateWebhook(i, row) ==
  /\ i \notin DOMAIN table
  /\ EditTable([j \in DOMAIN table \cup {i} |-> IF j = i THEN row ELSE table[j]])

UpdateWebhook(i, row) ==
  /\ i \in DOMAIN table
  /\ table[i] # row
  /\ EditTable([table EXCEPT ![i] = row])

DeleteWebhook(i) ==
  /\ i \in DOMAIN table
  /\ EditTable([j \in DOMAIN table \ {i} |-> table[j]])

\* The process ends and a new one starts.  Of the UPDATEs under way, some have
\* reached the database.
Restart ==
  /\ faults < MaxFaults
  /\ faults' = faults + 1
  /\ \E landed \in SUBSET UNION {updating[r] : r \in Refreshes} :
       table' = [i \in DOMAIN table |->
                   IF i \in landed THEN [table[i] EXCEPT !.isActive = FALSE] ELSE table[i]]
  /\ webhookMap' = Nothing
  /\ inFlight' = [i \in Ids |-> 0]
  /\ phase' = [r \in Refreshes |-> "idle"]
  /\ updating' = [r \in Refreshes |-> {}]
  /\ updated' = [r \in Refreshes |-> {}]
  /\ orphaned' = [r \in Refreshes |-> {}]
  /\ snapshot' = [r \in Refreshes |-> Nothing]
  /\ started' = FALSE
  /\ UNCHANGED edits

(***************************************************************************)
(* Specification                                                           *)
(***************************************************************************)
Init ==
  /\ table \in Partial(Row)
  /\ webhookMap = Nothing
  /\ inFlight = [i \in Ids |-> 0]
  /\ phase = [r \in Refreshes |-> "idle"]
  /\ updating = [r \in Refreshes |-> {}]
  /\ updated = [r \in Refreshes |-> {}]
  /\ orphaned = [r \in Refreshes |-> {}]
  /\ snapshot = [r \in Refreshes |-> Nothing]
  /\ started = FALSE
  /\ edits = 0
  /\ faults = 0

\* Steps of one refresh run that need no fault
RefreshStep(r) ==
  \/ StartRefresh(r)
  \/ LoadActive(r)
  \/ MergeSnapshot(r)
  \/ \E i \in Ids : DisableWebhook(r, i) \/ FinishDisable(r, i)

RefreshFault(r) == LoadFails(r) \/ \E i \in Ids : DisableFails(r, i)

Delivery(i) == DeliverySucceeds(i) \/ DeliveryFails(i)

Edit(i) ==
  \/ \E row \in Row : CreateWebhook(i, row) \/ UpdateWebhook(i, row)
  \/ DeleteWebhook(i)

Next ==
  \/ \E r \in Refreshes : RefreshStep(r) \/ RefreshFault(r)
  \/ \E e \in Events : PostEveryWebhook(e)
  \/ \E i \in Ids : Delivery(i) \/ WindowPasses(i) \/ Edit(i)
  \/ Restart

Spec == Init /\ [][Next]_vars

\* The cron job fires every minute and the database answers; time passes;
\* every request is answered or times out; events keep coming.
Fairness ==
  /\ \A r \in Refreshes : WF_vars(RefreshStep(r))
  /\ \A i \in Ids : WF_vars(Delivery(i)) /\ WF_vars(WindowPasses(i))
  /\ \A e \in Events : WF_vars(PostEveryWebhook(e))

FairSpec == Spec /\ Fairness

(***************************************************************************)
(* Properties                                                              *)
(***************************************************************************)
TypeOK ==
  /\ IsPartial(table, Row)
  /\ IsPartial(webhookMap, WebhookWithStats)
  /\ inFlight \in [Ids -> Nat]
  /\ phase \in [Refreshes -> Phases]
  /\ updating \in [Refreshes -> SUBSET Ids]
  /\ updated \in [Refreshes -> SUBSET Ids]
  /\ orphaned \in [Refreshes -> SUBSET Ids]
  /\ DOMAIN snapshot = Refreshes
  /\ \A r \in Refreshes : IsPartial(snapshot[r], Configs)
  /\ started \in BOOLEAN
  /\ edits \in Nat
  /\ faults \in Nat

\* What keeps a reliable webhook active: no failure is counted on its entry and
\* no run has sent an UPDATE for it
NoFailureCounted ==
  \A i \in Reliable \cap DOMAIN webhookMap : webhookMap[i].failureCount = 0

NoUpdateSent == \A r \in Refreshes : updating[r] \cap Reliable = {}

ReliableInv == TypeOK /\ NoFailureCounted /\ NoUpdateSent

\* A webhook whose endpoint answers every delivery with 2xx stays active until
\* an operator deactivates it, whatever the health job has in flight while
\* rows are edited, dropped from the map and cached again (checkWebhooksHealth).
ReliableStaysActive ==
  [][\A i \in Reliable :
        (i \in ActiveRows /\ i \in DOMAIN table' /\ ~table'[i].isActive)
          => edits' # edits]_vars

\* Refreshing the map keeps the delivery statistics of every webhook that stays
\* in it ("while maintaining webhook health stats"): counts go down only for a
\* window that has passed or when a run that has disabled the webhook resumes.
StatsSurviveRefresh ==
  [][\A i \in DOMAIN webhookMap \cap DOMAIN webhookMap' :
        \/ webhookMap[i].windowPassed
        \/ \E r \in Refreshes : i \in updated[r] \ orphaned[r]
        \/ /\ webhookMap'[i].successCount >= webhookMap[i].successCount
           /\ webhookMap'[i].failureCount >= webhookMap[i].failureCount]_vars

\* The cached map is what a SELECT of the active rows returns now
InSync ==
  /\ DOMAIN webhookMap = ActiveRows
  /\ \A i \in ActiveRows : webhookMap[i].config = table[i].config

\* Once operators leave the table alone and the database answers, the map comes
\* to agree with the active rows and stays so, restarts, failed and overlapping
\* refreshes notwithstanding (refreshWebhookMap: "always in sync").
CacheConverges == <>[]InSync

\* The row of i is active and some event is relevant to it
Served(i) == i \in ActiveRows /\ \E e \in Events : <<table[i].config, e>> \in Relevant

\* With auto-disable on and a threshold below 100%, an endpoint that never answers
\* 2xx and for which events keep coming is eventually deactivated
\* (checkWebhooksHealth).
DeadIsDisabled ==
  AutoDisable /\ FailureThreshold < 100 => \A i \in Dead : Served(i) ~> ~Served(i)

\* The dispatcher as WebhookCache sees it: configurations without statistics
Active == [i \in ActiveRows |-> table[i].config]

Cached == [i \in DOMAIN webhookMap |-> webhookMap[i].config]

Loaded == {r \in Refreshes : phase[r] = "loaded"}

Abstract == INSTANCE WebhookCache WITH
  Readers <- Refreshes,
  active <- Active,
  cached <- Cached,
  reads <- [r \in Loaded |-> snapshot[r]]

\* Health checks, overlapping refreshes and failed queries implement WebhookCache:
\* events are always posted to what one SELECT returned, as a whole, and nothing
\* but an installed answer or a restart changes it (refreshWebhookMap).
ImplementsWebhookCache == Abstract!Spec
=============================================================================
