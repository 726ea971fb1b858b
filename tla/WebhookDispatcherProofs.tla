---------------------- MODULE WebhookDispatcherProofs ----------------------
(***************************************************************************)
(* Theorems about WebhookDispatcher, for every value of its constants.     *)
(***************************************************************************)
EXTENDS WebhookDispatcher, TLAPS

(***************************************************************************)
(* Type correctness                                                        *)
(***************************************************************************)
\* resetStats and NewWebhookWithStats make entries
LEMMA EntryType ==
  /\ \A c \in Configs : NewWebhookWithStats(c) \in WebhookWithStats
  /\ \A w \in WebhookWithStats : resetStats(w) \in WebhookWithStats
BY DEF NewWebhookWithStats, resetStats, WebhookWithStats

\* The refresh job's steps keep the types
LEMMA StartRefreshType ==
  ASSUME TypeOK, NEW r \in Refreshes, StartRefresh(r)
  PROVE  TypeOK'
<1>1. Failing \subseteq Ids
  BY DEF TypeOK, IsPartial, Failing, Due
<1>2. IsPartial(webhookMap, WebhookWithStats)'
  BY EntryType DEF TypeOK, IsPartial, StartRefresh
<1>3. phase' \in [Refreshes -> Phases] /\ updating' \in [Refreshes -> SUBSET Ids]
  BY <1>1 DEF TypeOK, StartRefresh, Phases
<1>4. QED
  BY <1>2, <1>3 DEF TypeOK, StartRefresh

LEMMA DisableWebhookType ==
  ASSUME TypeOK, NEW r \in Refreshes, NEW i \in Ids, DisableWebhook(r, i)
  PROVE  TypeOK'
<1>1. IsPartial(table, Row)'
  BY DEF TypeOK, IsPartial, DisableWebhook, Row
<1>2. updating' \in [Refreshes -> SUBSET Ids] /\ updated' \in [Refreshes -> SUBSET Ids]
  BY DEF TypeOK, DisableWebhook
<1>3. QED
  BY <1>1, <1>2 DEF TypeOK, DisableWebhook

LEMMA DisableFailsType ==
  ASSUME TypeOK, NEW r \in Refreshes, NEW i \in Ids, DisableFails(r, i)
  PROVE  TypeOK'
BY DEF TypeOK, IsPartial, DisableFails

LEMMA FinishDisableType ==
  ASSUME TypeOK, NEW r \in Refreshes, NEW i \in Ids, FinishDisable(r, i)
  PROVE  TypeOK'
<1>1. IsPartial(webhookMap, WebhookWithStats)'
  BY EntryType DEF TypeOK, IsPartial, FinishDisable
<1>2. updated' \in [Refreshes -> SUBSET Ids] /\ orphaned' \in [Refreshes -> SUBSET Ids]
  BY DEF TypeOK, FinishDisable
<1>3. QED
  BY <1>1, <1>2 DEF TypeOK, IsPartial, FinishDisable

LEMMA LoadActiveType ==
  ASSUME TypeOK, NEW r \in Refreshes, LoadActive(r)
  PROVE  TypeOK'
<1>1. IsPartial([i \in ActiveRows |-> table[i].config], Configs)
  BY DEF TypeOK, IsPartial, ActiveRows, Row
<1>2. DOMAIN snapshot' = Refreshes /\ \A q \in Refreshes : IsPartial(snapshot'[q], Configs)
  BY <1>1 DEF TypeOK, LoadActive
<1>3. phase' \in [Refreshes -> Phases]
  BY DEF TypeOK, LoadActive, Phases
<1>4. QED
  BY <1>2, <1>3 DEF TypeOK, IsPartial, LoadActive

LEMMA LoadFailsType ==
  ASSUME TypeOK, NEW r \in Refreshes, LoadFails(r)
  PROVE  TypeOK'
BY DEF TypeOK, IsPartial, LoadFails, Phases

LEMMA MergeSnapshotType ==
  ASSUME TypeOK, NEW r \in Refreshes, MergeSnapshot(r)
  PROVE  TypeOK'
<1>1. \A i \in DOMAIN snapshot[r] :
        i \in Ids /\ MergedEntry(i, snapshot[r][i]) \in WebhookWithStats
  <2> TAKE i \in DOMAIN snapshot[r]
  <2>1. i \in Ids /\ snapshot[r][i] \in Configs
    BY DEF TypeOK, IsPartial
  <2>2. CASE i \in DOMAIN webhookMap
    <3>1. webhookMap[i] \in WebhookWithStats
      BY <2>2 DEF TypeOK, IsPartial
    <3>2. QED
      BY <2>1, <2>2, <3>1 DEF MergedEntry, WebhookWithStats
  <2>3. CASE i \notin DOMAIN webhookMap
    BY <2>1, <2>3, EntryType DEF MergedEntry
  <2>4. QED
    BY <2>2, <2>3
<1>2. IsPartial(webhookMap, WebhookWithStats)'
  BY <1>1 DEF MergeSnapshot, IsPartial
<1>3. inFlight' \in [Ids -> Nat]
  BY DEF TypeOK, MergeSnapshot
<1>4. orphaned' \in [Refreshes -> SUBSET Ids]
  BY DEF TypeOK, MergeSnapshot, IsPartial
<1>5. DOMAIN snapshot' = Refreshes /\ \A q \in Refreshes : IsPartial(snapshot'[q], Configs)
  BY DEF TypeOK, MergeSnapshot, IsPartial, Nothing
<1>6. phase' \in [Refreshes -> Phases]
  BY DEF TypeOK, MergeSnapshot, Phases
<1>7. QED
  BY <1>2, <1>3, <1>4, <1>5, <1>6 DEF TypeOK, MergeSnapshot

\* Deliveries and the clock keep the types
LEMMA PostEveryWebhookType ==
  ASSUME TypeOK, NEW e \in Events, PostEveryWebhook(e)
  PROVE  TypeOK'
<1>1. inFlight' \in [Ids -> Nat]
  BY DEF TypeOK, PostEveryWebhook
<1>2. QED
  BY <1>1 DEF TypeOK, IsPartial, PostEveryWebhook, runVars

LEMMA DeliveryType ==
  ASSUME TypeOK, NEW i \in Ids, Delivery(i) \/ WindowPasses(i)
  PROVE  TypeOK'
<1>1. i \in DOMAIN webhookMap /\ webhookMap[i] \in WebhookWithStats
  BY DEF TypeOK, IsPartial, Delivery, DeliverySucceeds, DeliveryFails, CanCount, WindowPasses
<1>2. CASE DeliverySucceeds(i)
  <2>1. IsPartial(webhookMap, WebhookWithStats)'
    BY <1>1, <1>2 DEF TypeOK, IsPartial, DeliverySucceeds, WebhookWithStats
  <2>2. inFlight' \in [Ids -> Nat]
    BY <1>2 DEF TypeOK, DeliverySucceeds, CanCount
  <2>3. QED
    BY <1>2, <2>1, <2>2 DEF TypeOK, IsPartial, DeliverySucceeds, runVars
<1>3. CASE DeliveryFails(i)
  <2>1. IsPartial(webhookMap, WebhookWithStats)'
    BY <1>1, <1>3 DEF TypeOK, IsPartial, DeliveryFails, WebhookWithStats
  <2>2. inFlight' \in [Ids -> Nat]
    BY <1>3 DEF TypeOK, DeliveryFails, CanCount
  <2>3. QED
    BY <1>3, <2>1, <2>2 DEF TypeOK, IsPartial, DeliveryFails, runVars
<1>4. CASE WindowPasses(i)
  <2>1. IsPartial(webhookMap, WebhookWithStats)'
    BY <1>1, <1>4 DEF TypeOK, IsPartial, WindowPasses, WebhookWithStats
  <2>2. QED
    BY <1>4, <2>1 DEF TypeOK, IsPartial, WindowPasses, runVars
<1>5. QED
  BY <1>2, <1>3, <1>4 DEF Delivery

\* Operators' edits and restarts keep the types
LEMMA EditType ==
  ASSUME TypeOK, NEW i \in Ids, Edit(i)
  PROVE  TypeOK'
<1>1. SUFFICES ASSUME NEW newTable, EditTable(newTable), IsPartial(newTable, Row)
               PROVE  TypeOK'
  <2>1. CASE DeleteWebhook(i)
    <3>1. IsPartial([j \in DOMAIN table \ {i} |-> table[j]], Row)
      BY DEF TypeOK, IsPartial
    <3>2. QED
      BY <1>1, <2>1, <3>1 DEF DeleteWebhook
  <2>2. ASSUME NEW row \in Row, CreateWebhook(i, row) PROVE TypeOK'
    <3>1. IsPartial([j \in DOMAIN table \cup {i} |-> IF j = i THEN row ELSE table[j]], Row)
      BY DEF TypeOK, IsPartial
    <3>2. QED
      BY <1>1, <2>2, <3>1 DEF CreateWebhook
  <2>3. ASSUME NEW row \in Row, UpdateWebhook(i, row) PROVE TypeOK'
    <3>1. IsPartial([table EXCEPT ![i] = row], Row)
      BY DEF TypeOK, IsPartial
    <3>2. QED
      BY <1>1, <2>3, <3>1 DEF UpdateWebhook
  <2>4. QED
    BY <2>1, <2>2, <2>3 DEF Edit
<1>2. QED
  BY <1>1 DEF TypeOK, IsPartial, EditTable, runVars

LEMMA RestartType ==
  ASSUME TypeOK, Restart
  PROVE  TypeOK'
<1>1. IsPartial(table, Row)'
  BY DEF TypeOK, IsPartial, Restart, Row
<1>2. IsPartial(webhookMap, WebhookWithStats)'
  BY DEF Restart, IsPartial, Nothing
<1>3. DOMAIN snapshot' = Refreshes /\ \A q \in Refreshes : IsPartial(snapshot'[q], Configs)
  BY DEF Restart, IsPartial, Nothing
<1>4. inFlight' = [i \in Ids |-> 0] /\ phase' = [r \in Refreshes |-> "idle"]
  BY DEF Restart
<1>5. /\ updating' = [r \in Refreshes |-> {}]
      /\ updated' = [r \in Refreshes |-> {}]
      /\ orphaned' = [r \in Refreshes |-> {}]
  BY DEF Restart
<1>6. edits' = edits /\ faults' = faults + 1
  BY DEF Restart
<1>7. inFlight' \in [Ids -> Nat] /\ phase' \in [Refreshes -> Phases]
  BY <1>4 DEF Phases
<1>8. /\ updating' \in [Refreshes -> SUBSET Ids]
      /\ updated' \in [Refreshes -> SUBSET Ids]
      /\ orphaned' \in [Refreshes -> SUBSET Ids]
  BY <1>5
<1>9. edits' \in Nat /\ faults' \in Nat
  BY <1>6 DEF TypeOK
<1>10. started' \in BOOLEAN
  BY DEF Restart
<1>11. QED
  BY <1>1, <1>2, <1>3, <1>7, <1>8, <1>9, <1>10 DEF TypeOK

LEMMA NextType == TypeOK /\ [Next]_vars => TypeOK'
<1> SUFFICES ASSUME TypeOK, [Next]_vars PROVE TypeOK'
  OBVIOUS
<1>1. ASSUME NEW r \in Refreshes, RefreshStep(r) PROVE TypeOK'
  BY <1>1, StartRefreshType, LoadActiveType, MergeSnapshotType, DisableWebhookType,
     FinishDisableType DEF RefreshStep
<1>2. ASSUME NEW r \in Refreshes, RefreshFault(r) PROVE TypeOK'
  BY <1>2, LoadFailsType, DisableFailsType DEF RefreshFault
<1>3. ASSUME NEW e \in Events, PostEveryWebhook(e) PROVE TypeOK'
  BY <1>3, PostEveryWebhookType
<1>4. ASSUME NEW i \in Ids, Delivery(i) \/ WindowPasses(i) \/ Edit(i) PROVE TypeOK'
  BY <1>4, DeliveryType, EditType
<1>5. CASE Restart
  BY <1>5, RestartType
<1>6. CASE UNCHANGED vars
  BY <1>6 DEF TypeOK, IsPartial, vars
<1>7. QED
  BY <1>1, <1>2, <1>3, <1>4, <1>5, <1>6 DEF Next

LEMMA InitType == Init => TypeOK
<1> SUFFICES ASSUME Init PROVE TypeOK
  OBVIOUS
<1>1. IsPartial(table, Row)
  BY DEF Init, Partial, IsPartial
<1>2. IsPartial(Nothing, WebhookWithStats) /\ IsPartial(Nothing, Configs)
  BY DEF Nothing, IsPartial
<1>3. QED
  BY <1>1, <1>2 DEF Init, TypeOK, Phases

\* Every variable keeps its type: in particular no answer is counted for a
\* request that was not made, and no row, entry or snapshot is half built.
THEOREM TypeCorrect == Spec => []TypeOK
BY InitType, NextType, PTL DEF Spec

(***************************************************************************)
(* Reliable webhooks stay active                                           *)
(***************************************************************************)
\* A webhook without failures is never found failing, whatever the threshold
LEMMA NoFailureNotFailing == ReliableInv => Failing \cap Reliable = {}
<1> SUFFICES ASSUME ReliableInv, NEW i \in Reliable, i \in Failing PROVE FALSE
  BY DEF Failing
<1>1. webhookMap[i] \in WebhookWithStats /\ webhookMap[i].failureCount = 0
  BY DEF ReliableInv, TypeOK, IsPartial, NoFailureCounted, Failing, Due
<1>2. PICK total \in Nat : 0 * 100 > FailureThreshold * total
  BY <1>1 DEF Failing, ExceedsThreshold, WebhookWithStats
<1>3. FailureThreshold * total \in Nat
  BY SettingsAssumption
<1>4. QED
  BY <1>2, <1>3

LEMMA NoFailureCountedStep ==
  ASSUME ReliableInv, [Next]_vars
  PROVE  NoFailureCounted'
<1> USE DEF ReliableInv, NoFailureCounted
<1>1. ASSUME NEW r \in Refreshes, StartRefresh(r) PROVE NoFailureCounted'
  BY <1>1 DEF StartRefresh, resetStats, TypeOK, IsPartial, WebhookWithStats
<1>2. ASSUME NEW r \in Refreshes, NEW j \in Ids, FinishDisable(r, j)
      PROVE  NoFailureCounted'
  BY <1>2 DEF FinishDisable, resetStats, TypeOK, IsPartial, WebhookWithStats
<1>3. ASSUME NEW r \in Refreshes, MergeSnapshot(r) PROVE NoFailureCounted'
  BY <1>3 DEF MergeSnapshot, MergedEntry, NewWebhookWithStats, TypeOK, IsPartial,
              WebhookWithStats
<1>4. CASE webhookMap' = webhookMap
  BY <1>4
<1>5. ASSUME NEW j \in Ids, DeliverySucceeds(j) PROVE NoFailureCounted'
  BY <1>5 DEF DeliverySucceeds, CanCount, TypeOK, IsPartial, WebhookWithStats
<1>6. ASSUME NEW j \in Ids, DeliveryFails(j) PROVE NoFailureCounted'
  BY <1>6 DEF DeliveryFails, CanCount, TypeOK, IsPartial
<1>7. ASSUME NEW j \in Ids, WindowPasses(j) PROVE NoFailureCounted'
  BY <1>7 DEF WindowPasses, TypeOK, IsPartial, WebhookWithStats
<1>8. ASSUME NEW j \in Ids, Edit(j) PROVE NoFailureCounted'
  BY <1>8 DEF Edit, CreateWebhook, UpdateWebhook, DeleteWebhook, EditTable
<1>9. ASSUME NEW e \in Events, PostEveryWebhook(e) PROVE NoFailureCounted'
  BY <1>9 DEF PostEveryWebhook
<1>10. CASE Restart
  <2>1. webhookMap' = Nothing
    BY <1>10 DEF Restart
  <2>2. QED
    BY <2>1 DEF Nothing
<1>11. CASE UNCHANGED vars
  BY <1>11 DEF vars
<1> HIDE DEF ReliableInv, NoFailureCounted
<1>12. ASSUME NEW r \in Refreshes, RefreshStep(r) \/ RefreshFault(r)
       PROVE  NoFailureCounted'
  BY <1>1, <1>2, <1>3, <1>4, <1>12
  DEF RefreshStep, RefreshFault, LoadActive, LoadFails, DisableWebhook, DisableFails
<1>13. ASSUME NEW j \in Ids, Delivery(j) \/ WindowPasses(j) \/ Edit(j)
       PROVE  NoFailureCounted'
  BY <1>5, <1>6, <1>7, <1>8, <1>13 DEF Delivery
<1>14. QED
  BY <1>9, <1>10, <1>11, <1>12, <1>13 DEF Next

LEMMA NoUpdateSentStep ==
  ASSUME ReliableInv, [Next]_vars
  PROVE  NoUpdateSent'
<1> USE DEF NoUpdateSent
<1>1. ASSUME NEW r \in Refreshes, StartRefresh(r) PROVE NoUpdateSent'
  BY <1>1, NoFailureNotFailing DEF StartRefresh, ReliableInv, TypeOK
<1>2. ASSUME NEW r \in Refreshes, NEW j \in Ids, DisableWebhook(r, j) \/ DisableFails(r, j)
      PROVE  NoUpdateSent'
  <2>1. updating' = [updating EXCEPT ![r] = @ \ {j}]
    BY <1>2 DEF DisableWebhook, DisableFails
  <2>2. QED
    BY <2>1 DEF ReliableInv, TypeOK
<1>3. CASE Restart
  <2>1. updating' = [r \in Refreshes |-> {}]
    BY <1>3 DEF Restart
  <2>2. QED
    BY <2>1
<1>4. CASE updating' = updating
  BY <1>4 DEF ReliableInv
<1>5. QED
  BY <1>1, <1>2, <1>3, <1>4
  DEF Next, RefreshStep, RefreshFault, FinishDisable, LoadActive, LoadFails, MergeSnapshot,
      PostEveryWebhook, Delivery, DeliverySucceeds, DeliveryFails, WindowPasses, Edit,
      CreateWebhook, UpdateWebhook, DeleteWebhook, EditTable, vars, runVars

LEMMA ReliableInvariant == Spec => []ReliableInv
<1>1. Init => ReliableInv
  <2> SUFFICES ASSUME Init PROVE ReliableInv
    OBVIOUS
  <2>1. TypeOK
    BY InitType
  <2>2. NoFailureCounted /\ NoUpdateSent
    BY DEF Init, NoFailureCounted, NoUpdateSent, Nothing
  <2>3. QED
    BY <2>1, <2>2 DEF ReliableInv
<1>2. ReliableInv /\ [Next]_vars => ReliableInv'
  BY NextType, NoFailureCountedStep, NoUpdateSentStep DEF ReliableInv
<1>3. QED
  BY <1>1, <1>2, PTL DEF Spec

\* The step that the theorem excludes: no step but an edit deactivates a
\* reliable webhook
LEMMA ReliableStep ==
  ASSUME ReliableInv, [Next]_vars,
         NEW i \in Reliable, i \in ActiveRows, i \in DOMAIN table', ~table'[i].isActive
  PROVE  edits' # edits
<1>1. ASSUME NEW r \in Refreshes, NEW j \in Ids, DisableWebhook(r, j) PROVE FALSE
  <2>1. j # i
    BY <1>1 DEF DisableWebhook, ReliableInv, NoUpdateSent
  <2>2. table'[i] = table[i]
    BY <1>1, <2>1 DEF DisableWebhook, ActiveRows
  <2>3. QED
    BY <2>2 DEF ActiveRows
<1>2. ASSUME NEW j \in Ids, Edit(j) PROVE edits' # edits
  BY <1>2 DEF Edit, CreateWebhook, UpdateWebhook, DeleteWebhook, EditTable, ReliableInv, TypeOK
<1>3. ASSUME Restart PROVE FALSE
  <2>1. PICK landed \in SUBSET UNION {updating[r] : r \in Refreshes} :
          table' = [j \in DOMAIN table |->
                      IF j \in landed THEN [table[j] EXCEPT !.isActive = FALSE] ELSE table[j]]
    BY <1>3 DEF Restart
  <2>2. i \notin landed
    BY <2>1 DEF ReliableInv, NoUpdateSent
  <2>3. table'[i] = table[i]
    BY <2>1, <2>2 DEF ActiveRows
  <2>4. QED
    BY <2>3 DEF ActiveRows
<1>4. ASSUME table' = table PROVE FALSE
  BY <1>4 DEF ActiveRows
<1>5. QED
  BY <1>1, <1>2, <1>3, <1>4
  DEF Next, RefreshStep, RefreshFault, StartRefresh, DisableFails, FinishDisable, LoadActive,
      LoadFails, MergeSnapshot, PostEveryWebhook, Delivery, DeliverySucceeds, DeliveryFails,
      WindowPasses, vars

\* A webhook whose endpoint answers every delivery with 2xx is deactivated by
\* nobody but an operator, for any number of webhooks and of overlapping refresh
\* runs, any threshold, and any restarts and database errors.
THEOREM ReliableWebhooksStayActive == Spec => ReliableStaysActive
<1>1. ReliableInv /\ [Next]_vars
        => [\A i \in Reliable :
              (i \in ActiveRows /\ i \in DOMAIN table' /\ ~table'[i].isActive)
                => edits' # edits]_vars
  BY ReliableStep
<1>2. QED
  BY <1>1, ReliableInvariant, PTL DEF Spec, ReliableStaysActive

(***************************************************************************)
(* Statistics survive a refresh                                            *)
(***************************************************************************)
\* What StatsSurviveRefresh says of one step and one webhook
KeepsCounts(i) ==
  \/ webhookMap[i].windowPassed
  \/ \E r \in Refreshes : i \in updated[r] \ orphaned[r]
  \/ /\ webhookMap'[i].successCount >= webhookMap[i].successCount
     /\ webhookMap'[i].failureCount >= webhookMap[i].failureCount

\* Counts are numbers, so an entry that is not touched keeps them
LEMMA UntouchedKeepsCounts ==
  ASSUME TypeOK, NEW i \in DOMAIN webhookMap,
         webhookMap'[i].successCount = webhookMap[i].successCount,
         webhookMap'[i].failureCount = webhookMap[i].failureCount
  PROVE  KeepsCounts(i)
BY DEF KeepsCounts, TypeOK, IsPartial, WebhookWithStats

LEMMA StepKeepsCounts ==
  ASSUME TypeOK, [Next]_vars,
         NEW i \in DOMAIN webhookMap \cap DOMAIN webhookMap'
  PROVE  KeepsCounts(i)
<1>1. ASSUME NEW r \in Refreshes, StartRefresh(r) PROVE KeepsCounts(i)
  <2>1. CASE i \in Due
    BY <2>1 DEF Due, KeepsCounts
  <2>2. CASE i \notin Due
    <3>1. webhookMap'[i] = webhookMap[i]
      BY <1>1, <2>2 DEF StartRefresh
    <3>2. QED
      BY <3>1, UntouchedKeepsCounts
  <2>3. QED
    BY <2>1, <2>2
<1>2. ASSUME NEW r \in Refreshes, NEW j \in Ids, FinishDisable(r, j) PROVE KeepsCounts(i)
  <2>1. CASE i = j /\ j \notin orphaned[r]
    BY <1>2, <2>1 DEF FinishDisable, KeepsCounts
  <2>2. CASE ~(i = j /\ j \notin orphaned[r])
    <3>1. webhookMap'[i] = webhookMap[i]
      BY <1>2, <2>2 DEF FinishDisable
    <3>2. QED
      BY <3>1, UntouchedKeepsCounts
  <2>3. QED
    BY <2>1, <2>2
<1>3. ASSUME NEW r \in Refreshes, MergeSnapshot(r) PROVE KeepsCounts(i)
  <2>1. webhookMap'[i] = MergedEntry(i, snapshot[r][i])
    BY <1>3 DEF MergeSnapshot
  <2>2. webhookMap[i] \in WebhookWithStats
    BY DEF TypeOK, IsPartial
  <2>3. /\ webhookMap'[i].successCount = webhookMap[i].successCount
        /\ webhookMap'[i].failureCount = webhookMap[i].failureCount
    BY <2>1, <2>2 DEF MergedEntry, WebhookWithStats
  <2>4. QED
    BY <2>3, UntouchedKeepsCounts
<1>4. ASSUME NEW j \in Ids, Delivery(j) \/ WindowPasses(j) PROVE KeepsCounts(i)
  BY <1>4 DEF Delivery, DeliverySucceeds, DeliveryFails, CanCount, WindowPasses, KeepsCounts,
              TypeOK, IsPartial, WebhookWithStats
<1>5. CASE webhookMap' = webhookMap
  BY <1>5, UntouchedKeepsCounts
<1>6. CASE Restart
  BY <1>6 DEF Restart, Nothing
<1>7. ASSUME NEW r \in Refreshes, RefreshStep(r) \/ RefreshFault(r) PROVE KeepsCounts(i)
  BY <1>1, <1>2, <1>3, <1>5, <1>7
  DEF RefreshStep, RefreshFault, LoadActive, LoadFails, DisableWebhook, DisableFails
<1>8. ASSUME NEW j \in Ids, Edit(j) PROVE KeepsCounts(i)
  BY <1>5, <1>8 DEF Edit, CreateWebhook, UpdateWebhook, DeleteWebhook, EditTable
<1>9. QED
  BY <1>4, <1>5, <1>6, <1>7, <1>8 DEF Next, PostEveryWebhook, vars

\* However many refresh runs overlap, none loses the counts of a webhook that
\* stays in the map, except after its window or its own disabling.
THEOREM StatisticsSurviveRefresh == Spec => StatsSurviveRefresh
<1>1. TypeOK /\ [Next]_vars => [\A i \in DOMAIN webhookMap \cap DOMAIN webhookMap' :
                                KeepsCounts(i)]_vars
  BY StepKeepsCounts
<1>2. QED
  BY <1>1, TypeCorrect, PTL DEF Spec, StatsSurviveRefresh, KeepsCounts

(***************************************************************************)
(* Refinement of WebhookCache                                              *)
(***************************************************************************)
Reads == [r \in Loaded |-> snapshot[r]]

LEMMA ActiveType == TypeOK => Active \in Abstract!Partial
<1> SUFFICES ASSUME TypeOK PROVE Active \in Abstract!Partial
  OBVIOUS
<1>1. ActiveRows \subseteq Ids /\ Active \in [ActiveRows -> Configs]
  BY DEF TypeOK, IsPartial, Row, ActiveRows, Active
<1>2. QED
  BY <1>1 DEF Abstract!Partial

\* A step on the row of one id alone
LEMMA EditsOneRow ==
  ASSUME TypeOK, TypeOK', NEW i \in Ids,
         DOMAIN table' \ {i} = DOMAIN table \ {i},
         \A j \in DOMAIN table \ {i} : table'[j] = table[j],
         UNCHANGED <<Cached, Reads>>
  PROVE  Abstract!Edit(i)
<1>1. Active' \in Abstract!Partial
  <2>1. ActiveRows' \subseteq Ids /\ Active' \in [ActiveRows' -> Configs]
    BY DEF TypeOK, IsPartial, Row, ActiveRows, Active
  <2>2. QED
    BY <2>1 DEF Abstract!Partial
<1>2. ActiveRows' \ {i} = ActiveRows \ {i}
  BY DEF ActiveRows
<1>3. \A j \in DOMAIN Active \ {i} : Active'[j] = Active[j]
  BY <1>2 DEF Active, ActiveRows
<1>4. DOMAIN Active' \ {i} = DOMAIN Active \ {i}
  BY <1>2 DEF Active
<1>5. QED
  BY <1>1, <1>3, <1>4 DEF Abstract!Edit, Reads

LEMMA TableStepsRefine ==
  ASSUME TypeOK, TypeOK', NEW i \in Ids,
         Edit(i) \/ \E r \in Refreshes : DisableWebhook(r, i)
  PROVE  Abstract!Edit(i)
<1>1. UNCHANGED <<webhookMap, phase, snapshot>>
  BY DEF Edit, CreateWebhook, UpdateWebhook, DeleteWebhook, EditTable, DisableWebhook, runVars
<1>2. UNCHANGED <<Cached, Reads>>
  BY <1>1 DEF Cached, Reads, Loaded
<1>3. /\ DOMAIN table' \ {i} = DOMAIN table \ {i}
      /\ \A j \in DOMAIN table \ {i} : table'[j] = table[j]
  BY DEF TypeOK, IsPartial, Edit, CreateWebhook, UpdateWebhook, DeleteWebhook, EditTable,
         DisableWebhook
<1>4. QED
  BY <1>2, <1>3, EditsOneRow

LEMMA LoadActiveRefines ==
  ASSUME TypeOK, NEW r \in Refreshes, LoadActive(r)
  PROVE  Abstract!Read(r)
<1>1. /\ r \notin Loaded /\ Loaded' = Loaded \cup {r}
      /\ snapshot' = [snapshot EXCEPT ![r] = Active]
      /\ UNCHANGED <<table, webhookMap>>
  BY DEF TypeOK, LoadActive, HealthChecked, Loaded, Active, Phases
<1>2. Reads' = [q \in DOMAIN Reads \cup {r} |-> IF q = r THEN Active ELSE Reads[q]]
  BY <1>1 DEF TypeOK, Reads, Loaded
<1>3. UNCHANGED <<Active, Cached>>
  BY <1>1 DEF Active, ActiveRows, Cached
<1>4. r \notin DOMAIN Reads
  BY <1>1 DEF Reads
<1>5. QED
  BY <1>2, <1>3, <1>4 DEF Abstract!Read, Reads

LEMMA MergeSnapshotRefines ==
  ASSUME TypeOK, NEW r \in Refreshes, MergeSnapshot(r)
  PROVE  Abstract!Install(r)
<1>1. /\ r \in Loaded /\ Loaded' = Loaded \ {r}
      /\ \A q \in Loaded \ {r} : snapshot'[q] = snapshot[q]
  BY DEF TypeOK, MergeSnapshot, Loaded, Phases
<1>2. Reads' = [q \in DOMAIN Reads \ {r} |-> Reads[q]] /\ r \in DOMAIN Reads
  BY <1>1 DEF Reads
<1>3. \A i \in DOMAIN snapshot[r] : MergedEntry(i, snapshot[r][i]).config = snapshot[r][i]
  BY DEF TypeOK, IsPartial, MergedEntry, NewWebhookWithStats, WebhookWithStats
<1>4. webhookMap' = [i \in DOMAIN snapshot[r] |-> MergedEntry(i, snapshot[r][i])]
  BY DEF MergeSnapshot
<1>5. Cached' = [i \in DOMAIN snapshot[r] |-> snapshot[r][i]]
  BY <1>3, <1>4 DEF Cached
<1>6. Cached' = Reads[r]
  BY <1>1, <1>5 DEF TypeOK, IsPartial, Reads
<1>7. UNCHANGED Active
  BY DEF MergeSnapshot, Active, ActiveRows
<1>8. QED
  BY <1>2, <1>6, <1>7 DEF Abstract!Install, Reads

LEMMA RestartRefines ==
  ASSUME TypeOK, Restart
  PROVE  Abstract!Reset
<1>1. PICK landed \in SUBSET UNION {updating[r] : r \in Refreshes} :
        table' = [i \in DOMAIN table |->
                    IF i \in landed THEN [table[i] EXCEPT !.isActive = FALSE] ELSE table[i]]
  BY DEF Restart
<1>2. ActiveRows' \subseteq ActiveRows /\ \A i \in ActiveRows' : table'[i] = table[i]
  BY <1>1 DEF TypeOK, IsPartial, Row, ActiveRows
<1>3. \E kept \in SUBSET DOMAIN Active : Active' = [i \in kept |-> Active[i]]
  <2>1. Active' = [i \in ActiveRows' |-> Active[i]]
    BY <1>2 DEF Active
  <2>2. ActiveRows' \in SUBSET DOMAIN Active
    BY <1>2 DEF Active
  <2>3. QED
    BY <2>1, <2>2
<1>4. Loaded' = {} /\ DOMAIN webhookMap' = {}
  BY DEF Restart, Loaded, Nothing
<1>5. Cached' = Abstract!Nothing /\ Reads' = Abstract!Nothing
  BY <1>4 DEF Cached, Reads, Abstract!Nothing
<1>6. QED
  BY <1>3, <1>5 DEF Abstract!Reset, Reads

\* A step that changes statistics alone
KeepsConfigs ==
  /\ DOMAIN webhookMap' = DOMAIN webhookMap
  /\ \A i \in DOMAIN webhookMap : webhookMap'[i].config = webhookMap[i].config

\* Statistics, health checks and failed queries are not seen
LEMMA OthersStutter ==
  ASSUME TypeOK,
         \/ \E r \in Refreshes : StartRefresh(r) \/ LoadFails(r)
         \/ \E r \in Refreshes, i \in Ids : FinishDisable(r, i) \/ DisableFails(r, i)
         \/ \E e \in Events : PostEveryWebhook(e)
         \/ \E i \in Ids : Delivery(i) \/ WindowPasses(i)
         \/ UNCHANGED vars
  PROVE  UNCHANGED <<Active, Cached, Reads>>
<1>1. /\ table' = table /\ snapshot' = snapshot
      /\ Loaded' = Loaded
  BY DEF TypeOK, Phases, Loaded, StartRefresh, LoadFails, HealthChecked, FinishDisable,
         DisableFails, PostEveryWebhook, Delivery, DeliverySucceeds, DeliveryFails,
         WindowPasses, runVars, vars
<1>2. KeepsConfigs
  <2> USE DEF KeepsConfigs
  <2>1. \A w \in WebhookWithStats : resetStats(w).config = w.config
    BY DEF resetStats, WebhookWithStats
  <2>2. \A i \in DOMAIN webhookMap : webhookMap[i] \in WebhookWithStats
    BY DEF TypeOK, IsPartial
  <2>3. ASSUME NEW r \in Refreshes, StartRefresh(r) \/ \E i \in Ids : FinishDisable(r, i)
        PROVE  KeepsConfigs
    BY <2>1, <2>2, <2>3 DEF StartRefresh, FinishDisable
  <2>4. ASSUME NEW i \in Ids, Delivery(i) \/ WindowPasses(i)
        PROVE  KeepsConfigs
    BY <2>2, <2>4 DEF Delivery, DeliverySucceeds, DeliveryFails, WindowPasses,
                      WebhookWithStats
  <2>5. CASE \/ \E r \in Refreshes : LoadFails(r) \/ \E i \in Ids : DisableFails(r, i)
             \/ \E e \in Events : PostEveryWebhook(e)
             \/ UNCHANGED vars
    <3>1. webhookMap' = webhookMap
      BY <2>5 DEF LoadFails, DisableFails, PostEveryWebhook, vars
    <3>2. QED
      BY <3>1
  <2>6. QED
    BY <2>3, <2>4, <2>5
<1>3. QED
  BY <1>1, <1>2 DEF KeepsConfigs, Active, ActiveRows, Cached, Reads

LEMMA NextRefines == TypeOK /\ [Next]_vars => [Abstract!Next]_(Abstract!vars)
<1> SUFFICES ASSUME TypeOK, [Next]_vars PROVE [Abstract!Next]_(Abstract!vars)
  OBVIOUS
<1>1. TypeOK'
  BY NextType
<1>2. ASSUME NEW i \in Ids, Edit(i) \/ \E r \in Refreshes : DisableWebhook(r, i)
      PROVE  Abstract!Next
  BY <1>1, <1>2, TableStepsRefine DEF Abstract!Next
<1>3. ASSUME NEW r \in Refreshes, LoadActive(r) \/ MergeSnapshot(r) PROVE Abstract!Next
  BY <1>3, LoadActiveRefines, MergeSnapshotRefines DEF Abstract!Next
<1>4. CASE Restart
  BY <1>4, RestartRefines DEF Abstract!Next
<1>5. ASSUME UNCHANGED <<Active, Cached, Reads>> PROVE UNCHANGED Abstract!vars
  BY <1>5 DEF Abstract!vars, Reads
<1>6. QED
  BY <1>2, <1>3, <1>4, <1>5, OthersStutter DEF Next, RefreshStep, RefreshFault

LEMMA InitRefines == Init => Abstract!Init
<1> SUFFICES ASSUME Init PROVE Abstract!Init
  OBVIOUS
<1>1. Active \in Abstract!Partial
  BY InitType, ActiveType
<1>2. Loaded = {} /\ DOMAIN webhookMap = {}
  BY DEF Init, Loaded, Nothing
<1>3. Cached = Abstract!Nothing /\ Reads = Abstract!Nothing
  BY <1>2 DEF Cached, Reads, Abstract!Nothing
<1>4. QED
  BY <1>1, <1>3 DEF Abstract!Init, Reads

\* At every moment the map holds one SELECT's answer as a whole, whatever the health
\* checks, the deliveries and other refresh runs do meanwhile (refreshWebhookMap).
THEOREM DispatcherIsWebhookCache == Spec => ImplementsWebhookCache
BY InitRefines, NextRefines, TypeCorrect, PTL
   DEF Spec, ImplementsWebhookCache, Abstract!Spec

(***************************************************************************)
(* Off means off                                                           *)
(***************************************************************************)
\* The failure rate never exceeds 100%
LEMMA NoRateExceeds100 ==
  ASSUME NEW w \in WebhookWithStats, FailureThreshold >= 100
  PROVE  ~ExceedsThreshold(w)
<1> DEFINE total == w.successCount + w.failureCount
<1>1. w.successCount \in Nat /\ w.failureCount \in Nat /\ FailureThreshold \in Nat
  BY SettingsAssumption DEF WebhookWithStats
<1>2. \A t, n \in Nat : t >= 100 => t * n >= 100 * n
  OBVIOUS
<1>3. FailureThreshold * total >= 100 * total
  BY <1>1, <1>2
<1>4. w.failureCount * 100 <= 100 * total
  BY <1>1
<1>5. QED
  BY <1>1, <1>3, <1>4 DEF ExceedsThreshold

\* The configurations that switch auto-disable off
DisablingOff == ~AutoDisable \/ FailureThreshold >= 100

OffInv == TypeOK /\ \A r \in Refreshes : updating[r] = {}

LEMMA OffStep == DisablingOff /\ OffInv /\ [Next]_vars => OffInv'
<1> SUFFICES ASSUME DisablingOff, OffInv, [Next]_vars PROVE OffInv'
  OBVIOUS
<1>1. TypeOK'
  BY NextType DEF OffInv
<1>2. ASSUME NEW r \in Refreshes, StartRefresh(r) PROVE Failing = {}
  BY NoRateExceeds100 DEF DisablingOff, OffInv, TypeOK, IsPartial, Failing, Due
<1>3. \A q \in Refreshes : updating'[q] = {}
  <2>1. ASSUME NEW r \in Refreshes, RefreshStep(r) \/ RefreshFault(r)
        PROVE  \A q \in Refreshes : updating'[q] = {}
    BY <1>2, <2>1 DEF RefreshStep, RefreshFault, StartRefresh, LoadActive, MergeSnapshot,
                      DisableWebhook, FinishDisable, LoadFails, DisableFails, OffInv, TypeOK
  <2>2. CASE Restart
    BY <2>2 DEF Restart
  <2>3. ASSUME \/ \E e \in Events : PostEveryWebhook(e)
               \/ \E i \in Ids : Delivery(i) \/ WindowPasses(i) \/ Edit(i)
               \/ UNCHANGED vars
        PROVE  updating' = updating
    BY <2>3 DEF PostEveryWebhook, Delivery, DeliverySucceeds, DeliveryFails, WindowPasses, Edit,
                CreateWebhook, UpdateWebhook, DeleteWebhook, EditTable, runVars, vars
  <2>4. QED
    BY <2>1, <2>2, <2>3 DEF Next, OffInv
<1>4. QED
  BY <1>1, <1>3 DEF OffInv

\* Switched off by WEBHOOK_AUTO_DISABLE, or by a threshold that no rate exceeds, the
\* health job changes no row at all, restarts and failed queries included: only
\* operators do (checkWebhooksHealth).
THEOREM OffMeansOff ==
  ASSUME DisablingOff
  PROVE  Spec => [][table' = table \/ edits' # edits]_vars
<1>1. Init => OffInv
  BY InitType DEF Init, OffInv
<1>2. OffInv /\ [Next]_vars => [table' = table \/ edits' # edits]_vars
  <2> SUFFICES ASSUME OffInv, Next, table' # table PROVE edits' # edits
    OBVIOUS
  <2>1. ASSUME NEW i \in Ids, Edit(i) PROVE edits' # edits
    BY <2>1 DEF Edit, CreateWebhook, UpdateWebhook, DeleteWebhook, EditTable, OffInv, TypeOK
  <2>2. ASSUME NEW r \in Refreshes, RefreshStep(r) \/ RefreshFault(r) PROVE FALSE
    BY <2>2 DEF RefreshStep, RefreshFault, StartRefresh, LoadActive, MergeSnapshot,
                DisableWebhook, FinishDisable, LoadFails, DisableFails, OffInv
  <2>3. CASE Restart
    <3>1. UNION {updating[r] : r \in Refreshes} = {}
      BY DEF OffInv
    <3>2. table' = [i \in DOMAIN table |-> table[i]]
      BY <2>3, <3>1 DEF Restart
    <3>3. QED
      BY <3>2 DEF OffInv, TypeOK, IsPartial
  <2>4. ASSUME \/ \E e \in Events : PostEveryWebhook(e)
               \/ \E i \in Ids : Delivery(i) \/ WindowPasses(i)
        PROVE  FALSE
    BY <2>4 DEF PostEveryWebhook, Delivery, DeliverySucceeds, DeliveryFails, WindowPasses
  <2>5. QED
    BY <2>1, <2>2, <2>3, <2>4 DEF Next
<1>3. OffInv /\ [Next]_vars => OffInv'
  BY OffStep
<1>4. QED
  BY <1>1, <1>2, <1>3, PTL DEF Spec
=============================================================================
