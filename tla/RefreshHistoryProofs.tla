------------------------ MODULE RefreshHistoryProofs ------------------------
(***************************************************************************)
(* Proof that a refresh run takes the webhooks it deactivates out of the   *)
(* map, for any number of webhooks and of overlapping runs.                *)
(*                                                                         *)
(* The invariant says what the awaits of refreshWebhookMap are for: when   *)
(* the SELECT of a run is executed, none of its UPDATEs is under way, and  *)
(* the rows it returns are active, so none that the run has deactivated is *)
(* among them; and until the run merges, it deactivates nothing more.      *)
(***************************************************************************)
EXTENDS RefreshHistory, WebhookDispatcherProofs

\* Run r, waiting to merge, holds no webhook it has deactivated, nor will it
HoldsNoneDisabled(r) ==
  phase[r] = "loaded" =>
    /\ updating[r] = {}
    /\ DOMAIN snapshot[r] \cap disabledBy[r] = {}

HistoryInv ==
  /\ TypeOK
  /\ \A r \in Refreshes : HoldsNoneDisabled(r)

\* What a run has deactivated grows only with an UPDATE of its own, and never
\* contains an active row
LEMMA DisabledByStep ==
  ASSUME Observe, NEW r \in Refreshes
  PROVE  /\ disabledBy'[r] \cap ActiveRows' = {}
         /\ updating[r] = {} => disabledBy'[r] \subseteq disabledBy[r]
BY DEF Observe

\* A run comes to wait for its merge by its SELECT alone
LEMMA LoadedStep ==
  ASSUME TypeOK, Next, NEW r \in Refreshes, phase'[r] = "loaded"
  PROVE  \/ LoadActive(r)
         \/ /\ phase[r] = "loaded"
            /\ updating'[r] \subseteq updating[r]
            /\ snapshot'[r] = snapshot[r]
<1>1. ASSUME NEW q \in Refreshes, StartRefresh(q)
      PROVE  /\ phase[r] = "loaded"
             /\ updating'[r] \subseteq updating[r]
             /\ snapshot'[r] = snapshot[r]
  BY <1>1 DEF StartRefresh, TypeOK
<1>2. ASSUME NEW q \in Refreshes, LoadActive(q), q # r
      PROVE  /\ phase[r] = "loaded"
             /\ updating'[r] \subseteq updating[r]
             /\ snapshot'[r] = snapshot[r]
  BY <1>2 DEF LoadActive, TypeOK
<1>3. ASSUME NEW q \in Refreshes, MergeSnapshot(q) \/ LoadFails(q)
      PROVE  /\ phase[r] = "loaded"
             /\ updating'[r] \subseteq updating[r]
             /\ snapshot'[r] = snapshot[r]
  BY <1>3 DEF MergeSnapshot, LoadFails, TypeOK
<1>4. ASSUME NEW q \in Refreshes, NEW i \in Ids,
             DisableWebhook(q, i) \/ DisableFails(q, i) \/ FinishDisable(q, i)
      PROVE  /\ phase[r] = "loaded"
             /\ updating'[r] \subseteq updating[r]
             /\ snapshot'[r] = snapshot[r]
  BY <1>4 DEF DisableWebhook, DisableFails, FinishDisable, TypeOK
<1>5. ~Restart
  BY DEF Restart
<1>6. ASSUME \/ \E e \in Events : PostEveryWebhook(e)
             \/ \E i \in Ids : Delivery(i) \/ WindowPasses(i) \/ Edit(i)
      PROVE  UNCHANGED <<phase, updating, snapshot>>
  BY <1>6 DEF PostEveryWebhook, Delivery, DeliverySucceeds, DeliveryFails, WindowPasses, Edit,
              CreateWebhook, UpdateWebhook, DeleteWebhook, EditTable, runVars
<1> QED BY <1>1, <1>2, <1>3, <1>4, <1>5, <1>6 DEF Next, RefreshStep, RefreshFault

LEMMA HistoryInvStep ==
  ASSUME HistoryInv, [HistoryNext]_<<vars, historyVars>>
  PROVE  HistoryInv'
<1>1. CASE UNCHANGED <<vars, historyVars>>
  BY <1>1 DEF HistoryInv, HoldsNoneDisabled, TypeOK, IsPartial, vars, historyVars
<1>2. CASE HistoryNext
  <2>1. TypeOK'
    BY <1>2, NextType DEF HistoryInv, HistoryNext
  <2>2. ASSUME NEW r \in Refreshes, phase'[r] = "loaded"
        PROVE  updating'[r] = {} /\ DOMAIN snapshot'[r] \cap disabledBy'[r] = {}
    <3>1. CASE LoadActive(r)
      <4>1. updating'[r] = {}
        BY <3>1 DEF LoadActive, HealthChecked
      <4>2. DOMAIN snapshot'[r] = ActiveRows
        BY <3>1 DEF LoadActive, HistoryInv, TypeOK
      <4>3. ActiveRows' = ActiveRows
        BY <3>1 DEF LoadActive, ActiveRows
      <4> QED BY <1>2, <4>1, <4>2, <4>3, DisabledByStep DEF HistoryNext
    <3>2. CASE /\ phase[r] = "loaded"
               /\ updating'[r] \subseteq updating[r]
               /\ snapshot'[r] = snapshot[r]
      BY <1>2, <3>2, DisabledByStep DEF HistoryNext, HistoryInv, HoldsNoneDisabled
    <3> QED BY <1>2, <2>2, <3>1, <3>2, LoadedStep DEF HistoryNext, HistoryInv
  <2> QED BY <2>1, <2>2 DEF HistoryInv, HoldsNoneDisabled
<1> QED BY <1>1, <1>2

LEMMA HistoryInvariant == HistorySpec => []HistoryInv
<1>1. HistoryInit => HistoryInv
  <2> SUFFICES ASSUME HistoryInit
               PROVE  HistoryInv
    OBVIOUS
  <2>1. TypeOK
    BY InitType DEF HistoryInit
  <2>2. \A r \in Refreshes : HoldsNoneDisabled(r)
    BY DEF HistoryInit, Init, HoldsNoneDisabled
  <2> QED BY <2>1, <2>2 DEF HistoryInv
<1>2. HistoryInv /\ [HistoryNext]_<<vars, historyVars>> => HistoryInv'
  BY HistoryInvStep
<1> QED BY <1>1, <1>2, PTL DEF HistorySpec

\* The step of OwnDisableTakesEffect: only its own merge ends a run that is waiting
\* for it, short of a restart
LEMMA MergeOmitsDisabled ==
  ASSUME HistoryInv, [HistoryNext]_<<vars, historyVars>>, NEW r \in Merging
  PROVE  DOMAIN webhookMap' \cap disabledBy[r] = {}
<1>1. r \in Refreshes /\ phase[r] = "loaded" /\ phase'[r] = "idle" /\ started'
  BY DEF Merging, Loaded
<1>2. Next
  BY <1>1 DEF HistoryNext, vars
<1>3. ~Restart
  BY <1>1 DEF Restart
<1>4. ASSUME NEW q \in Refreshes, RefreshStep(q) \/ RefreshFault(q)
      PROVE  MergeSnapshot(r)
  <2>1. CASE q = r
    BY <1>1, <1>4, <2>1 DEF RefreshStep, RefreshFault, StartRefresh, LoadActive, LoadFails,
       HealthChecked, DisableWebhook, DisableFails, FinishDisable
  <2>2. CASE q # r
    BY <1>1, <1>4, <2>2 DEF RefreshStep, RefreshFault, StartRefresh, LoadActive, LoadFails,
       MergeSnapshot, DisableWebhook, DisableFails, FinishDisable, HistoryInv, TypeOK
  <2> QED BY <2>1, <2>2
<1>5. ~\E e \in Events : PostEveryWebhook(e)
  BY <1>1 DEF PostEveryWebhook, runVars
<1>6. ~\E i \in Ids : Delivery(i) \/ WindowPasses(i) \/ Edit(i)
  BY <1>1 DEF Delivery, DeliverySucceeds, DeliveryFails, WindowPasses, Edit, CreateWebhook,
              UpdateWebhook, DeleteWebhook, EditTable, runVars
<1>7. MergeSnapshot(r)
  BY <1>2, <1>3, <1>4, <1>5, <1>6 DEF Next
<1>8. DOMAIN webhookMap' = DOMAIN snapshot[r]
  BY <1>7 DEF MergeSnapshot
<1> QED BY <1>1, <1>8 DEF HistoryInv, HoldsNoneDisabled

\* A webhook that a run has deactivated, and nobody reactivated, is out of the map
\* once that run has merged, for any number of overlapping runs (refreshWebhookMap
\* awaits checkWebhooksHealth, which awaits every disableWebhook).
THEOREM RunsTakeOutWhatTheyDisable == HistorySpec => OwnDisableTakesEffect
<1>1. HistoryInv /\ [HistoryNext]_<<vars, historyVars>> =>
        [\A r \in Merging : DOMAIN webhookMap' \cap disabledBy[r] = {}]_<<vars, historyVars>>
  BY MergeOmitsDisabled
<1> QED BY <1>1, HistoryInvariant, PTL DEF HistorySpec, OwnDisableTakesEffect
=============================================================================
