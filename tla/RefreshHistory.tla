--------------------------- MODULE RefreshHistory ---------------------------
(***************************************************************************)
(* WebhookDispatcher with history variables: which refresh runs have been  *)
(* overtaken by a later one, and which webhooks a run has deactivated.     *)
(* They observe the dispatcher and never constrain it; every step is a     *)
(* step of WebhookDispatcher.                                              *)
(***************************************************************************)
EXTENDS WebhookDispatcher

VARIABLES
  readAfter,  \* pairs <<q, r>> of runs yet to merge: r's SELECT came after q's
  overtaken,  \* runs yet to merge whose rows a later SELECT has replaced in the map
  disabledBy  \* webhooks each run has deactivated and nobody has reactivated

historyVars == <<readAfter, overtaken, disabledBy>>

HistoryInit ==
  /\ Init
  /\ readAfter = {}
  /\ overtaken = {}
  /\ disabledBy = [r \in Refreshes |-> {}]

\* The runs that take each step, told apart by their phases
Reading == Loaded' \ Loaded
Merging == {r \in Loaded : started' /\ phase'[r] = "idle"}

Observe ==
  /\ readAfter' = (readAfter \cup (Loaded \X Reading)) \cap (Loaded' \X Loaded')
  /\ overtaken' =
       (overtaken \cup {q \in Loaded : \E r \in Merging :
                          <<q, r>> \in readAfter /\ snapshot[q] # snapshot[r]})
         \cap Loaded'
  /\ disabledBy' = [r \in Refreshes |->
                      IF phase'[r] = "idle" THEN {}
                      ELSE (disabledBy[r] \cup
                              ((updating[r] \ updating'[r]) \cap ActiveRows))
                           \ ActiveRows']

HistoryNext == Next /\ Observe

HistorySpec == HistoryInit /\ [][HistoryNext]_<<vars, historyVars>>

(***************************************************************************)
(* Properties                                                              *)
(***************************************************************************)
\* A webhook that a refresh run deactivated, and nobody reactivated since, is
\* out of the map once the same run has merged: its SELECT comes after all of
\* its UPDATEs (refreshWebhookMap awaits checkWebhooksHealth, which awaits
\* every disableWebhook).
OwnDisableTakesEffect ==
  [][\A r \in Merging :
        DOMAIN webhookMap' \cap disabledBy[r] = {}]_<<vars, historyVars>>

\* No refresh run puts back rows that the map has already replaced by those of a
\* later SELECT ("the webhook map is always in sync with the current state of the
\* active webhooks in the database", refreshWebhookMap).  Violated: the cron job
\* does not wait for its previous firing, and runs may end in any order.
NeverGoesBack == [][Merging \cap overtaken = {}]_<<vars, historyVars>>
=============================================================================
