---------------------------- MODULE WebhookCache ----------------------------
(***************************************************************************)
(* What the webhook map promises to those who post from it, without        *)
(* statistics, health checks or awaits: it is empty after a start and from *)
(* then on always one whole answer of the database to "which webhooks are  *)
(* active", never a mixture of two, and no part of it changes by itself.   *)
(* Answers are installed in any order.                                     *)
(***************************************************************************)
CONSTANTS
  Ids,     \* ids of webhooks
  Configs, \* what a row says besides its id and isActive
  Readers  \* refresh runs that may be under way at once

VARIABLES
  active, \* the active rows of the table: id -> config
  cached, \* the map: id -> config
  reads   \* reader -> the active rows it has read and not yet installed

vars == <<active, cached, reads>>

Partial == UNION {[D -> Configs] : D \in SUBSET Ids}

Nothing == [i \in {} |-> i]

\* The row of i is created, edited, activated, deactivated or deleted
Edit(i) ==
  /\ active' \in Partial
  /\ DOMAIN active' \ {i} = DOMAIN active \ {i}
  /\ \A j \in DOMAIN active \ {i} : active'[j] = active[j]
  /\ UNCHANGED <<cached, reads>>

Read(r) ==
  /\ r \notin DOMAIN reads
  /\ reads' = [q \in DOMAIN reads \cup {r} |-> IF q = r THEN active ELSE reads[q]]
  /\ UNCHANGED <<active, cached>>

Install(r) ==
  /\ r \in DOMAIN reads
  /\ cached' = reads[r]
  /\ reads' = [q \in DOMAIN reads \ {r} |-> reads[q]]
  /\ UNCHANGED active

\* The process starts again, some webhooks having been deactivated by the old one
Reset ==
  /\ \E kept \in SUBSET DOMAIN active : active' = [i \in kept |-> active[i]]
  /\ cached' = Nothing
  /\ reads' = Nothing

Init ==
  /\ active \in Partial
  /\ cached = Nothing
  /\ reads = Nothing

Next ==
  \/ \E i \in Ids : Edit(i)
  \/ \E r \in Readers : Read(r) \/ Install(r)
  \/ Reset

Spec == Init /\ [][Next]_vars
=============================================================================
