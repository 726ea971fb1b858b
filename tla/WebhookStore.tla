---------------------------- MODULE WebhookStore ----------------------------
(***************************************************************************)
(* WebhookService: the operations of the management API on the webhook     *)
(* table, with the health job's UPDATE running beside them.                *)
(*                                                                         *)
(* Each query is atomic; an operation of several queries interleaves with  *)
(* every other between them, for no transaction spans them.  PUT has three: *)
(* findOneBy, then the two of TypeORM's save (external), which SELECTs the *)
(* row again and either INSERTs, if there is none, or UPDATEs the columns  *)
(* in which the request differs from what that SELECT returned.            *)
(***************************************************************************)
EXTENDS Naturals

CONSTANTS
  Ids,     \* ids of webhooks; POST draws an unused one
  Urls,    \* values of the url column
  Configs, \* values of the columns besides id, url and isActive
  Clients, \* requests that may be under way at once
  MaxOps   \* bound: requests begun

ASSUME BoundAssumption == MaxOps \in Nat

VARIABLES
  table,     \* id -> row
  used,      \* ids ever drawn
  request,   \* client -> the PUT it has under way
  answer,    \* client -> the answer to its last request
  ops,       \* requests begun so far
  deleted,   \* history: ids a DELETE was answered 204 for
  overtaken  \* history: clients whose PUT has seen its row deleted under way

vars == <<table, used, request, answer, ops, deleted, overtaken>>

Row == [url : Urls, isActive : BOOLEAN, config : Configs]

\* The PUT of a client: idle, or past findOneBy, or past the SELECT of save,
\* which returned the rows of base, one or none
Idle == [step |-> "idle"]
Request ==
  {Idle}
    \cup [step : {"found"}, id : Ids, row : Row]
    \cup [step : {"loaded"}, id : Ids, row : Row, base : {{}} \cup {{b} : b \in Row}]

Answers == {"none", "created", "updated", "deleted", "alreadyExists", "doesNotExist", "error"}

\* Mutant: the url column is not unique
UrlTaken_NotUnique(i, u) == FALSE

\* The unique constraint on url: another row has it
UrlTaken(i, u) == \E j \in DOMAIN table \ {i} : table[j].url = u

PutRow(i, row) ==
  table' = [j \in DOMAIN table \cup {i} |-> IF j = i THEN row ELSE table[j]]

Answer(c, a) == answer' = [answer EXCEPT ![c] = a]

Begin(c) == request[c] = Idle /\ ops < MaxOps /\ ops' = ops + 1

(***************************************************************************)
(* POST: createWebhook                                                     *)
(***************************************************************************)
Create(c, i, row) ==
  /\ Begin(c)
  /\ i \notin used
  /\ used' = used \cup {i}
  /\ \/ /\ ~UrlTaken(i, row.url)
        /\ PutRow(i, row)
        /\ Answer(c, "created")
     \/ /\ UrlTaken(i, row.url)
        /\ Answer(c, "alreadyExists")
        /\ UNCHANGED table
  /\ UNCHANGED <<request, deleted, overtaken>>

(***************************************************************************)
(* PUT: updateWebhook                                                      *)
(***************************************************************************)
\* Mutant: the result of findOneBy is not checked
Exists_Unchecked(i) == TRUE

Exists(i) == i \in DOMAIN table

\* findOneBy, and WebhookDoesNotExist if it returns null
FindForUpdate(c, i, row) ==
  /\ Begin(c)
  /\ \/ /\ Exists(i)
        /\ request' = [request EXCEPT ![c] = [step |-> "found", id |-> i, row |-> row]]
        /\ overtaken' = [overtaken EXCEPT ![c] = FALSE]
        /\ UNCHANGED answer
     \/ /\ ~Exists(i)
        /\ Answer(c, "doesNotExist")
        /\ UNCHANGED <<request, overtaken>>
  /\ UNCHANGED <<table, used, deleted>>

\* The SELECT of save
LoadForSave(c) ==
  /\ request[c].step = "found"
  /\ request' = [request EXCEPT ![c] =
                   [step |-> "loaded", id |-> @.id, row |-> @.row,
                    base |-> {table[i] : i \in DOMAIN table \cap {@.id}}]]
  /\ UNCHANGED <<table, used, answer, ops, deleted, overtaken>>

\* Mutant: the UPDATE sets every column
Changed_AllColumns(f, row, base) == TRUE

\* Mutant: a request that switches isActive off is taken not to mention it
Changed_SkipsFalse(f, row, base) ==
  row[f] # base[f] /\ (f = "isActive" => row.isActive)

\* The columns save sets are those in which the request differs from base
Changed(f, row, base) == row[f] # base[f]

\* Mutant: the columns that are not set are lost
Merge_OnlyChanged(stored, row, base) ==
  [f \in {g \in DOMAIN row : Changed(g, row, base)} |-> row[f]]

\* What the UPDATE makes of the stored row
Merge(stored, row, base) ==
  [f \in {"url", "isActive", "config"} |->
     IF Changed(f, row, base) THEN row[f] ELSE stored[f]]

EndSave(c, a) ==
  /\ Answer(c, a)
  /\ request' = [request EXCEPT ![c] = Idle]
  /\ UNCHANGED <<used, ops, deleted, overtaken>>

\* save with a base: UPDATE the changed columns of the row, if it is still there.
\* A url taken meanwhile fails, and nobody turns that into an answer of its own.
SaveUpdates(c) ==
  /\ request[c].step = "loaded"
  /\ \E base \in request[c].base :
       LET i   == request[c].id
           row == request[c].row
       IN  \/ /\ i \in DOMAIN table
              /\ ~UrlTaken(i, Merge(table[i], row, base).url)
              /\ PutRow(i, Merge(table[i], row, base))
              /\ EndSave(c, "updated")
           \/ /\ i \in DOMAIN table
              /\ UrlTaken(i, Merge(table[i], row, base).url)
              /\ EndSave(c, "error")
              /\ UNCHANGED table
           \/ /\ i \notin DOMAIN table
              /\ EndSave(c, "updated")
              /\ UNCHANGED table

\* save without a base: INSERT
SaveInserts(c) ==
  /\ request[c].step = "loaded"
  /\ request[c].base = {}
  /\ LET i   == request[c].id
         row == request[c].row
     IN  \/ /\ i \notin DOMAIN table /\ ~UrlTaken(i, row.url)
            /\ PutRow(i, row)
            /\ EndSave(c, "updated")
         \/ /\ i \in DOMAIN table \/ UrlTaken(i, row.url)
            /\ EndSave(c, "error")
            /\ UNCHANGED table

(***************************************************************************)
(* DELETE: deleteWebhook                                                   *)
(***************************************************************************)
Delete(c, i) ==
  /\ Begin(c)
  /\ \/ /\ i \in DOMAIN table
        /\ table' = [j \in DOMAIN table \ {i} |-> table[j]]
        /\ deleted' = deleted \cup {i}
        /\ overtaken' = [d \in Clients |->
                           \/ overtaken[d]
                           \/ request[d] # Idle /\ request[d].id = i]
        /\ Answer(c, "deleted")
     \/ /\ i \notin DOMAIN table
        /\ Answer(c, "doesNotExist")
        /\ UNCHANGED <<table, deleted, overtaken>>
  /\ UNCHANGED <<used, request>>

(***************************************************************************)
(* WebhookDispatcherService.disableWebhook                                 *)
(***************************************************************************)
Disable(i) ==
  /\ i \in DOMAIN table
  /\ table[i].isActive
  /\ table' = [table EXCEPT ![i].isActive = FALSE]
  /\ UNCHANGED <<used, request, answer, ops, deleted, overtaken>>

(***************************************************************************)
(* Specification                                                           *)
(***************************************************************************)
Init ==
  /\ table = [i \in {} |-> i]
  /\ used = {}
  /\ request = [c \in Clients |-> Idle]
  /\ answer = [c \in Clients |-> "none"]
  /\ ops = 0
  /\ deleted = {}
  /\ overtaken = [c \in Clients |-> FALSE]

Next ==
  \/ \E c \in Clients, i \in Ids :
       \/ \E row \in Row : Create(c, i, row) \/ FindForUpdate(c, i, row)
       \/ Delete(c, i)
  \/ \E c \in Clients : LoadForSave(c) \/ SaveUpdates(c) \/ SaveInserts(c)
  \/ \E i \in Ids : Disable(i)

Spec == Init /\ [][Next]_vars

(***************************************************************************)
(* Properties                                                              *)
(***************************************************************************)
TypeOK ==
  /\ DOMAIN table \subseteq used
  /\ table \in [DOMAIN table -> Row]
  /\ used \subseteq Ids
  /\ request \in [Clients -> Request]
  /\ answer \in [Clients -> Answers]
  /\ ops \in Nat
  /\ deleted \subseteq used
  /\ overtaken \in [Clients -> BOOLEAN]

\* No two webhooks share a url, so no endpoint gets an event twice, however
\* POSTs and PUTs interleave (the unique column of Webhook, createWebhook).
OneWebhookPerUrl ==
  \A i, j \in DOMAIN table : table[i].url = table[j].url => i = j

\* An inactive webhook becomes active only by a PUT that asks for it and whose save
\* read the row inactive: one whose save read it active does not write isActive, and
\* leaves a deactivation that came since alone.  Not so one that came between
\* findOneBy and the SELECT of save: save sees a difference, and a PUT that found
\* the row active activates it again (updateWebhook).
ActivatedOnlyIfReadInactive ==
  [][\A i \in DOMAIN table \cap DOMAIN table' :
        (~table[i].isActive /\ table'[i].isActive) =>
          \E c \in Clients :
            /\ request[c].step = "loaded"
            /\ request[c].id = i
            /\ request[c].row.isActive
            /\ \E b \in request[c].base : ~b.isActive]_vars

\* A deleted webhook comes back only by a PUT that was under way when it was
\* deleted; a PUT that begins later is refused (updateWebhook).
ReturnsOnlyIfOvertaken ==
  [][\A i \in deleted \cap (DOMAIN table' \ DOMAIN table) :
        \E c \in Clients : request[c] # Idle /\ request[c].id = i /\ overtaken[c]]_vars

\* A PUT answered 200 leaves the row as it asked for, all columns together, unless
\* another operation has changed or deleted the row since its save read it: two
\* PUTs are mixed in one row only if they overlap (updateWebhook).
PutAppliesUnlessRaced ==
  [][\A c \in Clients :
        (request[c].step = "loaded" /\ request'[c] = Idle /\ answer'[c] = "updated") =>
          LET i == request[c].id
          IN  \/ i \in DOMAIN table' /\ table'[i] = request[c].row
              \/ {table[j] : j \in DOMAIN table \cap {i}} # request[c].base]_vars

\* A deleted webhook does not exist and a PUT to it is refused (the test "Should
\* raise exception during upodate if webhook does not exist").  Violated: a PUT
\* overtaken by the DELETE inserts the row again.
DeletedStaysDeleted == deleted \cap DOMAIN table = {}
=============================================================================
