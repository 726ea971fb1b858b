-------------------------- MODULE WebhookStoreProofs --------------------------
(***************************************************************************)
(* Proofs about WebhookStore, for any ids, urls, configurations, clients   *)
(* and number of requests: what POST, PUT, DELETE and the health job's     *)
(* UPDATE promise although no transaction spans their queries.             *)
(***************************************************************************)
EXTENDS WebhookStore, TLAPS

(***************************************************************************)
(* Rows                                                                    *)
(***************************************************************************)
\* What UPDATE makes of a row is a row
LEMMA MergeType ==
  ASSUME NEW stored \in Row, NEW row \in Row, NEW base \in Row
  PROVE  Merge(stored, row, base) \in Row
BY DEF Merge, Row

\* An UPDATE against the row that the save read makes it the one requested
LEMMA MergeUnraced ==
  ASSUME NEW row \in Row, NEW base \in Row
  PROVE  Merge(base, row, base) = row
BY DEF Merge, Changed, Row

\* An UPDATE that activates a row was asked to, by a save that read it inactive
LEMMA MergeActivates ==
  ASSUME NEW stored \in Row, NEW row \in Row, NEW base \in Row,
         ~stored.isActive, Merge(stored, row, base).isActive
  PROVE  row.isActive /\ ~base.isActive
BY DEF Merge, Changed, Row

\* A PUT under way has an id and a row; after the SELECT of its save, it also has
\* what that returned
LEMMA RequestType ==
  ASSUME TypeOK, NEW c \in Clients
  PROVE  /\ request[c] # Idle => request[c].id \in Ids /\ request[c].row \in Row
         /\ request[c].step = "loaded" =>
              request[c] # Idle
                /\ (request[c].base = {} \/ \E b \in Row : request[c].base = {b})
         /\ request[c].step = "found" => request[c] # Idle
BY DEF TypeOK, Request, Idle

(***************************************************************************)
(* Type correctness                                                        *)
(***************************************************************************)
TableTypeOK ==
  /\ DOMAIN table \subseteq used
  /\ table \in [DOMAIN table -> Row]
  /\ used \subseteq Ids
  /\ deleted \subseteq used

\* Storing a row under an id that has been drawn
LEMMA PutRowType ==
  ASSUME TypeOK, NEW i \in used', NEW row \in Row, PutRow(i, row),
         used \subseteq used', used' \subseteq Ids, deleted' = deleted
  PROVE  TableTypeOK'
BY DEF TypeOK, PutRow, TableTypeOK

LEMMA CreateType ==
  ASSUME TypeOK, NEW c \in Clients, NEW i \in Ids, NEW row \in Row, Create(c, i, row)
  PROVE  TypeOK'
<1>1. TableTypeOK'
  <2>1. CASE PutRow(i, row)
    BY <2>1, PutRowType DEF TypeOK, Create
  <2>2. CASE UNCHANGED table
    BY <2>2 DEF TypeOK, TableTypeOK, Create
  <2> QED BY <2>1, <2>2 DEF Create
<1>2. answer' \in [Clients -> Answers] /\ ops' \in Nat
  BY DEF TypeOK, Create, Begin, Answer, Answers
<1> QED BY <1>1, <1>2 DEF TypeOK, TableTypeOK, Create

LEMMA FindForUpdateType ==
  ASSUME TypeOK, NEW c \in Clients, NEW i \in Ids, NEW row \in Row, FindForUpdate(c, i, row)
  PROVE  TypeOK'
<1>1. [step |-> "found", id |-> i, row |-> row] \in Request
  BY DEF Request
<1>2. request' \in [Clients -> Request] /\ overtaken' \in [Clients -> BOOLEAN]
  BY <1>1 DEF TypeOK, FindForUpdate
<1>3. answer' \in [Clients -> Answers] /\ ops' \in Nat
  BY DEF TypeOK, FindForUpdate, Begin, Answer, Answers
<1> QED BY <1>2, <1>3 DEF TypeOK, FindForUpdate

LEMMA LoadForSaveType ==
  ASSUME TypeOK, NEW c \in Clients, LoadForSave(c)
  PROVE  TypeOK'
<1> DEFINE found == {table[i] : i \in DOMAIN table \cap {request[c].id}}
<1>1. found \in {{}} \cup {{b} : b \in Row}
  BY DEF TypeOK
<1>2. request[c].id \in Ids /\ request[c].row \in Row
  BY RequestType DEF LoadForSave
<1>3. request' = [request EXCEPT ![c] = [step |-> "loaded", id |-> request[c].id,
                                         row |-> request[c].row, base |-> found]]
  BY DEF LoadForSave, TypeOK
<1> HIDE DEF found
<1>4. request' \in [Clients -> Request]
  BY <1>1, <1>2, <1>3 DEF TypeOK, Request
<1> QED BY <1>4 DEF TypeOK, LoadForSave

\* The end of a PUT
LEMMA EndSaveType ==
  ASSUME TypeOK, NEW c \in Clients, NEW a \in Answers, EndSave(c, a), TableTypeOK'
  PROVE  TypeOK'
<1>1. request' \in [Clients -> Request]
  BY DEF TypeOK, EndSave, Request
<1>2. answer' \in [Clients -> Answers]
  BY DEF TypeOK, EndSave, Answer
<1> QED BY <1>1, <1>2 DEF TypeOK, TableTypeOK, EndSave

\* What a save does, by its three outcomes: the UPDATE of a row that is there,
\* the INSERT of one that is not, or nothing
Updates(c, base) ==
  LET i == request[c].id
  IN  /\ i \in DOMAIN table
      /\ ~UrlTaken(i, Merge(table[i], request[c].row, base).url)
      /\ PutRow(i, Merge(table[i], request[c].row, base))
      /\ EndSave(c, "updated")

Inserts(c) ==
  LET i == request[c].id
  IN  /\ i \notin DOMAIN table
      /\ ~UrlTaken(i, request[c].row.url)
      /\ PutRow(i, request[c].row)
      /\ EndSave(c, "updated")

Nowhere(c) ==
  /\ UNCHANGED table
  /\ \/ EndSave(c, "error")
     \/ EndSave(c, "updated") /\ request[c].id \notin DOMAIN table

LEMMA SaveOutcomes ==
  ASSUME TypeOK, NEW c \in Clients, SaveUpdates(c) \/ SaveInserts(c)
  PROVE  /\ request[c].step = "loaded"
         /\ \/ \E base \in Row : request[c].base = {base} /\ (Updates(c, base) \/ Nowhere(c))
            \/ request[c].base = {} /\ (Inserts(c) \/ (Nowhere(c) /\ EndSave(c, "error")))
<1>1. request[c].step = "loaded"
  BY DEF SaveUpdates, SaveInserts
<1>2. request[c].base = {} \/ \E b \in Row : request[c].base = {b}
  BY <1>1, RequestType
<1>3. CASE SaveUpdates(c)
  <2>1. PICK base \in request[c].base : Updates(c, base) \/ Nowhere(c)
    BY <1>3 DEF SaveUpdates, Updates, Nowhere
  <2>2. base \in Row /\ request[c].base = {base}
    BY <1>2, <2>1
  <2> QED BY <1>1, <2>1, <2>2
<1>4. CASE SaveInserts(c)
  BY <1>1, <1>4 DEF SaveInserts, Inserts, Nowhere
<1> QED BY <1>3, <1>4

\* The webhook of a PUT under way has been drawn; it exists, or the PUT has seen it
\* deleted.
UnderWay ==
  \A c \in Clients :
    request[c] # Idle =>
      /\ request[c].id \in used
      /\ request[c].id \in DOMAIN table \/ overtaken[c]

LEMMA SaveType ==
  ASSUME TypeOK, UnderWay, NEW c \in Clients, SaveUpdates(c) \/ SaveInserts(c)
  PROVE  TypeOK'
<1>1. /\ request[c].step = "loaded"
      /\ \/ \E base \in Row : request[c].base = {base} /\ (Updates(c, base) \/ Nowhere(c))
         \/ request[c].base = {} /\ (Inserts(c) \/ (Nowhere(c) /\ EndSave(c, "error")))
  BY SaveOutcomes
<1>2. request[c].row \in Row
  BY <1>1, RequestType
<1>3. "updated" \in Answers /\ "error" \in Answers
  BY DEF Answers
<1>4. ASSUME NEW base \in Row, Updates(c, base)
      PROVE  TypeOK'
  <2>1. request[c].id \in used' /\ EndSave(c, "updated")
    BY <1>4 DEF Updates, TypeOK, EndSave
  <2>2. Merge(table[request[c].id], request[c].row, base) \in Row
    BY <1>2, <1>4, MergeType DEF Updates, TypeOK
  <2>3. TableTypeOK'
    BY <1>4, <2>1, <2>2, PutRowType DEF Updates, EndSave, TypeOK
  <2> QED BY <1>3, <2>1, <2>3, EndSaveType
<1>5. CASE Nowhere(c)
  <2>1. TableTypeOK'
    BY <1>5 DEF Nowhere, EndSave, TypeOK, TableTypeOK
  <2> QED BY <1>3, <1>5, <2>1, EndSaveType DEF Nowhere
<1>6. CASE Inserts(c)
  <2>1. request[c].id \in used'
    BY <1>1, <1>6, RequestType DEF UnderWay, Inserts, EndSave
  <2>2. EndSave(c, "updated")
    BY <1>6 DEF Inserts
  <2>3. TableTypeOK'
    BY <1>2, <1>6, <2>1, <2>2, PutRowType DEF Inserts, EndSave, TypeOK
  <2> QED BY <1>3, <2>2, <2>3, EndSaveType
<1> QED BY <1>1, <1>4, <1>5, <1>6

LEMMA DeleteType ==
  ASSUME TypeOK, NEW c \in Clients, NEW i \in Ids, Delete(c, i)
  PROVE  TypeOK'
<1>1. TableTypeOK'
  BY DEF TypeOK, TableTypeOK, Delete
<1>2. answer' \in [Clients -> Answers] /\ ops' \in Nat
  BY DEF TypeOK, Delete, Begin, Answer, Answers
<1>3. overtaken' \in [Clients -> BOOLEAN]
  <2>1. CASE overtaken' = [d \in Clients |->
                             \/ overtaken[d]
                             \/ request[d] # Idle /\ request[d].id = i]
    BY <2>1
  <2>2. CASE overtaken' = overtaken
    BY <2>2 DEF TypeOK
  <2> QED BY <2>1, <2>2 DEF Delete
<1> QED BY <1>1, <1>2, <1>3 DEF TypeOK, TableTypeOK, Delete

LEMMA DisableType ==
  ASSUME TypeOK, NEW i \in Ids, Disable(i)
  PROVE  TypeOK'
<1>1. [table[i] EXCEPT !.isActive = FALSE] \in Row
  BY DEF TypeOK, Disable, Row
<1>2. TableTypeOK'
  BY <1>1 DEF TypeOK, TableTypeOK, Disable
<1> QED BY <1>2 DEF TypeOK, TableTypeOK, Disable

LEMMA NextType == TypeOK /\ UnderWay /\ [Next]_vars => TypeOK'
<1> SUFFICES ASSUME TypeOK, UnderWay, [Next]_vars
             PROVE  TypeOK'
  OBVIOUS
<1>1. CASE UNCHANGED vars
  BY <1>1 DEF TypeOK, vars
<1> QED
  BY <1>1, CreateType, FindForUpdateType, LoadForSaveType, SaveType, DeleteType, DisableType
  DEF Next

(***************************************************************************)
(* The invariant                                                           *)
(***************************************************************************)
\* What a save does to the rest: its row is stored, by UPDATE or INSERT, or it ends
\* without effect
LEMMA SaveChanges ==
  ASSUME TypeOK, NEW c \in Clients, SaveUpdates(c) \/ SaveInserts(c)
  PROVE  /\ request' = [request EXCEPT ![c] = Idle]
         /\ UNCHANGED <<used, deleted, overtaken>>
         /\ \/ UNCHANGED table
            \/ \E row \in Row :
                 PutRow(request[c].id, row) /\ ~UrlTaken(request[c].id, row.url)
<1>1. request[c].step = "loaded"
  BY SaveOutcomes
<1>2. request[c].row \in Row
  BY <1>1, RequestType
<1>3. ASSUME NEW base \in Row, Updates(c, base)
      PROVE  \E row \in Row :
               PutRow(request[c].id, row) /\ ~UrlTaken(request[c].id, row.url)
  BY <1>2, <1>3, MergeType DEF Updates, TypeOK
<1>4. ASSUME Inserts(c)
      PROVE  \E row \in Row :
               PutRow(request[c].id, row) /\ ~UrlTaken(request[c].id, row.url)
  BY <1>2, <1>4 DEF Inserts
<1>5. ASSUME Nowhere(c)
      PROVE  UNCHANGED table
  BY <1>5 DEF Nowhere
<1> QED BY <1>3, <1>4, <1>5, SaveOutcomes DEF Updates, Inserts, Nowhere, EndSave

\* A row stored under a url that no other row has shares it with none
LEMMA PutRowUnique ==
  ASSUME OneWebhookPerUrl, NEW i, NEW row, PutRow(i, row), ~UrlTaken(i, row.url)
  PROVE  OneWebhookPerUrl'
BY DEF OneWebhookPerUrl, PutRow, UrlTaken

LEMMA NextUnique ==
  ASSUME TypeOK, OneWebhookPerUrl, [Next]_vars
  PROVE  OneWebhookPerUrl'
<1>1. ASSUME UNCHANGED table
      PROVE  OneWebhookPerUrl'
  BY <1>1 DEF OneWebhookPerUrl
<1>2. ASSUME NEW c \in Clients, NEW i \in Ids, NEW row \in Row, Create(c, i, row)
      PROVE  OneWebhookPerUrl'
  BY <1>1, <1>2, PutRowUnique DEF Create
<1>3. ASSUME NEW c \in Clients, SaveUpdates(c) \/ SaveInserts(c)
      PROVE  OneWebhookPerUrl'
  BY <1>1, <1>3, SaveChanges, PutRowUnique
<1>4. ASSUME NEW c \in Clients, NEW i \in Ids, Delete(c, i)
      PROVE  OneWebhookPerUrl'
  <2>1. CASE table' = [j \in DOMAIN table \ {i} |-> table[j]]
    BY <2>1 DEF OneWebhookPerUrl
  <2> QED BY <1>1, <1>4, <2>1 DEF Delete
<1>5. ASSUME NEW i \in Ids, Disable(i)
      PROVE  OneWebhookPerUrl'
  <2>1. /\ DOMAIN table' = DOMAIN table
        /\ \A j \in DOMAIN table : table'[j].url = table[j].url
    BY <1>5 DEF Disable, TypeOK, Row
  <2> QED BY <2>1 DEF OneWebhookPerUrl
<1> QED BY <1>1, <1>2, <1>3, <1>4, <1>5 DEF Next, FindForUpdate, LoadForSave, vars

\* A PUT begins at a webhook that exists; what deletes the webhook marks the PUT
LEMMA NextUnderWay ==
  ASSUME TypeOK, UnderWay, [Next]_vars
  PROVE  UnderWay'
<1>1. ASSUME NEW c \in Clients, NEW i \in Ids, NEW row \in Row, Create(c, i, row)
      PROVE  UnderWay'
  BY <1>1 DEF Create, PutRow, UnderWay
<1>2. ASSUME NEW c \in Clients, NEW i \in Ids, NEW row \in Row, FindForUpdate(c, i, row)
      PROVE  UnderWay'
  <2>1. UNCHANGED <<table, used>>
    BY <1>2 DEF FindForUpdate
  <2>2. CASE UNCHANGED <<request, overtaken>>
    BY <2>1, <2>2 DEF UnderWay
  <2>3. CASE /\ i \in DOMAIN table
             /\ request' = [request EXCEPT ![c] = [step |-> "found", id |-> i, row |-> row]]
             /\ overtaken' = [overtaken EXCEPT ![c] = FALSE]
    <3>1. request'[c].id = i /\ i \in used
      BY <2>3 DEF TypeOK
    <3>2. \A d \in Clients \ {c} : request'[d] = request[d] /\ overtaken'[d] = overtaken[d]
      BY <2>3 DEF TypeOK
    <3> QED BY <2>1, <2>3, <3>1, <3>2 DEF UnderWay
  <2> QED BY <1>2, <2>2, <2>3 DEF FindForUpdate, Exists
<1>3. ASSUME NEW c \in Clients, LoadForSave(c)
      PROVE  UnderWay'
  <2>1. /\ request'[c].id = request[c].id
        /\ \A d \in Clients \ {c} : request'[d] = request[d]
    BY <1>3 DEF LoadForSave, TypeOK
  <2>2. request[c] # Idle
    BY <1>3, RequestType DEF LoadForSave
  <2> QED BY <1>3, <2>1, <2>2 DEF LoadForSave, UnderWay
<1>4. ASSUME NEW c \in Clients, SaveUpdates(c) \/ SaveInserts(c)
      PROVE  UnderWay'
  <2>1. /\ request'[c] = Idle
        /\ \A d \in Clients \ {c} : request'[d] = request[d]
    BY <1>4, SaveChanges DEF TypeOK
  <2>2. DOMAIN table \subseteq DOMAIN table'
    BY <1>4, SaveChanges DEF PutRow
  <2> QED BY <1>4, <2>1, <2>2, SaveChanges DEF UnderWay
<1>5. ASSUME NEW c \in Clients, NEW i \in Ids, Delete(c, i)
      PROVE  UnderWay'
  <2>1. UNCHANGED <<used, request>>
    BY <1>5 DEF Delete
  <2>2. CASE UNCHANGED <<table, overtaken>>
    BY <2>1, <2>2 DEF UnderWay
  <2>3. CASE /\ table' = [j \in DOMAIN table \ {i} |-> table[j]]
             /\ overtaken' = [d \in Clients |->
                                \/ overtaken[d]
                                \/ request[d] # Idle /\ request[d].id = i]
    BY <2>1, <2>3 DEF UnderWay
  <2> QED BY <1>5, <2>2, <2>3 DEF Delete
<1>6. ASSUME NEW i \in Ids, Disable(i)
      PROVE  UnderWay'
  BY <1>6 DEF Disable, UnderWay
<1>7. CASE UNCHANGED vars
  BY <1>7 DEF vars, UnderWay
<1> QED BY <1>1, <1>2, <1>3, <1>4, <1>5, <1>6, <1>7 DEF Next

IInv == TypeOK /\ UnderWay /\ OneWebhookPerUrl

LEMMA InitInv == Init => IInv
<1> SUFFICES ASSUME Init
             PROVE  IInv
  OBVIOUS
<1>1. TypeOK
  BY DEF Init, TypeOK, Request, Answers
<1>2. UnderWay /\ OneWebhookPerUrl
  BY DEF Init, UnderWay, OneWebhookPerUrl
<1> QED BY <1>1, <1>2 DEF IInv

LEMMA Invariance == Spec => []IInv
<1>1. IInv /\ [Next]_vars => IInv'
  BY NextType, NextUnderWay, NextUnique DEF IInv
<1> QED BY <1>1, InitInv, PTL DEF Spec

(***************************************************************************)
(* Theorems                                                                *)
(***************************************************************************)
\* Every variable keeps its type: no half-built row is stored, and no row under an
\* id that POST has not drawn.
THEOREM TypeCorrect == Spec => []TypeOK
<1>1. IInv => TypeOK
  BY DEF IInv
<1> QED BY <1>1, Invariance, PTL

\* No two webhooks share a url, for any number of clients whose POSTs and PUTs
\* interleave (the unique column of Webhook, createWebhook, updateWebhook).
THEOREM UrlsStayUnique == Spec => []OneWebhookPerUrl
<1>1. IInv => OneWebhookPerUrl
  BY DEF IInv
<1> QED BY <1>1, Invariance, PTL

\* The step of ActivatedOnlyIfReadInactive: of all actions only the UPDATE of a save can make
\* an inactive row active
LEMMA ActivatedOnRequest ==
  ASSUME IInv, [Next]_vars, NEW i \in DOMAIN table \cap DOMAIN table',
         ~table[i].isActive, table'[i].isActive
  PROVE  \E c \in Clients :
           /\ request[c].step = "loaded"
           /\ request[c].id = i
           /\ request[c].row.isActive
           /\ \E b \in request[c].base : ~b.isActive
<1> USE DEF IInv
<1>1. table'[i] # table[i]
  OBVIOUS
<1>2. ASSUME NEW c \in Clients, NEW j \in Ids, NEW row \in Row, Create(c, j, row)
      PROVE  FALSE
  BY <1>1, <1>2 DEF Create, PutRow, TypeOK
<1>3. ASSUME NEW c \in Clients, NEW j \in Ids, Delete(c, j)
      PROVE  FALSE
  BY <1>1, <1>3 DEF Delete
<1>4. ASSUME NEW j \in Ids, Disable(j)
      PROVE  FALSE
  BY <1>4 DEF Disable, TypeOK, Row
<1>5. PICK c \in Clients : SaveUpdates(c) \/ SaveInserts(c)
  BY <1>1, <1>2, <1>3, <1>4 DEF Next, FindForUpdate, LoadForSave, vars
<1>6. request[c].step = "loaded" /\ request[c].row \in Row
  BY <1>5, SaveOutcomes, RequestType
<1>7. PICK base \in Row : request[c].base = {base} /\ Updates(c, base)
  <2>1. ~Nowhere(c)
    BY <1>1 DEF Nowhere
  <2>2. ~Inserts(c)
    BY <1>1 DEF Inserts, PutRow
  <2> QED BY <1>5, <2>1, <2>2, SaveOutcomes
<1>8. request[c].id = i
  BY <1>1, <1>7 DEF Updates, PutRow
<1>9. table'[i] = Merge(table[i], request[c].row, base) /\ table[i] \in Row
  BY <1>7, <1>8 DEF Updates, PutRow, TypeOK
<1>10. request[c].row.isActive /\ ~base.isActive
  BY <1>6, <1>9, MergeActivates
<1> QED BY <1>6, <1>7, <1>8, <1>10

\* An inactive webhook is activated only by a PUT that asks for it and whose save
\* read it inactive, for any clients and requests: a deactivation survives the PUTs
\* whose save had read the row before, not those still between findOneBy and save
\* (updateWebhook).
THEOREM InactiveUnlessReadInactive == Spec => ActivatedOnlyIfReadInactive
<1>1. IInv /\ [Next]_vars =>
        [\A i \in DOMAIN table \cap DOMAIN table' :
           (~table[i].isActive /\ table'[i].isActive) =>
             \E c \in Clients :
               /\ request[c].step = "loaded"
               /\ request[c].id = i
               /\ request[c].row.isActive
               /\ \E b \in request[c].base : ~b.isActive]_vars
  BY ActivatedOnRequest
<1> QED BY <1>1, Invariance, PTL DEF Spec, ActivatedOnlyIfReadInactive

\* The step of ReturnsOnlyIfOvertaken: POST draws another id, so only the INSERT of
\* a save brings back a deleted one
LEMMA ReturnsByInsert ==
  ASSUME IInv, [Next]_vars, NEW i \in deleted \cap (DOMAIN table' \ DOMAIN table)
  PROVE  \E c \in Clients : request[c] # Idle /\ request[c].id = i /\ overtaken[c]
<1> USE DEF IInv
<1>1. ASSUME NEW c \in Clients, NEW j \in Ids, NEW row \in Row, Create(c, j, row)
      PROVE  FALSE
  BY <1>1 DEF Create, PutRow, TypeOK
<1>2. PICK c \in Clients : SaveUpdates(c) \/ SaveInserts(c)
  BY <1>1 DEF Next, FindForUpdate, LoadForSave, Delete, Disable, vars
<1>3. request[c].id = i
  <2>1. PICK row \in Row : PutRow(request[c].id, row)
    BY <1>2, SaveChanges
  <2>2. DOMAIN table' = DOMAIN table \cup {request[c].id}
    BY <2>1 DEF PutRow
  <2> QED BY <2>2
<1>4. request[c] # Idle
  BY <1>2, SaveOutcomes, RequestType
<1> QED BY <1>3, <1>4 DEF UnderWay

\* A deleted webhook comes back only by a PUT that was under way when it was
\* deleted, for any clients and requests (updateWebhook).
THEOREM OnlyOvertakenReturn == Spec => ReturnsOnlyIfOvertaken
<1>1. IInv /\ [Next]_vars =>
        [\A i \in deleted \cap (DOMAIN table' \ DOMAIN table) :
           \E c \in Clients : request[c] # Idle /\ request[c].id = i /\ overtaken[c]]_vars
  BY ReturnsByInsert
<1> QED BY <1>1, Invariance, PTL DEF Spec, ReturnsOnlyIfOvertaken

\* The step of PutAppliesUnlessRaced: a PUT answered 200 has stored its row over the
\* one it read, or found another
LEMMA UpdatedAsAsked ==
  ASSUME IInv, [Next]_vars, NEW c \in Clients,
         request[c].step = "loaded", request'[c] = Idle, answer'[c] = "updated"
  PROVE  LET i == request[c].id
         IN  \/ i \in DOMAIN table' /\ table'[i] = request[c].row
             \/ {table[j] : j \in DOMAIN table \cap {i}} # request[c].base
<1> USE DEF IInv
<1> DEFINE i == request[c].id
<1>1. request[c] # Idle /\ request[c].row \in Row
  BY RequestType
<1>2. SaveUpdates(c) \/ SaveInserts(c)
  <2>1. \A d \in Clients : SaveUpdates(d) \/ SaveInserts(d) => d = c
    BY <1>1, SaveChanges DEF TypeOK
  <2>2. \A d \in Clients : LoadForSave(d) => d # c /\ request'[c] = request[c]
    BY <1>1, RequestType DEF LoadForSave, TypeOK, Idle
  <2>3. \A d \in Clients, j \in Ids, row \in Row :
          FindForUpdate(d, j, row) => request'[c] = request[c]
    BY <1>1 DEF FindForUpdate, Begin, TypeOK
  <2> QED BY <1>1, <2>1, <2>2, <2>3 DEF Next, Create, Delete, Disable, vars
<1>3. ASSUME NEW base \in Row, request[c].base = {base}, Updates(c, base), base = table[i]
      PROVE  i \in DOMAIN table' /\ table'[i] = request[c].row
  BY <1>1, <1>3, MergeUnraced DEF Updates, PutRow
<1>4. ASSUME NEW base \in Row, request[c].base = {base}, Updates(c, base), base # table[i]
      PROVE  {table[j] : j \in DOMAIN table \cap {i}} # request[c].base
  <2>1. {table[j] : j \in DOMAIN table \cap {i}} = {table[i]}
    BY <1>4 DEF Updates
  <2> QED BY <1>4, <2>1
<1>5. ASSUME Inserts(c)
      PROVE  i \in DOMAIN table' /\ table'[i] = request[c].row
  BY <1>5 DEF Inserts, PutRow
<1>6. ASSUME Nowhere(c)
      PROVE  ~EndSave(c, "error") /\ {table[j] : j \in DOMAIN table \cap {i}} = {}
  BY <1>6 DEF Nowhere, EndSave, Answer, TypeOK
<1> QED BY <1>2, <1>3, <1>4, <1>5, <1>6, SaveOutcomes

\* A PUT answered 200 leaves its row as asked unless the row changed under it, for
\* any clients and requests (updateWebhook).
THEOREM PutsApply == Spec => PutAppliesUnlessRaced
<1>1. IInv /\ [Next]_vars =>
        [\A c \in Clients :
           (request[c].step = "loaded" /\ request'[c] = Idle /\ answer'[c] = "updated") =>
             LET i == request[c].id
             IN  \/ i \in DOMAIN table' /\ table'[i] = request[c].row
                 \/ {table[j] : j \in DOMAIN table \cap {i}} # request[c].base]_vars
  BY UpdatedAsAsked
<1> QED BY <1>1, Invariance, PTL DEF Spec, PutAppliesUnlessRaced

(***************************************************************************)
(* The API as the webhook map sees it                                      *)
(***************************************************************************)
\* The active rows, what a refresh of the map selects
Active ==
  [i \in {j \in DOMAIN table : table[j].isActive} |->
     [url |-> table[i].url, config |-> table[i].config]]

Nothing == [i \in {} |-> i]

Map == INSTANCE WebhookCache WITH
  Configs <- [url : Urls, config : Configs],
  Readers <- {},
  active <- Active,
  cached <- Nothing,
  reads <- Nothing

LEMMA ActiveType == TypeOK => Active \in Map!Partial
<1> SUFFICES ASSUME TypeOK PROVE Active \in Map!Partial
  OBVIOUS
<1>1. DOMAIN Active \subseteq Ids
  BY DEF TypeOK, Active
<1>2. Active \in [DOMAIN Active -> [url : Urls, config : Configs]]
  BY DEF TypeOK, Row, Active
<1> QED BY <1>1, <1>2 DEF Map!Partial

LEMMA OneRowStep ==
  ASSUME TypeOK, TypeOK', NEW i \in Ids,
         DOMAIN table' \ {i} = DOMAIN table \ {i},
         \A j \in DOMAIN table \ {i} : table'[j] = table[j]
  PROVE  Map!Edit(i)
<1>1. Active' \in Map!Partial
  <2>1. DOMAIN Active' \subseteq Ids
    BY DEF TypeOK, Active
  <2>2. Active' \in [DOMAIN Active' -> [url : Urls, config : Configs]]
    BY DEF TypeOK, Row, Active
  <2> QED BY <2>1, <2>2 DEF Map!Partial
<1>2. DOMAIN Active' \ {i} = DOMAIN Active \ {i}
  BY DEF Active
<1>3. \A j \in DOMAIN Active \ {i} : Active'[j] = Active[j]
  BY DEF Active
<1> QED BY <1>1, <1>2, <1>3 DEF Map!Edit, Nothing

LEMMA NextIsEdit ==
  ASSUME TypeOK, TypeOK', Next
  PROVE  UNCHANGED table \/ \E i \in Ids : Map!Edit(i)
<1>1. ASSUME NEW i \in Ids, NEW row, PutRow(i, row)
      PROVE  Map!Edit(i)
  <2>1. DOMAIN table' \ {i} = DOMAIN table \ {i}
    BY <1>1 DEF PutRow
  <2>2. \A j \in DOMAIN table \ {i} : table'[j] = table[j]
    BY <1>1 DEF PutRow
  <2> QED BY <2>1, <2>2, OneRowStep
<1>2. ASSUME NEW c \in Clients, NEW i \in Ids, NEW row \in Row,
             Create(c, i, row) \/ FindForUpdate(c, i, row)
      PROVE  UNCHANGED table \/ Map!Edit(i)
  BY <1>1, <1>2 DEF Create, FindForUpdate
<1>3. ASSUME NEW c \in Clients, NEW i \in Ids, Delete(c, i)
      PROVE  UNCHANGED table \/ Map!Edit(i)
  <2>1. CASE table' = [j \in DOMAIN table \ {i} |-> table[j]]
    <3>1. DOMAIN table' \ {i} = DOMAIN table \ {i}
      BY <2>1
    <3>2. \A j \in DOMAIN table \ {i} : table'[j] = table[j]
      BY <2>1
    <3> QED BY <3>1, <3>2, OneRowStep
  <2> QED BY <1>3, <2>1 DEF Delete
<1>4. ASSUME NEW c \in Clients, LoadForSave(c) \/ SaveUpdates(c) \/ SaveInserts(c)
      PROVE  UNCHANGED table \/ \E i \in Ids : Map!Edit(i)
  <2>1. CASE LoadForSave(c)
    BY <2>1 DEF LoadForSave
  <2>2. CASE SaveUpdates(c) \/ SaveInserts(c)
    <3>1. request[c].id \in Ids
      BY <2>2, SaveOutcomes, RequestType
    <3> QED BY <1>1, <2>2, <3>1, SaveChanges
  <2> QED BY <1>4, <2>1, <2>2
<1>5. ASSUME NEW i \in Ids, Disable(i)
      PROVE  Map!Edit(i)
  <2>1. DOMAIN table' = DOMAIN table /\ \A j \in DOMAIN table \ {i} : table'[j] = table[j]
    BY <1>5 DEF Disable, TypeOK
  <2> QED BY <2>1, OneRowStep
<1> QED BY <1>2, <1>3, <1>4, <1>5 DEF Next

\* Whatever queries of POSTs, PUTs, DELETEs and the health job interleave, each step
\* leaves the other webhooks' active rows as they are: the table that the dispatcher
\* and the service assume, which WebhookCache's Edit changes (WebhookService,
\* disableWebhook).
THEOREM StoreIsEdited == Spec => Map!Init /\ [][\E i \in Ids : Map!Edit(i)]_Active
<1>1. Init => Map!Init
  <2> SUFFICES ASSUME Init PROVE Map!Init
    OBVIOUS
  <2>1. TypeOK
    BY InitInv DEF IInv
  <2> QED BY <2>1, ActiveType DEF Map!Init, Map!Nothing, Nothing
<1>2. IInv /\ IInv' /\ [Next]_vars => [\E i \in Ids : Map!Edit(i)]_Active
  BY NextIsEdit DEF IInv, vars, Active
<1> QED BY <1>1, <1>2, Invariance, PTL DEF Spec
=============================================================================
