---------------------------- MODULE OutboxProofs ----------------------------
(***************************************************************************)
(* Safety of the outbox for any set of events and workers, any batch size, *)
(* any retry limits and any combination of faults, and that the outbox     *)
(* implements the abstract service of OutboxDelivery.                      *)
(***************************************************************************)
EXTENDS Outbox, TLAPS

\* A sleeping worker holds nothing.
SleepEmpty == \A w \in Workers : pc[w] = "sleep" => batch[w] = {}

\* What an open claim has locked: waiting rows, copied as they are.
ClaimPending ==
  \A w \in Workers : pc[w] = "claim" =>
    \A c \in batch[w] : /\ row[c.id].status \in {"pending", "retry_scheduled"}
                        /\ c = CopyOf(c.id)

\* Two open claims lock different rows.
ClaimsDisjoint ==
  \A v, w \in Workers :
    v # w /\ pc[v] = "claim" /\ pc[w] = "claim" =>
      \A c \in batch[v], d \in batch[w] : c.id # d.id

\* max_retry is written once.
LimitStored ==
  \A e \in Events :
    /\ row[e].status # "absent" => row[e].maxRetry = CreatedMaxRetry(e)
    /\ row[e].status = "absent" => row[e].retryCount = 0

\* Publish has succeeded, so the message is in the topic.
OkWasSent ==
  \A w \in Workers : pc[w] = "ok" =>
    \A c \in batch[w] : Current(w, c) => kafka[c.id] > 0

OwnInv == TypeOK /\ SleepEmpty /\ ClaimPending /\ ClaimsDisjoint /\ ClaimExclusive

CountInv == LimitStored /\ AttemptsAccounted /\ RetryBudget

SentInv == OkWasSent /\ PublishedWasSent

IInv == OwnInv /\ CountInv /\ SentInv

-----------------------------------------------------------------------------
(* Rows and copies *)

LEMMA CreatedMaxRetryType ==
  ASSUME NEW e \in Events
  PROVE  CreatedMaxRetry(e) \in Int /\ CreatedMaxRetry(e) # 0
BY EnvRetryAssumption, DefaultAssumption DEF CreatedMaxRetry

LEMMA BudgetType ==
  ASSUME NEW e \in Events
  PROVE  Budget(e) \in Nat /\ Budget(e) >= 1
BY CreatedMaxRetryType, CfgRetryAssumption DEF Budget

\* The rows that the worker's updates write are rows.
LEMMA WrittenRowType ==
  ASSUME TypeOK, NEW c \in Copy
  PROVE  /\ PublishedRow(c) \in Row
         /\ FailedRow(c) \in Row
<1>1. row[c.id] \in Row /\ c.retryCount + 1 \in Nat
  BY DEF TypeOK, Copy
<1>2. PublishedRow(c) \in Row
  BY <1>1 DEF PublishedRow, Row, Status, RetryAt
<1>3. RetryRow(c) \in Row
  BY <1>1 DEF RetryRow, Row, Status, RetryAt
<1>4. DeadLetterRow(c) \in Row
  BY <1>1 DEF DeadLetterRow, Row, Status, RetryAt
<1> QED
  BY <1>2, <1>3, <1>4 DEF FailedRow

LEMMA CopyType ==
  ASSUME TypeOK, NEW e \in Events
  PROVE  CopyOf(e) \in Copy
BY DEF TypeOK, Row, CopyOf, Copy

LEMMA UpdateType ==
  ASSUME TypeOK, NEW c \in Copy, NEW r \in Row, UpdatePublishing(c, r)
  PROVE  row' \in [Events -> Row]
BY DEF TypeOK, UpdatePublishing, Copy

LEMMA AdvanceType ==
  ASSUME TypeOK, NEW w \in Workers, NEW c, Advance(w, c) \/ Abandon(w)
  PROVE  pc' \in [Workers -> PC] /\ batch' \in [Workers -> SUBSET Copy]
BY DEF TypeOK, Advance, Abandon, PC

LEMMA TypeInit == Init => TypeOK
BY DEF Init, TypeOK, Row, Status, RetryAt, PC

LEMMA TypeStep == TypeOK /\ [Next]_vars => TypeOK'
<1> SUFFICES ASSUME TypeOK, [Next]_vars PROVE TypeOK'
  OBVIOUS
<1>1. ASSUME NEW e \in Events, Create(e) PROVE TypeOK'
  BY <1>1, CreatedMaxRetryType DEF TypeOK, Create, Row, Status
<1>2. ASSUME NEW e \in Events, BackoffElapses(e) PROVE TypeOK'
  BY <1>2 DEF TypeOK, BackoffElapses, Row, RetryAt
<1>3. ASSUME NEW w \in Workers, ListPendingForUpdate(w) PROVE TypeOK'
  <2> DEFINE found == Oldest({e \in Events : Claimable(e) /\ ~Locked(e)}, BatchSize)
  <2>1. found \subseteq Events
    BY DEF Oldest
  <2>2. {CopyOf(e) : e \in found} \subseteq Copy
    BY <2>1, CopyType
  <2> QED
    BY <1>3, <2>2 DEF TypeOK, ListPendingForUpdate, PC
<1>4. ASSUME NEW w \in Workers, MarkPublishing(w) PROVE TypeOK'
  BY <1>4 DEF TypeOK, MarkPublishing, Row, Status, PC
<1>5. ASSUME NEW w \in Workers, Publish(w) PROVE TypeOK'
  <2>1. PICK c \in batch[w] : Publish(w)!2!(c)
    BY <1>5 DEF Publish
  <2>2. c.id \in Events
    BY DEF TypeOK, Copy
  <2>3. CopiesOnSuccess \subseteq Nat /\ CopiesOnError \subseteq Nat
    BY WriterAssumption DEF CopiesOnSuccess, CopiesOnError
  <2>4. kafka' \in [Events -> Nat] /\ unsure' \subseteq Events
    BY <2>1, <2>2, <2>3 DEF TypeOK, Stored
  <2>5. \/ pc' = [pc EXCEPT ![w] = "ok"]
        \/ pc' = [pc EXCEPT ![w] = "failed"]
    BY <2>1
  <2>6. row' = row /\ batch' = batch
    BY <1>5 DEF Publish
  <2>7. attempts' = [attempts EXCEPT ![c.id] = @ + 1]
    BY <2>1
  <2> QED
    BY <2>2, <2>4, <2>5, <2>6, <2>7 DEF TypeOK, PC
<1>6. ASSUME NEW w \in Workers, MarkPublished(w) \/ MarkPublishedFails(w)
      PROVE  TypeOK'
  <2>1. PICK c \in batch[w] : /\ UpdatePublishing(c, PublishedRow(c)) \/ UNCHANGED row
                              /\ Advance(w, c) \/ Abandon(w)
    BY <1>6 DEF MarkPublished, MarkPublishedFails
  <2>2. c \in Copy
    BY DEF TypeOK
  <2>3. row' \in [Events -> Row]
    BY <2>1, <2>2, UpdateType, WrittenRowType DEF TypeOK
  <2> QED
    BY <1>6, <2>1, <2>3, AdvanceType DEF TypeOK, MarkPublished, MarkPublishedFails
<1>7. ASSUME NEW w \in Workers, HandlePublishFailed(w) \/ HandlePublishFailedFails(w)
      PROVE  TypeOK'
  <2>1. PICK c \in batch[w] : /\ UpdatePublishing(c, FailedRow(c)) \/ UNCHANGED row
                              /\ Advance(w, c)
    BY <1>7 DEF HandlePublishFailed, HandlePublishFailedFails
  <2>2. c \in Copy
    BY DEF TypeOK
  <2>3. row' \in [Events -> Row]
    BY <2>1, <2>2, UpdateType, WrittenRowType DEF TypeOK
  <2> QED
    BY <1>7, <2>1, <2>3, AdvanceType
       DEF TypeOK, HandlePublishFailed, HandlePublishFailedFails
<1>8. ASSUME NEW w \in Workers, ClaimFails(w) \/ Stop(w) PROVE TypeOK'
  BY <1>8 DEF TypeOK, ClaimFails, Stop, Abandon, PC
<1>9. CASE UNCHANGED vars
  BY <1>9 DEF TypeOK, vars
<1> QED
  BY <1>1, <1>2, <1>3, <1>4, <1>5, <1>6, <1>7, <1>8, <1>9
     DEF Next, WorkerStep, WorkerFault

\* Every reachable state of the table, the workers and the topic is well
\* formed, for every batch size, retry limit and combination of faults.
THEOREM TypeCorrect == Spec => []TypeOK
BY TypeInit, TypeStep, PTL DEF Spec

-----------------------------------------------------------------------------
(* Claims are exclusive *)

\* A batch holds one copy of an event.
LEMMA OneCopy ==
  ASSUME OwnInv, NEW w \in Workers, NEW c \in batch[w], NEW d \in batch[w],
         c.id = d.id
  PROVE  c = d
BY DEF OwnInv, TypeOK, PC, ClaimPending, ClaimExclusive

\* No event is in two batches.
LEMMA OneOwner ==
  ASSUME OwnInv, NEW v \in Workers, NEW w \in Workers, v # w,
         NEW c \in batch[v], NEW d \in batch[w]
  PROVE  c.id # d.id
<1>1. CASE pc[v] = "claim" /\ pc[w] = "claim"
  BY <1>1 DEF OwnInv, ClaimsDisjoint
<1>2. CASE pc[v] # "claim" \/ pc[w] # "claim"
  BY <1>2 DEF OwnInv, ClaimPending, ClaimExclusive
<1> QED
  BY <1>1, <1>2

\* The update of a settled event, and what the loop does after it, disturb
\* no other event and no other worker.
LEMMA OwnSettle ==
  ASSUME OwnInv, TypeOK',
         NEW w \in Workers, pc[w] \in {"ok", "failed"}, NEW c \in batch[w],
         NEW r \in Row,
         UpdatePublishing(c, r) \/ UNCHANGED row,
         Advance(w, c) \/ Abandon(w)
  PROVE  OwnInv'
<1>1. \A e \in Events : e # c.id => row'[e] = row[e]
  BY DEF OwnInv, TypeOK, Copy, UpdatePublishing
<1>2. /\ batch'[w] \subseteq batch[w] \ {c}
      /\ pc'[w] \in {"sleep", "publish"}
      /\ pc'[w] = "sleep" => batch'[w] = {}
      /\ \A v \in Workers : v # w => pc'[v] = pc[v] /\ batch'[v] = batch[v]
  BY DEF OwnInv, TypeOK, Advance, Abandon
<1>3. \A v \in Workers : /\ batch'[v] \subseteq batch[v]
                         /\ \A d \in batch'[v] : d.id # c.id
  BY <1>2, OneCopy, OneOwner
<1>4. \A v \in Workers : \A d \in batch'[v] : row'[d.id] = row[d.id]
  BY <1>1, <1>3 DEF OwnInv, TypeOK, Copy
<1>5. SleepEmpty'
  BY <1>2 DEF SleepEmpty, OwnInv
<1>6. ClaimPending'
  BY <1>2, <1>3, <1>4 DEF ClaimPending, OwnInv, CopyOf
<1>7. ClaimsDisjoint'
  BY <1>2, <1>3 DEF ClaimsDisjoint, OwnInv
<1>8. ClaimExclusive'
  <2> SUFFICES ASSUME NEW v \in Workers, pc'[v] # "claim", NEW d \in batch'[v]
               PROVE  /\ row'[d.id].status = "publishing"
                      /\ row'[d.id].claimedBy = v
                      /\ d = CopyOf(d.id)'
    BY DEF ClaimExclusive
  <2>1. pc[v] # "claim" /\ d \in batch[v]
    BY <1>2, <1>3
  <2> QED
    BY <1>4, <2>1 DEF OwnInv, ClaimExclusive, CopyOf
<1> QED
  BY <1>5, <1>6, <1>7, <1>8 DEF OwnInv

LEMMA OwnInit == Init => OwnInv
BY TypeInit DEF Init, OwnInv, SleepEmpty, ClaimPending, ClaimsDisjoint,
                ClaimExclusive

LEMMA OwnStep == OwnInv /\ [Next]_vars => OwnInv'
<1> SUFFICES ASSUME OwnInv, [Next]_vars PROVE OwnInv'
  OBVIOUS
<1>0. TypeOK /\ TypeOK'
  BY TypeStep DEF OwnInv
<1>1. ASSUME NEW e \in Events, Create(e) PROVE OwnInv'
  <2>1. \A w \in Workers : \A c \in batch[w] : c.id # e
    BY <1>1 DEF Create, OwnInv, ClaimPending, ClaimExclusive
  <2>2. \A w \in Workers : \A c \in batch[w] : row'[c.id] = row[c.id]
    BY <1>0, <1>1, <2>1 DEF Create, TypeOK, Copy
  <2> QED
    <3>1. pc' = pc /\ batch' = batch
      BY <1>1 DEF Create
    <3>2. SleepEmpty' /\ ClaimsDisjoint'
      BY <3>1 DEF OwnInv, SleepEmpty, ClaimsDisjoint
    <3>3. ClaimPending' /\ ClaimExclusive'
      BY <3>1, <2>2 DEF OwnInv, ClaimPending, ClaimExclusive, CopyOf
    <3> QED
      BY <1>0, <3>2, <3>3 DEF OwnInv
<1>2. ASSUME NEW e \in Events, BackoffElapses(e) PROVE OwnInv'
  <2>1. \A d \in Events : /\ row'[d].status = row[d].status
                          /\ row'[d].claimedBy = row[d].claimedBy
                          /\ CopyOf(d)' = CopyOf(d)
    BY <1>0, <1>2 DEF BackoffElapses, TypeOK, Row, CopyOf
  <2>2. \A w \in Workers : \A c \in batch[w] : c.id \in Events
    BY <1>0 DEF TypeOK, Copy
  <2> QED
    BY <1>0, <1>2, <2>1, <2>2 DEF BackoffElapses, OwnInv, SleepEmpty,
       ClaimPending, ClaimsDisjoint, ClaimExclusive
<1>3. ASSUME NEW w \in Workers, ListPendingForUpdate(w) PROVE OwnInv'
  <2> DEFINE found == Oldest({e \in Events : Claimable(e) /\ ~Locked(e)}, BatchSize)
  <2>1. \A e \in found : e \in Events /\ Claimable(e) /\ ~Locked(e)
    BY DEF Oldest
  <2>2. /\ batch'[w] = {CopyOf(e) : e \in found}
        /\ pc'[w] = "claim"
        /\ row' = row
        /\ \A v \in Workers : v # w => pc'[v] = pc[v] /\ batch'[v] = batch[v]
    BY <1>0, <1>3 DEF ListPendingForUpdate, TypeOK
  <2>3. \A c \in batch'[w] : c.id \in found /\ c = CopyOf(c.id)
    BY <2>2 DEF CopyOf
  <2>4. ClaimPending'
    BY <2>1, <2>2, <2>3 DEF ClaimPending, OwnInv, Claimable, CopyOf
  <2>5. \A v \in Workers : v # w /\ pc[v] = "claim" =>
          \A c \in batch[v] : c.id \notin found
    BY <2>1 DEF Locked, Ids
  <2>6. ClaimsDisjoint'
    <3> SUFFICES ASSUME NEW u \in Workers, NEW v \in Workers, u # v,
                        pc'[u] = "claim", pc'[v] = "claim",
                        NEW c \in batch'[u], NEW d \in batch'[v]
                 PROVE  c.id # d.id
      BY DEF ClaimsDisjoint
    <3>1. CASE u = w
      BY <3>1, <2>2, <2>3, <2>5
    <3>2. CASE v = w
      BY <3>2, <2>2, <2>3, <2>5
    <3>3. CASE u # w /\ v # w
      BY <3>3, <2>2 DEF ClaimsDisjoint, OwnInv
    <3> QED
      BY <3>1, <3>2, <3>3
  <2>7. SleepEmpty' /\ ClaimExclusive'
    BY <2>2 DEF SleepEmpty, ClaimExclusive, OwnInv, CopyOf
  <2> QED
    BY <1>0, <2>4, <2>6, <2>7 DEF OwnInv
<1>4. ASSUME NEW w \in Workers, MarkPublishing(w) PROVE OwnInv'
  <2>1. /\ batch' = batch
        /\ pc[w] = "claim" /\ pc'[w] = "publish"
        /\ \A v \in Workers : v # w => pc'[v] = pc[v]
    BY <1>0, <1>4 DEF MarkPublishing, TypeOK
  <2>2. \A c \in batch[w] : /\ row'[c.id].status = "publishing"
                            /\ row'[c.id].claimedBy = w
                            /\ CopyOf(c.id)' = CopyOf(c.id)
    <3> SUFFICES ASSUME NEW c \in batch[w]
                 PROVE  /\ row'[c.id].status = "publishing"
                        /\ row'[c.id].claimedBy = w
                        /\ CopyOf(c.id)' = CopyOf(c.id)
      OBVIOUS
    <3>1. c.id \in Ids(w) /\ c.id \in Events /\ row[c.id] \in Row
      BY <1>0 DEF Ids, TypeOK, Copy
    <3>2. row[c.id].status \in {"pending", "retry_scheduled"}
      BY <2>1 DEF OwnInv, ClaimPending
    <3>3. row'[c.id] = [row[c.id] EXCEPT !.status = "publishing", !.claimedBy = w]
      BY <1>4, <3>1, <3>2 DEF MarkPublishing
    <3> QED
      BY <3>1, <3>3 DEF Row, CopyOf
  <2>3. \A v \in Workers : v # w =>
          \A d \in batch[v] : row'[d.id] = row[d.id]
    <3> SUFFICES ASSUME NEW v \in Workers, v # w, NEW d \in batch[v]
                 PROVE  row'[d.id] = row[d.id]
      OBVIOUS
    <3>1. d.id \notin Ids(w)
      BY OneOwner DEF Ids
    <3>2. d.id \in Events
      BY <1>0 DEF TypeOK, Copy
    <3> QED
      BY <1>4, <3>1, <3>2 DEF MarkPublishing
  <2>4. SleepEmpty' /\ ClaimsDisjoint'
    BY <2>1 DEF SleepEmpty, ClaimsDisjoint, OwnInv
  <2>5. ClaimPending'
    BY <2>1, <2>3 DEF ClaimPending, OwnInv, CopyOf
  <2>6. ClaimExclusive'
    <3> SUFFICES ASSUME NEW v \in Workers, pc'[v] # "claim", NEW c \in batch[v]
                 PROVE  /\ row'[c.id].status = "publishing"
                        /\ row'[c.id].claimedBy = v
                        /\ c = CopyOf(c.id)'
      BY <2>1 DEF ClaimExclusive
    <3>1. CASE v = w
      BY <3>1, <2>1, <2>2 DEF OwnInv, ClaimPending
    <3>2. CASE v # w
      BY <3>2, <2>1, <2>3 DEF OwnInv, ClaimExclusive, CopyOf
    <3> QED
      BY <3>1, <3>2
  <2> QED
    BY <1>0, <2>4, <2>5, <2>6 DEF OwnInv
<1>5. ASSUME NEW w \in Workers, Publish(w) PROVE OwnInv'
  <2>1. /\ row' = row /\ batch' = batch
        /\ pc[w] = "publish" /\ pc'[w] \in {"ok", "failed"}
        /\ \A v \in Workers : v # w => pc'[v] = pc[v]
    BY <1>0, <1>5 DEF Publish, TypeOK
  <2> QED
    BY <1>0, <2>1 DEF OwnInv, SleepEmpty, ClaimPending, ClaimsDisjoint,
       ClaimExclusive, CopyOf
<1>6. ASSUME NEW w \in Workers, MarkPublished(w) \/ MarkPublishedFails(w)
      PROVE  OwnInv'
  <2>1. PICK c \in batch[w] : /\ UpdatePublishing(c, PublishedRow(c)) \/ UNCHANGED row
                              /\ Advance(w, c) \/ Abandon(w)
    BY <1>6 DEF MarkPublished, MarkPublishedFails
  <2>2. PublishedRow(c) \in Row
    BY <1>0, WrittenRowType DEF TypeOK
  <2> QED
    BY <1>0, <1>6, <2>1, <2>2, OwnSettle DEF MarkPublished, MarkPublishedFails
<1>7. ASSUME NEW w \in Workers, HandlePublishFailed(w) \/ HandlePublishFailedFails(w)
      PROVE  OwnInv'
  <2>1. PICK c \in batch[w] : /\ UpdatePublishing(c, FailedRow(c)) \/ UNCHANGED row
                              /\ Advance(w, c)
    BY <1>7 DEF HandlePublishFailed, HandlePublishFailedFails
  <2>2. FailedRow(c) \in Row
    BY <1>0, WrittenRowType DEF TypeOK
  <2> QED
    BY <1>0, <1>7, <2>1, <2>2, OwnSettle
       DEF HandlePublishFailed, HandlePublishFailedFails
<1>8. ASSUME NEW w \in Workers, ClaimFails(w) \/ Stop(w) PROVE OwnInv'
  <2>1. /\ row' = row
        /\ batch'[w] = {} /\ pc'[w] = "sleep"
        /\ \A v \in Workers : v # w => pc'[v] = pc[v] /\ batch'[v] = batch[v]
    BY <1>0, <1>8 DEF ClaimFails, Stop, Abandon, TypeOK
  <2> QED
    BY <1>0, <2>1 DEF OwnInv, SleepEmpty, ClaimPending, ClaimsDisjoint,
       ClaimExclusive, CopyOf
<1>9. CASE UNCHANGED vars
  BY <1>0, <1>9 DEF vars, OwnInv, SleepEmpty, ClaimPending, ClaimsDisjoint,
     ClaimExclusive, CopyOf
<1> QED
  BY <1>1, <1>2, <1>3, <1>4, <1>5, <1>6, <1>7, <1>8, <1>9
     DEF Next, WorkerStep, WorkerFault

\* While a worker publishes an event, the row is its own: no other worker
\* holds the event and the worker's copy of it is up to date, for any number
\* of workers and any faults.
THEOREM ClaimIsExclusive == Spec => []ClaimExclusive
<1>1. OwnInv => ClaimExclusive
  BY DEF OwnInv
<1> QED
  BY OwnInit, OwnStep, <1>1, PTL DEF Spec

-----------------------------------------------------------------------------
(* Attempts are counted and bounded *)

\* The loop has one current event.
LEMMA OneCurrent ==
  ASSUME OwnInv, NEW w \in Workers, NEW c, NEW d, Current(w, c), Current(w, d)
  PROVE  c = d
<1>1. c \in batch[w] /\ d \in batch[w] /\ c.id <= d.id /\ d.id <= c.id
  BY DEF Current
<1>2. c.id \in Nat /\ d.id \in Nat
  <2>1. c \in Copy /\ d \in Copy
    BY <1>1 DEF OwnInv, TypeOK
  <2> QED
    BY <2>1, EventsAssumption DEF Copy
<1>3. c.id = d.id
  BY <1>1, <1>2
<1> QED
  BY <1>1, <1>3, OneCopy

\* handlePublishFailed gives up exactly when the budget is used up.
LEMMA LimitIsBudget ==
  ASSUME NEW c \in Copy, c.maxRetry = CreatedMaxRetry(c.id),
         c.retryCount < Budget(c.id)
  PROVE  /\ c.retryCount + 1 >= RetryLimit(c) => c.retryCount + 1 = Budget(c.id)
         /\ c.retryCount + 1 < RetryLimit(c) => c.retryCount + 1 < Budget(c.id)
BY CreatedMaxRetryType, CfgRetryAssumption DEF Copy, RetryLimit, Budget

\* The loop leaves event c: of the events that remain none has been tried.
LEMMA CopiesSettle ==
  ASSUME OwnInv, CountInv,
         NEW w \in Workers, pc[w] \in {"ok", "failed"}, NEW c \in batch[w],
         Current(w, c), attempts' = attempts, Advance(w, c) \/ Abandon(w)
  PROVE  CopiesAccounted'
<1> SUFFICES ASSUME NEW v \in Workers, NEW d \in batch'[v]
             PROVE  attempts'[d.id] = IF Attempted(v, d)' THEN d.retryCount + 1
                                                         ELSE d.retryCount
  BY DEF CopiesAccounted
<1>1. CASE v = w
  <2>1. d \in batch[w] /\ d # c /\ pc'[w] \in {"sleep", "publish"}
    BY <1>1 DEF Advance, Abandon, OwnInv, TypeOK
  <2>2. ~Attempted(w, d)
    BY <2>1, OneCurrent DEF Attempted
  <2> QED
    BY <1>1, <2>1, <2>2 DEF CountInv, AttemptsAccounted, CopiesAccounted, Attempted
<1>2. CASE v # w
  <2>1. pc'[v] = pc[v] /\ batch'[v] = batch[v]
    BY <1>2 DEF Advance, Abandon, OwnInv, TypeOK
  <2>2. Attempted(v, d)' <=> Attempted(v, d)
    BY <2>1 DEF Attempted, Current
  <2> QED
    BY <2>1, <2>2 DEF CountInv, AttemptsAccounted, CopiesAccounted
<1> QED
  BY <1>1, <1>2

\* An update of event c keeps the counts when the row it writes does.
LEMMA RowsSettle ==
  ASSUME OwnInv, CountInv,
         NEW c \in Copy, NEW r \in Row, attempts' = attempts,
         UpdatePublishing(c, r) \/ UNCHANGED row,
         r.maxRetry = row[c.id].maxRetry,
         \/ r.status = "published"
         \/ r.status = "dead_letter" /\ attempts[c.id] = Budget(c.id)
         \/ /\ r.status = "retry_scheduled"
            /\ attempts[c.id] = r.retryCount
            /\ r.retryCount < Budget(c.id)
  PROVE  LimitStored' /\ RowsAccounted' /\ RetryBudget'
<1>1. CASE UNCHANGED row
  BY <1>1 DEF CountInv, LimitStored, AttemptsAccounted, RowsAccounted, RetryBudget
<1>2. CASE ~UNCHANGED row
  <2>1. c.id \in Events /\ row[c.id].status = "publishing"
    BY <1>2 DEF Copy, UpdatePublishing
  <2>2. row'[c.id] = r /\ \A e \in Events : e # c.id => row'[e] = row[e]
    BY <1>2, <2>1 DEF UpdatePublishing, OwnInv, TypeOK
  <2> QED
    BY <2>1, <2>2 DEF CountInv, LimitStored, AttemptsAccounted, RowsAccounted,
       RetryBudget
<1> QED
  BY <1>1, <1>2

LEMMA CountInit == Init => CountInv
<1> SUFFICES ASSUME Init PROVE CountInv
  OBVIOUS
<1> QED
  BY BudgetType DEF Init, CountInv, LimitStored, AttemptsAccounted, RowsAccounted,
     CopiesAccounted, RetryBudget

LEMMA CountStep == OwnInv /\ CountInv /\ [Next]_vars => CountInv'
<1> SUFFICES ASSUME OwnInv, CountInv, [Next]_vars PROVE CountInv'
  OBVIOUS
<1>0. TypeOK /\ TypeOK'
  BY TypeStep DEF OwnInv
<1> USE DEF CountInv, AttemptsAccounted
<1>1. ASSUME NEW e \in Events, Create(e) PROVE CountInv'
  <2>1. /\ row'[e].status = "pending"
        /\ row'[e].retryCount = 0 /\ attempts[e] = 0
        /\ row'[e].maxRetry = CreatedMaxRetry(e)
        /\ \A d \in Events : d # e => row'[d] = row[d]
    BY <1>0, <1>1 DEF Create, TypeOK, Row, LimitStored, RowsAccounted
  <2>2. LimitStored' /\ RowsAccounted' /\ RetryBudget'
    <3>1. attempts' = attempts /\ 0 < Budget(e)
      BY <1>1, BudgetType DEF Create
    <3>2. LimitStored'
      BY <2>1 DEF LimitStored
    <3>3. RowsAccounted'
      BY <2>1, <3>1 DEF RowsAccounted
    <3>4. RetryBudget'
      BY <2>1, <3>1 DEF RetryBudget
    <3> QED
      BY <3>2, <3>3, <3>4
  <2>3. CopiesAccounted'
    BY <1>1 DEF Create, CopiesAccounted, Attempted, Current
  <2> QED
    BY <2>2, <2>3
<1>2. ASSUME NEW e \in Events, BackoffElapses(e) PROVE CountInv'
  <2>1. \A d \in Events : /\ row'[d].status = row[d].status
                          /\ row'[d].retryCount = row[d].retryCount
                          /\ row'[d].maxRetry = row[d].maxRetry
    BY <1>0, <1>2 DEF BackoffElapses, TypeOK, Row
  <2>2. LimitStored' /\ RowsAccounted' /\ RetryBudget'
    BY <1>2, <2>1 DEF BackoffElapses, LimitStored, RowsAccounted, RetryBudget
  <2>3. CopiesAccounted'
    BY <1>2 DEF BackoffElapses, CopiesAccounted, Attempted, Current
  <2> QED
    BY <2>2, <2>3
<1>3. ASSUME NEW w \in Workers, ListPendingForUpdate(w) PROVE CountInv'
  <2> DEFINE found == Oldest({e \in Events : Claimable(e) /\ ~Locked(e)}, BatchSize)
  <2>1. \A e \in found : e \in Events /\ Claimable(e)
    BY DEF Oldest
  <2>2. /\ batch'[w] = {CopyOf(e) : e \in found}
        /\ pc'[w] = "claim"
        /\ row' = row /\ attempts' = attempts
        /\ \A v \in Workers : v # w => pc'[v] = pc[v] /\ batch'[v] = batch[v]
    BY <1>0, <1>3 DEF ListPendingForUpdate, TypeOK
  <2>3. LimitStored' /\ RowsAccounted' /\ RetryBudget'
    BY <2>2 DEF LimitStored, RowsAccounted, RetryBudget
  <2>4. CopiesAccounted'
    <3> SUFFICES ASSUME NEW v \in Workers, NEW d \in batch'[v]
                 PROVE  attempts'[d.id] = IF Attempted(v, d)' THEN d.retryCount + 1
                                                             ELSE d.retryCount
      BY DEF CopiesAccounted
    <3>1. CASE v = w
      <4>1. PICK e \in found : d = CopyOf(e)
        BY <3>1, <2>2
      <4>2. attempts[e] = row[e].retryCount
        BY <2>1 DEF Claimable, RowsAccounted
      <4> QED
        BY <3>1, <2>2, <4>1, <4>2 DEF CopyOf, Attempted
    <3>2. CASE v # w
      <4>1. Attempted(v, d)' <=> Attempted(v, d)
        BY <3>2, <2>2 DEF Attempted, Current
      <4> QED
        BY <3>2, <2>2, <4>1 DEF CopiesAccounted
    <3> QED
      BY <3>1, <3>2
  <2> QED
    BY <2>3, <2>4
<1>4. ASSUME NEW w \in Workers, MarkPublishing(w) PROVE CountInv'
  <2>1. /\ batch' = batch /\ attempts' = attempts
        /\ pc[w] = "claim" /\ pc'[w] = "publish"
        /\ \A v \in Workers : v # w => pc'[v] = pc[v]
    BY <1>0, <1>4 DEF MarkPublishing, TypeOK
  <2>2. \A e \in Events :
          \/ row'[e] = row[e]
          \/ /\ row[e].status \in {"pending", "retry_scheduled"}
             /\ row'[e].status = "publishing"
             /\ row'[e].retryCount = row[e].retryCount
             /\ row'[e].maxRetry = row[e].maxRetry
    BY <1>0, <1>4 DEF MarkPublishing, TypeOK, Row
  <2>3. LimitStored' /\ RowsAccounted' /\ RetryBudget'
    BY <2>1, <2>2 DEF LimitStored, RowsAccounted, RetryBudget
  <2>4. \A v \in Workers : \A d \in batch[v] : Attempted(v, d)' <=> Attempted(v, d)
    BY <2>1 DEF Attempted, Current
  <2>5. CopiesAccounted'
    BY <2>1, <2>4 DEF CopiesAccounted
  <2> QED
    BY <2>3, <2>5
<1>5. ASSUME NEW w \in Workers, Publish(w) PROVE CountInv'
  <2>1. PICK c \in batch[w] : Current(w, c) /\ attempts' = [attempts EXCEPT ![c.id] = @ + 1]
    BY <1>5 DEF Publish
  <2>2. /\ row' = row /\ batch' = batch
        /\ pc[w] = "publish" /\ pc'[w] \in {"ok", "failed"}
        /\ \A v \in Workers : v # w => pc'[v] = pc[v]
    BY <1>0, <1>5 DEF Publish, TypeOK
  <2>3. /\ c.id \in Events
        /\ row[c.id].status = "publishing"
        /\ row[c.id].retryCount = c.retryCount
        /\ c.retryCount \in Nat
    BY <1>0, <2>2 DEF TypeOK, Copy, OwnInv, ClaimExclusive, CopyOf
  <2>4. attempts[c.id] = c.retryCount
    BY <2>2 DEF CopiesAccounted, Attempted
  <2>5. /\ attempts'[c.id] = c.retryCount + 1
        /\ \A e \in Events : e # c.id => attempts'[e] = attempts[e]
    BY <1>0, <2>1, <2>3, <2>4 DEF TypeOK
  <2>6. c.retryCount + 1 <= Budget(c.id)
    BY <2>3, BudgetType DEF RowsAccounted
  <2>7. LimitStored' /\ RowsAccounted' /\ RetryBudget'
    BY <2>2, <2>3, <2>5, <2>6 DEF LimitStored, RowsAccounted, RetryBudget
  <2>8. CopiesAccounted'
    <3> SUFFICES ASSUME NEW v \in Workers, NEW d \in batch[v]
                 PROVE  attempts'[d.id] = IF Attempted(v, d)' THEN d.retryCount + 1
                                                             ELSE d.retryCount
      BY <2>2 DEF CopiesAccounted
    <3>0. d.id \in Events
      BY <1>0 DEF TypeOK, Copy
    <3>1. CASE v = w /\ d = c
      BY <3>1, <2>1, <2>2, <2>5 DEF Attempted, Current
    <3>2. CASE v = w /\ d # c
      <4>1. d.id # c.id
        BY <3>2, OneCopy
      <4>2. ~Current(w, d)
        BY <3>2, <2>1, OneCurrent
      <4>3. ~Attempted(v, d)' /\ ~Attempted(v, d)
        BY <3>2, <2>2, <4>2 DEF Attempted, Current
      <4> QED
        BY <3>0, <4>1, <4>3, <2>5 DEF CopiesAccounted
    <3>3. CASE v # w
      <4>1. d.id # c.id
        BY <3>3, OneOwner
      <4>2. Attempted(v, d)' <=> Attempted(v, d)
        BY <3>3, <2>2 DEF Attempted, Current
      <4> QED
        BY <3>0, <4>1, <4>2, <2>5 DEF CopiesAccounted
    <3> QED
      BY <3>1, <3>2, <3>3
  <2> QED
    BY <2>7, <2>8
<1>6. ASSUME NEW w \in Workers, MarkPublished(w) \/ MarkPublishedFails(w)
      PROVE  CountInv'
  <2>1. PICK c \in batch[w] : /\ Current(w, c)
                              /\ UpdatePublishing(c, PublishedRow(c)) \/ UNCHANGED row
                              /\ Advance(w, c) \/ Abandon(w)
    BY <1>6 DEF MarkPublished, MarkPublishedFails
  <2>2. pc[w] = "ok" /\ attempts' = attempts
    BY <1>6 DEF MarkPublished, MarkPublishedFails
  <2>3. c \in Copy /\ PublishedRow(c) \in Row
    BY <1>0, WrittenRowType DEF TypeOK
  <2>4. /\ PublishedRow(c).status = "published"
        /\ PublishedRow(c).maxRetry = row[c.id].maxRetry
    BY <1>0, <2>3 DEF TypeOK, Copy, Row, PublishedRow
  <2>5. LimitStored' /\ RowsAccounted' /\ RetryBudget'
    BY <2>1, <2>2, <2>3, <2>4, RowsSettle
  <2>6. CopiesAccounted'
    BY <2>1, <2>2, CopiesSettle
  <2> QED
    BY <2>5, <2>6
<1>7. ASSUME NEW w \in Workers, HandlePublishFailed(w) \/ HandlePublishFailedFails(w)
      PROVE  CountInv'
  <2>1. PICK c \in batch[w] : /\ Current(w, c)
                              /\ UpdatePublishing(c, FailedRow(c)) \/ UNCHANGED row
                              /\ Advance(w, c)
    BY <1>7 DEF HandlePublishFailed, HandlePublishFailedFails
  <2>2. pc[w] = "failed" /\ attempts' = attempts
    BY <1>7 DEF HandlePublishFailed, HandlePublishFailedFails
  <2>3. c \in Copy /\ FailedRow(c) \in Row
    BY <1>0, WrittenRowType DEF TypeOK
  <2>4. /\ row[c.id] \in Row
        /\ row[c.id].status = "publishing"
        /\ c.retryCount = row[c.id].retryCount
        /\ c.maxRetry = row[c.id].maxRetry
    BY <1>0, <2>2, <2>3 DEF TypeOK, Copy, OwnInv, ClaimExclusive, CopyOf
  <2>5. /\ attempts[c.id] = c.retryCount + 1
        /\ c.retryCount < Budget(c.id)
        /\ c.maxRetry = CreatedMaxRetry(c.id)
    BY <2>1, <2>2, <2>3, <2>4
       DEF CopiesAccounted, Attempted, RowsAccounted, LimitStored, Copy
  <2>6. FailedRow(c).maxRetry = row[c.id].maxRetry
    BY <2>4 DEF Row, FailedRow, DeadLetterRow, RetryRow
  <2>7. CASE c.retryCount + 1 >= RetryLimit(c)
    <3>1. FailedRow(c).status = "dead_letter"
      BY <2>4, <2>7 DEF Row, FailedRow, DeadLetterRow
    <3>2. attempts[c.id] = Budget(c.id)
      BY <2>3, <2>5, <2>7, LimitIsBudget
    <3>3. LimitStored' /\ RowsAccounted' /\ RetryBudget'
      BY <2>1, <2>2, <2>3, <2>6, <3>1, <3>2, RowsSettle
    <3> QED
      BY <3>3, <2>1, <2>2, CopiesSettle
  <2>8. CASE ~(c.retryCount + 1 >= RetryLimit(c))
    <3>1. /\ FailedRow(c).status = "retry_scheduled"
          /\ FailedRow(c).retryCount = c.retryCount + 1
      BY <2>4, <2>8 DEF Row, FailedRow, RetryRow
    <3>2. c.retryCount + 1 < RetryLimit(c)
      BY <2>3, <2>8, CfgRetryAssumption DEF Copy, RetryLimit
    <3>3. c.retryCount + 1 < Budget(c.id)
      BY <2>3, <2>5, <3>2, LimitIsBudget
    <3>4. LimitStored' /\ RowsAccounted' /\ RetryBudget'
      BY <2>1, <2>2, <2>3, <2>5, <2>6, <3>1, <3>3, RowsSettle
    <3> QED
      BY <3>4, <2>1, <2>2, CopiesSettle
  <2> QED
    BY <2>7, <2>8
<1>8. ASSUME NEW w \in Workers, ClaimFails(w) \/ Stop(w) PROVE CountInv'
  <2>1. /\ row' = row /\ attempts' = attempts
        /\ batch'[w] = {} /\ pc'[w] = "sleep"
        /\ \A v \in Workers : v # w => pc'[v] = pc[v] /\ batch'[v] = batch[v]
    BY <1>0, <1>8 DEF ClaimFails, Stop, Abandon, TypeOK
  <2>2. \A v \in Workers : \A d \in batch'[v] :
          d \in batch[v] /\ (Attempted(v, d)' <=> Attempted(v, d))
    BY <2>1 DEF Attempted, Current
  <2>3. CopiesAccounted'
    BY <2>1, <2>2 DEF CopiesAccounted
  <2> QED
    BY <2>1, <2>3 DEF LimitStored, RowsAccounted, RetryBudget
<1>9. CASE UNCHANGED vars
  <2>1. LimitStored' /\ RowsAccounted' /\ RetryBudget'
    BY <1>9 DEF vars, LimitStored, RowsAccounted, RetryBudget
  <2>2. CopiesAccounted'
    BY <1>9 DEF vars, CopiesAccounted, Attempted, Current
  <2> QED
    BY <2>1, <2>2
<1> QED
  BY <1>1, <1>2, <1>3, <1>4, <1>5, <1>6, <1>7, <1>8, <1>9
     DEF Next, WorkerStep, WorkerFault

\* No event is published more often than its limit allows, and none is given
\* up before, for every limit, every number of workers and every fault.
THEOREM BudgetIsKept == Spec => []RetryBudget
<1>1. OwnInv /\ CountInv /\ [Next]_vars => (OwnInv /\ CountInv)'
  BY OwnStep, CountStep
<1>2. CountInv => RetryBudget
  BY DEF CountInv
<1> QED
  BY OwnInit, CountInit, <1>1, <1>2, PTL DEF Spec

-----------------------------------------------------------------------------
(* What is called published is in the topic *)

\* The topic only grows, and a worker whose Publish has succeeded has put the
\* message of its current event there.
LEMMA KafkaStep ==
  ASSUME TypeOK, [Next]_vars
  PROVE  \A e \in Events : kafka'[e] >= kafka[e]
<1>1. CASE kafka' = kafka
  BY <1>1 DEF TypeOK
<1>2. ASSUME NEW w \in Workers, Publish(w)
      PROVE  \A e \in Events : kafka'[e] >= kafka[e]
  <2>1. CopiesOnSuccess \subseteq Nat /\ CopiesOnError \subseteq Nat
    BY WriterAssumption DEF CopiesOnSuccess, CopiesOnError
  <2>2. PICK c \in batch[w], n \in Nat : kafka' = [kafka EXCEPT ![c.id] = @ + n]
    BY <1>2, <2>1 DEF Publish, Stored
  <2> QED
    BY <2>2 DEF TypeOK
<1> QED
  BY <1>1, <1>2 DEF Next, vars, WorkerStep, WorkerFault, Create, BackoffElapses,
     ListPendingForUpdate, MarkPublishing, MarkPublished, HandlePublishFailed,
     ClaimFails, MarkPublishedFails, HandlePublishFailedFails, Stop

LEMMA PublishLands ==
  ASSUME OwnInv, NEW w \in Workers, Publish(w), pc'[w] = "ok",
         NEW c, Current(w, c)'
  PROVE  kafka'[c.id] > 0
<1>1. PICK d \in batch[w] : Publish(w)!2!(d)
  BY DEF Publish
<1>2. Current(w, c)
  BY DEF Publish, Current
<1>3. c = d
  BY <1>1, <1>2, OneCurrent
<1>4. CopiesOnSuccess \subseteq Nat \ {0}
  BY WriterAssumption DEF CopiesOnSuccess
<1>5. PICK n \in CopiesOnSuccess : kafka' = [kafka EXCEPT ![d.id] = @ + n]
  BY <1>1 DEF OwnInv, TypeOK, Stored
<1>6. d.id \in Events /\ kafka[d.id] \in Nat
  BY DEF OwnInv, TypeOK, Copy
<1> QED
  BY <1>3, <1>4, <1>5, <1>6 DEF OwnInv, TypeOK

LEMMA SentInit == Init => SentInv
BY DEF Init, SentInv, OkWasSent, PublishedWasSent

LEMMA SentStep == OwnInv /\ SentInv /\ [Next]_vars => SentInv'
<1> SUFFICES ASSUME OwnInv, SentInv, [Next]_vars PROVE SentInv'
  OBVIOUS
<1>0. TypeOK /\ TypeOK'
  BY TypeStep DEF OwnInv
<1>g. \A e \in Events : kafka'[e] >= kafka[e]
  BY <1>0, KafkaStep
<1>k. \A e \in Events : kafka[e] \in Nat /\ kafka'[e] \in Nat
  BY <1>0 DEF TypeOK
<1>i. \A v \in Workers : \A d \in batch[v] : d.id \in Events
  BY <1>0 DEF TypeOK, Copy
<1>1. OkWasSent'
  <2> SUFFICES ASSUME NEW v \in Workers, pc'[v] = "ok",
                      NEW d \in batch'[v], Current(v, d)'
               PROVE  kafka'[d.id] > 0
    BY DEF OkWasSent
  <2>1. CASE Publish(v)
    BY <2>1, PublishLands
  <2>2. CASE ~Publish(v)
    <3>1. pc[v] = "ok" /\ batch'[v] = batch[v]
      <4>1. CASE pc' = pc /\ batch' = batch
        BY <4>1
      <4>2. ASSUME NEW w \in Workers, Publish(w), w # v
            PROVE  pc[v] = "ok" /\ batch'[v] = batch[v]
        BY <1>0, <4>2 DEF Publish, TypeOK
      <4>3. ASSUME NEW w \in Workers, NEW c, Advance(w, c) \/ Abandon(w)
            PROVE  pc[v] = "ok" /\ batch'[v] = batch[v]
        BY <1>0, <4>3 DEF Advance, Abandon, TypeOK
      <4>4. ASSUME NEW w \in Workers, ListPendingForUpdate(w) \/ MarkPublishing(w)
            PROVE  pc[v] = "ok" /\ batch'[v] = batch[v]
        BY <1>0, <4>4 DEF ListPendingForUpdate, MarkPublishing, TypeOK
      <4>5. ASSUME NEW w \in Workers, ClaimFails(w)
            PROVE  pc[v] = "ok" /\ batch'[v] = batch[v]
        BY <1>0, <4>3, <4>5 DEF ClaimFails, Abandon
      <4> QED
        BY <2>2, <4>1, <4>2, <4>3, <4>4, <4>5
           DEF Next, vars, WorkerStep, WorkerFault, Create, BackoffElapses,
               MarkPublished, HandlePublishFailed, MarkPublishedFails,
               HandlePublishFailedFails, Stop
    <3>2. kafka[d.id] > 0
      BY <3>1 DEF SentInv, OkWasSent, Current
    <3> QED
      BY <1>g, <1>k, <1>i, <3>1, <3>2
  <2> QED
    BY <2>1, <2>2
<1>2. PublishedWasSent'
  <2> SUFFICES ASSUME NEW e \in Events, row'[e].status = "published"
               PROVE  kafka'[e] > 0
    BY DEF PublishedWasSent
  <2>1. CASE row[e].status = "published"
    BY <1>g, <1>k, <2>1 DEF SentInv, PublishedWasSent
  <2>2. CASE row[e].status # "published"
    <3>1. PICK w \in Workers : MarkPublished(w) \/ MarkPublishedFails(w)
      <4>1. ASSUME NEW d \in Events, Create(d) PROVE FALSE
        BY <1>0, <2>2, <4>1 DEF Create, TypeOK, Row
      <4>2. ASSUME NEW d \in Events, BackoffElapses(d) PROVE FALSE
        BY <1>0, <2>2, <4>2 DEF BackoffElapses, TypeOK, Row
      <4>3. ASSUME NEW w \in Workers, MarkPublishing(w) PROVE FALSE
        BY <1>0, <2>2, <4>3 DEF MarkPublishing, TypeOK, Row
      <4>4. ASSUME NEW w \in Workers, HandlePublishFailed(w) PROVE FALSE
        <5>1. PICK c \in batch[w] : UpdatePublishing(c, FailedRow(c))
          BY <4>4 DEF HandlePublishFailed
        <5>2. c.id \in Events /\ row[c.id] \in Row
          BY <1>0 DEF TypeOK, Copy
        <5>3. FailedRow(c).status # "published"
          BY <5>2 DEF FailedRow, DeadLetterRow, RetryRow, Row
        <5> QED
          BY <1>0, <2>2, <5>1, <5>2, <5>3 DEF UpdatePublishing, TypeOK
      <4>5. row' # row
        BY <2>2
      <4> QED
        BY <4>1, <4>2, <4>3, <4>4, <4>5
           DEF Next, vars, WorkerStep, WorkerFault, ListPendingForUpdate, Publish,
               ClaimFails, HandlePublishFailedFails, Stop
    <3>2. PICK c \in batch[w] : /\ Current(w, c)
                                /\ UpdatePublishing(c, PublishedRow(c)) \/ UNCHANGED row
      BY <3>1 DEF MarkPublished, MarkPublishedFails
    <3>3. c.id = e
      BY <1>0, <1>i, <2>2, <3>2 DEF UpdatePublishing, TypeOK
    <3>4. kafka[c.id] > 0
      BY <3>1, <3>2 DEF MarkPublished, MarkPublishedFails, SentInv, OkWasSent
    <3> QED
      BY <1>g, <1>k, <3>3, <3>4
  <2> QED
    BY <2>1, <2>2
<1> QED
  BY <1>1, <1>2 DEF SentInv

\* An event that the table calls published is in the topic, whatever workers
\* stop, updates fail or acknowledgements are lost.
THEOREM PublishedIsSent == Spec => []PublishedWasSent
<1>1. OwnInv /\ SentInv /\ [Next]_vars => (OwnInv /\ SentInv)'
  BY OwnStep, SentStep
<1>2. SentInv => PublishedWasSent
  BY DEF SentInv
<1> QED
  BY OwnInit, SentInit, <1>1, <1>2, PTL DEF Spec

-----------------------------------------------------------------------------
(* What is settled stays settled *)

\* A settled event waits for no retry, so the clock has nothing to change.
SettledRests ==
  \A e \in Events :
    row[e].status \in {"published", "dead_letter"} => row[e].nextRetryAt = "null"

\* What SettledIsFinal says of one event.
Kept(e) ==
  /\ row[e].status \in {"published", "dead_letter"} => row'[e] = row[e]
  /\ row'[e].retryCount >= row[e].retryCount

\* A worker's update writes the row of an event it has claimed, from a copy
\* that is current.
LEMMA KeptSettle ==
  ASSUME OwnInv, NEW w \in Workers, pc[w] \in {"ok", "failed"},
         NEW c \in batch[w],
         \/ UpdatePublishing(c, PublishedRow(c))
         \/ UpdatePublishing(c, FailedRow(c))
         \/ UNCHANGED row
  PROVE  /\ \A e \in Events : Kept(e)
         /\ SettledRests => SettledRests'
<1>0. /\ c \in Copy /\ c.id \in Events /\ row[c.id] \in Row
      /\ row \in [Events -> Row]
  BY DEF OwnInv, TypeOK, Copy
<1>1. row[c.id].status = "publishing" /\ c.retryCount = row[c.id].retryCount
  BY DEF OwnInv, ClaimExclusive, CopyOf
<1>2. \A e \in Events : row[e].retryCount \in Nat
  BY <1>0 DEF Row
<1>3. /\ PublishedRow(c).retryCount = row[c.id].retryCount
      /\ DeadLetterRow(c).retryCount = row[c.id].retryCount
      /\ RetryRow(c).retryCount = row[c.id].retryCount + 1
  BY <1>0, <1>1 DEF PublishedRow, DeadLetterRow, RetryRow, Row
<1>4. /\ PublishedRow(c).retryCount >= row[c.id].retryCount
      /\ FailedRow(c).retryCount >= row[c.id].retryCount
  BY <1>0, <1>2, <1>3 DEF FailedRow
<1>5. \A e \in Events : e # c.id => row'[e] = row[e]
  BY <1>0 DEF UpdatePublishing
<1>6. row'[c.id].retryCount >= row[c.id].retryCount
  BY <1>0, <1>2, <1>4 DEF UpdatePublishing
<1>7. /\ PublishedRow(c).nextRetryAt = "null"
      /\ DeadLetterRow(c).nextRetryAt = "null"
      /\ RetryRow(c).status = "retry_scheduled"
  BY <1>0 DEF PublishedRow, DeadLetterRow, RetryRow, Row
<1>8. \/ row'[c.id] = row[c.id]
      \/ row'[c.id] \in {PublishedRow(c), DeadLetterRow(c), RetryRow(c)}
  BY <1>0 DEF UpdatePublishing, FailedRow
<1>9. SettledRests => SettledRests'
  BY <1>0, <1>5, <1>7, <1>8 DEF SettledRests
<1> QED
  BY <1>1, <1>2, <1>5, <1>6, <1>9 DEF Kept

LEMMA KeptStep ==
  OwnInv /\ SettledRests /\ [Next]_vars
    => (\A e \in Events : Kept(e)) /\ SettledRests'
<1> DEFINE Goal == (\A e \in Events : Kept(e)) /\ SettledRests'
<1> SUFFICES ASSUME OwnInv, SettledRests, [Next]_vars PROVE Goal
  OBVIOUS
<1>0. row \in [Events -> Row] /\ \A e \in Events : row[e].retryCount \in Nat
  BY DEF OwnInv, TypeOK, Row
<1>1. ASSUME row' = row PROVE Goal
  BY <1>0, <1>1 DEF Kept, SettledRests
<1>2. ASSUME NEW d \in Events, Create(d) PROVE Goal
  BY <1>0, <1>2 DEF Create, Kept, Row, SettledRests
<1>3. ASSUME NEW d \in Events, BackoffElapses(d) PROVE Goal
  <2>1. \A e \in Events : e # d => row'[e] = row[e]
    BY <1>0, <1>3 DEF BackoffElapses
  <2>2. row'[d].retryCount = row[d].retryCount /\ row'[d].status = row[d].status
    BY <1>0, <1>3 DEF BackoffElapses, Row
  <2>3. row[d].status \notin {"published", "dead_letter"}
    BY <1>3 DEF BackoffElapses, SettledRests
  <2> QED
    BY <1>0, <2>1, <2>2, <2>3 DEF Kept, SettledRests
<1>4. ASSUME NEW w \in Workers, MarkPublishing(w) PROVE Goal
  <2>1. \A e \in Events :
          \/ row'[e] = row[e]
          \/ /\ row[e].status \in {"pending", "retry_scheduled"}
             /\ row'[e] = [row[e] EXCEPT !.status = "publishing", !.claimedBy = w]
    BY <1>4 DEF MarkPublishing
  <2>2. \A e \in Events :
          \/ row'[e] = row[e]
          \/ /\ row[e].status \notin {"published", "dead_letter"}
             /\ row'[e].status = "publishing"
             /\ row'[e].retryCount = row[e].retryCount
    <3> TAKE e \in Events
    <3>1. row[e] \in Row
      BY <1>0
    <3>2. LET new == [row[e] EXCEPT !.status = "publishing", !.claimedBy = w]
          IN  new.status = "publishing" /\ new.retryCount = row[e].retryCount
      BY <3>1 DEF Row
    <3> QED
      BY <2>1, <3>2
  <2> QED
    BY <1>0, <2>2 DEF Kept, SettledRests
<1>5. ASSUME NEW w \in Workers,
             \/ MarkPublished(w) \/ MarkPublishedFails(w)
             \/ HandlePublishFailed(w) \/ HandlePublishFailedFails(w)
      PROVE  Goal
  <2>1. PICK c \in batch[w] :
          \/ UpdatePublishing(c, PublishedRow(c))
          \/ UpdatePublishing(c, FailedRow(c))
          \/ UNCHANGED row
    BY <1>5 DEF MarkPublished, MarkPublishedFails, HandlePublishFailed,
                HandlePublishFailedFails
  <2>2. pc[w] \in {"ok", "failed"}
    BY <1>5 DEF MarkPublished, MarkPublishedFails, HandlePublishFailed,
                HandlePublishFailedFails
  <2> QED
    BY <2>1, <2>2, KeptSettle
<1>6. ASSUME NEW w \in Workers,
             \/ ListPendingForUpdate(w) \/ Publish(w)
             \/ ClaimFails(w) \/ Stop(w)
      PROVE  row' = row
  BY <1>6 DEF ListPendingForUpdate, Publish, ClaimFails, Stop
<1>7. ASSUME UNCHANGED vars PROVE row' = row
  BY <1>7 DEF vars
<1>8. ASSUME NEW w \in Workers, WorkerStep(w) \/ WorkerFault(w)
      PROVE  Goal
  BY <1>1, <1>4, <1>5, <1>6, <1>8 DEF WorkerStep, WorkerFault
<1>9. ASSUME Next PROVE Goal
  BY <1>2, <1>3, <1>8, <1>9 DEF Next
<1> QED
  BY <1>1, <1>7, <1>9

\* No step changes the row of an event that is published or dead-lettered,
\* and none lowers a retry count: the guard on status = 'publishing' that
\* every update of the worker carries is enough, because a claim is exclusive.
THEOREM SettledStaysFinal == Spec => SettledIsFinal
<1>1. Init => SettledRests
  BY DEF Init, SettledRests
<1>2. SettledIsFinal <=> [][\A e \in Events : Kept(e)]_vars
  BY DEF SettledIsFinal, Kept
<1> QED
  BY OwnInit, OwnStep, KeptStep, <1>1, <1>2, PTL DEF Spec

-----------------------------------------------------------------------------
(* Duplicates *)

\* A message none of whose acknowledgements was lost is in the topic once at
\* most, and then its row is marked publishing or published, and the worker
\* that holds it has just been told so.
AckInv ==
  /\ \A e \in Events \ unsure :
       /\ kafka[e] <= 1
       /\ row[e].status \notin {"publishing", "published"} => kafka[e] = 0
  /\ \A w \in Workers : \A c \in batch[w] :
       c.id \notin unsure /\ ~(pc[w] = "ok" /\ Current(w, c)) => kafka[c.id] = 0

\* The loop moves past event c, whose row is settled or left as it is.
LEMMA AckSettle ==
  ASSUME OwnInv, AckInv, NEW w \in Workers, pc[w] \in {"ok", "failed"},
         NEW c \in batch[w], Current(w, c),
         \A e \in Events : e # c.id => row'[e] = row[e],
         row'[c.id].status \in {"publishing", "published"} \/ pc[w] = "failed",
         UNCHANGED <<kafka, unsure>>,
         Advance(w, c) \/ Abandon(w)
  PROVE  AckInv'
<1>1. c.id \in Events
  BY DEF OwnInv, TypeOK, Copy
<1>2. /\ batch'[w] \subseteq batch[w] \ {c}
      /\ pc'[w] # "ok"
      /\ \A v \in Workers : v # w => pc'[v] = pc[v] /\ batch'[v] = batch[v]
  BY DEF OwnInv, TypeOK, Advance, Abandon
<1>3. pc[w] = "failed" /\ c.id \notin unsure => kafka[c.id] = 0
  BY DEF AckInv
<1>4. \A e \in Events \ unsure :
        /\ kafka[e] <= 1
        /\ row'[e].status \notin {"publishing", "published"} => kafka[e] = 0
  BY <1>3 DEF AckInv
<1>5. ASSUME NEW v \in Workers, NEW d \in batch'[v], d.id \notin unsure,
             ~(pc'[v] = "ok" /\ Current(v, d)')
      PROVE  kafka[d.id] = 0
  <2>1. CASE v = w
    <3>1. d \in batch[w] /\ d # c
      BY <1>2, <1>5, <2>1
    <3>2. ~Current(w, d)
      BY <3>1, OneCurrent
    <3> QED
      BY <1>5, <3>1, <3>2 DEF AckInv
  <2>2. CASE v # w
    BY <1>2, <1>5, <2>2 DEF AckInv, Current
  <2> QED
    BY <2>1, <2>2
<1> QED
  BY <1>4, <1>5 DEF AckInv

LEMMA AckInit == Init => AckInv
BY DEF Init, AckInv

LEMMA AckStep == OwnInv /\ AckInv /\ [Next]_vars => AckInv'
<1> SUFFICES ASSUME OwnInv, AckInv, [Next]_vars PROVE AckInv'
  OBVIOUS
<1>0. TypeOK /\ row \in [Events -> Row]
  BY DEF OwnInv, TypeOK
<1>i. \A v \in Workers : \A d \in batch[v] : d \in Copy /\ d.id \in Events
  BY <1>0 DEF TypeOK, Copy
\* The topic and the batches stay, and no row leaves publishing or published.
<1>1. ASSUME UNCHANGED <<pc, batch, kafka, unsure>>,
             \A e \in Events : row[e].status \in {"publishing", "published"} =>
                                 row'[e].status \in {"publishing", "published"}
      PROVE  AckInv'
  BY <1>1 DEF AckInv, Current
<1>2. ASSUME NEW e \in Events, Create(e) PROVE AckInv'
  <2>1. \A d \in Events : d # e => row'[d] = row[d]
    BY <1>0, <1>2 DEF Create
  <2> QED
    BY <1>1, <1>2, <2>1 DEF Create
<1>3. ASSUME NEW e \in Events, BackoffElapses(e) PROVE AckInv'
  <2>1. \A d \in Events : row'[d].status = row[d].status
    BY <1>0, <1>3 DEF BackoffElapses, Row
  <2> QED
    BY <1>1, <1>3, <2>1 DEF BackoffElapses
<1>4. ASSUME NEW w \in Workers, ListPendingForUpdate(w) PROVE AckInv'
  <2> DEFINE found == Oldest({e \in Events : Claimable(e) /\ ~Locked(e)}, BatchSize)
  <2>1. \A e \in found : e \in Events /\ Claimable(e)
    BY DEF Oldest
  <2>2. /\ batch'[w] = {CopyOf(e) : e \in found} /\ pc'[w] = "claim"
        /\ UNCHANGED <<row, kafka, unsure>>
        /\ \A v \in Workers : v # w => pc'[v] = pc[v] /\ batch'[v] = batch[v]
    BY <1>0, <1>4 DEF ListPendingForUpdate, TypeOK
  <2>3. \A c \in batch'[w] : c.id \in found
    BY <2>2 DEF CopyOf
  <2>4. \A c \in batch'[w] : c.id \notin unsure => kafka[c.id] = 0
    BY <2>1, <2>3 DEF AckInv, Claimable
  <2>5. ASSUME NEW v \in Workers, v # w, NEW d \in batch'[v], d.id \notin unsure,
               ~(pc'[v] = "ok" /\ Current(v, d)')
        PROVE  kafka[d.id] = 0
    BY <2>2, <2>5 DEF AckInv, Current
  <2> QED
    BY <2>2, <2>4, <2>5 DEF AckInv
<1>5. ASSUME NEW w \in Workers, MarkPublishing(w) PROVE AckInv'
  <2>1. /\ UNCHANGED <<batch, kafka, unsure>> /\ pc[w] = "claim" /\ pc'[w] = "publish"
        /\ \A v \in Workers : v # w => pc'[v] = pc[v]
    BY <1>0, <1>5 DEF MarkPublishing, TypeOK
  <2>2. \A e \in Events : row[e].status \in {"publishing", "published"} => row'[e] = row[e]
    BY <1>5 DEF MarkPublishing
  <2>3. \A v \in Workers : \A d \in batch[v] :
          ~(pc'[v] = "ok" /\ Current(v, d)') => ~(pc[v] = "ok" /\ Current(v, d))
    BY <2>1 DEF Current
  <2> QED
    BY <2>1, <2>2, <2>3 DEF AckInv
<1>6. ASSUME NEW w \in Workers, Publish(w) PROVE AckInv'
  <2>1. PICK c \in batch[w] : Publish(w)!2!(c)
    BY <1>6 DEF Publish
  <2>2. /\ row' = row /\ batch' = batch /\ pc[w] = "publish" /\ pc'[w] \in {"ok", "failed"}
        /\ \A v \in Workers : v # w => pc'[v] = pc[v]
    BY <1>0, <1>6 DEF Publish, TypeOK
  <2>3. CopiesOnSuccess \subseteq Nat \ {0} /\ CopiesOnError \subseteq Nat
    BY WriterAssumption DEF CopiesOnSuccess, CopiesOnError
  <2>4. PICK n \in Nat, m \in {0, 1} :
          /\ Stored(c, n, m)
          /\ m = 1 => pc'[w] = "ok"
          /\ m = 0 => pc'[w] = "failed"
    <3>1. CASE \E n \in CopiesOnSuccess : Stored(c, n, 1) /\ pc' = [pc EXCEPT ![w] = "ok"]
      BY <1>0, <2>3, <3>1 DEF TypeOK
    <3>2. CASE \E n \in CopiesOnError : Stored(c, n, 0) /\ pc' = [pc EXCEPT ![w] = "failed"]
      BY <1>0, <2>3, <3>2 DEF TypeOK
    <3> QED
      BY <2>1, <3>1, <3>2
  <2>5. /\ kafka'[c.id] = kafka[c.id] + n /\ kafka[c.id] \in Nat
        /\ \A e \in Events : e # c.id => kafka'[e] = kafka[e]
        /\ unsure \subseteq unsure'
        /\ c.id \notin unsure' => n <= m
        /\ \A e \in Events : e # c.id /\ e \notin unsure' => e \notin unsure
    BY <1>0, <1>i, <2>4 DEF Stored, TypeOK
  <2>6. c.id \notin unsure => kafka[c.id] = 0
    BY <2>2 DEF AckInv
  <2>7. row[c.id].status = "publishing"
    BY <2>2 DEF OwnInv, ClaimExclusive
  <2>8. \A e \in Events \ unsure' :
          /\ kafka'[e] <= 1
          /\ row[e].status \notin {"publishing", "published"} => kafka'[e] = 0
    BY <2>5, <2>6, <2>7 DEF AckInv
  <2>9. ASSUME NEW v \in Workers, NEW d \in batch[v], d.id \notin unsure',
               ~(pc'[v] = "ok" /\ Current(v, d)')
        PROVE  kafka'[d.id] = 0
    <3>1. CASE v = w /\ d = c
      <4>1. Current(w, c)'
        BY <2>1, <2>2 DEF Current
      <4>2. m = 0
        BY <2>4, <2>9, <3>1, <4>1
      <4> QED
        BY <2>5, <2>6, <2>9, <3>1, <4>2
    <3>2. CASE ~(v = w /\ d = c)
      <4>1. d.id # c.id /\ d.id \in Events
        BY <1>i, <3>2, OneCopy, OneOwner
      <4>2. ~(pc[v] = "ok" /\ Current(v, d))
        BY <2>2, <2>9 DEF Current
      <4>3. kafka[d.id] = 0
        BY <2>5, <2>9, <4>1, <4>2 DEF AckInv
      <4> QED
        BY <2>5, <4>1, <4>3
    <3> QED
      BY <3>1, <3>2
  <2> QED
    BY <2>2, <2>8, <2>9 DEF AckInv
<1>7. ASSUME NEW w \in Workers, MarkPublished(w) \/ MarkPublishedFails(w) PROVE AckInv'
  <2>1. PICK c \in batch[w] : /\ Current(w, c)
                              /\ UpdatePublishing(c, PublishedRow(c)) \/ UNCHANGED row
                              /\ Advance(w, c) \/ Abandon(w)
    BY <1>7 DEF MarkPublished, MarkPublishedFails
  <2>2. pc[w] = "ok" /\ UNCHANGED <<kafka, unsure>>
    BY <1>7 DEF MarkPublished, MarkPublishedFails
  <2>3. row[c.id].status = "publishing" /\ c.id \in Events
    BY <1>i, <2>2 DEF OwnInv, ClaimExclusive
  <2>4. PublishedRow(c).status = "published"
    BY <1>0, <2>3 DEF PublishedRow, Row
  <2>5. /\ \A e \in Events : e # c.id => row'[e] = row[e]
        /\ row'[c.id].status \in {"publishing", "published"}
    BY <1>0, <2>1, <2>3, <2>4 DEF UpdatePublishing
  <2> QED
    BY <2>1, <2>2, <2>5, AckSettle
<1>8. ASSUME NEW w \in Workers, HandlePublishFailed(w) \/ HandlePublishFailedFails(w)
      PROVE  AckInv'
  <2>1. PICK c \in batch[w] : /\ Current(w, c)
                              /\ UpdatePublishing(c, FailedRow(c)) \/ UNCHANGED row
                              /\ Advance(w, c)
    BY <1>8 DEF HandlePublishFailed, HandlePublishFailedFails
  <2>2. pc[w] = "failed" /\ UNCHANGED <<kafka, unsure>>
    BY <1>8 DEF HandlePublishFailed, HandlePublishFailedFails
  <2>3. \A e \in Events : e # c.id => row'[e] = row[e]
    BY <1>0, <1>i, <2>1 DEF UpdatePublishing
  <2> QED
    BY <2>1, <2>2, <2>3, AckSettle
<1>9. ASSUME NEW w \in Workers, ClaimFails(w) \/ Stop(w) PROVE AckInv'
  <2>1. /\ UNCHANGED <<row, kafka, unsure>> /\ batch'[w] = {}
        /\ \A v \in Workers : v # w => pc'[v] = pc[v] /\ batch'[v] = batch[v]
    BY <1>0, <1>9 DEF ClaimFails, Stop, Abandon, TypeOK
  <2>2. ASSUME NEW v \in Workers, NEW d \in batch'[v], d.id \notin unsure,
               ~(pc'[v] = "ok" /\ Current(v, d)')
        PROVE  kafka[d.id] = 0
    BY <2>1, <2>2 DEF AckInv, Current
  <2> QED
    BY <2>1, <2>2 DEF AckInv
<1>10. CASE UNCHANGED vars
  BY <1>1, <1>10 DEF vars
<1> QED
  BY <1>2, <1>3, <1>4, <1>5, <1>6, <1>7, <1>8, <1>9, <1>10
     DEF Next, WorkerStep, WorkerFault

\* Without a lost acknowledgement an event is in the topic at most once, and
\* not at all when it was given up, however workers stop and updates fail: an
\* update that is lost after a confirmed write strands the event, it never
\* makes a worker send it again.
THEOREM DuplicatesNeedLostAck == Spec => []DuplicateNeedsLostAck
<1>1. AckInv => DuplicateNeedsLostAck
  BY DEF AckInv, DuplicateNeedsLostAck
<1> QED
  BY OwnInit, OwnStep, AckInit, AckStep, <1>1, PTL DEF Spec

-----------------------------------------------------------------------------
(* The outbox implements the delivery service *)

Phase == [e \in Events |-> PhaseOf(row[e].status)]

\* The phases of the statuses.
LEMMA Phases ==
  /\ PhaseOf("absent") = "none"
  /\ PhaseOf("published") = "sent"
  /\ PhaseOf("dead_letter") = "dead"
  /\ \A s \in {"pending", "publishing", "retry_scheduled"} : PhaseOf(s) = "open"
BY DEF PhaseOf

LEMMA PhaseSame ==
  ASSUME \A e \in Events : PhaseOf(row'[e].status) = PhaseOf(row[e].status)
  PROVE  Phase' = Phase
BY DEF Phase

LEMMA PhaseMoves ==
  ASSUME NEW d \in Events, NEW s,
         \A e \in Events : e # d => row'[e].status = row[e].status,
         PhaseOf(row'[d].status) = s
  PROVE  Phase' = [Phase EXCEPT ![d] = s]
BY DEF Phase

LEMMA DeliveryInitial == Init => Delivery!DeliveryInit
<1> SUFFICES ASSUME Init PROVE Delivery!DeliveryInit
  OBVIOUS
<1>1. \A e \in Events : row[e].status = "absent"
  BY DEF Init
<1>2. Phase = [e \in Events |-> "none"]
  BY <1>1, Phases DEF Phase
<1> QED
  BY <1>2 DEF Init, Phase, Delivery!DeliveryInit

\* The steps of the delivery service, in terms of the outbox.
LEMMA DeliveryCases ==
  ASSUME \/ UNCHANGED <<Phase, attempts, kafka>>
         \/ \E e \in Events :
              /\ PhaseOf(row[e].status) = "none"
              /\ Phase' = [Phase EXCEPT ![e] = "open"]
              /\ UNCHANGED <<attempts, kafka>>
         \/ \E e \in Events :
              /\ PhaseOf(row[e].status) = "open"
              /\ attempts[e] < Budget(e)
              /\ attempts' = [attempts EXCEPT ![e] = @ + 1]
              /\ kafka'[e] \in Nat
              /\ kafka'[e] >= kafka[e]
              /\ kafka' = [kafka EXCEPT ![e] = kafka'[e]]
              /\ UNCHANGED Phase
         \/ \E e \in Events :
              /\ PhaseOf(row[e].status) = "open"
              /\ kafka[e] > 0
              /\ Phase' = [Phase EXCEPT ![e] = "sent"]
              /\ UNCHANGED <<attempts, kafka>>
         \/ \E e \in Events :
              /\ PhaseOf(row[e].status) = "open"
              /\ attempts[e] = Budget(e)
              /\ Phase' = [Phase EXCEPT ![e] = "dead"]
              /\ UNCHANGED <<attempts, kafka>>
  PROVE  [Delivery!DeliveryNext]_(Delivery!deliveryVars)
BY DEF Delivery!DeliveryNext, Delivery!deliveryVars, Delivery!Accept, Delivery!Try,
       Delivery!Confirm, Delivery!Bury, Phase

LEMMA DeliveryStep ==
  OwnInv /\ CountInv /\ SentInv /\ [Next]_vars
    => [Delivery!DeliveryNext]_(Delivery!deliveryVars)
<1> DEFINE Goal == [Delivery!DeliveryNext]_(Delivery!deliveryVars)
<1> SUFFICES ASSUME OwnInv, CountInv, SentInv, [Next]_vars PROVE Goal
  OBVIOUS
<1>0. TypeOK /\ row \in [Events -> Row]
  BY DEF OwnInv, TypeOK
<1>i. \A v \in Workers : \A d \in batch[v] : d \in Copy /\ d.id \in Events
  BY <1>0 DEF TypeOK, Copy
<1>1. ASSUME UNCHANGED <<attempts, kafka>>,
             \A e \in Events : PhaseOf(row'[e].status) = PhaseOf(row[e].status)
      PROVE  Goal
  BY <1>1, PhaseSame, DeliveryCases
<1>2. ASSUME NEW e \in Events, Create(e) PROVE Goal
  <2>1. /\ \A d \in Events : d # e => row'[d].status = row[d].status
        /\ row[e].status = "absent" /\ row'[e].status = "pending"
    BY <1>0, <1>2 DEF Create, Row
  <2>2. Phase' = [Phase EXCEPT ![e] = "open"]
    BY <2>1, Phases, PhaseMoves
  <2> QED
    BY <1>2, <2>1, <2>2, Phases, DeliveryCases DEF Create
<1>3. ASSUME NEW e \in Events, BackoffElapses(e) PROVE Goal
  <2>1. \A d \in Events : row'[d].status = row[d].status
    BY <1>0, <1>3 DEF BackoffElapses, Row
  <2> QED
    BY <1>1, <1>3, <2>1 DEF BackoffElapses
<1>4. ASSUME NEW w \in Workers, MarkPublishing(w) PROVE Goal
  <2>1. ASSUME NEW e \in Events PROVE PhaseOf(row'[e].status) = PhaseOf(row[e].status)
    <3>1. CASE row'[e] = row[e]
      BY <3>1
    <3>2. CASE row'[e] # row[e]
      <4>1. /\ row[e].status \in {"pending", "retry_scheduled"}
            /\ row'[e] = [row[e] EXCEPT !.status = "publishing", !.claimedBy = w]
        BY <1>4, <3>2 DEF MarkPublishing
      <4>2. row'[e].status = "publishing"
        BY <1>0, <4>1 DEF Row
      <4> QED
        BY <4>1, <4>2, Phases
    <3> QED
      BY <3>1, <3>2
  <2> QED
    BY <1>1, <1>4, <2>1 DEF MarkPublishing
<1>5. ASSUME NEW w \in Workers, Publish(w) PROVE Goal
  <2>1. PICK c \in batch[w] : Publish(w)!2!(c)
    BY <1>5 DEF Publish
  <2>2. pc[w] = "publish" /\ row' = row /\ Phase' = Phase
    BY <1>5 DEF Publish, Phase
  <2>3. row[c.id].status = "publishing" /\ c.retryCount = row[c.id].retryCount
    BY <2>2 DEF OwnInv, ClaimExclusive, CopyOf
  <2>4. ~Attempted(w, c)
    BY <2>2 DEF Attempted
  <2>5. attempts[c.id] < Budget(c.id)
    BY <1>i, <2>3, <2>4 DEF CountInv, AttemptsAccounted, RowsAccounted, CopiesAccounted
  <2>6. CopiesOnSuccess \subseteq Nat /\ CopiesOnError \subseteq Nat
    BY WriterAssumption DEF CopiesOnSuccess, CopiesOnError
  <2>7. PICK n \in Nat : kafka' = [kafka EXCEPT ![c.id] = @ + n]
    BY <2>1, <2>6 DEF Stored
  <2>8. /\ kafka'[c.id] \in Nat /\ kafka'[c.id] >= kafka[c.id]
        /\ kafka' = [kafka EXCEPT ![c.id] = kafka'[c.id]]
    <3> DEFINE k == kafka[c.id] + n
    <3>1. kafka' = [kafka EXCEPT ![c.id] = k]
      BY <2>7
    <3>2. k \in Nat /\ k >= kafka[c.id]
      BY <1>0, <1>i DEF TypeOK
    <3> HIDE DEF k
    <3>3. kafka'[c.id] = k
      BY <1>0, <1>i, <3>1 DEF TypeOK
    <3> QED
      BY <3>1, <3>2, <3>3
  <2>9. attempts' = [attempts EXCEPT ![c.id] = @ + 1]
    BY <2>1
  <2>10. PhaseOf(row[c.id].status) = "open" /\ c.id \in Events
    BY <1>i, <2>3, Phases
  <2>11. \E e \in Events :
           /\ PhaseOf(row[e].status) = "open"
           /\ attempts[e] < Budget(e)
           /\ attempts' = [attempts EXCEPT ![e] = @ + 1]
           /\ kafka'[e] \in Nat
           /\ kafka'[e] >= kafka[e]
           /\ kafka' = [kafka EXCEPT ![e] = kafka'[e]]
           /\ UNCHANGED Phase
    BY <2>2, <2>5, <2>8, <2>9, <2>10
  <2> QED
    BY <2>11, DeliveryCases
<1>6. ASSUME NEW w \in Workers, MarkPublished(w) \/ MarkPublishedFails(w) PROVE Goal
  <2>1. PICK c \in batch[w] : /\ Current(w, c)
                              /\ UpdatePublishing(c, PublishedRow(c)) \/ UNCHANGED row
    BY <1>6 DEF MarkPublished, MarkPublishedFails
  <2>2. pc[w] = "ok" /\ UNCHANGED <<kafka, attempts>>
    BY <1>6 DEF MarkPublished, MarkPublishedFails
  <2>3. row[c.id].status = "publishing" /\ kafka[c.id] > 0
    BY <2>1, <2>2 DEF OwnInv, ClaimExclusive, SentInv, OkWasSent
  <2>4. CASE row' = row
    BY <1>1, <2>2, <2>4
  <2>5. CASE row' # row
    <3>1. row' = [row EXCEPT ![c.id] = PublishedRow(c)]
      BY <2>1, <2>5 DEF UpdatePublishing
    <3>2. PublishedRow(c).status = "published"
      BY <1>0, <1>i DEF PublishedRow, Row
    <3>3. Phase' = [Phase EXCEPT ![c.id] = "sent"]
      BY <1>0, <1>i, <3>1, <3>2, Phases, PhaseMoves
    <3> QED
      BY <1>i, <2>2, <2>3, <3>3, Phases, DeliveryCases
  <2> QED
    BY <2>4, <2>5
<1>7. ASSUME NEW w \in Workers, HandlePublishFailed(w) \/ HandlePublishFailedFails(w)
      PROVE  Goal
  <2>1. PICK c \in batch[w] : UpdatePublishing(c, FailedRow(c)) \/ UNCHANGED row
    BY <1>7 DEF HandlePublishFailed, HandlePublishFailedFails
  <2>2. pc[w] = "failed" /\ UNCHANGED <<kafka, attempts>>
    BY <1>7 DEF HandlePublishFailed, HandlePublishFailedFails
  <2>3. row[c.id].status = "publishing"
    BY <2>2 DEF OwnInv, ClaimExclusive
  <2>4. /\ \A e \in Events : e # c.id => row'[e].status = row[e].status
        /\ row'[c.id] = row[c.id] \/ row'[c.id] \in {DeadLetterRow(c), RetryRow(c)}
    BY <1>0, <1>i, <2>1 DEF UpdatePublishing, FailedRow
  <2>5. DeadLetterRow(c).status = "dead_letter" /\ RetryRow(c).status = "retry_scheduled"
    BY <1>0, <1>i DEF DeadLetterRow, RetryRow, Row
  <2>6. CASE row'[c.id].status \in {"publishing", "retry_scheduled"}
    <3>1. \A e \in Events : PhaseOf(row'[e].status) = PhaseOf(row[e].status)
      BY <2>3, <2>4, <2>6, Phases
    <3> QED
      BY <1>1, <2>2, <3>1
  <2>7. CASE row'[c.id].status = "dead_letter"
    <3>1. attempts[c.id] = Budget(c.id)
      <4>1. RetryBudget'
        BY CountStep DEF CountInv
      <4> QED
        BY <1>i, <2>2, <2>7, <4>1 DEF RetryBudget, Budget, CreatedMaxRetry
    <3>2. Phase' = [Phase EXCEPT ![c.id] = "dead"]
      BY <1>i, <2>4, <2>7, Phases, PhaseMoves
    <3> QED
      BY <1>i, <2>2, <2>3, <3>1, <3>2, Phases, DeliveryCases
  <2> QED
    BY <2>3, <2>4, <2>5, <2>6, <2>7
<1>8. ASSUME NEW w \in Workers, ListPendingForUpdate(w) \/ ClaimFails(w) \/ Stop(w) PROVE Goal
  BY <1>1, <1>8 DEF ListPendingForUpdate, ClaimFails, Stop
<1>9. CASE UNCHANGED vars
  BY <1>1, <1>9 DEF vars
<1> QED
  BY <1>2, <1>3, <1>4, <1>5, <1>6, <1>7, <1>8, <1>9
     DEF Next, WorkerStep, WorkerFault

\* The table, its workers and the topic implement the abstract delivery
\* service: every step of the outbox accepts, tries, confirms or buries one
\* event, as the service allows it, or does nothing that the service shows.
THEOREM DeliveryIsImplemented == Spec => ImplementsDelivery
<1>1. OwnInv /\ CountInv /\ SentInv /\ [Next]_vars => (OwnInv /\ CountInv /\ SentInv)'
  BY OwnStep, CountStep, SentStep
<1> QED
  BY OwnInit, CountInit, SentInit, <1>1, DeliveryInitial, DeliveryStep, PTL
     DEF Spec, ImplementsDelivery, Delivery!DeliverySpec
=============================================================================
