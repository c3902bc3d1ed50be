------------------------------- MODULE Outbox -------------------------------
(***************************************************************************)
(* The transactional outbox of the portal backend: the outbox_events table *)
(* (internal/repository/impl/outbox_repository.go), the workers that every *)
(* API instance runs (internal/worker/worker.go) and the Kafka topic they  *)
(* publish to.                                                             *)
(*                                                                         *)
(* A worker's pass (publishPending) is a sequence of separately committed  *)
(* database statements with Kafka writes between them; each is an action   *)
(* here, so that workers interleave, fail and stop between any two.        *)
(*                                                                         *)
(* Events are natural numbers ordered as their created_at column orders    *)
(* them. Rows may be inserted in any order: created_at is set before the   *)
(* inserting transaction commits.                                          *)
(***************************************************************************)
EXTENDS Integers, FiniteSets

CONSTANTS
  Events,          \* the outbox events that may be created
  Workers,         \* one worker per API instance
  NoWorker,        \* NULL in claimed_by
  BatchSize,       \* OUTBOX_WORKER_BATCH_SIZE
  EnvMaxRetry,     \* OUTBOX_WORKER_MAX_RETRY as the creator of each event read it
  DefaultMaxRetry, \* DEFAULT of the max_retry column: 10 in the code
  CfgMaxRetry,     \* Config.MaxRetry of the workers
  WriterAttempts,  \* MaxAttempts of the Kafka writer: 5 in the code
  Faults           \* the failures that may happen: see FaultKinds

FaultKinds == {
  "stop",  \* a worker's process crashes, or its context is cancelled
  "db",    \* a statement of the worker fails
  "ack"}   \* Kafka stores a message and its acknowledgement is lost

ASSUME EventsAssumption    == Events \subseteq Nat
ASSUME NoWorkerAssumption  == NoWorker \notin Workers
ASSUME BatchAssumption     == BatchSize \in Nat \ {0}
ASSUME EnvRetryAssumption  == EnvMaxRetry \in [Events -> Int]
ASSUME DefaultAssumption   == DefaultMaxRetry \in Nat \ {0}
ASSUME CfgRetryAssumption  == CfgMaxRetry \in Int
ASSUME WriterAssumption    == WriterAttempts \in Nat \ {0}
ASSUME FaultsAssumption    == Faults \subseteq FaultKinds

Status == {"absent", "pending", "publishing", "retry_scheduled",
           "published", "dead_letter"}

\* Where next_retry_at lies: unset, later than now, or not later than now.
RetryAt == {"null", "future", "past"}

Row == [status: Status, retryCount: Nat, maxRetry: Int,
        nextRetryAt: RetryAt, claimedBy: Workers \cup {NoWorker}]

\* The copy of a row that a worker keeps from its claim.
Copy == [id: Events, retryCount: Nat, maxRetry: Int]

\* "sleep": between two ticks; "claim": inside the claiming transaction, its
\* rows locked; "publish": about to publish the next event of the batch;
\* "ok", "failed": Publish has returned nil, or an error.
PC == {"sleep", "claim", "publish", "ok", "failed"}

VARIABLES
  row,       \* the table outbox_events
  pc,        \* where each worker is in its pass
  batch,     \* the events each worker has selected and not finished with
  kafka,     \* how many copies of each event's message the topic holds
  attempts,  \* history: how many times Publish was called for each event
  unsure     \* history: events with a stored copy that no answer confirmed

vars == <<row, pc, batch, kafka, attempts, unsure>>

-----------------------------------------------------------------------------
Init ==
  /\ row = [e \in Events |-> [status |-> "absent", retryCount |-> 0,
                              maxRetry |-> 0, nextRetryAt |-> "null",
                              claimedBy |-> NoWorker]]
  /\ pc = [w \in Workers |-> "sleep"]
  /\ batch = [w \in Workers |-> {}]
  /\ kafka = [e \in Events |-> 0]
  /\ attempts = [e \in Events |-> 0]
  /\ unsure = {}

\* GORM leaves a zero max_retry to the column's default.
CreatedMaxRetry(e) == IF EnvMaxRetry[e] = 0 THEN DefaultMaxRetry
                                            ELSE EnvMaxRetry[e]

\* createNotificationOutboxEvent, in the transaction of the service that
\* asks for the notification, seen when that transaction commits.
Create(e) ==
  /\ row[e].status = "absent"
  /\ row' = [row EXCEPT ![e].status = "pending",
                        ![e].maxRetry = CreatedMaxRetry(e)]
  /\ UNCHANGED <<pc, batch, kafka, attempts, unsure>>

\* The clock passes an event's next_retry_at.
BackoffElapses(e) ==
  /\ row[e].nextRetryAt = "future"
  /\ row' = [row EXCEPT ![e].nextRetryAt = "past"]
  /\ UNCHANGED <<pc, batch, kafka, attempts, unsure>>

-----------------------------------------------------------------------------
(* The claiming transaction *)

\* Mutant: events whose retry is scheduled are never found again.
ClaimablePendingOnly(e) == row[e].status = "pending"

Claimable(e) ==
  /\ row[e].status \in {"pending", "retry_scheduled"}
  /\ row[e].nextRetryAt # "future"

Ids(w) == {c.id : c \in batch[w]}

\* Mutant: the SELECT neither locks rows nor skips locked ones.
LockedNever(e) == FALSE

\* Row locks last as long as the claiming transaction.
Locked(e) == \E w \in Workers : pc[w] = "claim" /\ e \in Ids(w)

\* ORDER BY created_at LIMIT n
Oldest(S, n) == {e \in S : Cardinality({d \in S : d < e}) < n}

CopyOf(e) == [id |-> e, retryCount |-> row[e].retryCount,
              maxRetry |-> row[e].maxRetry]

\* ... FOR UPDATE SKIP LOCKED
ListPendingForUpdate(w) ==
  LET found == Oldest({e \in Events : Claimable(e) /\ ~Locked(e)}, BatchSize)
  IN  /\ pc[w] = "sleep"
      /\ found # {}
      /\ batch' = [batch EXCEPT ![w] = {CopyOf(e) : e \in found}]
      /\ pc' = [pc EXCEPT ![w] = "claim"]
      /\ UNCHANGED <<row, kafka, attempts, unsure>>

\* MarkPublishing and the commit of the claim.
MarkPublishing(w) ==
  /\ pc[w] = "claim"
  /\ row' = [e \in Events |->
               IF /\ e \in Ids(w)
                  /\ row[e].status \in {"pending", "retry_scheduled"}
               THEN [row[e] EXCEPT !.status = "publishing", !.claimedBy = w]
               ELSE row[e]]
  /\ pc' = [pc EXCEPT ![w] = "publish"]
  /\ UNCHANGED <<batch, kafka, attempts, unsure>>

\* A statement of the claim fails and it is rolled back: nothing is claimed.
ClaimFails(w) ==
  /\ "db" \in Faults
  /\ pc[w] = "claim"
  /\ batch' = [batch EXCEPT ![w] = {}]
  /\ pc' = [pc EXCEPT ![w] = "sleep"]
  /\ UNCHANGED <<row, kafka, attempts, unsure>>

-----------------------------------------------------------------------------
(* The loop over the claimed events, oldest first *)

Current(w, c) ==
  /\ c \in batch[w]
  /\ \A d \in batch[w] : c.id <= d.id

\* What a call of Publish may leave in the topic. The writer tries
\* WriterAttempts times: each try may be stored and its answer lost.
CopiesOnSuccess == IF "ack" \in Faults THEN 1 .. WriterAttempts ELSE {1}
CopiesOnError   == IF "ack" \in Faults THEN 0 .. WriterAttempts ELSE {0}

\* Publish returns; n copies of the message of c were stored, of which its
\* answer confirms at most `confirmed'.
Stored(c, n, confirmed) ==
  /\ kafka' = [kafka EXCEPT ![c.id] = @ + n]
  /\ unsure' = IF n > confirmed THEN unsure \cup {c.id} ELSE unsure

\* Mutant: an error of Publish is ignored.
PublishIgnoringError(w) ==
  /\ pc[w] = "publish"
  /\ \E c \in batch[w] :
       /\ Current(w, c)
       /\ attempts' = [attempts EXCEPT ![c.id] = @ + 1]
       /\ \E n \in CopiesOnError \cup CopiesOnSuccess : Stored(c, n, 1)
       /\ pc' = [pc EXCEPT ![w] = "ok"]
  /\ UNCHANGED <<row, batch>>

Publish(w) ==
  /\ pc[w] = "publish"
  /\ \E c \in batch[w] :
       /\ Current(w, c)
       /\ attempts' = [attempts EXCEPT ![c.id] = @ + 1]
       /\ \/ /\ \E n \in CopiesOnSuccess : Stored(c, n, 1)
             /\ pc' = [pc EXCEPT ![w] = "ok"]
          \/ /\ \E n \in CopiesOnError : Stored(c, n, 0)
             /\ pc' = [pc EXCEPT ![w] = "failed"]
  /\ UNCHANGED <<row, batch>>

\* The loop moves past event c.
Advance(w, c) ==
  /\ batch' = [batch EXCEPT ![w] = @ \ {c}]
  /\ pc' = [pc EXCEPT ![w] = IF batch[w] = {c} THEN "sleep" ELSE "publish"]

\* The loop is left: the events that remain in the batch are forgotten.
Abandon(w) ==
  /\ batch' = [batch EXCEPT ![w] = {}]
  /\ pc' = [pc EXCEPT ![w] = "sleep"]

\* UPDATE ... WHERE id = c.id AND status = 'publishing'
UpdatePublishing(c, new) ==
  row' = IF row[c.id].status = "publishing"
         THEN [row EXCEPT ![c.id] = new] ELSE row

\* Mutant: a status that the table does not know.
PublishedRowUnknownStatus(c) ==
  [row[c.id] EXCEPT !.status = "done", !.nextRetryAt = "null",
                    !.claimedBy = NoWorker]

PublishedRow(c) ==
  [row[c.id] EXCEPT !.status = "published", !.nextRetryAt = "null",
                    !.claimedBy = NoWorker]

RetryRow(c) ==
  [row[c.id] EXCEPT !.status = "retry_scheduled",
                    !.retryCount = c.retryCount + 1,
                    !.nextRetryAt = "future", !.claimedBy = NoWorker]

DeadLetterRow(c) ==
  [row[c.id] EXCEPT !.status = "dead_letter", !.nextRetryAt = "null",
                    !.claimedBy = NoWorker]

RetryLimit(c) == IF c.maxRetry <= 0 THEN CfgMaxRetry ELSE c.maxRetry

\* Mutants: one attempt too many; no attempt but the first.
FailedRowOffByOne(c) == IF c.retryCount + 1 > RetryLimit(c) THEN DeadLetterRow(c)
                                                           ELSE RetryRow(c)
FailedRowAtOnce(c) == DeadLetterRow(c)

\* The row that handlePublishFailed writes.
FailedRow(c) == IF c.retryCount + 1 >= RetryLimit(c) THEN DeadLetterRow(c)
                                                     ELSE RetryRow(c)

MarkPublished(w) ==
  /\ pc[w] = "ok"
  /\ \E c \in batch[w] :
       /\ Current(w, c)
       /\ UpdatePublishing(c, PublishedRow(c))
       /\ Advance(w, c)
  /\ UNCHANGED <<kafka, attempts, unsure>>

\* MarkPublished returns an error, its update lost or nevertheless done:
\* publishPending returns and forgets the rest of the batch.
MarkPublishedFails(w) ==
  /\ "db" \in Faults
  /\ pc[w] = "ok"
  /\ \E c \in batch[w] :
       /\ Current(w, c)
       /\ \/ UpdatePublishing(c, PublishedRow(c))
          \/ UNCHANGED row
       /\ Abandon(w)
  /\ UNCHANGED <<kafka, attempts, unsure>>

HandlePublishFailed(w) ==
  /\ pc[w] = "failed"
  /\ \E c \in batch[w] :
       /\ Current(w, c)
       /\ UpdatePublishing(c, FailedRow(c))
       /\ Advance(w, c)
  /\ UNCHANGED <<kafka, attempts, unsure>>

\* The statement of handlePublishFailed is lost; its error is logged and the
\* loop goes on. (An error after the update was done is HandlePublishFailed.)
HandlePublishFailedFails(w) ==
  /\ "db" \in Faults
  /\ pc[w] = "failed"
  /\ \E c \in batch[w] :
       /\ Current(w, c)
       /\ UNCHANGED row
       /\ Advance(w, c)
  /\ UNCHANGED <<kafka, attempts, unsure>>

\* The process crashes, or its context is cancelled and every later call of
\* the pass fails. An open claim is rolled back. The slot is taken by the
\* worker of a new process.
Stop(w) ==
  /\ "stop" \in Faults
  /\ pc[w] # "sleep"
  /\ Abandon(w)
  /\ UNCHANGED <<row, kafka, attempts, unsure>>

-----------------------------------------------------------------------------
WorkerStep(w) ==
  \/ ListPendingForUpdate(w)
  \/ MarkPublishing(w)
  \/ Publish(w)
  \/ MarkPublished(w)
  \/ HandlePublishFailed(w)

WorkerFault(w) ==
  \/ ClaimFails(w)
  \/ MarkPublishedFails(w)
  \/ HandlePublishFailedFails(w)
  \/ Stop(w)

Next ==
  \/ \E e \in Events : Create(e) \/ BackoffElapses(e)
  \/ \E w \in Workers : WorkerStep(w) \/ WorkerFault(w)

Spec == Init /\ [][Next]_vars

\* The ticker keeps calling publishPending, every call returns, and time
\* passes. Nothing is assumed of Create, of Kafka or of the faults.
Fairness ==
  /\ \A w \in Workers : WF_vars(WorkerStep(w))
  /\ \A e \in Events : WF_vars(BackoffElapses(e))

FairSpec == Spec /\ Fairness

-----------------------------------------------------------------------------
(* Properties *)

\* Every worker's state and every row is well formed.
TypeOK ==
  /\ row \in [Events -> Row]
  /\ pc \in [Workers -> PC]
  /\ batch \in [Workers -> SUBSET Copy]
  /\ kafka \in [Events -> Nat]
  /\ attempts \in [Events -> Nat]
  /\ unsure \subseteq Events

\* FOR UPDATE SKIP LOCKED and the status filters of the UPDATEs make a claim
\* exclusive: the events a worker is publishing are marked publishing under
\* its own name, and its copies of them agree with the table, although the
\* worker read them in an earlier transaction and other workers have been
\* running since.
ClaimExclusive ==
  \A w \in Workers : pc[w] # "claim" =>
    \A c \in batch[w] : /\ row[c.id].status = "publishing"
                        /\ row[c.id].claimedBy = w
                        /\ c = CopyOf(c.id)

\* An event that the table calls published is in the topic, whatever fails:
\* MarkPublished is only reached after Publish has succeeded for that event.
PublishedWasSent ==
  \A e \in Events : row[e].status = "published" => kafka[e] > 0

\* The number of attempts the code grants an event. A limit below one still
\* grants the first.
Budget(e) ==
  LET limit == IF CreatedMaxRetry(e) <= 0 THEN CfgMaxRetry
                                          ELSE CreatedMaxRetry(e)
  IN  IF limit < 1 THEN 1 ELSE limit

\* An event is never published more often than its limit allows, and it is
\* given up (dead_letter) only when it has had every attempt of its budget:
\* retry_count is carried from the row to the worker's copy and back.
RetryBudget ==
  \A e \in Events :
    /\ attempts[e] <= Budget(e)
    /\ row[e].status = "dead_letter" => attempts[e] = Budget(e)

\* The event of copy c has been tried in worker w's pass.
Attempted(w, c) == pc[w] \in {"ok", "failed"} /\ Current(w, c)

RowsAccounted ==
  \A e \in Events :
    /\ row[e].status \in {"absent", "pending", "retry_scheduled"} =>
         attempts[e] = row[e].retryCount
    /\ row[e].status = "publishing" =>
         attempts[e] \in {row[e].retryCount, row[e].retryCount + 1}
    /\ row[e].status \in {"pending", "retry_scheduled", "publishing"} =>
         row[e].retryCount < Budget(e)

CopiesAccounted ==
  \A w \in Workers : \A c \in batch[w] :
    attempts[c.id] = IF Attempted(w, c) THEN c.retryCount + 1
                                        ELSE c.retryCount

\* retry_count counts the failed attempts of an event exactly: it is below the
\* budget and equal to the attempts made as long as the event is waiting or
\* claimed and not yet tried. The budget rests on this: a copy that lost or
\* gained an attempt would bury its event too early, or try it too often.
AttemptsAccounted == RowsAccounted /\ CopiesAccounted

\* Duplicates come from lost acknowledgements only. An event none of whose
\* acknowledgements was lost reaches the topic at most once, even when workers
\* stop and their updates fail, and is not in the topic when it was given up:
\* no worker sends again what another, or its own earlier pass, has sent.
DuplicateNeedsLostAck ==
  \A e \in Events \ unsure :
    /\ kafka[e] <= 1
    /\ row[e].status = "dead_letter" => kafka[e] = 0

\* published and dead_letter are final, and retry_count never decreases: no
\* late update of a worker changes the row of an event that is settled.
SettledIsFinal ==
  [][\A e \in Events :
       /\ row[e].status \in {"published", "dead_letter"} => row'[e] = row[e]
       /\ row'[e].retryCount >= row[e].retryCount]_vars

\* The abstract phase of an event.
PhaseOf(status) ==
  CASE status = "absent"      -> "none"
    [] status = "published"   -> "sent"
    [] status = "dead_letter" -> "dead"
    [] OTHER                  -> "open"

Delivery == INSTANCE OutboxDelivery WITH
  phase  <- [e \in Events |-> PhaseOf(row[e].status)],
  tries  <- attempts,
  copies <- kafka

\* The table, the workers and their claims implement the abstract delivery
\* service, faults included: whatever worker confirms or buries an event, and
\* however stale its copy of the row, the topic and the budget justify it.
ImplementsDelivery == Delivery!DeliverySpec

\* What docs/architecture.md and docs/diagrams/user_registration_outbox_flow.md
\* promise of the outbox: once the business transaction has committed, its
\* event is eventually published or, all attempts failed, dead-lettered.
EventuallySettled ==
  \A e \in Events :
    row[e].status = "pending" ~> row[e].status \in {"published", "dead_letter"}
=============================================================================
