# Formal models of the portal backend

TLA+ modules that model the portal backend, TLC configurations that check them
on small instances, and TLAPS proofs of the results that hold for every
instance. Paths below are relative to the root of the repository.

## The system

The backend is one API process, of which several instances may run, and one
CDC consumer process. They share Postgres, Redis, Kafka and Elasticsearch.

| Part | State | Operations | Interacts with |
|---|---|---|---|
| Authentication service, sessions (`internal/service/auth.go`) | `auth_sessions`, `refresh_tokens` | LogIn, Refresh, reuse handler, Logout, LogoutAll | Redis revocation store, accounts |
| Authentication service, accounts (same file) | `users`, `user_tokens` | Register, VerifyEmail, ResendVerification, ForgotPassword, SetPassword, ResetPassword | outbox (notifications) |
| Administration and user services (`admin.go`, `user.go`) | `users`, `user_tokens` | CreateUser, DeleteUser, RestoreUser, UpdateRole, ChangePassword, UpdateProfile | outbox, roles |
| Role and permission services (`role.go`, `permission.go`) | `roles`, `role_permissions` | CreateRole, DeleteRole, AssignPermission, RemovePermission | `users.role_id` |
| Authenticator, authorizer, interceptors | none of their own | check every call | Redis, sessions, roles |
| Rate limiting (`internal/infrastructure/ratelimit`, interceptor) | counters in Redis | Allow, before and after authentication | Redis |
| Outbox (`publisher.go`, `outbox_repository.go`, `internal/worker`) | `outbox_events` | insert with the business transaction; claim, publish, settle | Kafka |
| CDC consumer (`internal/infrastructure/cdc`, `elasticsearch`) | offsets, documents | fetch, handle, commit | Kafka, Elasticsearch |
| gRPC servers, interceptors, mapper, gateway (`internal/handler`) | calls in flight | validate, authenticate, limit, check permissions, serve, answer | every service |
| Start and shutdown (`internal/app`, `config`, `storage/seed.go`) | instances, seeds | New, Run, Shutdown | database, worker, requests in flight |
| Audit log, metrics | audit records, counters | | |

What is hard in it:

* **Concurrency through the database.** There is no lock in the API process.
  Requests and workers of all instances interleave at the granularity of SQL
  statements at Postgres's READ COMMITTED level; what keeps them apart is the
  WHERE clause of an UPDATE, `FOR UPDATE SKIP LOCKED` and unique indexes.
* **Transactions that are none.** Many services open a transaction with
  `WithTx` and then pass the *outer* context to the repositories, so that each
  statement commits on its own (`auth.go:236`, `305`, `487`, `admin.go:247`,
  `284`, `345`, `user.go:102`, `184`).
* **State read early and used late**: the worker's copies of rows, the list of
  sessions that LogoutAll reads before its transaction, the checks before a
  password is written.
* **Partial failure**: Kafka stores a message and the answer is lost; Redis or
  Elasticsearch fail; a process stops between two statements, in the middle of
  seeding or with requests in flight.
* **Answers**: every error of every layer becomes one of a few codes, by which
  clients decide what to do next, and so must every panic.

`PROJECT.json` lists these hazards line by line, each with the properties that
watch it.

## Modules

| Module | Models | Composes |
|---|---|---|
| `OutboxDelivery` | what the outbox promises: accept, try, confirm or bury each event within a budget | |
| `Outbox` | `outbox_events`, the workers, the Kafka topic | instantiates `OutboxDelivery` for the refinement |
| `Sessions` | sessions, refresh tokens, Redis keys, Authenticate | services, three stores and concurrent requests |
| `Accounts` | users and one-time tokens | three services and concurrent requests |
| `Roles` | roles, permissions, the roles of users | role, administration and user services |
| `Calls` | interceptors, rate limiter, server methods, answers | every call with changes of sessions, grants and roles |
| `Lifecycle` | configuration, seeding, Run, Shutdown, the worker's backoff | instances, their goroutines, requests in flight |
| `CdcConsumer` | table, partition, consumer group, index | Postgres, Kafka, consumer, Elasticsearch |
| `MC*` | instances for TLC | |
| `OutboxProofs`, `SessionsProofs`, `AccountsProofs`, `RolesProofs`, `CallsProofs`, `LifecycleProofs`, `CdcConsumerProofs` | the theorems about these modules and their inductive invariants | each extends its module |

Operators named `...Never`, `...OffByOne`, `...Unscoped` and the like, under a
comment that begins with "Mutant:", are wrong on purpose: each is a plausible
bug in the definition that follows it, and the property named in
`PROJECT.json` fails when the definition is replaced by it. They take no part
in the specifications.

### Outbox

`row` is the table, `batch[w]` and `pc[w]` are the local variables of
`publishPending`, `kafka` counts the copies of each message in the topic.
`attempts` and `unsure` are history variables: how often Publish was called,
and which events have a stored copy that no answer confirmed.

The claim is two actions, `ListPendingForUpdate` (rows selected and locked) and
`MarkPublishing` (updated and committed), because another worker may select in
between. Then each event is published (`Publish`) and settled (`MarkPublished`
or `HandlePublishFailed`), each in a statement of its own. The `...Fails`
actions are failing statements, with the early return of `publishPending` in
one case and the loop going on in the other. `Stop` is a crash or a cancelled
context. `Create` follows GORM in leaving a zero `max_retry` to the column's
default. Time is abstracted to whether `next_retry_at` has passed.

### Sessions

A request is a process; each of its statements is an action. An UPDATE of
several rows is two actions, one that finds rows by the statement's snapshot
and one that waits for their locks and re-checks them, since that is where rows
committed in the meantime escape it. The session's INSERT in LogIn is a
separate, committed step because the code passes it the outer context.
Authenticate, Refresh, Logout, LogoutAll and the reuse handler may meet in any
order. Time is the set of expired sessions.

### Accounts

The same style for `users` and `user_tokens`. Only Register, CreateUser,
ResendVerification and ForgotPassword really run in a transaction; all the
other requests are sequences of committed statements. Conditions that GORM adds
are kept: updates through `Model(&User{})` skip soft-deleted rows, `Restore` is
unscoped, and `MarkUsed` looks at `used_at` alone. A transaction that inserts a
user is one step, because the unique index makes a second INSERT of the same
address wait for it.

### Roles

A request's first action makes the reads and checks that precede its first
write; each later action is a statement, or the rest of a transaction from the
first statement others can tell apart. What keeps requests apart is Postgres and
is modelled as such: the unique index on `roles.code`, the foreign keys from
`users` (RESTRICT) and `role_permissions` (CASCADE), the row locks that DeleteRole
takes on users and on the replacement, and the deadlock detector. UpdateRole,
DeleteUser, RestoreUser and UpdateProfile commit their change before its audit
record is written.

GORM saves a loaded association along with the row it belongs to. CreateUser
therefore inserts its role again if DeleteRole has removed it in the meantime
(`SaveRole`); whether an update through a loaded user also writes `role_id` back
depends on the fields GORM takes for changed, and `WriteBack` leaves both
possible.

### Calls

A call is a process that passes the interceptors in the order of `grpc.go`:
Recovery, the rate limiter before authentication, validation, authentication,
the rate limiter after it, permissions, then the server's own checks, the
service and the mapper of errors. Each access to Redis or to the database is an
action, between which `ChangeGrants`, `DropRole` and `EndToken` change what the
next one finds. The tables of the code are tables of the model: public methods,
permissions and rate-limit policies by method, error codes by error. A service
is the set of errors it may return; what it does is in the other modules. A
request is its method, token, address, the account it names, and at most one
defect: a field of the wrong shape, a date that is none, the code of no role, a
password that bcrypt does not take, an unknown address. `ServiceAnswer` is what a
service answers that gets as far as the defect. A bucket of the limiter begins
full, with the policy's burst, loses a token with each check it allows (`Allow`)
and gets one back every window/limit (`Refill`, at any time and at most limit
times: a behaviour covers one window). Names are normalised twice, by the
interceptor (`ScopeValue`) and by the builder of keys (`Key`). `wasLive`
and `held` are history: what was true of the token, and of the permission, at
some time since the call began. The checks of the limiter that a call has still
to make are a set of scopes, taken in the order of the policy (`NextScope`).

### Lifecycle

`inst[i]` is an instance: where New or Run is, the rows that the current seed
has still to look at, the state of the two servers, of the gateway's connections
and of the worker, and how many results wait in `errCh`. `Init` picks a
deployment, which is an environment and what happens to it. The environment is
read as the loaders do, with their defaults. Each row is looked for (`SeedFind`)
and created (`SeedCreate`) in separate steps, and `Fail` ends a process anywhere.
`RolePermissions` is a Go map, so grants are seeded in any order of roles. Run
launches the goroutines; a signal wakes its select if it waits there, otherwise
`Select` finds whatever is ready. A request arrives directly or by the gateway,
whose connections close as soon as the context of Run is cancelled. The update of
a role's name and `is_system` when it is found (`seed.go:76`) writes the same
values at every start and is left out.

`MaxRetryOf`, `RetryCounts`, `Backoff` and `Jittered` are `handlePublishFailed`
and `retry.go`. The limit of an event is the one stored with it; the worker's is
only used when that is not positive. Durations are multiples of a unit of which
`Millisecond` are a millisecond, so that the floor of `retry.go:47` meets delays
below it; ratios are multiples of 1/`Whole`.

### CdcConsumer

One partition of one topic. Debezium appends changes and may send a suffix
again; a delete is followed by a tombstone, which the handler cannot unmarshal.
The loop of `Consumer.Run` is `FetchMessage`, `Handle` or `HandleFails`, and
`CommitMessages`; fetching advances the reader whether or not the message is
handled. A rebalance gives the partition to another consumer while the old one
may still be handling a message.

## What the runs check

| Run | Instance | Result |
|---|---|---|
| `outbox_safety` | 2 workers, 3 events, batches of 2, retry limits 2, -1 and 0 (default), all faults; 386,000 states | passes |
| `outbox_liveness` | the same with lost acknowledgements only | passes |
| `outbox_stop` | 2 events, workers may stop | `EventuallySettled` is violated |
| `sessions_safety` | 2 requests, 2 sessions of one user, 3 tokens, failures and failing Redis; 535,000 states | passes |
| `cdc_faults` | 2 consumers, 2 rows, 3 messages, 1 crash, every fault; 540,000 states | passes |
| `cdc_sync` | 1 consumer, 4 messages, 2 crashes, failing commits | passes |
| `cdc_index_failure` | a failing Elasticsearch | `FailedIsRetried` is violated |
| `accounts_safety` | 2 requests, 1 account, 3 tokens, 2 passwords, failures; 871,000 states | passes |
| `set_password_first` | the same without failures | `SetPasswordIsFirst` is violated |
| `roles_safety` | 2 requests, 2 users, the seeded roles and 2 more, 1 permission, failures; 555,000 states | passes |
| `calls_safety` | every method alone with every defect, with and without failing queries; three overlapping logins, with a refill or with a limiter that fails open, and two overlapping administrative calls; 222,000 states | passes |
| `lifecycle` | 2 instances with 2 starts each that seed; 1 that serves 2 requests; 3 with unusual retry settings; 4 that must not start; 53,000 states | passes |

**Outbox.** A claimed event belongs to one worker, whose copy of the row is
current (`ClaimExclusive`); an event called published is in the topic
(`PublishedWasSent`); no event is tried more often than its limit allows or
buried earlier (`RetryBudget`, because the count in the row and in the copies
is exact); only a lost acknowledgement duplicates
a message or lets a buried event be in the topic (`DuplicateNeedsLostAck`);
settled events stay settled (`SettledIsFinal`); and the whole implements the
abstract service (`ImplementsDelivery`). When no worker stops and no update
fails, every event is settled in the end (`EventuallySettled`). When a worker stops, its claimed events are never
looked at again: `claimed_at` and `claimed_by` are written and never read.

**Sessions.** Rotation never forks a session (`OneChain`);
keys in Redis are never wrong (`RedisSound`); user-wide revocation reaches
every session it saw (`RevocationComplete`); a revoked session is refused even
without Redis (`RevokedIsRefused`);
transactions that wait for rows never all wait (`NoStandstill`); and an active
session that has a live refresh token keeps one until it is revoked
(`TokenStays`), because Refresh replaces the token in one transaction and a
revocation that finds the token holds its session. There is one exception, which
the property names (`Overtakes`): a login that falls between the two UPDATEs of a
LogoutAll, or of the reuse handler, keeps its session and loses its refresh
token, after which Logout of this session finds no token to revoke and rolls
back (`auth.go:690`). And a login is not one transaction: its session is
committed first (`auth.go:236`) and stays, with no token and nobody who knows
its id, when the rest fails.

**Accounts.** Status and columns agree (`StatusConsistent`); nobody can log in
to an account without having presented a token mailed to its address
(`LoginNeedsProof`); issuing a token makes every token found at that time
worthless (`OldTokensWorthless`); deleted accounts are left alone
(`DeletedIsFrozen`). `OldTokensWorthless` is about the tokens that were there
when the UPDATE began: two ForgotPassword calls that overlap do leave two
valid tokens. `StatusConsistent` excepts restored accounts: RestoreUser makes
an account active that was never verified, after which VerifyEmail reports
success without verifying it. SetPassword can overwrite a password, because it
checks and writes in separate statements.

**CDC consumer.** The committed offset lies behind a handled message
(`CommitFollowsHandled`, which is about offsets: it sees neither that a later
commit passes a failed change nor that documents are overwritten). With one consumer and an Elasticsearch that answers,
the index equals the table
whenever the consumer has caught up (`SyncedWhenCaughtUp`) and in the end
(`EventuallySynced`). A failed change is not retried, contrary to the comment in
`consumer.go:55`. With two consumers a late handler may overwrite a newer
document, so `SyncedWhenCaughtUp` is claimed for one only.

**Roles.** Nobody is left with a role that is gone (`RolesResolve`), although
DeleteRole looks for users of the role before its transaction: the foreign key
decides. Codes stay unique (`CodesUnique`), also when a deleted role comes back
with a user;
users are moved to a replacement if and only if the role goes
(`ReplacementAtomic`); requests that delete each other's replacement do not wait
for ever (`NoStandstill`, which also says that `Ready`, the guards of a request's
steps written out, is when a step is ENABLED). Two things do not hold. A change of a user whose audit
record cannot be written, because the code of the role has more than the 20
characters of `action_logs.target_role`, stays although the request reports an
error. And that only an administrator itself changes its account is checked
before the write: a user who becomes an administrator in between is changed.

**Calls.** A service that is not public runs only for a token that was live, and
with a permission that its role held, at some time since the call began
(`ServedIsAuthorised`). For an address, an account or a user no more services run
than the bucket held and was given back, so at most burst + limit in one window,
however calls overlap and names are spelled, except one for each error of a
limiter that fails open (`LimitHolds`). `RefusalIsNamed` says what clients can
conclude from a code: a wrong request is never answered with OK, every answer is
a status, and Internal means that a query failed, that the revocation store was
used without Redis, or that the request is one of `Misreported`. These are wrong
requests that the code answers like faults of its own: CreateUser and
UpdateUserRole with the code of no role (`admin.go:171`, `321`), passwords of more
than 72 bytes, which pass the protocol's rules and fail in bcrypt (`auth.go:118`,
`481`, `user.go:97`), and ResendVerification for an unknown address
(`auth.go:339`). A query that fails includes one that a constraint refuses because
another request came first: a role that was deleted in between, for instance, is
Internal too. Every call is answered (`CallsAnswered`), by Recovery where
the code panics: ResendVerification for an unknown address, and every use of the
revocation store when Redis is not enabled, which is the default.

**Lifecycle.** In the development environment an instance that runs has all its
seeds (`ServesSeeded`), whatever starts failed or overlapped before. Seeding
fails only because of another instance that seeds at the same time, or because
the administrator's account was soft-deleted (`LoneStartSucceeds`). That holds for
an environment that stays the same: `users.username` is unique as well
(`users.go:14`) and SeedAdmin always writes `admin` (`seed.go:43`), so after a
change of `ADMIN_EMAIL` Create fails at `seed.go:52` for every start. Until the ten
seconds are over, a shutdown leaves no accepted request without an answer
(`GracefulCutsNobody`), though requests of the gateway are answered with an error
because its connections close at once; and it ends (`ShutdownEnds`). The select of
Shutdown and gRPC's Stop are one step that does not block (`Deadline`): this is
the documented contract of Stop, which is called while a GracefulStop of the same
server is waiting. A version of the library in which GracefulStop waits for
handlers with the server's mutex locked would delay Stop as long as they run.
`errCh` never blocks a goroutine (`TypeOK`). The delays of an event's retries
double up to the maximum (`RetriesBackOff`, which gives them in closed form); a
first delay beyond the maximum is not capped. The jitter at most doubles a delay
or raises it to the millisecond of `retry.go:47`, which is ten times a delay of
100 microseconds, and what it returns is never shorter than both the delay and a
millisecond. Nothing is claimed of a jitter ratio of NaN: `getEnvFloat` accepts
it, both comparisons of applyJitter are false, and the duration that comes out
depends on the processor. A signal that arrives while Run is
starting its goroutines may end the process without Shutdown, and a worker
interval of zero passes the loader and panics.

**Known gaps.** The models reach some states that no document rules out and
that a maintainer may want to look at, beside those named above: ChangePassword
compares with the password it read and writes unconditionally, so a reset in
between is lost (`user.go:88`); a short outage of the database is answered
Unauthenticated, as if the session had ended (`authenticator.go:36`); the
address and the user name of one account have a bucket each for logins
(`policy.go:30`); a jitter ratio of NaN is not refused (`env.go:63`,
`retry.go:34`); ListUsers takes pages by OFFSET without an order
(`user_repository.go:264`).

### Bounds

Two processes suffice for every pairwise race, which is the shape of the
hazards listed; what a third could add is a second holder of a row, and locks
are exclusive. Three events with batches of two make a worker finish one batch
while another holds the rest; their retry limits take every branch of
`CreatedMaxRetry` and `RetryLimit`. Three refresh tokens allow a login and two
rotations, or two logins and a rotation. Three one-time tokens allow an account
to be created and two tokens to be issued at once. One account is enough
because no statement of `Accounts` touches two. Two roles beside the seeded ones
are what it takes for each to be the other's replacement. A workload of `Calls`
names the methods of one behaviour: every method alone shows each of its
answers, and the overlapping ones share buckets and differ in permission. With
buckets of one token (`MaxBurst`) three calls empty one, refill it and empty it
again. Retry limits of 3, stored with the event, and of 10, the default, stop
before and after the maximum is reached. A deployment of `Lifecycle` takes two starts of
two instances for seeding, which needs no requests, and one instance with
requests for shutdown, which needs no seeds. `TokensLeft`, `IdsLeft`, `MaxLog`,
`MaxStops`, `MaxBurst`, the numbers of calls, errors and refills of a workload and the
starts of a deployment are the only bounds in guards. `DefaultMaxRetry` and
`WriterAttempts` are 10 and 5 in the code and smaller here.

Deadlock is not checked: the tables fill up to their bounds and nothing
remains to be done, which is no error.

### Fairness

* `Outbox`: weak fairness of each worker's next step (the ticker keeps calling
  `publishPending`; every call has a timeout or returns) and of the clock
  passing `next_retry_at`. Nothing is assumed of Kafka: a message may fail every
  time and is then dead-lettered.
* `Calls`: weak fairness of each call's next step; Redis and the database answer
  or time out.
* `Lifecycle`: weak fairness of the steps of each instance, its timer included.
  Nothing is assumed of requests: a handler may never return.
* `Sessions`, `Accounts` and `Roles` state safety only; that no set of requests
  is stuck is the invariant `NoStandstill`.
* `CdcConsumer`: weak fairness of the loop and of the assignment of a partition
  without an owner.

## What is proved

The theorems hold for every value of the constants that satisfies the named
assumptions of the modules, and so for any number of requests, workers, users,
rows or instances. Each but one says that a property which a run checks follows
from `Spec`.

| Module | Theorem | States | Rests on |
|---|---|---|---|
| `OutboxProofs` | `TypeCorrect` | `TypeOK` | inductive |
| | `ClaimIsExclusive` | `ClaimExclusive` | `OwnInv` |
| | `BudgetIsKept` | `RetryBudget` | `CountInv` |
| | `PublishedIsSent` | `PublishedWasSent` | `SentInv` |
| | `SettledStaysFinal` | `SettledIsFinal`, an action property | `OwnInv`, `SettledRests` |
| | `DuplicatesNeedLostAck` | `DuplicateNeedsLostAck` | `AckInv` |
| | `DeliveryIsImplemented` | `ImplementsDelivery`, the refinement of `OutboxDelivery` | `OwnInv`, `CountInv`, `SentInv` |
| `SessionsProofs` | `TypeCorrect` | `TypeOK` | `TypeInv` |
| | `NobodyStandsStill` | `NoStandstill` | `LockInv` |
| | `TokensStay` | `TokenStays`, an action property | `SeenInv`, `ScopeInv` |
| | `TokensFormChain` | `OneChain` | `ChainInv` |
| | `RevokedAreRefused` | `RevokedIsRefused` | `LateInv` |
| | `RedisIsSound`, `RevocationsAreComplete` | `RedisSound`, `RevocationComplete` | `SeenInv` |
| `AccountsProofs` | `TypeCorrect` | `TypeOK` | `TypeInv` |
| | `StatusIsConsistent` | `StatusConsistent` | `StatusInv` |
| | `LoginsAreProved` | `LoginNeedsProof` | `LinkInv`, `ProofInv` |
| | `OldTokensAreWorthless` | `OldTokensWorthless` | `OlderInv` |
| | `DeletedAreFrozen` | `DeletedIsFrozen`, an action property | `RowStep` |
| `RolesProofs` | `TypeCorrect` | `TypeOK` | `TypeInv` |
| | `RolesAlwaysResolve` | `RolesResolve` | `MoveInv` |
| | `CodesAreUnique` | `CodesUnique` | inductive with `TypeInv` |
| | `ReplacementIsAtomic` | `ReplacementAtomic`, an action property | `ResolveInv` |
| | `SomebodyAlwaysReady` | `SomebodyReady`, the part of `NoStandstill` without ENABLED | `IdsInv` |
| `CallsProofs` | `ServedAreAuthorised`, `RefusalsAreNamed` | `ServedIsAuthorised`, `RefusalIsNamed` | `CallInv` |
| | `LimitsHold`, `CallsTyped` | `LimitHolds`, `TypeOK` | `LimitInv` |
| `LifecycleProofs` | `TypeCorrect` | `TypeOK` | `TypeInv` |
| | `ServedAreSeeded` | `ServesSeeded` | `SeedInv` |
| | `LoneStartsSucceed` | `LoneStartSucceeds` | `SeedInv`, `LoneInv` |
| | `ShutdownCutsNobody` | `GracefulCutsNobody`, an action property | `CallInv` |
| | `RetriesAlwaysBackOff` | `RetriesBackOff` | `ConfigInv`, `BackoffIs` |
| `CdcConsumerProofs` | `TypeCorrect` | `TypeOK` | `TypeInv` |
| | `CommitsFollowHandled` | `CommitFollowsHandled` | `CommitInv` |
| | `CaughtUpIsSynced` | `SyncedWhenCaughtUp` | `SyncInv` |

### Assumptions

The assumptions are those named in the modules, which TLC evaluates on every
run: that the placeholders for "none" are no members of the sets they stand
beside (`NoRowAssumption` of `Roles` says it of the rows of users), that claims,
limits and deployments have their types, that an administrator's role is among
the seeded ones and roles are given permissions that exist. Events are natural
numbers in the order of `created_at`; the batch size, the default limit and the
writer's attempts are positive, the other limits are any integers. Callers of
`Calls`, requests and role ids of `Roles` are finite sets (`CallersAssumption`,
`FiniteAssumption`), because the proofs count them. GORM writes a loaded role
back or does not (`WriteBack` is not empty), and a retry setting is a number or
does not parse, or is NaN in the case of the ratio (`SettingAssumption`); the
units of time and of ratios are arbitrary (`UnitAssumption`). Normalising a name
twice is normalising it once (`NormalAssumption`). Numbers are unbounded: the doubling of a
delay stays within Go's 64 bits as long as backoffs are below 146 years. One theorem
needs more: `CaughtUpIsSynced` assumes `Alone`, one process in the consumer group
and an Elasticsearch that answers. Without either the property is false, as
described above.

### The arguments

**Outbox.** `OwnInv` adds to `ClaimExclusive` what holds during a claim: rows
selected and locked are still claimable and equal to the copies
(`ClaimPending`), and no two open claims share a row (`ClaimsDisjoint`), which
is what SKIP LOCKED gives. From it follow `OneCopy` and `OneOwner`: an event is
in one batch, once. `CountInv` adds `AttemptsAccounted` and that the stored
limit is the created one (`LimitStored`): since the copy is current, writing
`retryCount + 1` from a stale read is the same as incrementing the row.
`SentInv` adds that a worker whose Publish has returned nil has its current
event in the topic (`OkWasSent`); the topic only grows. `SettledRests` says that
a settled event has no retry time, so neither the clock nor, by `OwnInv`, an
update of a worker touches its row. `AckInv` says where an event whose
acknowledgements all arrived can be when it is in the topic: its row is marked
publishing or published, and a worker that still holds it has just been told of
its success. For the refinement, `DeliveryCases` gives for every action the abstract step it is, or that it is
none; `OwnInv` justifies confirming and burying, `CountInv` the budget.

**Sessions.** What a request does between two statements depends on what it
read, so every invariant says what its local variables still mean. `LockInv`:
who holds row locks, and that no token has two holders; a request that holds
token locks never waits, which is why not everybody can. `RootInv`: tokens and
requests belong to sessions that exist. `ChainInv`: a session gets its first
token from the one login that created it, and a Refresh that holds a token
rotates a live one. `LateInv`: a request that began after the
revocation has not passed its check. `SeenInv`: each session that a
revocation has read is found and locked by its UPDATE, or was revoked or expired
before, so all are when it comes to mark them in Redis. `ScopeInv`: the tokens
that a revocation has found belong to its user, and for Logout to the one session
it has seen; so a token it revokes is of a session it holds, or of one it has not
seen. `Grows`
collects what no step undoes.

**Accounts.** `RowStep` is the list of everything a step may do to the row of an
account; `StatusInv`, `ProofInv` and `DeletedIsFrozen` follow from it instead of
from the actions. `LinkInv` ties a request to the account of its token: that is
what makes a token presented for one account no proof for another. `OlderInv`
says that each token found by the UPDATE of an issuing request is locked by it or
worthless already when the new one is inserted.

**Roles.** `MoveInv` is what the row locks of DeleteRole protect between its
UPDATE of users and its commit: the replacement stays, and the users it found
keep the old role and belong to no other DeleteRole. The foreign keys do the
rest. Whoever is waited for holds rows, and so is a DeleteRole under way: either
some request waits for nobody, and then its next statement succeeds or is
refused, or all of them wait, and together they are a circle of the kind that
Postgres breaks. `IdsInv` says that the bound `IdsLeft` on ids never stops a
CreateRole that has begun.

**Calls.** `CallInv` says of each call what the interceptors it has passed have
established, against grants and tokens as they are now: the history of a call is
at least as good as the present state, so a permission read at any time since
the call began was held at that time. `LimitInv` counts. For each key, the
services run plus the calls that have passed its check and are not served yet
(`Pending`) are at most the burst and the refills, less the tokens that are left,
plus the errors that failed open (`Covered`); and they are at most the calls begun (`Counted`). A step
moves one call, so it changes each count by at most one (`CountChange`), and the
token it takes, the error or the service it begins makes up for it. What a call
is charged for does not change between its check and its service (`RateOK`):
that is where normalised names and the order of the interceptors matter.
`OutcomesExplained` goes through the errors of every service, and `DefectsAnswered`
through the defects of every request, for `RefusalIsNamed`.

**Lifecycle.** `SeedInv`: the phases before the present one are complete, and
what the present one lacks is in its list; rows are only added. So whatever a
seed refers to is there (`NeedsMet`) and a missing row never ends a start.
`LoneInv`: two instances that seed know of each other, so for one that is alone
the row it did not find is still missing when it creates it, unless that is the
deleted account. `CallInv`: requests are at instances that run, a request that
waits for the gRPC server has a handler, and an instance that has drained has
none. `TypeInv` counts the goroutines that have ended, which bounds `errCh`.
`ConfigInv`: no instance is past the loaders with a setting that does not parse,
so `Backoff` is about numbers. What its recursion computes is an induction. The
library's theorems for that take an operator, which the provers cannot
instantiate; `SetInduction` is stated for a set instead and follows from the
least element of a set of naturals, `Iteration` gives the function that iterates
a step, and `BackoffIs` the closed form. `JitterBounds` adds the floor.

**CDC consumer.** `SyncInv`: index and table differ only for rows that a message
still to be handled is about, and the last message about a row is the one that
agrees with the table. A replayed or repeated message takes the index back, and
is always followed by the messages that bring it forward again.

### Only model-checked

* Liveness (`EventuallySettled`, `EventuallySynced`, `CallsAnswered`,
  `ShutdownEnds`), which is beyond the prover.
* The part of `NoStandstill` of `Roles` that has ENABLED in it: that a step of a
  request is possible exactly when the request is `Ready`.

## Not modelled

The text of notifications and audit records, the conversion of results to
messages, the signing of tokens, metrics, logs, the wiring of services, the
readiness report (it only reads, and reports ready while an instance drains),
listing and searching, and generated code beyond the closing of the gateway's
connections. `PROJECT.json` gives the reason part by part.

## Plan

1. Composition of `Accounts` with `Sessions`: what deletion, a password reset
   and a change of role mean for sessions that exist; and of `Accounts` with
   `Outbox`: a token is mailed if and only if it was committed.
2. Proofs for what that composition adds. Of the present modules every safety
   property that a passing run checks is proved, up to ENABLED.
