----------------------------- MODULE Lifecycle ------------------------------
(***************************************************************************)
(* An instance of the application from New to the end of Run:              *)
(* internal/app/bootstrap.go, internal/app/run.go and                      *)
(* internal/infrastructure/storage/seed.go.                                *)
(*                                                                         *)
(* Instances share one database. In the development environment each of    *)
(* them seeds it, statement by statement and without a transaction, while  *)
(* others do the same and while starts fail or are killed half way.        *)
(*                                                                         *)
(* A running instance has four goroutines: Run, which waits for a signal   *)
(* or for the first of the others to end, the gRPC server, the HTTP        *)
(* gateway, which turns its requests into calls of that server, and the    *)
(* outbox worker. What the worker does with events is in module Outbox and *)
(* what happens inside a call is in module Calls.                          *)
(***************************************************************************)
EXTENDS Integers, Sequences, FiniteSets, SequencesExt

CONSTANTS
  Instances,
  Calls,             \* requests, each made at most once
  AllPermissions, Roles,   \* what is seeded, in the order of the code
  AdminRole, AdminEmail,
  RolePermissions,   \* domain.RolePermissions: a sequence for each role
  Deployments,       \* what an operator may deploy
  EventMaxRetries,   \* the max_retry of the events in the outbox
  Millisecond,       \* in units of time: shorter durations are configurable
  Whole,             \* the ratio 1, in the steps in which ratios are given
  Malformed,         \* the value of a variable that does not parse
  NaN,               \* what ParseFloat makes of "NaN", without an error
  None

ASSUME RoleAssumption ==
  /\ AllPermissions \in Seq(ToSet(AllPermissions)) /\ Roles \in Seq(ToSet(Roles))
  /\ AdminRole \in ToSet(Roles)
  /\ \A r \in ToSet(Roles) : ToSet(RolePermissions[r]) \subseteq ToSet(AllPermissions)
ASSUME DeploymentAssumption ==
  \A d \in Deployments : /\ d.starts \in [Instances -> Nat]
                          /\ d.calls \subseteq Calls /\ d.signals \in BOOLEAN
\* time.ParseDuration and strconv.Atoi give numbers or an error, ParseFloat may also
\* give NaN. Backoffs are below 2^62 nanoseconds, 146 years: doubling one stays within
\* 64 bits.
RetrySettings ==
  {"OUTBOX_WORKER_MAX_RETRY", "OUTBOX_WORKER_RETRY_INITIAL_BACKOFF",
   "OUTBOX_WORKER_RETRY_MAX_BACKOFF", "OUTBOX_WORKER_RETRY_JITTER_RATIO"}
ASSUME SettingAssumption ==
  \A d \in Deployments : \A key \in RetrySettings \cap DOMAIN d.env :
    \/ d.env[key] \in Int \cup {Malformed}
    \/ key = "OUTBOX_WORKER_RETRY_JITTER_RATIO" /\ d.env[key] = NaN
ASSUME EventAssumption == EventMaxRetries \subseteq Int
\* The ratio 0.2, the default, can be given.
ASSUME UnitAssumption == Millisecond \in Nat \ {0} /\ Whole \in Nat \ {0} /\ Whole % 5 = 0
ASSUME NaNAssumption == NaN \notin Int
ASSUME NoneAssumption == None \notin Instances \cup Calls \cup {"conflict", "cut", "grpc", "http"}

VARIABLES
  deployment,  \* env: the variables that are set; starts, calls, signals: bounds on these
  rows,     \* what has been seeded: a set of rows for each phase
  deleted,  \* the administrator's account is soft-deleted
  starts,   \* starts of each instance so far
  inst,     \* what each instance is doing
  call      \* what each request is doing

vars == <<deployment, rows, deleted, starts, inst, call>>
database == <<rows, deleted>>

-----------------------------------------------------------------------------
(* Configuration *)

GetEnv(key, fallback) ==
  IF key \in DOMAIN deployment.env THEN deployment.env[key] ELSE fallback

Load == [Env |-> GetEnv("ENV", "development"), JWTAccessTTL |-> GetEnv("JWT_ACCESS_TTL", 3600)]

LoadRedisConfig == [Enabled |-> GetEnv("REDIS_ENABLED", FALSE)]

LoadRateLimitConfig ==
  LET limit == GetEnv("RATE_LIMIT_DEFAULT_LIMIT", 300) IN
  [Enabled |-> GetEnv("RATE_LIMIT_ENABLED", FALSE), DefaultLimit |-> limit,
   DefaultBurst |-> GetEnv("RATE_LIMIT_DEFAULT_BURST", limit),
   DefaultPeriod |-> GetEnv("RATE_LIMIT_DEFAULT_PERIOD", 60000 * Millisecond)]

\* RateLimitConfig.Validate
Valid(c) == c.Enabled => c.DefaultLimit > 0 /\ c.DefaultBurst > 0 /\ c.DefaultPeriod > 0

LoadOutboxWorkerConfig ==
  [Interval |-> GetEnv("OUTBOX_WORKER_INTERVAL", 2000 * Millisecond),
   MaxRetry |-> GetEnv("OUTBOX_WORKER_MAX_RETRY", 10),
   RetryInitialBackoff |-> GetEnv("OUTBOX_WORKER_RETRY_INITIAL_BACKOFF", 30000 * Millisecond),
   RetryMaxBackoff |-> GetEnv("OUTBOX_WORKER_RETRY_MAX_BACKOFF", 1800000 * Millisecond),
   RetryJitterRatio |-> GetEnv("OUTBOX_WORKER_RETRY_JITTER_RATIO", Whole \div 5)]

Parses(c) == \A field \in DOMAIN c : c[field] # Malformed

-----------------------------------------------------------------------------
(* The retries of the worker: handlePublishFailed and nextRetryAt *)

\* The limit that was written with an event, unless it is not positive.
MaxRetryOf(eventMaxRetry) ==
  IF eventMaxRetry <= 0 THEN LoadOutboxWorkerConfig.MaxRetry ELSE eventMaxRetry

\* The failures after which an event with this limit is tried again.
RetryCounts(maxRetry) == 1..(maxRetry - 1)

OrDefault(n, d) == IF n <= 0 THEN d ELSE n
InitialBackoff == OrDefault(LoadOutboxWorkerConfig.RetryInitialBackoff, 30000 * Millisecond)
MaxBackoff == OrDefault(LoadOutboxWorkerConfig.RetryMaxBackoff, 1800000 * Millisecond)

\* Mutant: the delay is compared before it is doubled.
BackoffLate(maxRetry) ==
  LET delay[n \in RetryCounts(maxRetry)] ==
        IF n = 1 THEN InitialBackoff
        ELSE LET d == delay[n - 1] IN IF d > MaxBackoff THEN MaxBackoff ELSE 2 * d
  IN  delay

\* The delay after each failure: doubled until it passes the maximum.
Backoff(maxRetry) ==
  LET delay[n \in RetryCounts(maxRetry)] ==
        IF n = 1 THEN InitialBackoff ELSE Min({2 * delay[n - 1], MaxBackoff})
  IN  delay

\* applyJitter: the shortest and the longest delay that it returns for d. The
\* ratio is a number: from NaN the code computes a duration that depends on the
\* processor.
Jittered(d) ==
  LET ratio == LoadOutboxWorkerConfig.RetryJitterRatio
      r == IF ratio > Whole THEN Whole ELSE ratio
      AtLeast(x) == IF x < Millisecond THEN Millisecond ELSE x
  IN  IF ratio <= 0 THEN <<d, d>>
      ELSE <<AtLeast((d * (Whole - r)) \div Whole), AtLeast((d * (Whole + r)) \div Whole)>>

-----------------------------------------------------------------------------
(* Seeds *)

Phases == <<"permissions", "roles", "grants", "admin">>

Grants == {g \in ToSet(Roles) \X ToSet(AllPermissions) : g[2] \in ToSet(RolePermissions[g[1]])}

\* RolePermissions is a map from roles to lists: role after role, and the grants of
\* a role in the order of its list.
InOrder(o) ==
  \A m, n \in DOMAIN o :
    m < n /\ o[m][1] = o[n][1] =>
      /\ \A k \in m..n : o[k][1] = o[m][1]
      /\ LET list == RolePermissions[o[m][1]] IN
         \E x, y \in DOMAIN list : x < y /\ list[x] = o[m][2] /\ list[y] = o[n][2]

\* The orders in which the rows of a phase are seeded.
OrdersOf(phase) ==
  CASE phase = "permissions" -> {AllPermissions}
    [] phase = "roles"       -> {Roles}
    [] phase = "grants"      -> {o \in [1..Cardinality(Grants) -> Grants] :
                                   ToSet(o) = Grants /\ InOrder(o)}
    [] phase = "admin"       -> {<<AdminEmail>>}

RowsOf == [permissions |-> ToSet(AllPermissions), roles |-> ToSet(Roles),
           grants |-> Grants, admin |-> {AdminEmail}]

Seeded == rows = RowsOf

\* A row that First finds: the account only while it is not deleted.
Visible(phase, x) == x \in rows[phase] /\ ~(phase = "admin" /\ deleted)

\* Rows that are looked up before x is created, or seeding fails.
Needs(phase, x) ==
  CASE phase = "grants" -> x[1] \in rows.roles /\ x[2] \in rows.permissions
    [] phase = "admin"  -> AdminRole \in rows.roles
    [] OTHER            -> TRUE

-----------------------------------------------------------------------------
(* Instances *)

Starting == {"config", "connect", "seed", "create"}
Running  == {"launch", "select", "drain", "close"}
PC == {"down"} \cup Starting \cup Running

Server == {"off", "serving", "closed"}

\* Why an instance ended: None before it did.
Ends == {None, "failed",     \* refused its configuration, lost a dependency, was killed
               "conflict",   \* a seed met a unique index, or missed a row
               "ended",      \* a goroutine of Run ended, no Shutdown
               "graceful",   \* Shutdown returned nil
               "deadline"}   \* Shutdown returned the error of its context

AllRows == UNION {RowsOf[p] : p \in DOMAIN RowsOf}

Instance == [
  pc: PC,
  phase: 1..Len(Phases), left: Seq(AllRows),
  grpc: Server, http: Server, conn: {"off", "open", "closed"},
  worker: {"off", "running", "ended"},
  signalled: BOOLEAN,    \* the context of Run is cancelled
  errCh: 0..3,           \* results of goroutines that nobody has read
  expired: BOOLEAN,      \* the ten seconds of Shutdown are over
  overlapped: BOOLEAN,   \* history: another instance seeded during this start
  end: Ends]

Down(end) == [pc |-> "down", phase |-> 1, left |-> <<>>,
              grpc |-> "off", http |-> "off", conn |-> "off", worker |-> "off",
              signalled |-> FALSE, errCh |-> 0, expired |-> FALSE,
              overlapped |-> FALSE, end |-> end]

\* pc is what the client waits for: the gateway, the gRPC server, the answer of
\* the gateway. The handler may go on when nobody waits for it.
Request == [pc: {"new", "gateway", "rpc", "reply", "over"}, at: Instances \cup {None},
            via: {None, "grpc", "http"}, handler: BOOLEAN,
            result: {None, "served", "refused", "cut"}]
NewCall == [pc |-> "new", at |-> None, via |-> None, handler |-> FALSE, result |-> None]

Init ==
  /\ deployment \in Deployments
  /\ rows = [p \in ToSet(Phases) |-> {}]
  /\ deleted = FALSE
  /\ starts = [i \in Instances |-> 0]
  /\ inst = [i \in Instances |-> Down(None)]
  /\ call = [c \in Calls |-> NewCall]

InFlight(i) == {c \in Calls : call[c].at = i /\ call[c].pc # "over"}

\* The process is gone, and with it every request that it was handling.
Exit(i, end) ==
  /\ inst' = [inst EXCEPT ![i] = [Down(end) EXCEPT !.overlapped = inst[i].overlapped]]
  /\ call' = [c \in Calls |->
       CASE c \in InFlight(i) -> [call[c] EXCEPT !.pc = "over", !.handler = FALSE, !.result = "cut"]
         [] c \notin InFlight(i) /\ call[c].at = i -> [call[c] EXCEPT !.handler = FALSE]
         [] OTHER -> call[c]]

Set(i, r) == inst' = [inst EXCEPT ![i] = r]
GoTo(i, pc) == inst' = [inst EXCEPT ![i].pc = pc]

-----------------------------------------------------------------------------
(* New *)

Start(i) ==
  /\ inst[i].pc = "down" /\ starts[i] < deployment.starts[i]
  /\ starts' = [starts EXCEPT ![i] = @ + 1]
  /\ Set(i, [Down(None) EXCEPT !.pc = "config"])
  /\ UNCHANGED <<deployment, database, call>>

\* The loaders refuse what does not parse; the rate limiter needs Redis.
LoadConfig(i) ==
  /\ inst[i].pc = "config"
  /\ IF /\ Parses(Load) /\ Parses(LoadRedisConfig)
        /\ Parses(LoadRateLimitConfig) /\ Valid(LoadRateLimitConfig)
        /\ Parses(LoadOutboxWorkerConfig)
        /\ LoadRateLimitConfig.Enabled => LoadRedisConfig.Enabled
     THEN GoTo(i, "connect") /\ UNCHANGED call
     ELSE Exit(i, "failed")
  /\ UNCHANGED <<deployment, database, starts>>

\* Run: the gateway's connections to the gRPC server are made first.
Launch(i) == Set(i, [inst[i] EXCEPT !.pc = "launch", !.conn = "open"])

Seeding(i) == inst[i].pc \in {"seed", "create"}

\* gorm.Open, the ping of Redis and AutoMigrate. Then the seeds, in the
\* development environment only.
Connect(i) ==
  /\ inst[i].pc = "connect"
  /\ IF Load.Env = "development"
     THEN inst' = [j \in Instances |->
            CASE j = i -> [inst[i] EXCEPT !.pc = "seed", !.left = AllPermissions,
                                          !.overlapped = \E k \in Instances \ {i} : Seeding(k)]
              [] j # i /\ Seeding(j) -> [inst[j] EXCEPT !.overlapped = TRUE]
              [] OTHER -> inst[j]]
     ELSE Launch(i)
  /\ UNCHANGED <<deployment, database, starts, call>>

PhaseOf(i) == Phases[inst[i].phase]
Seed(i) == Head(inst[i].left)

\* Mutant: the row is created without looking for it.
SeedFindNever(i) ==
  /\ inst[i].pc = "seed" /\ inst[i].left # <<>> /\ PhaseOf(i) # "grants"
  /\ GoTo(i, "create")
  /\ UNCHANGED <<deployment, database, starts, call>>

\* SeedPermissions, SeedRoles and SeedAdmin look for a row before they create it.
\* SeedRoles also writes the name and is_system of a role that it finds, which are
\* the same at every start (seed.go:76) and are not modelled.
SeedFind(i) ==
  /\ inst[i].pc = "seed" /\ inst[i].left # <<>> /\ PhaseOf(i) # "grants"
  /\ CASE Visible(PhaseOf(i), Seed(i)) ->
            Set(i, [inst[i] EXCEPT !.left = Tail(@)]) /\ UNCHANGED call
       [] ~Visible(PhaseOf(i), Seed(i)) /\ Needs(PhaseOf(i), Seed(i)) ->
            GoTo(i, "create") /\ UNCHANGED call
       [] OTHER -> Exit(i, "conflict")
  /\ UNCHANGED <<deployment, database, starts>>

\* Create fails on the unique index when the row is there, visible or not. The
\* administrator's username has an index too, but one environment seeds one account.
SeedCreate(i) ==
  /\ inst[i].pc = "create"
  /\ IF Seed(i) \in rows[PhaseOf(i)]
     THEN Exit(i, "conflict") /\ UNCHANGED rows
     ELSE /\ rows' = [rows EXCEPT ![PhaseOf(i)] = @ \cup {Seed(i)}]
          /\ Set(i, [inst[i] EXCEPT !.pc = "seed", !.left = Tail(@)])
          /\ UNCHANGED call
  /\ UNCHANGED <<deployment, deleted, starts>>

\* Mutant: the first grant that is there ends the function.
SeedGrantReturns(i) ==
  /\ inst[i].pc = "seed" /\ inst[i].left # <<>> /\ PhaseOf(i) = "grants"
  /\ rows' = [rows EXCEPT !.grants = @ \cup {Seed(i)}]
  /\ Set(i, [inst[i] EXCEPT !.left = IF Seed(i) \in rows.grants THEN <<>> ELSE Tail(@)])
  /\ UNCHANGED <<deployment, deleted, starts, call>>

\* SeedRolePermissions: ON CONFLICT DO NOTHING.
SeedGrant(i) ==
  /\ inst[i].pc = "seed" /\ inst[i].left # <<>> /\ PhaseOf(i) = "grants"
  /\ IF Needs("grants", Seed(i))
     THEN /\ rows' = [rows EXCEPT !.grants = @ \cup {Seed(i)}]
          /\ Set(i, [inst[i] EXCEPT !.left = Tail(@)])
          /\ UNCHANGED call
     ELSE Exit(i, "conflict") /\ UNCHANGED rows
  /\ UNCHANGED <<deployment, deleted, starts>>

\* The next kind of seed; after the last one New returns and Run begins.
NextPhase(i) ==
  /\ inst[i].pc = "seed" /\ inst[i].left = <<>>
  /\ \/ /\ inst[i].phase < Len(Phases)
        /\ \E o \in OrdersOf(Phases[inst[i].phase + 1]) :
             Set(i, [inst[i] EXCEPT !.phase = @ + 1, !.left = o])
     \/ inst[i].phase = Len(Phases) /\ Launch(i)
  /\ UNCHANGED <<deployment, database, starts, call>>

\* Something that New needs does not answer, or the process is killed.
Fail(i) ==
  /\ inst[i].pc # "down"
  /\ Exit(i, "failed")
  /\ UNCHANGED <<deployment, database, starts>>

-----------------------------------------------------------------------------
(* Run *)

\* A goroutine ends: Run takes the result at once when it waits in its select,
\* otherwise it stays in the channel.
Send(i, r) ==
  IF inst[i].pc = "select" THEN Exit(i, "ended")
  ELSE Set(i, [r EXCEPT !.errCh = @ + 1]) /\ UNCHANGED call

\* runGRPCServer and runHTTPServer: listening fails when the port is taken.
Serve(i, s) ==
  /\ inst[i].pc \in Running /\ inst[i][s] = "off"
  /\ \/ Set(i, [inst[i] EXCEPT ![s] = "serving"]) /\ UNCHANGED call
     \/ Send(i, [inst[i] EXCEPT ![s] = "closed"])
  /\ UNCHANGED <<deployment, database, starts>>

\* time.NewTicker panics without a positive interval, and the process with it.
WorkerRun(i) ==
  /\ inst[i].pc \in Running /\ inst[i].worker = "off"
  /\ IF LoadOutboxWorkerConfig.Interval <= 0 THEN Exit(i, "failed")
     ELSE Set(i, [inst[i] EXCEPT !.worker = "running"]) /\ UNCHANGED call
  /\ UNCHANGED <<deployment, database, starts>>

\* Mutant: the worker reports its end and goes on.
WorkerEndAgain(i) ==
  /\ inst[i].pc \in Running /\ inst[i].worker = "running" /\ inst[i].signalled
  /\ Send(i, inst[i])
  /\ UNCHANGED <<deployment, database, starts>>

\* The worker returns nil when the context is cancelled.
WorkerEnd(i) ==
  /\ inst[i].pc \in Running /\ inst[i].worker = "running" /\ inst[i].signalled
  /\ Send(i, [inst[i] EXCEPT !.worker = "ended"])
  /\ UNCHANGED <<deployment, database, starts>>

\* A waiting Run is woken by the signal itself; before that the signal is only
\* seen by Select, and before Run by nobody.
Signal(i) ==
  /\ deployment.signals /\ inst[i].pc # "down" /\ ~inst[i].signalled
  /\ CASE inst[i].pc \in Starting -> Exit(i, "failed")
       [] inst[i].pc = "select" ->
            Set(i, [inst[i] EXCEPT !.pc = "drain", !.signalled = TRUE]) /\ UNCHANGED call
       [] OTHER -> Set(i, [inst[i] EXCEPT !.signalled = TRUE]) /\ UNCHANGED call
  /\ UNCHANGED <<deployment, database, starts>>

\* With both cases ready the choice is random.
Select(i) ==
  /\ inst[i].pc = "launch"
  /\ \/ inst[i].signalled /\ GoTo(i, "drain") /\ UNCHANGED call
     \/ inst[i].errCh > 0 /\ Exit(i, "ended")
     \/ ~inst[i].signalled /\ inst[i].errCh = 0 /\ GoTo(i, "select") /\ UNCHANGED call
  /\ UNCHANGED <<deployment, database, starts>>

-----------------------------------------------------------------------------
(* Shutdown *)

\* GracefulStop closes the listener and refuses new calls ...
GracefulStop(i) ==
  /\ inst[i].pc = "drain" /\ inst[i].grpc # "closed"
  /\ Set(i, [inst[i] EXCEPT !.grpc = "closed", !.errCh = @ + 1])
  /\ UNCHANGED <<deployment, database, starts, call>>

Handling(i) == {c \in Calls : call[c].at = i /\ call[c].handler}

\* The calls of C lose their connection to the gRPC server: a client of the
\* gateway is told, another one is not.
Cut(C) == [c \in Calls |->
  CASE c \in C /\ call[c].pc = "rpc" /\ call[c].via = "grpc" ->
         [call[c] EXCEPT !.pc = "over", !.result = "cut"]
    [] c \in C /\ call[c].pc = "rpc" /\ call[c].via = "http" ->
         [call[c] EXCEPT !.pc = "reply", !.result = "refused"]
    [] OTHER -> call[c]]

\* Mutant: Stop in the place of GracefulStop.
DrainedAtOnce(i) ==
  /\ inst[i].pc = "drain" /\ inst[i].grpc = "closed"
  /\ GoTo(i, "close")
  /\ call' = Cut(Handling(i))
  /\ UNCHANGED <<deployment, database, starts>>

\* ... and returns when the last handler has.
Drained(i) ==
  /\ inst[i].pc = "drain" /\ inst[i].grpc = "closed"
  /\ Handling(i) = {}
  /\ GoTo(i, "close")
  /\ UNCHANGED <<deployment, database, starts, call>>

\* Mutant: GracefulStop is waited for without a limit.
DeadlineNever(i) == FALSE /\ UNCHANGED vars

\* The ten seconds are over: Stop cuts the calls that are still running. The
\* select and Stop are one step: by its contract Stop waits for no handler.
Deadline(i) ==
  /\ inst[i].pc \in {"drain", "close"} /\ ~inst[i].expired
  /\ Set(i, [inst[i] EXCEPT !.expired = TRUE, !.pc = "close", !.grpc = "closed",
                         !.errCh = IF inst[i].grpc = "closed" THEN @ ELSE @ + 1])
  /\ call' = Cut(Handling(i))
  /\ UNCHANGED <<deployment, database, starts>>

\* HTTPServer.Shutdown closes the listener and waits for the requests of the
\* gateway, until the same deadline.
CloseHTTP(i) ==
  /\ inst[i].pc = "close"
  /\ \/ /\ inst[i].http # "closed"
        /\ Set(i, [inst[i] EXCEPT !.http = "closed", !.errCh = @ + 1]) /\ UNCHANGED call
     \/ /\ inst[i].http = "closed" /\ {c \in InFlight(i) : call[c].via = "http"} = {}
        /\ Exit(i, "graceful")
     \/ /\ inst[i].http = "closed" /\ {c \in InFlight(i) : call[c].via = "http"} # {}
        /\ inst[i].expired
        /\ Exit(i, "deadline")
  /\ UNCHANGED <<deployment, database, starts>>

-----------------------------------------------------------------------------
(* Requests *)

\* The gateway's connections are made with the context of Run, and the generated
\* code closes them when it is cancelled: every call in flight fails at once.
CloseConn(i) ==
  /\ inst[i].pc \in Running /\ inst[i].conn = "open" /\ inst[i].signalled
  /\ Set(i, [inst[i] EXCEPT !.conn = "closed"])
  /\ call' = Cut({c \in Handling(i) : call[c].via = "http"})
  /\ UNCHANGED <<deployment, database, starts>>

CallGRPC(c, i) ==
  /\ c \in deployment.calls /\ call[c].pc = "new" /\ inst[i].grpc = "serving"
  /\ call' = [call EXCEPT ![c] = [pc |-> "rpc", at |-> i, via |-> "grpc", handler |-> TRUE,
                                  result |-> None]]
  /\ UNCHANGED <<deployment, database, starts, inst>>

CallHTTP(c, i) ==
  /\ c \in deployment.calls /\ call[c].pc = "new" /\ inst[i].http = "serving"
  /\ call' = [call EXCEPT ![c] = [pc |-> "gateway", at |-> i, via |-> "http", handler |-> FALSE,
                                  result |-> None]]
  /\ UNCHANGED <<deployment, database, starts, inst>>

\* The gateway calls the gRPC server of its own instance.
Forward(c) ==
  LET i == inst[call[c].at] IN
  /\ call[c].pc = "gateway"
  /\ call' = [call EXCEPT ![c] = IF i.grpc = "serving" /\ i.conn = "open"
                                 THEN [@ EXCEPT !.pc = "rpc", !.handler = TRUE]
                                 ELSE [@ EXCEPT !.pc = "reply", !.result = "refused"]]
  /\ UNCHANGED <<deployment, database, starts, inst>>

\* A handler returns; its answer goes to a client that still waits for it.
Finish(c) ==
  /\ call[c].handler
  /\ call' = [call EXCEPT ![c] =
       CASE @.pc = "rpc" /\ @.via = "grpc" ->
              [@ EXCEPT !.handler = FALSE, !.pc = "over", !.result = "served"]
         [] @.pc = "rpc" /\ @.via = "http" ->
              [@ EXCEPT !.handler = FALSE, !.pc = "reply", !.result = "served"]
         [] OTHER -> [@ EXCEPT !.handler = FALSE]]
  /\ UNCHANGED <<deployment, database, starts, inst>>

\* The gateway answers its client.
Reply(c) ==
  /\ call[c].pc = "reply"
  /\ call' = [call EXCEPT ![c].pc = "over"]
  /\ UNCHANGED <<deployment, database, starts, inst>>

\* The administrator may delete its own account.
DeleteAdmin ==
  /\ \E i \in Instances : inst[i].grpc = "serving"
  /\ AdminEmail \in rows.admin /\ ~deleted
  /\ deleted' = TRUE
  /\ UNCHANGED <<deployment, rows, starts, inst, call>>

-----------------------------------------------------------------------------
Step(i) ==
  \/ LoadConfig(i) \/ Connect(i)
  \/ SeedFind(i) \/ SeedCreate(i) \/ SeedGrant(i) \/ NextPhase(i)
  \/ Serve(i, "grpc") \/ Serve(i, "http") \/ WorkerRun(i) \/ WorkerEnd(i) \/ Select(i)
  \/ GracefulStop(i) \/ Drained(i) \/ Deadline(i) \/ CloseHTTP(i) \/ CloseConn(i)

Next ==
  \/ \E i \in Instances : Start(i) \/ Step(i) \/ Fail(i) \/ Signal(i)
  \/ \E c \in Calls : Forward(c) \/ Finish(c) \/ Reply(c)
                      \/ \E i \in Instances : CallGRPC(c, i) \/ CallHTTP(c, i)
  \/ DeleteAdmin

\* The goroutines of an instance are scheduled and its timer fires. A request may
\* take for ever, in the service or because the client does not read.
Spec == Init /\ [][Next]_vars /\ \A i \in Instances : WF_vars(Step(i))

-----------------------------------------------------------------------------
(* Properties *)

\* Well-formed state. errCh never holds more than its three places: no goroutine
\* is left waiting to report its end.
TypeOK ==
  /\ deployment \in Deployments
  /\ \A p \in DOMAIN RowsOf : rows[p] \subseteq RowsOf[p]
  /\ deleted \in BOOLEAN
  /\ \A i \in Instances : starts[i] \in 0..deployment.starts[i]
  /\ inst \in [Instances -> Instance]
  /\ call \in [Calls -> Request]

\* An instance that runs in the development environment has all the seeds,
\* although seeding is no transaction and starts are killed half way or overlap
\* (bootstrap.go:94, seed.go:71).
ServesSeeded ==
  \A i \in Instances : inst[i].pc \in Running /\ Load.Env = "development" => Seeded

\* What an interrupted start leaves behind never stops the next one: seeding
\* only fails on a unique index or a missing row when another instance seeds at
\* the same time, or when the administrator's account is soft-deleted, which
\* SeedAdmin does not see and the index does (seed.go:21, 52). The environment stays
\* the same: with another ADMIN_EMAIL the unique username 'admin' (seed.go:43,
\* users.go:14) makes Create fail at seed.go:52 even for a lone start.
LoneStartSucceeds ==
  \A i \in Instances : inst[i].end = "conflict" => inst[i].overlapped \/ deleted

\* Shutdown leaves nobody without an answer: as long as its deadline has not
\* passed and the process is not killed, a request that either server accepted
\* is answered, although the gateway may answer that it was cancelled
\* (run.go:92, 110, gateway.go:50).
GracefulCutsNobody ==
  [][\A c \in Calls :
       call[c].pc # "over" /\ call'[c].result = "cut" =>
         LET i == call[c].at IN
         inst[i].expired \/ inst'[i].expired \/ inst'[i].end \in {"failed", "ended"}]_vars

TwoTo[n \in Nat] == IF n = 0 THEN 1 ELSE 2 * TwoTo[n - 1]

\* As long as its limit allows another attempt, the delay before the n-th retry
\* of an event is the first one times 2^(n - 1), cut at the maximum: once reached it
\* stays there, and delays never shrink unless the first one is above it
\* (retry.go:20). The jitter at most doubles a delay, or raises it to a millisecond,
\* and never makes it vanish: what it returns is at least the delay or a millisecond,
\* whichever is shorter (retry.go:47). Nothing is claimed of a jitter ratio of NaN.
RetriesBackOff ==
  (\E i \in Instances : inst[i].worker = "running") =>
    \A maxRetry \in {MaxRetryOf(e) : e \in EventMaxRetries} :
      LET delay == Backoff(maxRetry) IN
      \A n \in RetryCounts(maxRetry) :
        /\ n > 1 => /\ delay[n] = Min({InitialBackoff * TwoTo[n - 1], MaxBackoff})
                    /\ InitialBackoff <= MaxBackoff => delay[n] >= delay[n - 1]
        /\ LoadOutboxWorkerConfig.RetryJitterRatio # NaN =>
             /\ Jittered(delay[n])[1] >= Min({delay[n], Millisecond})
             /\ Jittered(delay[n])[2] <= Max({2 * delay[n], Millisecond})

\* A signal ends the process, whatever the requests in flight do (run.go:84). It
\* relies on the contract of gRPC's Stop, which cancels what is in flight and returns
\* (run.go:104), although a GracefulStop of the same server has not.
ShutdownEnds ==
  \A i \in Instances : inst[i].signalled ~> inst[i].pc = "down"
=============================================================================
