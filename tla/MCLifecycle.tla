---------------------------- MODULE MCLifecycle -----------------------------
(* Instances of Lifecycle for TLC. *)
EXTENDS Lifecycle

CONSTANTS admin, user, p1, p2, i1

MCPermissions == <<p1, p2>>
MCRoles == <<admin, user>>
MCRolePermissions == [r \in {admin, user} |-> IF r = admin THEN <<p1, p2>> ELSE <<p2>>]

OnlyFirst == [i \in Instances |-> IF i = i1 THEN 1 ELSE 0]

Production(calls, settings) ==
  [env |-> [ENV |-> "production"] @@ settings, starts |-> OnlyFirst,
   calls |-> calls, signals |-> TRUE]

\* Two instances that seed, with the defaults, each started twice. One
\* instance in production that is called, with a first delay beyond the maximum.
\* Retries that begin below a millisecond, without a limit of their own, and with
\* a jitter ratio that is no number. Then what stops a start: a worker without an
\* interval, a limiter without Redis or without a limit, a value that does not
\* parse.
MCDeployments ==
  {[env |-> << >>, starts |-> [i \in Instances |-> 2], calls |-> {}, signals |-> FALSE],
   Production(Calls,
     "OUTBOX_WORKER_RETRY_INITIAL_BACKOFF" :> 70 @@ "OUTBOX_WORKER_RETRY_MAX_BACKOFF" :> 50)}
  \cup {Production({}, s) : s \in {
    "OUTBOX_WORKER_RETRY_INITIAL_BACKOFF" :> 1 @@ "OUTBOX_WORKER_RETRY_JITTER_RATIO" :> Whole,
    "OUTBOX_WORKER_MAX_RETRY" :> 0, "OUTBOX_WORKER_RETRY_JITTER_RATIO" :> NaN,
    "OUTBOX_WORKER_INTERVAL" :> 0, "RATE_LIMIT_ENABLED" :> TRUE,
    "RATE_LIMIT_ENABLED" :> TRUE @@ "REDIS_ENABLED" :> TRUE @@ "RATE_LIMIT_DEFAULT_LIMIT" :> 0,
    "JWT_ACCESS_TTL" :> Malformed}}

\* Rows without a limit and with one from an earlier configuration.
MCEventMaxRetries == {-1, 3}
=============================================================================
