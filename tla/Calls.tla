------------------------------- MODULE Calls --------------------------------
(***************************************************************************)
(* What happens to a call on its way to a service: the chain of unary      *)
(* interceptors of internal/handler/grpcserver/grpc.go, the servers' own   *)
(* checks, and the answer.                                                 *)
(*                                                                         *)
(*   Recovery, PreAuthRateLimit, Validation, Authentication,               *)
(*   PostAuthRateLimit, Permission, handler, service, MapError             *)
(*                                                                         *)
(* A call is a process. Each access to Redis or to the database is an      *)
(* action of its own, so that calls, changes of permissions, deletions of  *)
(* roles and revocations of sessions interleave between them. What the     *)
(* services do is in the modules Accounts, Sessions and Roles: here a      *)
(* service is the set of errors it can return. A token stands for the      *)
(* session it names; IsRevoked answers no more than the database does      *)
(* (RedisSound of Sessions) and is left out.                               *)
(*                                                                         *)
(* A behaviour covers at most one window of the rate limiter: the bucket   *)
(* under a key gets one token back every Window/Limit, as a step that may  *)
(* come at any time and at most Limit times. Its methods are those of one  *)
(* workload.                                                               *)
(***************************************************************************)
EXTENDS Integers, FiniteSets, SequencesExt

CONSTANTS
  Callers,            \* calls in flight at one time
  Tokens,             \* access tokens whose signature is good
  Users, Roles,
  UserOf, RoleOf,     \* the claims of a token
  SystemRoles,        \* roles whose permissions do not change
  IPs,
  Spellings,          \* addresses and user names as a request gives them
  Normal,             \* ... in lower case and trimmed, None when empty
  Workloads,          \* what is called in a behaviour, and how the limiter is set
  MaxBurst,           \* bound on the size of a bucket
  None

ASSUME ClaimsAssumption == UserOf \in [Tokens -> Users] /\ RoleOf \in [Tokens -> Roles]
ASSUME NormalAssumption ==
  /\ Normal \in [Spellings -> Spellings \cup {None}]
  /\ \A s \in Spellings : Normal[s] # None => Normal[Normal[s]] = Normal[s]
  /\ Spellings \cap (IPs \cup Users) = {}
ASSUME BoundAssumption == MaxBurst \in Nat /\ MaxBurst > 0
ASSUME CallersAssumption == IsFiniteSet(Callers)
ASSUME NoneAssumption == None \notin Tokens \cup Users \cup Roles \cup IPs \cup Spellings

-----------------------------------------------------------------------------
(* The tables of the server *)

PublicMethods ==
  {"Register", "Login", "VerifyEmail", "ResendVerification", "SetPassword",
   "ResetPassword", "ForgotPassword", "RefreshToken"}

\* Logout and LogoutAll need a session and no permission.
MethodPermissions == [
  GetMyProfile             |-> "profile:read_self",
  UpdateMyProfile          |-> "profile:update_self",
  ChangeMyPassword         |-> "profile:change_password",
  ListUsers                |-> "users:list",
  CreateUser               |-> "users:create",
  GetUserDetail            |-> "users:read_detail",
  UpdateUser               |-> "users:update",
  DeleteUser               |-> "users:delete",
  RestoreUser              |-> "users:restore",
  UpdateUserRole           |-> "users:update_role",
  ListRoles                |-> "roles:list",
  CreateRole               |-> "roles:create",
  DeleteRole               |-> "roles:delete",
  AssignPermissionToRole   |-> "roles:assign_permission",
  RemovePermissionFromRole |-> "roles:remove_permission",
  ListPermissions          |-> "permissions:list"]

Permissions == {MethodPermissions[m] : m \in DOMAIN MethodPermissions}

Methods == PublicMethods \cup {"Logout", "LogoutAll"} \cup DOMAIN MethodPermissions

\* A workload: the methods called, the bounds on calls, on errors of the limiter
\* and on the tokens that a bucket gets back, whether requests may be wrong
\* and whether queries may fail (no answer, a value that a column does not take,
\* a constraint that another request made true first), REDIS_ENABLED,
\* RATE_LIMIT_ENABLED (which New refuses without Redis) and RATE_LIMIT_FAIL_OPEN.
ASSUME WorkloadAssumption ==
  \A w \in Workloads : /\ w.methods \subseteq Methods
                       /\ {w.calls, w.errors, w.refills} \subseteq Nat
                       /\ {w.wrong, w.faulty, w.redis, w.enabled, w.failOpen} \subseteq BOOLEAN
                       /\ w.enabled => w.redis

PolicyOf(name, limit, burst, phase, scopes) ==
  [name |-> name, limit |-> limit, burst |-> burst, phase |-> phase, scopes |-> scopes]
PreAuth(name, limit, burst, scopes) == PolicyOf(name, limit, burst, "pre_auth", scopes)
PostAuth(name, limit, burst) == PolicyOf(name, limit, burst, "post_auth", <<"user">>)

DefaultPolicy == PostAuth("global", 300, 300)

MethodPolicies == [
  Login              |-> PreAuth("login", 5, 5, <<"ip", "identifier">>),
  Register           |-> PreAuth("register", 5, 5, <<"ip", "email">>),
  ForgotPassword     |-> PreAuth("forgot_password", 3, 3, <<"ip", "email">>),
  ResendVerification |-> PreAuth("resend_verification", 3, 3, <<"ip", "email">>),
  RefreshToken       |-> PreAuth("refresh_token", 30, 10, <<"ip">>),
  GetMyProfile       |-> PostAuth("user_read", 60, 120),
  UpdateMyProfile    |-> PostAuth("user_write", 30, 60),
  ChangeMyPassword   |-> PostAuth("change_password", 5, 5),
  ListUsers          |-> PostAuth("admin_read", 120, 200),
  GetUserDetail      |-> PostAuth("admin_read", 120, 200),
  CreateUser         |-> PostAuth("admin_write", 60, 80),
  UpdateUser         |-> PostAuth("admin_write", 60, 80),
  DeleteUser         |-> PostAuth("admin_dangerous", 20, 20),
  RestoreUser        |-> PostAuth("admin_dangerous", 20, 20),
  UpdateUserRole     |-> PostAuth("admin_dangerous", 20, 20)]

PolicyForMethod(m) ==
  IF m \in DOMAIN MethodPolicies THEN MethodPolicies[m] ELSE DefaultPolicy

\* Methods whose request names an account before anybody is authenticated.
Named == {"Login", "Register", "ForgotPassword", "ResendVerification"}

-----------------------------------------------------------------------------
(* Errors that services return, and what the mapper makes of them *)

ErrorGroup == [
  AUTH |-> {"AUTH_INVALID_CREDENTIALS", "AUTH_UNAUTHORIZED", "AUTH_FORBIDDEN",
            "AUTH_ACCOUNT_NOT_VERIFIED", "AUTH_ACCOUNT_DELETED"},
  ROLE |-> {"ROLE_NOT_FOUND", "ROLE_CODE_EXISTS", "ROLE_IN_USE",
            "ROLE_INVALID_REPLACEMENT", "ROLE_CANNOT_MODIFY_SYSTEM"},
  PERMISSION |-> {"PERMISSION_NOT_FOUND"},
  USER |-> {"USER_NOT_FOUND", "USER_ALREADY_DELETED", "USER_NOT_DELETED",
            "USER_USERNAME_ALREADY_EXISTS"},
  EMAIL |-> {"EMAIL_ALREADY_EXISTS", "EMAIL_SEND_RESET_PASSWORD_FAILED",
             "EMAIL_SEND_SET_PASSWORD_FAILED"},
  PASSWORD |-> {"PASSWORD_INCORRECT", "PASSWORD_CONFIRMATION_MISMATCH",
                "PASSWORD_NOT_CHANGED", "PASSWORD_ALREADY_SET"},
  TOKEN |-> {"TOKEN_INVALID", "TOKEN_INVALID_REFRESH"},
  VALIDATION |-> {"VALIDATION_INVALID_INPUT"},
  AUDIT |-> {"AUDIT_LOG_FAILED"},
  INTERNAL |-> {"INTERNAL_ERROR"}]

AppErrors == UNION {ErrorGroup[g] : g \in DOMAIN ErrorGroup}

\* Errors by which a service reports that a query failed; "raw" is an error of
\* another type than AppError. They also answer some requests that are wrong:
\* see ServiceAnswer.
Failures == ErrorGroup.INTERNAL \cup ErrorGroup.AUDIT \cup
            {"EMAIL_SEND_RESET_PASSWORD_FAILED", "EMAIL_SEND_SET_PASSWORD_FAILED", "raw"}

fallbackCodeByGroup(e) ==
  CASE e \in ErrorGroup.AUTH \cup ErrorGroup.TOKEN           -> "Unauthenticated"
    [] e \in ErrorGroup.VALIDATION \cup ErrorGroup.PASSWORD  -> "InvalidArgument"
    [] e \in ErrorGroup.PERMISSION                           -> "PermissionDenied"
    [] OTHER                                                 -> "Internal"

\* Mutant: the codes of a conflict are missing in the switch.
mapAppErrorCodeNoConflict(e) ==
  CASE e = "AUTH_FORBIDDEN" -> "PermissionDenied"
    [] e \in {"USER_NOT_FOUND", "ROLE_NOT_FOUND", "PERMISSION_NOT_FOUND"} -> "NotFound"
    [] OTHER -> fallbackCodeByGroup(e)

mapAppErrorCode(e) ==
  CASE e \in ErrorGroup.VALIDATION \cup ErrorGroup.PASSWORD
             \cup {"TOKEN_INVALID", "ROLE_INVALID_REPLACEMENT"} -> "InvalidArgument"
    [] e \in {"AUTH_UNAUTHORIZED", "AUTH_INVALID_CREDENTIALS",
              "TOKEN_INVALID_REFRESH"}                          -> "Unauthenticated"
    [] e = "AUTH_FORBIDDEN"                                     -> "PermissionDenied"
    [] e \in {"USER_NOT_FOUND", "ROLE_NOT_FOUND",
              "PERMISSION_NOT_FOUND"}                           -> "NotFound"
    [] e \in {"EMAIL_ALREADY_EXISTS", "USER_USERNAME_ALREADY_EXISTS",
              "ROLE_CODE_EXISTS"}                               -> "AlreadyExists"
    [] e \in {"AUTH_ACCOUNT_NOT_VERIFIED", "AUTH_ACCOUNT_DELETED",
              "USER_ALREADY_DELETED", "USER_NOT_DELETED", "ROLE_IN_USE",
              "ROLE_CANNOT_MODIFY_SYSTEM"}                      -> "FailedPrecondition"
    [] OTHER -> fallbackCodeByGroup(e)

MapError(e) ==
  IF e = None THEN "OK" ELSE IF e = "raw" THEN "Internal" ELSE mapAppErrorCode(e)

AnswerCodes == {"OK", "InvalidArgument", "Unauthenticated", "PermissionDenied", "NotFound",
                "AlreadyExists", "FailedPrecondition", "ResourceExhausted", "Unavailable",
                "Internal", "Unknown"}

-----------------------------------------------------------------------------
(* The servers. What may be wrong with a request: "shape", a field that      *)
(* breaks a rule of the protocol definition; "date", a date of birth that    *)
(* has the right pattern and is no date; "role", the code of no role;        *)
(* "password", a new one of more than the 72 bytes that bcrypt takes;        *)
(* "address", one that no account has, where the service does not hide it.   *)

Defects == {None, "shape", "date", "role", "password", "address"}

ASSUME NoneIsNoError == None \notin AppErrors \cup {"raw", "panic"}
ASSUME NoneIsNoDefect == None \notin {"shape", "date", "role", "password", "address"}

\* Handler: does it need the actor, what does it find wrong with a request by
\* itself, and which errors does its service return?
Server(actor, parses, errors) == [actor |-> actor, parses |-> parses, errors |-> errors]

Ids == {"shape"}                \* parseUserID, parseRoleID, parsePermissionID
ProfileErrors == {"USER_NOT_FOUND", "AUTH_FORBIDDEN", "VALIDATION_INVALID_INPUT",
                  "USER_USERNAME_ALREADY_EXISTS", "INTERNAL_ERROR", "AUDIT_LOG_FAILED", "raw"}
TokenErrors == {"VALIDATION_INVALID_INPUT", "PASSWORD_CONFIRMATION_MISMATCH", "TOKEN_INVALID",
                "USER_NOT_FOUND", "USER_ALREADY_DELETED", "INTERNAL_ERROR"}
GrantErrors == {"ROLE_NOT_FOUND", "ROLE_CANNOT_MODIFY_SYSTEM", "PERMISSION_NOT_FOUND",
                "INTERNAL_ERROR", "raw"}

AccountServer == [
  Register |-> Server(FALSE, {"date"},
    {"VALIDATION_INVALID_INPUT", "EMAIL_ALREADY_EXISTS", "USER_USERNAME_ALREADY_EXISTS",
     "INTERNAL_ERROR", "raw"}),
  VerifyEmail |-> Server(FALSE, {},
    {"TOKEN_INVALID", "USER_NOT_FOUND", "USER_ALREADY_DELETED", "INTERNAL_ERROR"}),
  ResendVerification |-> Server(FALSE, {},
    {"USER_NOT_FOUND", "INTERNAL_ERROR", "raw"}),
  SetPassword |-> Server(FALSE, {}, TokenErrors \cup {"PASSWORD_ALREADY_SET"}),
  ResetPassword |-> Server(FALSE, {}, TokenErrors),
  ForgotPassword |-> Server(FALSE, {},
    {"EMAIL_SEND_RESET_PASSWORD_FAILED", "INTERNAL_ERROR", "raw"}),
  Login |-> Server(FALSE, {},
    {"AUTH_INVALID_CREDENTIALS", "AUTH_ACCOUNT_NOT_VERIFIED", "AUTH_ACCOUNT_DELETED",
     "INTERNAL_ERROR", "raw"}),
  RefreshToken |-> Server(FALSE, {},
    {"VALIDATION_INVALID_INPUT", "TOKEN_INVALID_REFRESH", "USER_NOT_FOUND",
     "AUTH_ACCOUNT_DELETED", "AUTH_ACCOUNT_NOT_VERIFIED", "INTERNAL_ERROR", "raw"})]

SessionServer == [
  Logout |-> Server(TRUE, {}, {"AUTH_UNAUTHORIZED", "VALIDATION_INVALID_INPUT", "INTERNAL_ERROR"}),
  LogoutAll |-> Server(TRUE, {}, {"AUTH_UNAUTHORIZED", "VALIDATION_INVALID_INPUT", "INTERNAL_ERROR"})]

UserServer == [
  GetMyProfile |-> Server(TRUE, {}, {"USER_NOT_FOUND", "raw"}),
  UpdateMyProfile |-> Server(TRUE, {"date"}, ProfileErrors),
  ChangeMyPassword |-> Server(TRUE, {},
    {"AUTH_UNAUTHORIZED", "VALIDATION_INVALID_INPUT", "PASSWORD_CONFIRMATION_MISMATCH",
     "PASSWORD_INCORRECT", "PASSWORD_NOT_CHANGED", "INTERNAL_ERROR", "AUDIT_LOG_FAILED", "raw"})]

\* The validator refuses page 0, so that the defaults of ListUsers are never
\* used; its own check of the page, and of the status, is a shape.
SearchServer == [
  ListUsers |-> Server(TRUE, {"shape", "date"}, {"VALIDATION_INVALID_INPUT", "INTERNAL_ERROR"})]

ProfileServer == [
  CreateUser |-> Server(TRUE, {"date"},
    {"VALIDATION_INVALID_INPUT", "EMAIL_ALREADY_EXISTS", "USER_USERNAME_ALREADY_EXISTS",
     "EMAIL_SEND_SET_PASSWORD_FAILED", "AUDIT_LOG_FAILED", "INTERNAL_ERROR", "raw"}),
  GetUserDetail |-> Server(TRUE, Ids, {"USER_NOT_FOUND", "raw"}),
  UpdateUser |-> Server(TRUE, Ids \cup {"date"}, ProfileErrors)]

StatusServer == [
  DeleteUser |-> Server(TRUE, Ids,
    {"USER_NOT_FOUND", "AUTH_FORBIDDEN", "INTERNAL_ERROR", "AUDIT_LOG_FAILED", "raw"}),
  RestoreUser |-> Server(TRUE, Ids,
    {"USER_NOT_FOUND", "USER_NOT_DELETED", "INTERNAL_ERROR", "AUDIT_LOG_FAILED", "raw"}),
  UpdateUserRole |-> Server(TRUE, Ids,
    {"USER_NOT_FOUND", "VALIDATION_INVALID_INPUT", "AUTH_FORBIDDEN", "INTERNAL_ERROR",
     "AUDIT_LOG_FAILED", "raw"})]

RoleServer == [
  ListRoles |-> Server(TRUE, {}, {"INTERNAL_ERROR"}),
  CreateRole |-> Server(TRUE, {},
    {"VALIDATION_INVALID_INPUT", "ROLE_CODE_EXISTS", "INTERNAL_ERROR", "raw"}),
  DeleteRole |-> Server(TRUE, Ids,
    {"ROLE_NOT_FOUND", "ROLE_CANNOT_MODIFY_SYSTEM", "ROLE_IN_USE", "ROLE_INVALID_REPLACEMENT",
     "INTERNAL_ERROR", "raw"}),
  AssignPermissionToRole |-> Server(TRUE, Ids, GrantErrors),
  RemovePermissionFromRole |-> Server(TRUE, Ids, GrantErrors),
  ListPermissions |-> Server(TRUE, {}, {"INTERNAL_ERROR"})]

\* Which requests carry a field with such a defect.
Carriers == [
  shape    |-> Methods \ {"Logout", "LogoutAll", "GetMyProfile", "ListRoles", "ListPermissions"},
  date     |-> {"Register", "UpdateMyProfile", "ListUsers", "CreateUser", "UpdateUser"},
  role     |-> {"ListUsers", "CreateUser", "UpdateUserRole"},
  password |-> {"Register", "SetPassword", "ResetPassword", "ChangeMyPassword"},
  address  |-> {"ResendVerification"}]
DefectsOf(m) == {d \in Defects : d # None => m \in Carriers[d]}

\* What a service that gets as far as the defect answers; None: it succeeds.
\* ResendVerification dereferences the user that FindByEmail did not find.
ServiceAnswer(m, d) ==
  CASE d = None                                        -> None
    [] d = "address"                                   -> "panic"
    [] d = "role" /\ m = "ListUsers"                   -> "VALIDATION_INVALID_INPUT"
    [] d = "password" /\ m = "ChangeMyPassword"        -> "raw"
    [] OTHER                                           -> "INTERNAL_ERROR"

HandlerOf(m) ==
  CASE m \in DOMAIN AccountServer -> AccountServer[m]
    [] m \in DOMAIN SessionServer -> SessionServer[m]
    [] m \in DOMAIN UserServer    -> UserServer[m]
    [] m \in DOMAIN SearchServer  -> SearchServer[m]
    [] m \in DOMAIN ProfileServer -> ProfileServer[m]
    [] m \in DOMAIN StatusServer  -> StatusServer[m]
    [] m \in DOMAIN RoleServer    -> RoleServer[m]

-----------------------------------------------------------------------------
(* State *)

VARIABLES
  load,      \* the workload of this behaviour
  grants,    \* permissions of each role, None when it was deleted
  live,      \* tokens that are not expired and whose session is active
  bucket,    \* tokens left under each key of the limiter
  refills,   \* ... and those it got back so far
  errors,    \* errors of the limiter so far
  begun,     \* calls so far
  served,    \* history: services run under each key
  call       \* what each call is doing

vars == <<load, grants, live, bucket, refills, errors, begun, served, call>>
methods == load.methods

PC == {"idle", "pre_auth", "validate", "session", "role", "permissions",
       "post_auth", "permit", "handler", "service", "panic", "done"}

Call == [
  pc: PC,
  method: Methods \cup {None},
  ip: IPs \cup {None},
  name: Spellings \cup {None},
  token: Tokens \cup {None},
  defect: Defects,
  checks: SUBSET {"ip", "identifier", "email", "user"}, \* scopes left to check
  actor: Users \cup {None},                             \* the principal
  perms: SUBSET Permissions,                            \* ... and its permissions
  error: AppErrors \cup {"raw", "panic", None},         \* what the service returned
  code: AnswerCodes \cup {None},
  wasLive: BOOLEAN,   \* history: the token was live when the call began
  held: BOOLEAN]      \* history: its role held the permission at some time since

Idle == [pc |-> "idle", method |-> None, ip |-> None, name |-> None, token |-> None,
         defect |-> None, checks |-> {}, actor |-> None, perms |-> {}, error |-> None,
         code |-> None, wasLive |-> FALSE, held |-> FALSE]

Granted(r) == IF grants[r] = None THEN {} ELSE grants[r]

\* Does the role of a token hold the permission that a method asks for?
Allowed(m, t, g) ==
  /\ t # None /\ m \in DOMAIN MethodPermissions
  /\ g[RoleOf[t]] # None /\ MethodPermissions[m] \in g[RoleOf[t]]

normalize(v) == IF v \in Spellings THEN Normal[v] ELSE v

\* Build normalises what ScopeValue has normalised. It never meets an empty
\* value: those are skipped before.
Key(m, scope, value) == <<PolicyForMethod(m).name, scope, normalize(value)>>
NormalNames == {Normal[s] : s \in Spellings} \ {None}
ScopeValues == [ip |-> IPs, identifier |-> NormalNames, email |-> NormalNames, user |-> Users]
KeysOf(m) ==
  UNION {{Key(m, s, v) : v \in ScopeValues[s]} : s \in ToSet(PolicyForMethod(m).scopes)}

\* The policies by name: the size of a bucket, and the tokens it gets back in a
\* window.
PolicyNamed(n) == CHOOSE p \in {PolicyForMethod(m) : m \in Methods} : p.name = n
Burst == [n \in {PolicyForMethod(m).name : m \in Methods} |-> Min({PolicyNamed(n).burst, MaxBurst})]
Limit == [n \in {PolicyForMethod(m).name : m \in Methods} |-> PolicyNamed(n).limit]

Init ==
  /\ load \in Workloads
  /\ grants = [r \in Roles |-> Permissions]
  /\ live = Tokens
  /\ bucket = [k \in UNION {KeysOf(m) : m \in methods} |-> Burst[k[1]]]
  /\ refills = [k \in DOMAIN bucket |-> 0]
  /\ errors = 0
  /\ begun = 0
  /\ served = [k \in DOMAIN bucket |-> 0]
  /\ call = [c \in Callers |-> Idle]

-----------------------------------------------------------------------------
(* Rate limits *)

ScopeValue(k, scope) ==
  CASE scope = "ip" -> k.ip
    [] scope \in {"identifier", "email"} -> normalize(k.name)
    [] scope = "user" -> k.actor

\* buildRateLimitChecks: scopes without a value are skipped.
ChecksOf(k) == {scope \in ToSet(PolicyForMethod(k.method).scopes) : ScopeValue(k, scope) # None}

\* The checks are made in the order of the policy's scopes.
NextScope(k) ==
  LET scopes == PolicyForMethod(k.method).scopes
      left   == {i \in DOMAIN scopes : scopes[i] \in k.checks}
  IN  scopes[CHOOSE i \in left : \A j \in left : i <= j]

\* The interceptor of a phase: nothing to check when the limiter is off or the
\* method's policy belongs to the other phase.
Enter(k, phase) ==
  [k EXCEPT !.pc = phase,
            !.checks = IF load.enabled /\ PolicyForMethod(k.method).phase = phase
                       THEN ChecksOf(k) ELSE {}]

Put(c, k) == call' = [call EXCEPT ![c] = k]
GoTo(c, pc) == Put(c, [call[c] EXCEPT !.pc = pc])
Answer(c, code) == Put(c, [call[c] EXCEPT !.pc = "done", !.code = code])
Passed(c) == GoTo(c, IF call[c].pc = "pre_auth" THEN "validate" ELSE "permit")

CheckKey(c) == Key(call[c].method, NextScope(call[c]), ScopeValue(call[c], NextScope(call[c])))

Checking(c) == call[c].pc \in {"pre_auth", "post_auth"} /\ call[c].checks # {}

\* Mutant: a token is taken from an empty bucket too.
AllowAlways(c) ==
  /\ Checking(c)
  /\ bucket' = [bucket EXCEPT ![CheckKey(c)] = @ - 1]
  /\ Put(c, [call[c] EXCEPT !.checks = @ \ {NextScope(call[c])}])
  /\ UNCHANGED <<load, grants, live, refills, errors, begun, served>>

\* Mutant: the first scope that allows the call decides.
AllowFirst(c) ==
  /\ Checking(c)
  /\ bucket[CheckKey(c)] > 0
  /\ bucket' = [bucket EXCEPT ![CheckKey(c)] = @ - 1]
  /\ Put(c, [call[c] EXCEPT !.checks = {}])
  /\ UNCHANGED <<load, grants, live, refills, errors, begun, served>>

\* limiter.Allow takes a token from the bucket.
Allow(c) ==
  /\ Checking(c)
  /\ bucket[CheckKey(c)] > 0
  /\ bucket' = [bucket EXCEPT ![CheckKey(c)] = @ - 1]
  /\ Put(c, [call[c] EXCEPT !.checks = @ \ {NextScope(call[c])}])
  /\ UNCHANGED <<load, grants, live, refills, errors, begun, served>>

\* redis_rate returns a token every Window/Limit to a bucket that is not full.
Refill(k) ==
  /\ bucket[k] < Burst[k[1]]
  /\ refills[k] < Min({Limit[k[1]], load.refills})
  /\ bucket' = [bucket EXCEPT ![k] = @ + 1]
  /\ refills' = [refills EXCEPT ![k] = @ + 1]
  /\ UNCHANGED <<load, grants, live, errors, begun, served, call>>

\* Scopes that were checked before stay charged.
Exhausted(c) ==
  /\ Checking(c)
  /\ bucket[CheckKey(c)] = 0
  /\ Answer(c, "ResourceExhausted")
  /\ UNCHANGED <<load, grants, live, bucket, refills, errors, begun, served>>

\* Redis does not answer. With FailOpen the scopes that are left go unchecked.
LimiterError(c) ==
  /\ Checking(c)
  /\ errors < load.errors
  /\ errors' = errors + 1
  /\ IF load.failOpen THEN Passed(c) ELSE Answer(c, "Unavailable")
  /\ UNCHANGED <<load, grants, live, bucket, refills, begun, served>>

WithinLimits(c) ==
  /\ call[c].pc \in {"pre_auth", "post_auth"} /\ call[c].checks = {}
  /\ Passed(c)
  /\ UNCHANGED <<load, grants, live, bucket, refills, errors, begun, served>>

-----------------------------------------------------------------------------
(* The rest of the chain *)

BeginCall(c, m, ip, n, t, d) ==
  /\ call[c].pc = "idle"
  /\ begun < load.calls
  /\ begun' = begun + 1
  /\ Put(c, Enter([Idle EXCEPT !.method = m, !.ip = ip, !.name = n, !.token = t, !.defect = d,
                    !.wasLive = t \in live,
                    !.held = Allowed(m, t, grants)], "pre_auth"))
  /\ UNCHANGED <<load, grants, live, bucket, refills, errors, served>>

Validate(c) ==
  /\ call[c].pc = "validate"
  /\ IF call[c].defect = "shape" THEN Answer(c, "InvalidArgument") ELSE GoTo(c, "session")
  /\ UNCHANGED <<load, grants, live, bucket, refills, errors, begun, served>>

Denied(c) == Answer(c, "Unauthenticated")

\* Mutant: the session is not looked up.
AuthenticateUnchecked(c) ==
  /\ call[c].pc = "session"
  /\ \/ call[c].method \in PublicMethods /\ Put(c, Enter(call[c], "post_auth"))
     \/ call[c].method \notin PublicMethods /\ call[c].token # None /\ GoTo(c, "role")
     \/ call[c].method \notin PublicMethods /\ call[c].token = None /\ Denied(c)
  /\ UNCHANGED <<load, grants, live, bucket, refills, errors, begun, served>>

\* AuthenticationInterceptor; Authenticate up to FindActiveByID. Here and in the
\* next two steps a query that fails is taken for a bad token. Without Redis the
\* revocation store has no client, and IsRevoked panics.
Authenticate(c) ==
  /\ call[c].pc = "session"
  /\ \/ call[c].method \in PublicMethods /\ Put(c, Enter(call[c], "post_auth"))
     \/ /\ call[c].method \notin PublicMethods
        /\ call[c].token \in live /\ load.redis
        /\ GoTo(c, "role")
     \/ /\ call[c].method \notin PublicMethods
        /\ call[c].token # None /\ ~load.redis
        /\ GoTo(c, "panic")
     \/ /\ call[c].method \notin PublicMethods
        /\ call[c].token \notin live \/ (load.faulty /\ load.redis)
        /\ Denied(c)
  /\ UNCHANGED <<load, grants, live, bucket, refills, errors, begun, served>>

\* GetWithPermissions, first query: the role of the claims.
FindRole(c) ==
  /\ call[c].pc = "role"
  /\ \/ grants[RoleOf[call[c].token]] # None /\ GoTo(c, "permissions")
     \/ (grants[RoleOf[call[c].token]] = None \/ load.faulty) /\ Denied(c)
  /\ UNCHANGED <<load, grants, live, bucket, refills, errors, begun, served>>

\* ... second query: its permissions. The principal is complete.
LoadPermissions(c) ==
  /\ call[c].pc = "permissions"
  /\ \/ Put(c, Enter([call[c] EXCEPT !.actor = UserOf[call[c].token],
                                     !.perms = Granted(RoleOf[call[c].token])], "post_auth"))
     \/ load.faulty /\ Denied(c)
  /\ UNCHANGED <<load, grants, live, bucket, refills, errors, begun, served>>

HasPermission(k, perm) == perm \in k.perms

PermissionInterceptor(c) ==
  LET k == call[c]
      hasRule == k.method \in DOMAIN MethodPermissions
  IN  /\ k.pc = "permit"
      /\ CASE hasRule /\ k.actor = None -> Denied(c)
           [] hasRule /\ k.actor # None /\ ~HasPermission(k, MethodPermissions[k.method]) ->
                Answer(c, "PermissionDenied")
           [] OTHER -> GoTo(c, "handler")
      /\ UNCHANGED <<load, grants, live, bucket, refills, errors, begun, served>>

\* Whose limits a service runs under: the address, the account however it is
\* spelled, the user.
Charged(k) ==
  [ip |-> k.ip, identifier |-> normalize(k.name), email |-> normalize(k.name), user |-> k.actor]

Serving(c) ==
  /\ GoTo(c, "service")
  /\ served' = [x \in DOMAIN served |->
                  IF /\ load.enabled
                     /\ x \in KeysOf(call[c].method)
                     /\ x[3] = Charged(call[c])[x[2]]
                  THEN served[x] + 1 ELSE served[x]]

\* The server: getActorFromCtx, whose error is no status, and the fields it
\* parses by itself. Then the service is called.
Handle(c) ==
  LET h == HandlerOf(call[c].method) IN
  /\ call[c].pc = "handler"
  /\ \/ h.actor /\ call[c].actor = None /\ Answer(c, "Unknown") /\ UNCHANGED served
     \/ /\ h.actor => call[c].actor # None
        /\ call[c].defect \in h.parses /\ Answer(c, "InvalidArgument") /\ UNCHANGED served
     \/ /\ h.actor => call[c].actor # None
        /\ call[c].defect \notin h.parses /\ Serving(c)
  /\ UNCHANGED <<load, grants, live, bucket, refills, errors, begun>>

\* The reuse of a refresh token ends in MarkRevoked, which needs Redis too.
ServiceErrors(m) ==
  HandlerOf(m).errors \cup (IF m = "RefreshToken" /\ ~load.redis THEN {"panic"} ELSE {})

\* What a service may return: it stops at the defect if nothing stops it before.
Outcomes(k) ==
  {ServiceAnswer(k.method, k.defect)}
    \cup (IF load.wrong THEN ServiceErrors(k.method) \ Failures ELSE {})
    \cup (IF load.faulty THEN ServiceErrors(k.method) ELSE {})

Serve(c) ==
  /\ call[c].pc = "service"
  /\ \E e \in Outcomes(call[c]) :
       Put(c, IF e = "panic" THEN [call[c] EXCEPT !.pc = "panic", !.error = e]
              ELSE [call[c] EXCEPT !.pc = "done", !.error = e, !.code = MapError(e)])
  /\ UNCHANGED <<load, grants, live, bucket, refills, errors, begun, served>>

\* Mutant: nobody recovers.
RecoverNever(c) == FALSE /\ UNCHANGED vars

Recover(c) ==
  /\ call[c].pc = "panic"
  /\ Answer(c, "Internal")
  /\ UNCHANGED <<load, grants, live, bucket, refills, errors, begun, served>>

Return(c) ==
  /\ call[c].pc = "done"
  /\ Put(c, Idle)
  /\ UNCHANGED <<load, grants, live, bucket, refills, errors, begun, served>>

-----------------------------------------------------------------------------
(* What other requests do in the meantime *)

\* AssignPermission and RemovePermission, of a permission the workload needs.
ChangeGrants(r, perm) ==
  /\ r \notin SystemRoles /\ grants[r] # None
  /\ grants' = [grants EXCEPT ![r] = IF perm \in @ THEN @ \ {perm} ELSE @ \cup {perm}]
  /\ call' = [c \in Callers |->
       [call[c] EXCEPT !.held = @ \/ Allowed(call[c].method, call[c].token, grants')]]
  /\ UNCHANGED <<load, live, bucket, refills, errors, begun, served>>

DropRole(r) ==
  /\ r \notin SystemRoles /\ grants[r] # None
  /\ grants' = [grants EXCEPT ![r] = None]
  /\ UNCHANGED <<load, live, bucket, refills, errors, begun, served, call>>

\* Logout, LogoutAll, the reuse of a refresh token, or the token expires.
EndToken(t) ==
  /\ t \in live
  /\ live' = live \ {t}
  /\ UNCHANGED <<load, grants, bucket, refills, errors, begun, served, call>>

-----------------------------------------------------------------------------
Step(c) ==
  \/ Allow(c) \/ Exhausted(c) \/ LimiterError(c) \/ WithinLimits(c) \/ Validate(c)
  \/ Authenticate(c) \/ FindRole(c) \/ LoadPermissions(c) \/ PermissionInterceptor(c)
  \/ Handle(c) \/ Serve(c) \/ Recover(c) \/ Return(c)

\* A token, an address and a name are chosen where somebody reads them.
Arrive(c) ==
  \E m \in methods :
    \E ip \in (IF "ip" \in ToSet(PolicyForMethod(m).scopes) THEN IPs ELSE {None}),
       n \in (IF m \in Named THEN Spellings ELSE {None}),
       t \in (IF m \in PublicMethods THEN {} ELSE Tokens) \cup {None},
       d \in (IF load.wrong THEN DefectsOf(m) ELSE {None}) : BeginCall(c, m, ip, n, t, d)

\* Public methods read nothing that changes here.
Others ==
  /\ ~(methods \subseteq PublicMethods)
  /\ \/ \E r \in Roles, m \in methods \cap DOMAIN MethodPermissions :
          ChangeGrants(r, MethodPermissions[m])
     \/ \E r \in Roles : DropRole(r)
     \/ \E t \in Tokens : EndToken(t)

Next ==
  (\E c \in Callers : Arrive(c) \/ Step(c)) \/ (\E k \in DOMAIN bucket : Refill(k)) \/ Others

\* The server's goroutines are scheduled, and Redis and Postgres answer or fail.
Spec == Init /\ [][Next]_vars /\ \A c \in Callers : WF_vars(Step(c))

-----------------------------------------------------------------------------
(* Properties *)

TypeOK ==
  /\ load \in Workloads
  /\ grants \in [Roles -> (SUBSET Permissions) \cup {None}]
  /\ live \subseteq Tokens
  /\ errors \in 0..load.errors /\ begun \in 0..load.calls
  /\ DOMAIN bucket = DOMAIN served /\ DOMAIN refills = DOMAIN served
  /\ \A k \in DOMAIN bucket :
       bucket[k] \in 0..Burst[k[1]] /\ refills[k] \in 0..Limit[k[1]] /\ served[k] \in 0..begun
  /\ call \in [Callers -> Call]

\* A service that is not public runs for the user of a token that was live, and
\* with a permission that the token's role held, at some time since the call
\* began: what was revoked before the call has no effect on it, although
\* tokens carry the role of the login (authenticator.go:36, 46;
\* authorization.go:20).
ServedIsAuthorised ==
  \A c \in Callers :
    LET k == call[c] IN
    k.pc = "service" /\ k.method \notin PublicMethods =>
      /\ k.wasLive
      /\ k.actor = UserOf[k.token]
      /\ k.method \in DOMAIN MethodPermissions => k.held

\* However the calls overlap, whatever their order and however the account is
\* spelled, the services that ran for one address, account or user are at most
\* the policy's Burst and what the limiter has given back since: at most
\* Burst + Limit in a window. With FailOpen each error of the limiter lets at
\* most one more through (ratelimit.go:61, 64; redis_limiter.go:44; key.go:34).
LimitHolds ==
  \A k \in DOMAIN served :
    served[k] <= Burst[k[1]] + refills[k] + (IF load.failOpen THEN errors ELSE 0)

\* Requests that are wrong and yet are answered like a fault of the server: a
\* role_code of no role (admin.go:171, 321), a password that bcrypt does not take
\* (auth.go:118, 481; user.go:97), an unknown address (auth.go:339).
Misreported ==
  {"CreateUser", "UpdateUserRole"} \X {"role"}
    \cup Carriers["password"] \X {"password"}
    \cup {"ResendVerification"} \X {"address"}

\* Calls that panic without Redis: those that need a session, and a Refresh that
\* revokes (session_revocation_store.go:20, 34).
NeedsRedis == (Methods \ PublicMethods) \cup {"RefreshToken"}

\* Clients decide by the code whether to retry. A request that is wrong is never
\* answered with OK, no call ends with an error that is no status, and one that
\* ends with Internal is explained: a query failed and the service said so, the
\* request is one of Misreported, or the revocation store was used without Redis
\* (mapper/error.go:27, 72; context.go:44; admin_server.go:426).
RefusalIsNamed ==
  \A c \in Callers :
    LET k == call[c] IN
    k.pc = "done" =>
      /\ k.code # "Unknown"
      /\ k.code = "OK" => k.defect = None
      /\ k.code = "Internal" =>
           \/ load.faulty /\ k.error \in Failures
           \/ <<k.method, k.defect>> \in Misreported
           \/ ~load.redis /\ k.method \in NeedsRedis

\* Every call is answered, also when a service panics on an unknown address or
\* the revocation store on a configuration without Redis (recovery.go:15,
\* auth.go:339, session_revocation_store.go:40).
CallsAnswered == \A c \in Callers : call[c].pc # "idle" ~> call[c].pc = "idle"
=============================================================================
