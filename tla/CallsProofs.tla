----------------------------- MODULE CallsProofs ----------------------------
(***************************************************************************)
(* Proofs about Calls, for any number of calls, tokens, users and roles,   *)
(* any workload and any configuration of the limiter. CallInv is inductive *)
(* by itself: it says of each call what the interceptors that it has       *)
(* passed have established, against grants and live as they are now.       *)
(* LimitInv counts the calls that have taken a token of a bucket and are   *)
(* not yet served, and with it LimitHolds and TypeOK are inductive.        *)
(***************************************************************************)
EXTENDS Calls, FiniteSetTheorems, TLAPS

Fields == {"pc", "method", "ip", "name", "token", "defect", "checks", "actor", "perms",
           "error", "code", "wasLive", "held"}

HasRule(m) == m \in DOMAIN MethodPermissions

\* What Authenticate and GetWithPermissions have established.
Principal(k) ==
  /\ k.token \in Tokens /\ k.wasLive = TRUE /\ k.actor = UserOf[k.token]
  /\ HasRule(k.method) /\ MethodPermissions[k.method] \in k.perms => k.held = TRUE

\* The history of a call is at least as good as the tables are now.
HistoryInv(k, g, l) ==
  /\ k.wasLive \in BOOLEAN /\ k.held \in BOOLEAN
  /\ k.token \in l => k.wasLive = TRUE
  /\ Allowed(k.method, k.token, g) => k.held = TRUE

ChainInv(k) ==
  /\ k.pc \in {"role", "permissions"} =>
       k.method \notin PublicMethods /\ k.token \in Tokens /\ k.wasLive = TRUE
  /\ k.pc \in {"post_auth", "permit", "handler", "service"} /\ k.method \notin PublicMethods =>
       Principal(k)
  /\ k.pc \in {"handler", "service"} /\ HasRule(k.method) =>
       MethodPermissions[k.method] \in k.perms

\* What is wrong with a request that has come this far.
Validated == {"session", "role", "permissions", "post_auth", "permit", "handler", "service"}
DefectInv(k) ==
  /\ k.pc # "idle" => k.defect \in DefectsOf(k.method)
  /\ k.pc \in Validated => k.defect # "shape"
  /\ k.pc = "service" => k.defect # "date"

\* Why a call may end with Internal.
Explained(k) ==
  \/ load.faulty /\ k.error \in Failures
  \/ <<k.method, k.defect>> \in Misreported
  \/ ~load.redis /\ k.method \in NeedsRedis

AnswerInv(k) ==
  /\ k.pc \notin {"panic", "done"} => k.error = None
  /\ k.pc = "panic" => Explained(k)
  /\ k.pc = "done" => /\ k.code # "Unknown"
                      /\ k.code = "OK" => k.defect = None
                      /\ k.code = "Internal" => Explained(k)

CallOK(k) ==
  /\ DOMAIN k = Fields
  /\ k.pc # "idle" => k.method \in Methods
  /\ k.token \in Tokens \cup {None}
  /\ ChainInv(k)
  /\ DefectInv(k)
  /\ AnswerInv(k)

CallInv ==
  /\ load \in Workloads /\ live \subseteq Tokens
  /\ grants \in [Roles -> (SUBSET Permissions) \cup {None}]
  /\ call = [c \in Callers |-> call[c]]
  /\ \A c \in Callers : CallOK(call[c]) /\ HistoryInv(call[c], grants, live)

-----------------------------------------------------------------------------
(* The tables of the server *)

\* Public methods ask for no permission.
LEMMA PublicHasNoRule == \A m \in PublicMethods : ~HasRule(m)
BY DEF PublicMethods, HasRule, MethodPermissions

\* Only handlers of methods that are not public ask for the actor.
LEMMA ActorHandlers ==
  ASSUME NEW m \in PublicMethods
  PROVE  HandlerOf(m).actor = FALSE
<1>1. m \in DOMAIN AccountServer
  BY DEF PublicMethods, AccountServer
<1>2. HandlerOf(m) = AccountServer[m]
  BY <1>1 DEF HandlerOf, SessionServer, UserServer, SearchServer, ProfileServer, StatusServer,
              RoleServer, AccountServer
<1>3. AccountServer[m].actor = FALSE
  BY DEF PublicMethods, AccountServer, Server
<1> QED
  BY <1>2, <1>3

\* The errors that services return.
Refusals == {"AUTH_INVALID_CREDENTIALS", "AUTH_UNAUTHORIZED", "AUTH_FORBIDDEN",
             "AUTH_ACCOUNT_NOT_VERIFIED", "AUTH_ACCOUNT_DELETED", "ROLE_NOT_FOUND",
             "ROLE_CODE_EXISTS", "ROLE_IN_USE", "ROLE_INVALID_REPLACEMENT",
             "ROLE_CANNOT_MODIFY_SYSTEM", "PERMISSION_NOT_FOUND", "USER_NOT_FOUND",
             "USER_ALREADY_DELETED", "USER_NOT_DELETED", "USER_USERNAME_ALREADY_EXISTS",
             "EMAIL_ALREADY_EXISTS", "PASSWORD_INCORRECT", "PASSWORD_CONFIRMATION_MISMATCH",
             "PASSWORD_NOT_CHANGED", "PASSWORD_ALREADY_SET", "TOKEN_INVALID",
             "TOKEN_INVALID_REFRESH", "VALIDATION_INVALID_INPUT"}
Breakdowns == {"EMAIL_SEND_RESET_PASSWORD_FAILED", "EMAIL_SEND_SET_PASSWORD_FAILED",
               "AUDIT_LOG_FAILED", "INTERNAL_ERROR", "raw"}
Known == Refusals \cup Breakdowns

LEMMA KnownErrors ==
  /\ AppErrors \cup {"raw"} = Known
  /\ Failures = Breakdowns
  /\ None \notin Known /\ "panic" \notin Known
<1>1. AppErrors = ErrorGroup.AUTH \cup ErrorGroup.ROLE \cup ErrorGroup.PERMISSION
                    \cup ErrorGroup.USER \cup ErrorGroup.EMAIL \cup ErrorGroup.PASSWORD
                    \cup ErrorGroup.TOKEN \cup ErrorGroup.VALIDATION \cup ErrorGroup.AUDIT
                    \cup ErrorGroup.INTERNAL
  <2>1. DOMAIN ErrorGroup = {"AUTH", "ROLE", "PERMISSION", "USER", "EMAIL", "PASSWORD", "TOKEN",
                             "VALIDATION", "AUDIT", "INTERNAL"}
    BY DEF ErrorGroup
  <2> QED
    BY <2>1 DEF AppErrors
<1>2. AppErrors \cup {"raw"} = Known
  BY <1>1 DEF ErrorGroup, Known, Refusals, Breakdowns
<1>3. Failures = Breakdowns
  BY DEF Failures, ErrorGroup, Breakdowns
<1>4. "panic" \notin Known
  BY DEF Known, Refusals, Breakdowns
<1> QED
  BY <1>2, <1>3, <1>4, NoneIsNoError

\* Which handler serves a method.
LEMMA Handlers ==
  ASSUME NEW m \in Methods
  PROVE  \/ m \in DOMAIN AccountServer /\ HandlerOf(m) = AccountServer[m]
         \/ m \in DOMAIN SessionServer /\ HandlerOf(m) = SessionServer[m]
         \/ m \in DOMAIN UserServer /\ HandlerOf(m) = UserServer[m]
         \/ m \in DOMAIN SearchServer /\ HandlerOf(m) = SearchServer[m]
         \/ m \in DOMAIN ProfileServer /\ HandlerOf(m) = ProfileServer[m]
         \/ m \in DOMAIN StatusServer /\ HandlerOf(m) = StatusServer[m]
         \/ m \in DOMAIN RoleServer /\ HandlerOf(m) = RoleServer[m]
<1>9. m \in DOMAIN AccountServer \cup DOMAIN SessionServer \cup DOMAIN UserServer
           \cup DOMAIN SearchServer \cup DOMAIN ProfileServer \cup DOMAIN StatusServer
           \cup DOMAIN RoleServer
  BY DEF Methods, PublicMethods, MethodPermissions, AccountServer, SessionServer, UserServer,
         SearchServer, ProfileServer, StatusServer, RoleServer
<1> QED
  BY <1>9 DEF HandlerOf

\* A service's errors, server by server.
LEMMA ErrorsKnown ==
  ASSUME NEW m \in Methods
  PROVE  HandlerOf(m).errors \subseteq Known
<1>2. \A x \in DOMAIN AccountServer : AccountServer[x].errors \subseteq Known
  BY DEF AccountServer, Server, TokenErrors, Known, Refusals, Breakdowns
<1>3. \A x \in DOMAIN SessionServer : SessionServer[x].errors \subseteq Known
  BY DEF SessionServer, Server, Known, Refusals, Breakdowns
<1>4. \A x \in DOMAIN UserServer : UserServer[x].errors \subseteq Known
  BY DEF UserServer, Server, ProfileErrors, Known, Refusals, Breakdowns
<1>5. \A x \in DOMAIN SearchServer : SearchServer[x].errors \subseteq Known
  BY DEF SearchServer, Server, Known, Refusals, Breakdowns
<1>6. \A x \in DOMAIN ProfileServer : ProfileServer[x].errors \subseteq Known
  BY DEF ProfileServer, Server, ProfileErrors, Known, Refusals, Breakdowns
<1>7. \A x \in DOMAIN StatusServer : StatusServer[x].errors \subseteq Known
  BY DEF StatusServer, Server, Known, Refusals, Breakdowns
<1>8. \A x \in DOMAIN RoleServer : RoleServer[x].errors \subseteq Known
  BY DEF RoleServer, Server, GrantErrors, Known, Refusals, Breakdowns
<1> QED
  BY <1>2, <1>3, <1>4, <1>5, <1>6, <1>7, <1>8, Handlers

\* Every server whose requests carry a date parses it.
LEMMA DatesParsed ==
  ASSUME NEW m \in Methods, "date" \in DefectsOf(m)
  PROVE  "date" \in HandlerOf(m).parses
<1>1. m \in {"Register", "UpdateMyProfile", "ListUsers", "CreateUser", "UpdateUser"}
  <2>1. "date" # None
    BY NoneIsNoDefect
  <2> QED
    BY <2>1 DEF DefectsOf, Carriers
<1>2. /\ m = "Register" => HandlerOf(m) = AccountServer[m]
      /\ m = "UpdateMyProfile" => HandlerOf(m) = UserServer[m]
      /\ m = "ListUsers" => HandlerOf(m) = SearchServer[m]
      /\ m \in {"CreateUser", "UpdateUser"} => HandlerOf(m) = ProfileServer[m]
  <2>1. /\ m \in DOMAIN AccountServer => m = "Register"
        /\ m \in DOMAIN UserServer => m = "UpdateMyProfile"
        /\ m \in DOMAIN SearchServer => m = "ListUsers"
        /\ m \in DOMAIN ProfileServer => m \in {"CreateUser", "UpdateUser"}
        /\ m \notin DOMAIN SessionServer /\ m \notin DOMAIN StatusServer /\ m \notin DOMAIN RoleServer
    BY <1>1 DEF AccountServer, UserServer, SearchServer, ProfileServer, SessionServer,
                StatusServer, RoleServer
  <2> QED
    BY <2>1, Handlers
<1>3. "date" \in AccountServer["Register"].parses
  BY DEF AccountServer, Server
<1>4. "date" \in UserServer["UpdateMyProfile"].parses
  BY DEF UserServer, Server
<1>5. "date" \in SearchServer["ListUsers"].parses
  BY DEF SearchServer, Server
<1>6. \A x \in {"CreateUser", "UpdateUser"} : "date" \in ProfileServer[x].parses
  BY DEF ProfileServer, Server
<1> QED
  BY <1>1, <1>2, <1>3, <1>4, <1>5, <1>6

\* The mapper names every refusal, and calls nothing else a success.
LEMMA ErrorsNamed ==
  ASSUME NEW e \in Refusals
  PROVE  MapError(e) \notin {"Internal", "OK", "Unknown"}
<1>1. e # "raw" /\ e # None
  BY KnownErrors DEF Known, Refusals
<1>2. mapAppErrorCode(e) \in {"InvalidArgument", "Unauthenticated", "PermissionDenied",
                              "NotFound", "AlreadyExists", "FailedPrecondition"}
  BY DEF Refusals, mapAppErrorCode, ErrorGroup
<1> QED
  BY <1>1, <1>2 DEF MapError

\* No error of a service is left without a code, and none is a success.
LEMMA CodesKnown ==
  ASSUME NEW e
  PROVE  MapError(e) # "Unknown" /\ (e # None => MapError(e) # "OK")
<1>1. fallbackCodeByGroup(e) \in {"Unauthenticated", "InvalidArgument", "PermissionDenied",
                                  "Internal"}
  BY DEF fallbackCodeByGroup
<1>2. mapAppErrorCode(e) \notin {"OK", "Unknown"}
  BY <1>1 DEF mapAppErrorCode
<1> QED
  BY <1>2 DEF MapError

\* A service that meets a defect names it, or the request is one of Misreported.
LEMMA DefectsAnswered ==
  ASSUME NEW m \in Methods, NEW d \in DefectsOf(m), d \notin {"shape", "date"}
  PROVE  LET e == ServiceAnswer(m, d) IN
         /\ e = None => d = None
         /\ e # None => e \in Known \cup {"panic"}
         /\ e \in Known \cup {"panic"} => e \in Refusals \/ <<m, d>> \in Misreported
<1>1. d \in {None, "role", "password", "address"}
  BY DEF DefectsOf, Defects
<1>2. CASE d = None
  <2>1. ServiceAnswer(m, d) = None
    BY <1>2, NoneIsNoDefect DEF ServiceAnswer
  <2> QED
    BY <1>2, <2>1, KnownErrors, NoneIsNoError
<1>3. CASE d = "role"
  <2>1. m \in {"ListUsers", "CreateUser", "UpdateUserRole"}
    BY <1>3, NoneIsNoDefect DEF DefectsOf, Carriers
  <2>2. m = "ListUsers" => ServiceAnswer(m, d) = "VALIDATION_INVALID_INPUT"
    BY <1>3, NoneIsNoDefect DEF ServiceAnswer
  <2>3. m # "ListUsers" => ServiceAnswer(m, d) = "INTERNAL_ERROR" /\ <<m, d>> \in Misreported
    BY <1>3, <2>1, NoneIsNoDefect DEF ServiceAnswer, Misreported
  <2> QED
    BY <2>2, <2>3, KnownErrors DEF Known, Refusals, Breakdowns
<1>4. CASE d = "password"
  <2>1. <<m, d>> \in Misreported
    BY <1>4, NoneIsNoDefect DEF DefectsOf, Carriers, Misreported
  <2>2. ServiceAnswer(m, d) \in {"raw", "INTERNAL_ERROR"}
    BY <1>4, NoneIsNoDefect DEF ServiceAnswer
  <2> QED
    BY <2>1, <2>2, KnownErrors DEF Known, Breakdowns
<1>5. CASE d = "address"
  <2>1. <<m, d>> \in Misreported
    BY <1>5, NoneIsNoDefect DEF DefectsOf, Carriers, Misreported
  <2>2. ServiceAnswer(m, d) = "panic"
    BY <1>5, NoneIsNoDefect DEF ServiceAnswer
  <2> QED
    BY <2>1, <2>2, NoneIsNoError
<1> QED
  BY <1>1, <1>2, <1>3, <1>4, <1>5

\* Whatever a service returns, it is a success of a request without defect, a
\* refusal, or it is explained.
LEMMA OutcomesExplained ==
  ASSUME load \in Workloads, NEW k, k.method \in Methods, k.defect \in DefectsOf(k.method),
         k.defect \notin {"shape", "date"}, NEW e \in Outcomes(k)
  PROVE  /\ e \in Known \cup {"panic", None}
         /\ e = None => k.defect = None
         /\ \/ e = None
            \/ e \in Refusals
            \/ load.faulty /\ e \in Failures
            \/ <<k.method, k.defect>> \in Misreported
            \/ ~load.redis /\ k.method \in NeedsRedis
<1>1. \/ e = ServiceAnswer(k.method, k.defect)
      \/ e \in ServiceErrors(k.method) /\ (e \notin Failures \/ load.faulty)
  BY DEF Outcomes
<1>2. CASE e = ServiceAnswer(k.method, k.defect)
  BY <1>2, DefectsAnswered
<1>3. CASE e \in ServiceErrors(k.method) /\ (e \notin Failures \/ load.faulty)
  <2>1. e \in Known \/ (e = "panic" /\ ~load.redis /\ k.method \in NeedsRedis)
    BY <1>3, ErrorsKnown DEF ServiceErrors, NeedsRedis
  <2>2. e # None
    BY <2>1, KnownErrors, NoneIsNoError
  <2> QED
    BY <1>3, <2>1, <2>2, KnownErrors DEF Known
<1> QED
  BY <1>1, <1>2, <1>3

-----------------------------------------------------------------------------
(* Steps of a call *)

LEMMA IdleOK == CallOK(Idle) /\ Idle.wasLive = FALSE /\ Idle.held = FALSE /\ Idle.method = None
                /\ Idle.token = None
BY DEF CallOK, Idle, Fields, ChainInv, DefectInv, Validated, AnswerInv, Principal

LEMMA CallInit == Init => CallInv
<1> SUFFICES ASSUME Init PROVE CallInv
  OBVIOUS
<1>1. load \in Workloads /\ live = Tokens /\ call = [c \in Callers |-> Idle]
      /\ grants \in [Roles -> (SUBSET Permissions) \cup {None}]
  BY DEF Init
<1>2. HistoryInv(Idle, grants, live)
  BY <1>1, IdleOK, NoneAssumption DEF HistoryInv, Allowed
<1> QED
  BY <1>1, <1>2, IdleOK DEF CallInv

\* Call c becomes k.
LEMMA Becomes ==
  ASSUME CallInv, NEW c \in Callers, NEW k, Put(c, k), UNCHANGED <<load, grants, live>>,
         CallOK(k), HistoryInv(k, grants, live)
  PROVE  CallInv'
<1>1. /\ call' = [d \in Callers |-> call'[d]] /\ call'[c] = k
      /\ \A d \in Callers : d # c => call'[d] = call[d]
  BY DEF CallInv, Put
<1>2. \A d \in Callers : CallOK(call'[d]) /\ HistoryInv(call'[d], grants, live)
  BY <1>1 DEF CallInv
<1>3. \A d \in Callers : CallOK(call'[d]) /\ HistoryInv(call'[d], grants', live')
  BY <1>2
<1> QED
  BY <1>1, <1>3 DEF CallInv, CallOK, HistoryInv, ChainInv, DefectInv, AnswerInv, Explained,
                    Principal, Allowed

\* What the interceptors keep of a call.
Same(k, y) ==
  /\ DOMAIN y = Fields
  /\ y.method = k.method /\ y.token = k.token /\ y.actor = k.actor /\ y.perms = k.perms
  /\ y.defect = k.defect /\ y.wasLive = k.wasLive /\ y.held = k.held

LEMMA SameKeeps ==
  ASSUME CallInv, NEW c \in Callers, NEW k, Put(c, k), UNCHANGED <<load, grants, live>>,
         Same(call[c], k), CallOK(k)
  PROVE  CallInv'
<1>1. HistoryInv(call[c], grants, live)
  BY DEF CallInv
<1>2. HistoryInv(k, grants, live)
  BY <1>1 DEF HistoryInv, Same
<1> QED
  BY <1>2, Becomes

LEMMA AtPC ==
  ASSUME NEW k, DOMAIN k = Fields, NEW pc
  PROVE  LET y == [k EXCEPT !.pc = pc] IN Same(k, y) /\ y.pc = pc /\ y.error = k.error
BY DEF Same, Fields

LEMMA Answered ==
  ASSUME CallInv, NEW c \in Callers, NEW code, code \notin {"Unknown", "OK"}, Answer(c, code),
         call[c].pc # "idle", code = "Internal" => Explained(call[c]),
         UNCHANGED <<load, grants, live>>
  PROVE  CallInv'
<1> DEFINE k == call[c]
           y == [k EXCEPT !.pc = "done", !.code = code]
<1>0. CallOK(k)
  BY DEF CallInv
<1>1. Same(k, y) /\ y.pc = "done" /\ y.code = code /\ y.error = k.error
  BY <1>0 DEF CallOK, Same, Fields
<1>2. Put(c, y)
  BY DEF Answer
<1> HIDE DEF y
<1>3. CallOK(y)
  <2>1. code = "Internal" => Explained(y)
    BY <1>1 DEF Same, Explained
  <2> QED
    BY <1>0, <1>1, <2>1 DEF CallOK, Same, ChainInv, DefectInv, Validated, AnswerInv
<1> QED
  BY <1>1, <1>2, <1>3, SameKeeps

\* The call goes on to pc.
LEMMA Goes ==
  ASSUME CallInv, NEW c \in Callers, NEW pc, GoTo(c, pc), UNCHANGED <<load, grants, live>>,
         call[c].pc \notin {"idle", "panic", "done"}, pc \notin {"idle", "done"},
         LET k == call[c] IN
         /\ pc \in {"role", "permissions"} =>
              k.method \notin PublicMethods /\ k.token \in Tokens /\ k.wasLive = TRUE
         /\ pc \in {"post_auth", "permit", "handler", "service"} /\ k.method \notin PublicMethods =>
              Principal(k)
         /\ pc \in {"handler", "service"} /\ HasRule(k.method) =>
              MethodPermissions[k.method] \in k.perms
         /\ pc \in Validated => k.defect # "shape"
         /\ pc = "service" => k.defect # "date"
         /\ pc = "panic" => Explained(k)
  PROVE  CallInv'
<1> DEFINE k == call[c]
           y == [k EXCEPT !.pc = pc]
<1>0. CallOK(k)
  BY DEF CallInv
<1>1. Same(k, y) /\ y.pc = pc /\ y.error = k.error
  BY <1>0, AtPC DEF CallOK
<1>2. Put(c, y)
  BY DEF GoTo
<1> HIDE DEF y
<1>3. /\ k.error = None /\ k.method \in Methods /\ k.token \in Tokens \cup {None}
      /\ k.defect \in DefectsOf(k.method)
  BY <1>0 DEF CallOK, AnswerInv, DefectInv
<1>4. CallOK(y)
  <2>1. ChainInv(y)
    BY <1>1, <1>3 DEF Same, ChainInv, Principal
  <2>2. DefectInv(y)
    BY <1>1, <1>3 DEF Same, DefectInv
  <2>3. AnswerInv(y)
    BY <1>1, <1>3 DEF Same, AnswerInv, Explained
  <2> QED
    BY <1>1, <1>3, <2>1, <2>2, <2>3 DEF CallOK, Same
<1> QED
  BY <1>1, <1>2, <1>4, SameKeeps

\* The record that Enter makes.
LEMMA EnterFields ==
  ASSUME NEW k, DOMAIN k = Fields, NEW phase
  PROVE  LET y == Enter(k, phase) IN Same(k, y) /\ y.pc = phase /\ y.error = k.error
<1> DEFINE s == IF load.enabled /\ PolicyForMethod(k.method).phase = phase
                THEN ChecksOf(k) ELSE {}
<1>1. Enter(k, phase) = [k EXCEPT !.pc = phase, !.checks = s]
  BY DEF Enter
<1> HIDE DEF s
<1> QED
  BY <1>1 DEF Same, Fields

\* A call enters the chain; the history of the call begins.
LEMMA Begins ==
  ASSUME CallInv, NEW c \in Callers, Arrive(c)
  PROVE  CallInv'
<1>1. \E m \in methods, t \in Tokens \cup {None} :
        \E ip, n, d : d \in DefectsOf(m) /\ BeginCall(c, m, ip, n, t, d)
  <2>1. PICK m \in methods : Arrive(c)!(m)
    BY DEF Arrive
  <2>2. None \in DefectsOf(m)
    BY DEF DefectsOf, Defects
  <2> QED
    BY <2>1, <2>2
<1>m. PICK m \in methods, t \in Tokens \cup {None} :
        \E ip, n, d : d \in DefectsOf(m) /\ BeginCall(c, m, ip, n, t, d)
  BY <1>1
<1>n. PICK ip, n, d : d \in DefectsOf(m) /\ BeginCall(c, m, ip, n, t, d)
  BY <1>m
<1>2. m \in Methods
  BY WorkloadAssumption DEF CallInv, methods
<1> DEFINE was == t \in live
           had == Allowed(m, t, grants)
           r == [Idle EXCEPT !.method = m, !.ip = ip, !.name = n, !.token = t, !.defect = d,
                             !.wasLive = was, !.held = had]
           y == Enter(r, "pre_auth")
<1>3. Put(c, y) /\ UNCHANGED <<load, grants, live>>
  BY <1>n DEF BeginCall
<1>4. was \in BOOLEAN /\ had \in BOOLEAN
  BY DEF Allowed
<1> HIDE DEF was, had
<1>5. /\ DOMAIN r = Fields /\ r.method = m /\ r.token = t /\ r.error = None
      /\ r.defect = d /\ r.wasLive = was /\ r.held = had
  BY DEF Idle, Fields
<1> HIDE DEF r
<1>6. Same(r, y) /\ y.pc = "pre_auth" /\ y.error = None
  BY <1>5, EnterFields
<1> HIDE DEF y
<1>7. CallOK(y)
  BY <1>2, <1>5, <1>6, <1>n DEF CallOK, Same, ChainInv, DefectInv, Validated, AnswerInv
<1>8. HistoryInv(y, grants, live)
  BY <1>4, <1>5, <1>6 DEF HistoryInv, Same, was, had
<1> QED
  BY <1>3, <1>7, <1>8, Becomes

\* The limiter.
LEMMA Limited ==
  ASSUME CallInv, NEW c \in Callers,
         Allow(c) \/ Exhausted(c) \/ LimiterError(c) \/ WithinLimits(c)
  PROVE  CallInv'
<1> DEFINE k == call[c]
<1>0. CallOK(k) /\ k.pc \in {"pre_auth", "post_auth"} /\ UNCHANGED <<load, grants, live>>
  BY DEF CallInv, Allow, Exhausted, LimiterError, WithinLimits, Checking
<1>1. k.error = None
  BY <1>0 DEF CallOK, AnswerInv
<1>2. CASE Allow(c)
  <2> DEFINE s == k.checks \ {NextScope(k)}
             y == [k EXCEPT !.checks = s]
  <2>1. Put(c, y)
    BY <1>2 DEF Allow
  <2> HIDE DEF s
  <2>2. Same(k, y) /\ y.pc = k.pc /\ y.error = k.error
    BY <1>0 DEF CallOK, Same, Fields
  <2> HIDE DEF y
  <2>3. CallOK(y)
    BY <1>0, <1>1, <2>2 DEF CallOK, Same, ChainInv, DefectInv, AnswerInv, Principal
  <2> QED
    BY <1>0, <2>1, <2>2, <2>3, SameKeeps
<1>3. CASE Passed(c)
  <2>1. CASE k.pc = "pre_auth"
    BY <1>0, <1>3, <2>1, Goes DEF Passed, Validated
  <2>2. CASE k.pc = "post_auth"
    <3>1. (k.method \notin PublicMethods => Principal(k)) /\ k.defect # "shape"
      BY <1>0, <2>2 DEF CallOK, ChainInv, DefectInv, Validated
    <3>2. GoTo(c, "permit")
      BY <1>3, <2>2 DEF Passed
    <3> QED
      BY <1>0, <2>2, <3>1, <3>2, Goes
  <2> QED
    BY <1>0, <2>1, <2>2
<1>4. CASE Answer(c, "ResourceExhausted") \/ Answer(c, "Unavailable")
  BY <1>0, <1>1, <1>4, Answered
<1> QED
  BY <1>2, <1>3, <1>4 DEF Exhausted, LimiterError, WithinLimits

\* Validation and authentication.
LEMMA Authenticated ==
  ASSUME CallInv, NEW c \in Callers,
         Validate(c) \/ Authenticate(c) \/ FindRole(c) \/ LoadPermissions(c)
  PROVE  CallInv'
<1> DEFINE k == call[c]
<1>0. /\ CallOK(k) /\ k.pc \in {"validate", "session", "role", "permissions"}
      /\ UNCHANGED <<load, grants, live>> /\ live \subseteq Tokens
      /\ HistoryInv(k, grants, live)
  BY DEF CallInv, Validate, Authenticate, FindRole, LoadPermissions
<1>1. /\ k.error = None /\ k.method \in Methods /\ k.token \in Tokens \cup {None}
      /\ k.defect \in DefectsOf(k.method) /\ (k.pc # "validate" => k.defect # "shape")
  BY <1>0 DEF CallOK, AnswerInv, DefectInv, Validated
<1>2. CASE Answer(c, "InvalidArgument") \/ Denied(c)
  BY <1>0, <1>1, <1>2, Answered DEF Denied
<1>3. CASE \/ k.defect # "shape" /\ GoTo(c, "session")
           \/ k.method \notin PublicMethods /\ ~load.redis /\ GoTo(c, "panic")
  <2>1. k.method \notin PublicMethods /\ ~load.redis => Explained(k)
    BY <1>1 DEF Explained, NeedsRedis
  <2> QED
    BY <1>0, <1>1, <1>3, <2>1, Goes DEF Validated
<1>4. CASE k.pc = "session" /\ k.method \notin PublicMethods /\ k.token \in live /\ GoTo(c, "role")
  <2>1. k.token \in Tokens /\ k.wasLive = TRUE
    BY <1>0, <1>4 DEF HistoryInv
  <2> QED
    BY <1>0, <1>1, <1>4, <2>1, Goes
<1>5. CASE k.pc = "role" /\ GoTo(c, "permissions")
  <2>1. k.method \notin PublicMethods /\ k.token \in Tokens /\ k.wasLive = TRUE
    BY <1>0, <1>5 DEF CallOK, ChainInv
  <2> QED
    BY <1>0, <1>1, <1>5, <2>1, Goes
<1>6. CASE k.pc = "session" /\ k.method \in PublicMethods /\ Put(c, Enter(k, "post_auth"))
  <2> DEFINE y == Enter(k, "post_auth")
  <2>1. Same(k, y) /\ y.pc = "post_auth" /\ y.error = k.error
    BY <1>0, EnterFields DEF CallOK
  <2>2. Put(c, y)
    BY <1>6
  <2> HIDE DEF y
  <2>3. CallOK(y)
    BY <1>1, <1>6, <2>1 DEF CallOK, Same, ChainInv, DefectInv, AnswerInv
  <2> QED
    BY <1>0, <2>1, <2>2, <2>3, SameKeeps
<1>7. CASE /\ k.pc = "permissions"
           /\ Put(c, Enter([k EXCEPT !.actor = UserOf[k.token],
                                     !.perms = Granted(RoleOf[k.token])], "post_auth"))
  <2> DEFINE a == UserOf[k.token]
             ps == Granted(RoleOf[k.token])
             r == [k EXCEPT !.actor = a, !.perms = ps]
             y == Enter(r, "post_auth")
  <2>1. Put(c, y)
    BY <1>7
  <2>2. k.method \notin PublicMethods /\ k.token \in Tokens /\ k.wasLive = TRUE
    BY <1>0, <1>7 DEF CallOK, ChainInv
  <2>3. HasRule(k.method) /\ MethodPermissions[k.method] \in ps => k.held = TRUE
    <3>1. k.token # None
      BY <2>2, NoneAssumption
    <3> QED
      BY <1>0, <3>1 DEF HistoryInv, Allowed, HasRule, Granted
  <2> HIDE DEF a, ps
  <2>4. /\ DOMAIN r = Fields /\ r.method = k.method /\ r.token = k.token /\ r.error = k.error
        /\ r.defect = k.defect /\ r.wasLive = k.wasLive /\ r.held = k.held
        /\ r.actor = a /\ r.perms = ps
    BY <1>0 DEF CallOK, Fields
  <2> HIDE DEF r
  <2>5. Same(r, y) /\ y.pc = "post_auth" /\ y.error = r.error
    BY <2>4, EnterFields
  <2> HIDE DEF y
  <2>6. Principal(y)
    BY <2>2, <2>3, <2>4, <2>5 DEF Principal, Same, a
  <2>7. CallOK(y)
    BY <1>1, <1>7, <2>4, <2>5, <2>6 DEF CallOK, Same, ChainInv, DefectInv, AnswerInv
  <2>8. HistoryInv(y, grants, live)
    BY <1>0, <2>4, <2>5 DEF HistoryInv, Same
  <2> QED
    BY <1>0, <2>1, <2>7, <2>8, Becomes
<1> QED
  BY <1>2, <1>3, <1>4, <1>5, <1>6, <1>7 DEF Validate, Authenticate, FindRole, LoadPermissions

\* Permission, handler and service.
LEMMA Served ==
  ASSUME CallInv, NEW c \in Callers,
         PermissionInterceptor(c) \/ Handle(c) \/ Serve(c) \/ Recover(c) \/ Return(c)
  PROVE  CallInv'
<1> DEFINE k == call[c]
<1>0. CallOK(k) /\ UNCHANGED <<load, grants, live>> /\ HistoryInv(k, grants, live)
  BY DEF CallInv, PermissionInterceptor, Handle, Serve, Recover, Return
<1>1. CASE PermissionInterceptor(c)
  <2>1. k.pc = "permit"
    BY <1>1 DEF PermissionInterceptor
  <2>2. /\ k.error = None /\ (k.method \notin PublicMethods => Principal(k))
        /\ k.defect # "shape"
    BY <1>0, <2>1 DEF CallOK, AnswerInv, ChainInv, DefectInv, Validated
  <2>3. \/ Denied(c)
        \/ Answer(c, "PermissionDenied")
        \/ GoTo(c, "handler") /\ (HasRule(k.method) => MethodPermissions[k.method] \in k.perms)
    BY <1>1 DEF PermissionInterceptor, HasPermission, HasRule
  <2>4. CASE Denied(c) \/ Answer(c, "PermissionDenied")
    BY <1>0, <2>1, <2>2, <2>4, Answered DEF Denied
  <2>5. CASE GoTo(c, "handler") /\ (HasRule(k.method) => MethodPermissions[k.method] \in k.perms)
    BY <1>0, <2>1, <2>2, <2>5, Goes
  <2> QED
    BY <2>3, <2>4, <2>5
<1>2. CASE Handle(c)
  <2>1. k.pc = "handler"
    BY <1>2 DEF Handle
  <2>2. /\ k.error = None /\ k.method \in Methods
        /\ k.method \notin PublicMethods => Principal(k)
        /\ HasRule(k.method) => MethodPermissions[k.method] \in k.perms
        /\ k.defect # "shape" /\ k.defect \in DefectsOf(k.method)
    BY <1>0, <2>1 DEF CallOK, AnswerInv, ChainInv, DefectInv, Validated
  <2>3. HandlerOf(k.method).actor => k.actor # None
    <3>1. CASE k.method \in PublicMethods
      BY <3>1, ActorHandlers
    <3>2. CASE k.method \notin PublicMethods
      BY <2>2, <3>2, ClaimsAssumption, NoneAssumption DEF Principal
    <3> QED
      BY <3>1, <3>2
  <2>4. \/ Answer(c, "InvalidArgument")
        \/ GoTo(c, "service") /\ k.defect \notin HandlerOf(k.method).parses
    BY <1>2, <2>3 DEF Handle, Serving
  <2>5. CASE Answer(c, "InvalidArgument")
    BY <1>0, <2>1, <2>2, <2>5, Answered
  <2>6. CASE GoTo(c, "service") /\ k.defect \notin HandlerOf(k.method).parses
    <3>1. k.defect # "date"
      BY <2>2, <2>6, DatesParsed
    <3> QED
      BY <1>0, <2>1, <2>2, <2>6, <3>1, Goes
  <2> QED
    BY <2>4, <2>5, <2>6
<1>3. CASE Serve(c)
  <2>1. /\ k.pc = "service" /\ k.method \in Methods /\ k.token \in Tokens \cup {None}
        /\ k.defect \in DefectsOf(k.method) /\ k.defect \notin {"shape", "date"}
        /\ load \in Workloads
    BY <1>0, <1>3 DEF Serve, CallOK, DefectInv, Validated, CallInv
  <2>2. PICK e \in Outcomes(k) :
          Put(c, IF e = "panic" THEN [k EXCEPT !.pc = "panic", !.error = e]
                 ELSE [k EXCEPT !.pc = "done", !.error = e, !.code = MapError(e)])
    BY <1>3 DEF Serve
  <2>3. /\ e \in Known \cup {"panic", None}
        /\ e = None => k.defect = None
        /\ \/ e = None
           \/ e \in Refusals
           \/ load.faulty /\ e \in Failures
           \/ <<k.method, k.defect>> \in Misreported
           \/ ~load.redis /\ k.method \in NeedsRedis
    BY <2>1, OutcomesExplained
  <2>4. CASE e = "panic"
    <3> DEFINE y == [k EXCEPT !.pc = "panic", !.error = e]
    <3>1. Put(c, y)
      BY <2>2, <2>4
    <3>2. Same(k, y) /\ y.pc = "panic" /\ y.error = e
      BY <1>0 DEF CallOK, Same, Fields
    <3> HIDE DEF y
    <3>3. Explained(y)
      <4>1. e # None /\ e \notin Refusals
        BY <2>4, KnownErrors, NoneIsNoError DEF Known
      <4> QED
        BY <2>3, <3>2, <4>1 DEF Explained, Same
    <3>4. CallOK(y)
      BY <2>1, <3>2, <3>3 DEF CallOK, Same, ChainInv, DefectInv, Validated, AnswerInv
    <3> QED
      BY <1>0, <3>1, <3>2, <3>4, SameKeeps
  <2>5. CASE e # "panic"
    <3> DEFINE x == MapError(e)
               y == [k EXCEPT !.pc = "done", !.error = e, !.code = x]
    <3>1. Put(c, y)
      BY <2>2, <2>5
    <3>2. /\ x # "Unknown" /\ (e # None => x # "OK") /\ (e = None => x = "OK")
          /\ e \in Refusals => x # "Internal"
      BY CodesKnown, ErrorsNamed DEF MapError
    <3> HIDE DEF x
    <3>3. Same(k, y) /\ y.pc = "done" /\ y.error = e /\ y.code = x
      BY <1>0 DEF CallOK, Same, Fields
    <3> HIDE DEF y
    <3>4. x = "Internal" => Explained(y)
      BY <2>3, <3>2, <3>3 DEF Explained, Same
    <3>5. AnswerInv(y)
      BY <2>3, <3>2, <3>3, <3>4 DEF AnswerInv, Same
    <3>6. CallOK(y)
      BY <2>1, <3>3, <3>5 DEF CallOK, Same, ChainInv, DefectInv, Validated
    <3> QED
      BY <1>0, <3>1, <3>3, <3>6, SameKeeps
  <2> QED
    BY <2>4, <2>5
<1>4. CASE Recover(c)
  <2>1. k.pc = "panic" /\ Answer(c, "Internal")
    BY <1>4 DEF Recover
  <2>2. Explained(k)
    BY <1>0, <2>1 DEF CallOK, AnswerInv
  <2> QED
    BY <1>0, <2>1, <2>2, Answered
<1>5. CASE Return(c)
  <2>1. HistoryInv(Idle, grants, live)
    BY IdleOK, NoneAssumption DEF HistoryInv, Allowed, CallInv
  <2> QED
    BY <1>0, <1>5, <2>1, IdleOK, Becomes DEF Return
<1> QED
  BY <1>1, <1>2, <1>3, <1>4, <1>5

-----------------------------------------------------------------------------
(* What other requests do *)

\* Removing rows leaves less to be allowed.
LEMMA Shrinks ==
  ASSUME CallInv, call' = call, load' = load, live' \subseteq live,
         grants' \in [Roles -> (SUBSET Permissions) \cup {None}],
         \A r \in Roles : grants'[r] = grants[r] \/ grants'[r] = None
  PROVE  CallInv'
<1>1. ASSUME NEW c \in Callers PROVE HistoryInv(call[c], grants', live')
  <2>1. HistoryInv(call[c], grants, live)
    BY DEF CallInv
  <2>2. Allowed(call[c].method, call[c].token, grants') => Allowed(call[c].method, call[c].token, grants)
    <3>1. CASE call[c].token \in Tokens
      BY <3>1, ClaimsAssumption DEF Allowed
    <3>2. CASE call[c].token = None
      BY <3>2 DEF Allowed
    <3> QED
      BY <3>1, <3>2 DEF CallInv, CallOK
  <2> QED
    BY <2>1, <2>2 DEF HistoryInv
<1>2. \A c \in Callers : CallOK(call'[c]) /\ HistoryInv(call'[c], grants', live')
  BY <1>1 DEF CallInv
<1> QED
  BY <1>2 DEF CallInv, CallOK, HistoryInv, ChainInv, DefectInv, AnswerInv, Explained, Principal,
              Allowed

\* A permission is granted or removed: calls that are under way are told.
LEMMA GrantsChange ==
  ASSUME CallInv, NEW r \in Roles, NEW perm \in Permissions, ChangeGrants(r, perm)
  PROVE  CallInv'
<1>0. load' = load /\ live' = live /\ load \in Workloads /\ live \subseteq Tokens
  BY DEF ChangeGrants, CallInv
<1>1. ASSUME NEW c \in Callers
      PROVE  CallOK(call'[c]) /\ HistoryInv(call'[c], grants', live)
  <2> DEFINE k == call[c]
             a == Allowed(k.method, k.token, grants')
             h == k.held \/ a
             y == [k EXCEPT !.held = h]
  <2>1. CallOK(k) /\ HistoryInv(k, grants, live)
    BY DEF CallInv
  <2>2. call'[c] = y
    BY DEF ChangeGrants
  <2>3. a \in BOOLEAN
    BY DEF Allowed
  <2> HIDE DEF a
  <2>4. h \in BOOLEAN /\ (k.held = TRUE => h = TRUE) /\ (a => h = TRUE)
    BY <2>1, <2>3 DEF HistoryInv
  <2> HIDE DEF h
  <2>5. /\ DOMAIN y = Fields /\ y.pc = k.pc /\ y.method = k.method /\ y.token = k.token
        /\ y.actor = k.actor /\ y.perms = k.perms /\ y.error = k.error /\ y.code = k.code
        /\ y.defect = k.defect /\ y.wasLive = k.wasLive /\ y.held = h
    BY <2>1 DEF CallOK, Fields
  <2> HIDE DEF y
  <2>6. ChainInv(y)
    BY <2>1, <2>4, <2>5 DEF CallOK, ChainInv, Principal
  <2>7. DefectInv(y) /\ AnswerInv(y)
    BY <2>1, <2>5 DEF CallOK, DefectInv, AnswerInv, Explained
  <2>8. HistoryInv(y, grants', live)
    BY <2>1, <2>4, <2>5 DEF HistoryInv, a
  <2> QED
    BY <2>1, <2>2, <2>5, <2>6, <2>7, <2>8 DEF CallOK
<1>2. call' = [c \in Callers |-> call'[c]]
  BY DEF ChangeGrants
<1>g. grants' \in [Roles -> (SUBSET Permissions) \cup {None}]
  <2> DEFINE g == IF perm \in grants[r] THEN grants[r] \ {perm} ELSE grants[r] \cup {perm}
  <2>1. grants[r] \in SUBSET Permissions /\ grants \in [Roles -> (SUBSET Permissions) \cup {None}]
    BY DEF ChangeGrants, CallInv
  <2>2. g \in SUBSET Permissions
    BY <2>1
  <2>3. grants' = [grants EXCEPT ![r] = g]
    BY DEF ChangeGrants
  <2> QED
    BY <2>1, <2>2, <2>3
<1>3. \A c \in Callers : CallOK(call'[c]) /\ HistoryInv(call'[c], grants', live')
  BY <1>0, <1>1
<1> QED
  BY <1>0, <1>2, <1>3, <1>g DEF CallInv, CallOK, HistoryInv, ChainInv, DefectInv, AnswerInv,
                                Explained, Principal, Allowed

LEMMA CallStep == CallInv /\ [Next]_vars => CallInv'
<1> SUFFICES ASSUME CallInv, [Next]_vars PROVE CallInv'
  OBVIOUS
<1>1. ASSUME NEW c \in Callers, Step(c) PROVE CallInv'
  BY <1>1, Limited, Authenticated, Served DEF Step
<1>2. ASSUME NEW r \in Roles, DropRole(r) PROVE CallInv'
  <2>1. /\ grants' \in [Roles -> (SUBSET Permissions) \cup {None}]
        /\ \A x \in Roles : grants'[x] = grants[x] \/ grants'[x] = None
    BY <1>2 DEF DropRole, CallInv
  <2> QED
    BY <1>2, <2>1, Shrinks DEF DropRole
<1>3. ASSUME NEW t \in Tokens, EndToken(t) PROVE CallInv'
  BY <1>3, Shrinks DEF EndToken, CallInv
<1>4. ASSUME UNCHANGED vars \/ (\E k \in DOMAIN bucket : Refill(k)) PROVE CallInv'
  BY <1>4, Shrinks DEF vars, CallInv, Refill
<1> QED
  BY <1>1, <1>2, <1>3, <1>4, Begins, GrantsChange DEF Next, Others, Permissions

\* A service that is not public runs for the user of a token that was live
\* since the call began, with a permission that its role held since then,
\* whatever is revoked, removed or deleted between the queries of
\* authentication and the check of the permission.
THEOREM ServedAreAuthorised == Spec => []ServedIsAuthorised
<1>1. CallInv => ServedIsAuthorised
  <2> SUFFICES ASSUME CallInv, NEW c \in Callers, call[c].pc = "service",
                      call[c].method \notin PublicMethods
               PROVE  /\ call[c].wasLive
                      /\ call[c].actor = UserOf[call[c].token]
                      /\ call[c].method \in DOMAIN MethodPermissions => call[c].held
    BY DEF ServedIsAuthorised
  <2>1. Principal(call[c])
    BY DEF CallInv, CallOK, ChainInv
  <2>2. HasRule(call[c].method) => MethodPermissions[call[c].method] \in call[c].perms
    BY DEF CallInv, CallOK, ChainInv
  <2> QED
    BY <2>1, <2>2 DEF Principal, HasRule
<1> QED
  BY <1>1, CallInit, CallStep, PTL DEF Spec

\* A request that is wrong is never answered with OK, every answer is a status,
\* and one that ends with Internal is explained by a query that failed, by the
\* list Misreported or by a missing Redis: the mapper knows every refusal that
\* the services return, every date is parsed by the server that gets it, and
\* authentication precedes every handler that asks for the actor.
THEOREM RefusalsAreNamed == Spec => []RefusalIsNamed
<1>1. CallInv => RefusalIsNamed
  BY DEF CallInv, CallOK, AnswerInv, Explained, RefusalIsNamed
<1> QED
  BY <1>1, CallInit, CallStep, PTL DEF Spec

-----------------------------------------------------------------------------
(* The limits: what a call may still be charged for *)

\* The service of the call has not begun.
Under == {"pre_auth", "validate", "session", "role", "permissions", "post_auth", "permit",
          "handler"}

Keys == UNION {KeysOf(m) : m \in load.methods}

\* A call runs a method of the workload; nobody is authenticated before
\* LoadPermissions; what is left to check is a scope with a value.
RateOK(k) ==
  /\ k \in Call
  /\ k.pc # "idle" => k.method \in load.methods
  /\ k.pc \in {"pre_auth", "validate", "session", "role", "permissions"} => k.actor = None
  /\ k.pc \in {"pre_auth", "post_auth"} => k.checks \subseteq ChecksOf(k)

\* The call has passed the check under key x, so that its service may run
\* under it: the token is taken, or an error let the call through.
Owes(k, x) ==
  /\ load.enabled /\ k.pc \in Under
  /\ x \in KeysOf(k.method) /\ x[3] = Charged(k)[x[2]]
  /\ k.pc \in {"pre_auth", "post_auth"} => x[2] \notin k.checks

Pending(x) == {c \in Callers : Owes(call[c], x)}
Waiting == {c \in Callers : call[c].pc \in Under}
Lenience == IF load.failOpen THEN errors ELSE 0

TablesInv ==
  /\ load \in Workloads
  /\ DOMAIN bucket = Keys /\ DOMAIN refills = Keys /\ DOMAIN served = Keys
  /\ errors \in 0..load.errors /\ begun \in 0..load.calls
  /\ \A x \in Keys :
       /\ bucket[x] \in 0..Burst[x[1]] /\ refills[x] \in 0..Limit[x[1]] /\ served[x] \in Nat

\* Tokens taken and errors cover what was served and what may still be.
Covered(x) ==
  served[x] + Cardinality(Pending(x)) <= Burst[x[1]] - bucket[x] + refills[x] + Lenience

\* Every service was begun by a call of its own.
Counted(x) == served[x] + Cardinality(Waiting) <= begun

LimitInv ==
  /\ TablesInv
  /\ call \in [Callers -> Call] /\ \A c \in Callers : RateOK(call[c])
  /\ Cardinality(Waiting) <= begun
  /\ \A x \in Keys : Covered(x) /\ Counted(x)

Scopes(m) == ToSet(PolicyForMethod(m).scopes)
AllScopes == {"ip", "identifier", "email", "user"}

\* The scopes of a policy by its phase: before authentication there is no user,
\* after it there is nothing else.
LEMMA PolicyScopes ==
  ASSUME NEW m
  PROVE  LET p == PolicyForMethod(m) IN
         /\ p.burst \in Nat /\ p.limit \in Nat
         /\ p.scopes \in {<<"ip">>, <<"user">>, <<"ip", "identifier">>, <<"ip", "email">>}
         /\ \/ p.phase = "pre_auth" /\ Scopes(m) \subseteq {"ip", "identifier", "email"}
            \/ p.phase = "post_auth" /\ Scopes(m) = {"user"}
<1> DEFINE p == PolicyForMethod(m)
<1>1. \/ p.phase = "pre_auth" /\ p.scopes \in {<<"ip">>, <<"ip", "identifier">>, <<"ip", "email">>}
         /\ p.burst \in Nat /\ p.limit \in Nat
      \/ p.phase = "post_auth" /\ p.scopes = <<"user">> /\ p.burst \in Nat /\ p.limit \in Nat
  <2>1. CASE m \in DOMAIN MethodPolicies
    <3>1. p = MethodPolicies[m]
      BY <2>1 DEF PolicyForMethod
    <3> QED
      BY <2>1, <3>1 DEF MethodPolicies, PreAuth, PostAuth, PolicyOf
  <2>2. CASE m \notin DOMAIN MethodPolicies
    BY <2>2 DEF PolicyForMethod, DefaultPolicy, PostAuth, PolicyOf
  <2> QED
    BY <2>1, <2>2
<1>2. /\ ToSet(<<"ip">>) = {"ip"} /\ ToSet(<<"user">>) = {"user"}
      /\ ToSet(<<"ip", "identifier">>) = {"ip", "identifier"}
      /\ ToSet(<<"ip", "email">>) = {"ip", "email"}
  BY DEF ToSet
<1> QED
  BY <1>1, <1>2 DEF Scopes

\* The scope that is checked next is one of those left.
LEMMA NextScopeIsLeft ==
  ASSUME NEW k, k.checks # {}, k.checks \subseteq Scopes(k.method)
  PROVE  NextScope(k) \in k.checks
<1> DEFINE s == PolicyForMethod(k.method).scopes
           left == {i \in DOMAIN s : s[i] \in k.checks}
<1>1. DOMAIN s \subseteq {1, 2}
  BY PolicyScopes
<1>2. Scopes(k.method) = {s[i] : i \in DOMAIN s}
  BY DEF Scopes, ToSet
<1>3. left # {} /\ left \subseteq {1, 2}
  BY <1>1, <1>2
<1>4. NextScope(k) = s[CHOOSE i \in left : \A j \in left : i <= j]
  BY DEF NextScope
<1>5. \E i \in left : \A j \in left : i <= j
  <2> HIDE DEF left
  <2>1. CASE 1 \in left
    BY <1>3, <2>1
  <2>2. CASE 1 \notin left
    <3>1. left = {2}
      BY <1>3, <2>2
    <3> QED
      BY <3>1
  <2> QED
    BY <2>1, <2>2
<1>6. (CHOOSE i \in left : \A j \in left : i <= j) \in left
  <2> HIDE DEF left
  <2> QED
    BY <1>5
<1> QED
  BY <1>4, <1>6

\* What is normal stays so: an account has one name, and addresses and users
\* are not spelled.
LEMMA NormalStays ==
  ASSUME NEW s \in AllScopes, NEW v \in ScopeValues[s]
  PROVE  normalize(v) = v
<1>1. CASE s = "ip" \/ s = "user"
  <2>1. v \in IPs \cup Users
    BY <1>1 DEF ScopeValues
  <2> QED
    BY <2>1, NormalAssumption DEF normalize
<1>2. CASE s = "identifier" \/ s = "email"
  <2>1. v \in NormalNames
    BY <1>2 DEF ScopeValues
  <2>2. PICK n \in Spellings : v = Normal[n] /\ Normal[n] # None
    BY <2>1 DEF NormalNames
  <2> QED
    BY <2>2, NormalAssumption DEF normalize
<1> QED
  BY <1>1, <1>2 DEF AllScopes

\* What the limiter reads of a call is what its service is charged to.
LEMMA ScopeIsCharged ==
  ASSUME NEW k \in Call, NEW s \in AllScopes
  PROVE  /\ ScopeValue(k, s) = Charged(k)[s]
         /\ Charged(k)[s] \in ScopeValues[s] \cup {None} /\ None \notin ScopeValues[s]
<1>1. /\ k.ip \in IPs \cup {None} /\ k.name \in Spellings \cup {None}
      /\ k.actor \in Users \cup {None}
  BY DEF Call
<1>2. normalize(k.name) \in NormalNames \cup {None}
  BY <1>1, NoneAssumption DEF normalize, NormalNames
<1>3. CASE s = "ip"
  BY <1>1, <1>3, NoneAssumption DEF ScopeValue, Charged, ScopeValues
<1>4. CASE s = "identifier" \/ s = "email"
  <2>1. None \notin NormalNames
    BY DEF NormalNames
  <2> QED
    BY <1>2, <1>4, <2>1 DEF ScopeValue, Charged, ScopeValues
<1>5. CASE s = "user"
  BY <1>1, <1>5, NoneAssumption DEF ScopeValue, Charged, ScopeValues
<1> QED
  BY <1>3, <1>4, <1>5 DEF AllScopes

LEMMA KeysAre ==
  ASSUME NEW m, NEW x
  PROVE  x \in KeysOf(m) <=> \E s \in Scopes(m) : \E v \in ScopeValues[s] :
                                x = <<PolicyForMethod(m).name, s, v>>
<1>1. x \in KeysOf(m) <=> \E s \in Scopes(m) : \E v \in ScopeValues[s] :
                             x = <<PolicyForMethod(m).name, s, normalize(v)>>
  BY DEF KeysOf, Key, Scopes
<1>2. Scopes(m) \subseteq AllScopes
  BY PolicyScopes DEF AllScopes
<1>3. ASSUME NEW s \in Scopes(m), NEW v \in ScopeValues[s] PROVE normalize(v) = v
  BY <1>2, NormalStays
<1> QED
  BY <1>1, <1>3

LEMMA KeyParts ==
  ASSUME NEW m, NEW x \in KeysOf(m)
  PROVE  /\ x = <<PolicyForMethod(m).name, x[2], x[3]>>
         /\ x[1] = PolicyForMethod(m).name /\ x[2] \in Scopes(m) /\ x[3] \in ScopeValues[x[2]]
<1>1. PICK s \in Scopes(m) : \E v \in ScopeValues[s] : x = <<PolicyForMethod(m).name, s, v>>
  BY KeysAre
<1>2. PICK v \in ScopeValues[s] : x = <<PolicyForMethod(m).name, s, v>>
  BY <1>1
<1> QED
  BY <1>2

\* A bucket holds at most MaxBurst tokens.
LEMMA BurstBounded ==
  ASSUME NEW m \in Methods
  PROVE  /\ Burst[PolicyForMethod(m).name] \in 0..MaxBurst
         /\ Limit[PolicyForMethod(m).name] \in Nat
<1> DEFINE n == PolicyForMethod(m).name
           P == {PolicyForMethod(q) : q \in Methods}
           b == PolicyNamed(n).burst
<1>1. /\ Burst[n] = Min({b, MaxBurst}) /\ Limit[n] = PolicyNamed(n).limit
  BY DEF Burst, Limit
<1>2. PolicyNamed(n) \in P
  <2>1. PolicyForMethod(m) \in P
    OBVIOUS
  <2>2. \E p \in P : p.name = n
    BY <2>1
  <2> HIDE DEF P, n
  <2>3. (CHOOSE p \in P : p.name = n) \in P
    BY <2>2
  <2> QED
    BY <2>3 DEF PolicyNamed, P
<1>3. b \in Nat /\ PolicyNamed(n).limit \in Nat
  <2>1. PICK q \in Methods : PolicyNamed(n) = PolicyForMethod(q)
    BY <1>2
  <2> QED
    BY <2>1, PolicyScopes
<1> HIDE DEF b
<1>4. \E z \in {b, MaxBurst} : \A y \in {b, MaxBurst} : z <= y
  BY <1>3, BoundAssumption
<1>5. Min({b, MaxBurst}) \in {b, MaxBurst} /\ \A y \in {b, MaxBurst} : Min({b, MaxBurst}) <= y
  BY <1>4 DEF Min
<1> QED
  BY <1>1, <1>3, <1>5, BoundAssumption

\* A set of calls of which only c comes or goes.
LEMMA CountChange ==
  ASSUME NEW c \in Callers, NEW S \in SUBSET Callers, NEW T \in SUBSET Callers,
         \A d \in Callers : d # c => (d \in S <=> d \in T)
  PROVE  /\ Cardinality(S) \in Nat /\ Cardinality(T) \in Nat
         /\ c \in S /\ c \notin T => Cardinality(S) = Cardinality(T) + 1
         /\ c \notin S /\ c \in T => Cardinality(T) = Cardinality(S) + 1
         /\ (c \in S <=> c \in T) => Cardinality(T) = Cardinality(S)
<1>1. IsFiniteSet(S) /\ IsFiniteSet(T)
  BY CallersAssumption, FS_Subset
<1>2. CASE c \in S /\ c \notin T
  <2>1. S = T \cup {c}
    BY <1>2
  <2> QED
    BY <1>1, <1>2, <2>1, FS_AddElement, FS_CardinalityType
<1>3. CASE c \notin S /\ c \in T
  <2>1. T = S \cup {c}
    BY <1>3
  <2> QED
    BY <1>1, <1>3, <2>1, FS_AddElement, FS_CardinalityType
<1>4. CASE c \in S <=> c \in T
  <2>1. S = T
    BY <1>4
  <2> QED
    BY <1>1, <2>1, FS_CardinalityType, <1>4
<1> QED
  BY <1>2, <1>3, <1>4, <1>1, FS_CardinalityType

-----------------------------------------------------------------------------
(* The limits: steps *)

One(b) == IF b THEN 1 ELSE 0

LEMMA KeyFacts ==
  ASSUME TablesInv, NEW x \in Keys
  PROVE  /\ Burst[x[1]] \in 0..MaxBurst /\ bucket[x] \in 0..Burst[x[1]] /\ served[x] \in Nat
         /\ Limit[x[1]] \in Nat /\ refills[x] \in 0..Limit[x[1]]
         /\ errors \in Nat /\ begun \in Nat /\ Lenience \in Nat
<1>1. PICK m \in load.methods : x \in KeysOf(m)
  BY DEF Keys
<1>2. m \in Methods
  BY WorkloadAssumption DEF TablesInv
<1>3. Burst[x[1]] \in 0..MaxBurst /\ Limit[x[1]] \in Nat
  BY <1>1, <1>2, KeyParts, BurstBounded
<1>4. errors \in Nat /\ begun \in Nat
  BY WorkloadAssumption, BoundAssumption DEF TablesInv
<1> QED
  BY <1>3, <1>4 DEF TablesInv, Lenience

LEMMA IdleIsCall == Idle \in Call /\ Idle.pc = "idle"
BY DEF Idle, Call, PC, Defects

LEMMA LimitInit == Init => LimitInv
<1> SUFFICES ASSUME Init PROVE LimitInv
  OBVIOUS
<1>1. /\ load \in Workloads
      /\ DOMAIN bucket = Keys /\ DOMAIN refills = Keys /\ DOMAIN served = Keys
      /\ \A x \in Keys : bucket[x] = Burst[x[1]] /\ refills[x] = 0 /\ served[x] = 0
      /\ errors = 0 /\ begun = 0 /\ call = [c \in Callers |-> Idle]
  BY DEF Init, Keys, methods
<1>2. ASSUME NEW x \in Keys PROVE Burst[x[1]] \in 0..MaxBurst /\ Limit[x[1]] \in Nat
  <2>1. PICK m \in load.methods : x \in KeysOf(m)
    BY DEF Keys
  <2>2. m \in Methods
    BY <1>1, WorkloadAssumption
  <2> QED
    BY <2>1, <2>2, KeyParts, BurstBounded
<1>3. TablesInv
  BY <1>1, <1>2, WorkloadAssumption, BoundAssumption DEF TablesInv
<1>4. RateOK(Idle) /\ Idle \in Call /\ Idle.pc = "idle"
  BY IdleIsCall DEF RateOK
<1>5. call \in [Callers -> Call] /\ \A c \in Callers : RateOK(call[c]) /\ call[c].pc = "idle"
  BY <1>1, <1>4
<1>6. Waiting = {} /\ \A x \in Keys : Pending(x) = {}
  BY <1>5 DEF Waiting, Pending, Owes, Under
<1>7. \A x \in Keys : Covered(x) /\ Counted(x)
  <2>1. Cardinality({}) = 0
    BY FS_EmptySet
  <2> QED
    <3>1. Lenience = 0
      BY <1>1 DEF Lenience
    <3>2. ASSUME NEW x \in Keys
          PROVE  /\ served[x] = 0 /\ refills[x] = 0 /\ bucket[x] = Burst[x[1]]
                 /\ Burst[x[1]] \in Nat /\ Cardinality(Pending(x)) = 0 /\ Cardinality(Waiting) = 0
      BY <1>1, <1>2, <1>6, <2>1, BoundAssumption
    <3> QED
      BY <1>1, <3>1, <3>2 DEF Covered, Counted
<1> QED
  BY <1>1, <1>3, <1>5, <1>6, <1>7, FS_EmptySet DEF LimitInv

\* Call c becomes y. What it adds to the services that may still run under a
\* key is paid for by a token, an error or the end of its own waiting.
LEMMA CallMoves ==
  ASSUME LimitInv, NEW c \in Callers, NEW y, Put(c, y), RateOK(y), TablesInv',
         load' = load, refills' = refills,
         One(y.pc \in Under) - begun' <= One(call[c].pc \in Under) - begun,
         \A x \in Keys :
           /\ served'[x] + One(Owes(y, x)) + bucket'[x] - Lenience'
                <= served[x] + One(Owes(call[c], x)) + bucket[x] - Lenience
           /\ served'[x] + One(y.pc \in Under) - begun'
                <= served[x] + One(call[c].pc \in Under) - begun
  PROVE  LimitInv'
<1>1. /\ call' \in [Callers -> Call] /\ call'[c] = y
      /\ \A d \in Callers : d # c => call'[d] = call[d]
  BY DEF LimitInv, Put, RateOK
<1>2. \A d \in Callers : RateOK(call'[d])
  BY <1>1 DEF LimitInv
<1>3. Keys' = Keys
  BY DEF Keys
<1>4. begun \in Nat /\ begun' \in Nat
  BY WorkloadAssumption DEF LimitInv, TablesInv
<1>5. \A d \in Callers : d # c => (d \in Waiting <=> d \in Waiting')
  BY <1>1 DEF Waiting
<1>6. /\ Waiting \subseteq Callers /\ Waiting' \subseteq Callers
      /\ c \in Waiting <=> call[c].pc \in Under
      /\ c \in Waiting' <=> y.pc \in Under
  BY <1>1 DEF Waiting
<1> DEFINE w == Cardinality(Waiting)
           z == Cardinality(Waiting')
<1>7. /\ w \in Nat /\ z \in Nat
      /\ z = w - One(call[c].pc \in Under) + One(y.pc \in Under)
  <2>1. /\ w \in Nat /\ z \in Nat
        /\ c \in Waiting /\ c \notin Waiting' => w = z + 1
        /\ c \notin Waiting /\ c \in Waiting' => z = w + 1
        /\ (c \in Waiting <=> c \in Waiting') => z = w
    BY <1>5, <1>6, CountChange
  <2> HIDE DEF w, z
  <2> QED
    BY <2>1, <1>6 DEF One
<1>8. Cardinality(Waiting') <= begun'
  <2>1. w <= begun
    BY DEF LimitInv
  <2> HIDE DEF w
  <2>2. z <= begun'
    <3> HIDE DEF z
    <3> QED
      BY <1>4, <1>7, <2>1 DEF One
  <2> QED
    BY <2>2
<1>9. ASSUME NEW x \in Keys
      PROVE  Covered(x)' /\ Counted(x)'
  <2>1. \A d \in Callers : d # c => (d \in Pending(x) <=> d \in Pending(x)')
    BY <1>1 DEF Pending, Owes
  <2>2. /\ Pending(x) \subseteq Callers /\ Pending(x)' \subseteq Callers
        /\ c \in Pending(x) <=> Owes(call[c], x)
        /\ c \in Pending(x)' <=> Owes(y, x)
    BY <1>1 DEF Pending, Owes
  <2> DEFINE p == Cardinality(Pending(x))
             q == Cardinality(Pending(x)')
  <2>3. /\ p \in Nat /\ q \in Nat
        /\ c \in Pending(x) /\ c \notin Pending(x)' => p = q + 1
        /\ c \notin Pending(x) /\ c \in Pending(x)' => q = p + 1
        /\ (c \in Pending(x) <=> c \in Pending(x)') => q = p
    BY <2>1, <2>2, CountChange
  <2>4. q = p - One(Owes(call[c], x)) + One(Owes(y, x))
    <3> HIDE DEF p, q
    <3> QED
      BY <2>2, <2>3 DEF One
  <2>5. /\ Burst[x[1]] \in Nat /\ bucket[x] \in Nat /\ served[x] \in Nat /\ Lenience \in Nat
        /\ refills[x] \in Nat /\ bucket'[x] \in Nat /\ served'[x] \in Nat /\ Lenience' \in Nat
    <3>1. /\ Burst[x[1]] \in Nat /\ bucket[x] \in Nat /\ served[x] \in Nat
          /\ refills[x] \in Nat /\ Lenience \in Nat
      BY KeyFacts, BoundAssumption DEF LimitInv
    <3>2. bucket'[x] \in Nat /\ served'[x] \in Nat
      BY <1>3, <3>1 DEF TablesInv
    <3>3. Lenience' \in Nat
      BY WorkloadAssumption DEF Lenience, TablesInv
    <3> QED
      BY <3>1, <3>2, <3>3
  <2>6. /\ served[x] + p <= Burst[x[1]] - bucket[x] + refills[x] + Lenience
        /\ served[x] + w <= begun
    BY DEF LimitInv, Covered, Counted
  <2> HIDE DEF p, w
  <2>7. /\ served'[x] + q <= Burst[x[1]] - bucket'[x] + refills[x] + Lenience'
        /\ served'[x] + z <= begun'
    <3> HIDE DEF q, z
    <3>1. One(Owes(call[c], x)) \in {0, 1} /\ One(Owes(y, x)) \in {0, 1}
          /\ One(call[c].pc \in Under) \in {0, 1} /\ One(y.pc \in Under) \in {0, 1}
      BY DEF One
    <3>2. served'[x] + One(Owes(y, x)) + bucket'[x] - Lenience'
            <= served[x] + One(Owes(call[c], x)) + bucket[x] - Lenience
      OBVIOUS
    <3>3. served'[x] + One(y.pc \in Under) - begun'
            <= served[x] + One(call[c].pc \in Under) - begun
      OBVIOUS
    <3>4. served'[x] + q <= Burst[x[1]] - bucket'[x] + refills[x] + Lenience'
      BY <2>3, <2>4, <2>5, <2>6, <3>1, <3>2
    <3>5. served'[x] + z <= begun'
      BY <1>4, <1>7, <2>5, <2>6, <3>1, <3>3
    <3> QED
      BY <3>4, <3>5
  <2> QED
    BY <2>7 DEF Covered, Counted
<1> QED
  BY <1>1, <1>2, <1>3, <1>8, <1>9 DEF LimitInv, RateOK

Early == {"pre_auth", "validate", "session", "role", "permissions"}
Limits == {"pre_auth", "post_auth"}

\* Only the call changes, and it owes nothing that it did not owe.
LEMMA MovesOn ==
  ASSUME LimitInv, NEW c \in Callers, NEW y, Put(c, y), RateOK(y),
         UNCHANGED <<load, bucket, refills, errors, begun, served>>,
         y.pc \in Under => call[c].pc \in Under,
         \A x \in Keys : Owes(y, x) => Owes(call[c], x)
  PROVE  LimitInv'
<1>1. TablesInv'
  BY DEF LimitInv, TablesInv, Keys
<1>2. begun \in Nat
  BY WorkloadAssumption DEF LimitInv, TablesInv
<1>3. One(y.pc \in Under) <= One(call[c].pc \in Under) /\ One(y.pc \in Under) \in Nat
      /\ One(call[c].pc \in Under) \in Nat
  BY DEF One
<1>4. Lenience' = Lenience
  BY DEF Lenience
<1>5. ASSUME NEW x \in Keys
      PROVE  /\ served'[x] + One(Owes(y, x)) + bucket'[x] - Lenience'
                  <= served[x] + One(Owes(call[c], x)) + bucket[x] - Lenience
             /\ served'[x] + One(y.pc \in Under) - begun'
                  <= served[x] + One(call[c].pc \in Under) - begun
  <2>1. bucket[x] \in Nat /\ served[x] \in Nat /\ Lenience \in Nat
    BY KeyFacts, BoundAssumption DEF LimitInv
  <2>2. One(Owes(y, x)) <= One(Owes(call[c], x)) /\ One(Owes(y, x)) \in Nat
        /\ One(Owes(call[c], x)) \in Nat
    BY DEF One
  <2>3. served'[x] = served[x] /\ bucket'[x] = bucket[x] /\ begun' = begun
    OBVIOUS
  <2> QED
    BY <1>2, <1>3, <1>4, <2>1, <2>2, <2>3
<1>6. One(y.pc \in Under) - begun' <= One(call[c].pc \in Under) - begun
  BY <1>2, <1>3
<1> QED
  BY <1>1, <1>5, <1>6, CallMoves

\* What a call is charged to stays the same.
Kept(k, y) ==
  /\ y \in Call /\ y.method = k.method
  /\ y.ip = k.ip /\ y.name = k.name /\ y.actor = k.actor /\ y.checks = k.checks

LEMMA KeptOwes ==
  ASSUME NEW k, NEW y, Kept(k, y), NEW x, Owes(y, x), k.pc \in Under,
         k.pc \in Limits => k.checks = {} \/ y.pc \in Limits
  PROVE  Owes(k, x)
<1>1. Charged(y) = Charged(k)
  BY DEF Kept, Charged
<1> QED
  BY <1>1 DEF Kept, Owes, Limits

LEMMA GoesLimited ==
  ASSUME LimitInv, NEW c \in Callers, NEW pc \in PC \ ({"idle"} \cup Limits), GoTo(c, pc),
         UNCHANGED <<load, bucket, refills, errors, begun, served>>,
         call[c].pc # "idle",
         pc \in Early => call[c].pc \in Early,
         pc \in Under => /\ call[c].pc \in Under
                         /\ call[c].pc \in Limits => call[c].checks = {}
  PROVE  LimitInv'
<1> DEFINE k == call[c]
           y == [k EXCEPT !.pc = pc]
<1>0. k \in Call /\ RateOK(k)
  BY DEF LimitInv
<1>1. Put(c, y)
  BY DEF GoTo
<1>2. Kept(k, y) /\ y.pc = pc
  BY <1>0 DEF Kept, Call
<1> HIDE DEF y
<1>3. RateOK(y)
  BY <1>0, <1>2 DEF RateOK, Kept, Early, Limits
<1>4. ASSUME NEW x \in Keys, Owes(y, x) PROVE Owes(k, x)
  <2>1. y.pc \in Under
    BY <1>4 DEF Owes
  <2> QED
    BY <1>2, <1>4, <2>1, KeptOwes
<1> QED
  BY <1>1, <1>2, <1>3, <1>4, MovesOn

LEMMA AnswersLimited ==
  ASSUME LimitInv, NEW c \in Callers, NEW code \in AnswerCodes, Answer(c, code),
         UNCHANGED <<load, bucket, refills, errors, begun, served>>, call[c].pc # "idle"
  PROVE  LimitInv'
<1> DEFINE k == call[c]
           y == [k EXCEPT !.pc = "done", !.code = code]
<1>0. k \in Call /\ RateOK(k)
  BY DEF LimitInv
<1>1. Put(c, y)
  BY DEF Answer
<1>2. y \in Call /\ y.pc = "done" /\ y.method = k.method
  BY <1>0 DEF Call, PC
<1> HIDE DEF y
<1>3. RateOK(y)
  BY <1>0, <1>2 DEF RateOK
<1>4. y.pc \notin Under /\ \A x \in Keys : ~Owes(y, x)
  BY <1>2 DEF Owes, Under
<1> QED
  BY <1>1, <1>3, <1>4, MovesOn

\* The record that Enter makes, and what it owes.
LEMMA EnterCall ==
  ASSUME NEW k \in Call, NEW phase \in Limits
  PROVE  LET y == Enter(k, phase) IN
         /\ y \in Call /\ y.pc = phase /\ y.method = k.method
         /\ y.ip = k.ip /\ y.name = k.name /\ y.actor = k.actor
         /\ y.checks = IF load.enabled /\ PolicyForMethod(k.method).phase = phase
                       THEN ChecksOf(k) ELSE {}
<1> DEFINE s == IF load.enabled /\ PolicyForMethod(k.method).phase = phase
                THEN ChecksOf(k) ELSE {}
<1>1. Enter(k, phase) = [k EXCEPT !.pc = phase, !.checks = s]
  BY DEF Enter
<1>2. s \in SUBSET AllScopes
  BY PolicyScopes DEF ChecksOf, AllScopes, Scopes
<1> HIDE DEF s
<1> DEFINE y == [k EXCEPT !.pc = phase, !.checks = s]
<1>3. phase \in PC /\ s \in SUBSET {"ip", "identifier", "email", "user"}
  BY <1>2 DEF Limits, PC, AllScopes
<1>4. y \in Call
  BY <1>3 DEF Call
<1>5. /\ y.pc = phase /\ y.method = k.method
      /\ y.ip = k.ip /\ y.name = k.name /\ y.actor = k.actor /\ y.checks = s
  BY DEF Call
<1> HIDE DEF y
<1> QED
  BY <1>1, <1>4, <1>5 DEF s, y

\* The checks of the own phase are still to be made, and the other phase has
\* nothing to check: a scope that is owed belongs to the other phase.
LEMMA EnterOwes ==
  ASSUME NEW k \in Call, NEW phase \in Limits, NEW x, Owes(Enter(k, phase), x)
  PROVE  /\ load.enabled /\ PolicyForMethod(k.method).phase # phase
         /\ x \in KeysOf(k.method) /\ x[3] = Charged(k)[x[2]]
<1> DEFINE y == Enter(k, phase)
<1>1. /\ y \in Call /\ y.pc = phase /\ y.method = k.method
      /\ y.ip = k.ip /\ y.name = k.name /\ y.actor = k.actor
      /\ y.checks = IF load.enabled /\ PolicyForMethod(k.method).phase = phase
                    THEN ChecksOf(k) ELSE {}
  BY EnterCall
<1>2. Owes(y, x)
  OBVIOUS
<1> HIDE DEF y
<1>3. Charged(y) = Charged(k)
  BY <1>1 DEF Charged
<1>4. load.enabled /\ x \in KeysOf(k.method) /\ x[3] = Charged(k)[x[2]] /\ x[2] \notin y.checks
  BY <1>1, <1>2, <1>3 DEF Owes, Limits
<1>5. x[2] \in Scopes(k.method) /\ x[3] \in ScopeValues[x[2]]
  BY <1>4, KeyParts
<1>6. x[2] \in AllScopes
  BY <1>5, PolicyScopes DEF AllScopes
<1>7. x[2] \in ChecksOf(k)
  BY <1>4, <1>5, <1>6, ScopeIsCharged DEF ChecksOf, Scopes
<1> QED
  BY <1>1, <1>4, <1>7

LEMMA EnterRateOK ==
  ASSUME NEW k \in Call, NEW phase \in Limits, k.method \in load.methods,
         phase = "pre_auth" => k.actor = None
  PROVE  RateOK(Enter(k, phase))
<1> DEFINE y == Enter(k, phase)
<1>1. /\ y \in Call /\ y.pc = phase /\ y.method = k.method
      /\ y.ip = k.ip /\ y.name = k.name /\ y.actor = k.actor
      /\ y.checks = IF load.enabled /\ PolicyForMethod(k.method).phase = phase
                    THEN ChecksOf(k) ELSE {}
  BY EnterCall
<1> HIDE DEF y
<1>2. ChecksOf(y) = ChecksOf(k)
  BY <1>1 DEF ChecksOf, ScopeValue
<1>3. RateOK(y)
  BY <1>1, <1>2 DEF RateOK, Limits
<1> QED
  BY <1>3 DEF y

\* Without a principal nothing is owed to the second phase.
LEMMA EnterUnauthenticated ==
  ASSUME NEW k \in Call, NEW phase \in Limits, k.actor = None, NEW x,
         Owes(Enter(k, phase), x)
  PROVE  phase = "post_auth"
<1>1. /\ PolicyForMethod(k.method).phase # phase
      /\ x \in KeysOf(k.method) /\ x[3] = Charged(k)[x[2]]
  BY EnterOwes
<1>2. x[2] \in Scopes(k.method) /\ x[3] \in ScopeValues[x[2]]
  BY <1>1, KeyParts
<1>3. x[2] # "user"
  <2> SUFFICES ASSUME x[2] = "user" PROVE FALSE
    OBVIOUS
  <2>1. x[3] = None
    BY <1>1 DEF Charged
  <2>2. None \notin Users
    BY NoneAssumption
  <2> QED
    BY <1>2, <2>1, <2>2 DEF ScopeValues
<1>4. PolicyForMethod(k.method).phase = "pre_auth"
  BY <1>2, <1>3, PolicyScopes
<1> QED
  BY <1>1, <1>4 DEF Limits

\* A call enters the chain and owes nothing.
LEMMA BeginsLimited ==
  ASSUME LimitInv, NEW c \in Callers, Arrive(c)
  PROVE  LimitInv'
<1>1. PICK m \in load.methods : Arrive(c)!(m)
  BY DEF Arrive, methods
<1>2. PICK ip \in IPs \cup {None}, n \in Spellings \cup {None}, t \in Tokens \cup {None},
           d \in Defects : BeginCall(c, m, ip, n, t, d)
  <2>1. PICK ip \in (IF "ip" \in ToSet(PolicyForMethod(m).scopes) THEN IPs ELSE {None}),
             n \in (IF m \in Named THEN Spellings ELSE {None}),
             t \in (IF m \in PublicMethods THEN {} ELSE Tokens) \cup {None},
             d \in (IF load.wrong THEN DefectsOf(m) ELSE {None}) : BeginCall(c, m, ip, n, t, d)
    BY <1>1
  <2>2. ip \in IPs \cup {None} /\ n \in Spellings \cup {None} /\ t \in Tokens \cup {None}
    BY <2>1
  <2>3. d \in Defects
    BY <2>1 DEF DefectsOf, Defects
  <2> QED
    BY <2>1, <2>2, <2>3
<1>3. m \in Methods
  BY WorkloadAssumption DEF LimitInv, TablesInv
<1> DEFINE was == t \in live
           had == Allowed(m, t, grants)
           r == [Idle EXCEPT !.method = m, !.ip = ip, !.name = n, !.token = t, !.defect = d,
                             !.wasLive = was, !.held = had]
           y == Enter(r, "pre_auth")
<1>4. /\ Put(c, y) /\ UNCHANGED <<load, bucket, refills, errors, served>>
      /\ begun < load.calls /\ begun' = begun + 1 /\ call[c].pc = "idle"
  BY <1>2 DEF BeginCall
<1>5. was \in BOOLEAN /\ had \in BOOLEAN
  BY DEF Allowed
<1> HIDE DEF was, had
<1>6. r \in Call
  BY <1>3, <1>5, IdleIsCall DEF Call
<1>7. r.method = m /\ r.actor = None
  BY DEF Idle
<1> HIDE DEF r
<1>8. RateOK(y) /\ y.pc = "pre_auth"
  BY <1>6, <1>7, EnterRateOK, EnterCall DEF Limits
<1>9. \A x \in Keys : ~Owes(y, x)
  BY <1>6, <1>7, EnterUnauthenticated DEF Limits
<1> HIDE DEF y
<1>10. begun \in Nat /\ load.calls \in Nat
  BY WorkloadAssumption DEF LimitInv, TablesInv
<1>11. TablesInv'
  <2>1. begun' \in 0..load.calls
    BY <1>4, <1>10
  <2> QED
    BY <1>4, <2>1 DEF LimitInv, TablesInv, Keys
<1>12. One(y.pc \in Under) = 1 /\ One(call[c].pc \in Under) = 0
  BY <1>4, <1>8 DEF One, Under
<1>13. ASSUME NEW x \in Keys
       PROVE  /\ served'[x] + One(Owes(y, x)) + bucket'[x] - Lenience'
                   <= served[x] + One(Owes(call[c], x)) + bucket[x] - Lenience
              /\ served'[x] + One(y.pc \in Under) - begun'
                   <= served[x] + One(call[c].pc \in Under) - begun
  <2>1. bucket[x] \in Nat /\ served[x] \in Nat /\ Lenience \in Nat
    BY KeyFacts, BoundAssumption DEF LimitInv
  <2>2. One(Owes(y, x)) = 0 /\ One(Owes(call[c], x)) \in Nat
    BY <1>9 DEF One
  <2>3. served'[x] = served[x] /\ bucket'[x] = bucket[x] /\ Lenience' = Lenience
    BY <1>4 DEF Lenience
  <2> QED
    BY <1>4, <1>10, <1>12, <2>1, <2>2, <2>3
<1>14. One(y.pc \in Under) - begun' <= One(call[c].pc \in Under) - begun
  BY <1>4, <1>10, <1>12
<1> QED
  BY <1>4, <1>8, <1>11, <1>13, <1>14, CallMoves

\* A token is taken from the bucket of the scope that is checked.
LEMMA AllowLimited ==
  ASSUME LimitInv, NEW c \in Callers, Allow(c)
  PROVE  LimitInv'
<1> DEFINE k == call[c]
           s == NextScope(k)
           left == k.checks \ {s}
           y == [k EXCEPT !.checks = left]
           a == CheckKey(c)
<1>0. /\ k \in Call /\ RateOK(k) /\ k.pc \in Limits /\ k.checks # {} /\ bucket[a] > 0
      /\ bucket' = [bucket EXCEPT ![a] = @ - 1] /\ Put(c, y)
      /\ UNCHANGED <<load, refills, errors, begun, served>>
  BY DEF LimitInv, Allow, Checking, Limits
<1>1. k.checks \subseteq ChecksOf(k) /\ k.method \in load.methods
  BY <1>0 DEF RateOK, Limits
<1>2. s \in k.checks /\ s \in Scopes(k.method) /\ ScopeValue(k, s) # None
  BY <1>0, <1>1, NextScopeIsLeft DEF ChecksOf, Scopes
<1>3. s \in AllScopes
  BY <1>2, PolicyScopes DEF AllScopes
<1>4. ScopeValue(k, s) = Charged(k)[s] /\ Charged(k)[s] \in ScopeValues[s]
  BY <1>0, <1>2, <1>3, ScopeIsCharged
<1>5. a = <<PolicyForMethod(k.method).name, s, Charged(k)[s]>>
  BY <1>3, <1>4, NormalStays DEF CheckKey, Key
<1>6. a \in KeysOf(k.method)
  BY <1>2, <1>4, <1>5, KeysAre
<1>7. a \in Keys
  BY <1>1, <1>6 DEF Keys
<1>8. left \in SUBSET {"ip", "identifier", "email", "user"} /\ left \subseteq k.checks
  BY <1>0 DEF Call
<1>9. left = k.checks \ {s}
  OBVIOUS
<1> HIDE DEF s, left, a
<1>10. /\ y \in Call /\ y.pc = k.pc /\ y.method = k.method /\ y.checks = left
       /\ y.ip = k.ip /\ y.name = k.name /\ y.actor = k.actor
  BY <1>0, <1>8 DEF Call
<1> HIDE DEF y
<1>11. ChecksOf(y) = ChecksOf(k) /\ Charged(y) = Charged(k)
  BY <1>10 DEF ChecksOf, ScopeValue, Charged
<1>12. RateOK(y)
  BY <1>0, <1>8, <1>10, <1>11 DEF RateOK
<1>13. ASSUME NEW x \in Keys, Owes(y, x), ~Owes(k, x) PROVE x = a
  <2>1. x \in KeysOf(k.method) /\ x[3] = Charged(k)[x[2]] /\ x[2] \in k.checks /\ x[2] \notin left
    BY <1>0, <1>10, <1>11, <1>13 DEF Owes, Limits
  <2>2. x[2] = s
    BY <2>1, <1>9
  <2>3. x = <<PolicyForMethod(k.method).name, x[2], x[3]>>
    BY <2>1, KeyParts
  <2> QED
    BY <1>5, <2>1, <2>2, <2>3
<1>14. bucket[a] \in 0..Burst[a[1]] /\ Burst[a[1]] \in Nat
  BY <1>7, KeyFacts, BoundAssumption DEF LimitInv
<1>15. TablesInv'
  <2>1. DOMAIN bucket' = Keys /\ bucket'[a] = bucket[a] - 1
        /\ \A x \in Keys : x # a => bucket'[x] = bucket[x]
    BY <1>0, <1>7 DEF LimitInv, TablesInv
  <2>2. \A x \in Keys : bucket'[x] \in 0..Burst[x[1]]
    BY <1>0, <1>14, <2>1 DEF LimitInv, TablesInv
  <2>3. Keys' = Keys
    BY <1>0 DEF Keys
  <2> QED
    BY <1>0, <2>1, <2>2, <2>3 DEF LimitInv, TablesInv
<1>16. begun \in Nat /\ begun' = begun /\ One(y.pc \in Under) = One(k.pc \in Under)
       /\ One(k.pc \in Under) \in Nat
  BY <1>0, <1>10, WorkloadAssumption DEF LimitInv, TablesInv, One
<1>17. ASSUME NEW x \in Keys
       PROVE  /\ served'[x] + One(Owes(y, x)) + bucket'[x] - Lenience'
                   <= served[x] + One(Owes(k, x)) + bucket[x] - Lenience
              /\ served'[x] + One(y.pc \in Under) - begun'
                   <= served[x] + One(k.pc \in Under) - begun
  <2>1. bucket[x] \in Nat /\ served[x] \in Nat /\ Lenience \in Nat
    BY KeyFacts, BoundAssumption DEF LimitInv
  <2>2. served'[x] = served[x] /\ Lenience' = Lenience
    BY <1>0 DEF Lenience
  <2>3. CASE x = a
    <3>1. bucket'[x] = bucket[x] - 1
      BY <1>0, <1>7, <2>3 DEF LimitInv, TablesInv
    <3>2. One(Owes(y, x)) \in {0, 1} /\ One(Owes(k, x)) \in {0, 1}
      BY DEF One
    <3> QED
      BY <1>16, <2>1, <2>2, <3>1, <3>2
  <2>4. CASE x # a
    <3>1. bucket'[x] = bucket[x]
      BY <1>0, <2>4 DEF LimitInv, TablesInv
    <3>2. One(Owes(y, x)) <= One(Owes(k, x)) /\ One(Owes(y, x)) \in Nat /\ One(Owes(k, x)) \in Nat
      BY <1>13, <2>4 DEF One
    <3> QED
      BY <1>16, <2>1, <2>2, <3>1, <3>2
  <2> QED
    BY <2>3, <2>4
<1>18. One(y.pc \in Under) - begun' <= One(k.pc \in Under) - begun
  BY <1>16
<1> QED
  BY <1>0, <1>12, <1>15, <1>17, <1>18, CallMoves

\* An error of the limiter: the call is refused, or FailOpen lets it through
\* and the error accounts for it under every key at once.
LEMMA ErrorLimited ==
  ASSUME LimitInv, NEW c \in Callers, LimiterError(c)
  PROVE  LimitInv'
<1> DEFINE k == call[c]
<1>0. /\ k \in Call /\ RateOK(k) /\ k.pc \in Limits
      /\ errors < load.errors /\ errors' = errors + 1
      /\ UNCHANGED <<load, bucket, refills, begun, served>>
  BY DEF LimitInv, LimiterError, Checking, Limits
<1>1. errors \in Nat /\ begun \in Nat /\ load.failOpen \in BOOLEAN
  BY WorkloadAssumption, BoundAssumption DEF LimitInv, TablesInv
<1>2. TablesInv'
  <2>1. errors' \in 0..load.errors
    <3>1. load.errors \in Nat
      BY WorkloadAssumption DEF LimitInv, TablesInv
    <3> QED
      BY <1>0, <1>1, <3>1
  <2> QED
    BY <1>0, <2>1 DEF LimitInv, TablesInv, Keys
<1>3. ASSUME NEW y, Put(c, y), RateOK(y), y.pc \in Under \/ y.pc = "done",
             ~load.failOpen => y.pc = "done"
      PROVE  LimitInv'
  <2>1. One(y.pc \in Under) \in {0, 1} /\ One(k.pc \in Under) = 1
    BY <1>0 DEF One, Under, Limits
  <2>2. ASSUME NEW x \in Keys
        PROVE  /\ served'[x] + One(Owes(y, x)) + bucket'[x] - Lenience'
                    <= served[x] + One(Owes(k, x)) + bucket[x] - Lenience
               /\ served'[x] + One(y.pc \in Under) - begun'
                    <= served[x] + One(k.pc \in Under) - begun
    <3>1. bucket[x] \in Nat /\ served[x] \in Nat /\ Lenience \in Nat
      BY KeyFacts, BoundAssumption DEF LimitInv
    <3>2. served'[x] = served[x] /\ bucket'[x] = bucket[x] /\ begun' = begun
      BY <1>0
    <3>3. One(Owes(k, x)) \in {0, 1} /\ One(Owes(y, x)) \in {0, 1}
      BY DEF One
    <3>4. CASE load.failOpen
      <4>1. Lenience' = Lenience + 1
        BY <1>0, <3>4 DEF Lenience
      <4> QED
        BY <1>1, <2>1, <3>1, <3>2, <3>3, <4>1
    <3>5. CASE ~load.failOpen
      <4>1. Lenience' = Lenience
        BY <1>0, <3>5 DEF Lenience
      <4>2. One(Owes(y, x)) = 0
        BY <1>3, <3>5 DEF One, Owes, Under
      <4> QED
        BY <1>1, <2>1, <3>1, <3>2, <3>3, <4>1, <4>2
    <3> QED
      BY <3>4, <3>5
  <2>3. One(y.pc \in Under) - begun' <= One(k.pc \in Under) - begun
    BY <1>0, <1>1, <2>1
  <2> QED
    BY <1>0, <1>2, <1>3, <2>2, <2>3, CallMoves
<1>4. CASE load.failOpen
  <2> DEFINE pc == IF k.pc = "pre_auth" THEN "validate" ELSE "permit"
             y == [k EXCEPT !.pc = pc]
  <2>1. Put(c, y)
    BY <1>4 DEF LimiterError, Passed, GoTo
  <2>2. pc \in PC /\ pc \in {"validate", "permit"} /\ (pc = "validate" => k.pc = "pre_auth")
    BY DEF PC
  <2> HIDE DEF pc
  <2>3. Kept(k, y) /\ y.pc = pc
    BY <1>0, <2>2 DEF Kept, Call
  <2> HIDE DEF y
  <2>4. RateOK(y) /\ y.pc \in Under
    BY <1>0, <2>2, <2>3 DEF RateOK, Kept, Under, Limits
  <2> QED
    BY <1>3, <1>4, <2>1, <2>4
<1>5. CASE ~load.failOpen
  <2> DEFINE y == [k EXCEPT !.pc = "done", !.code = "Unavailable"]
  <2>1. Put(c, y)
    BY <1>5 DEF LimiterError, Answer
  <2>2. "Unavailable" \in AnswerCodes /\ "done" \in PC
    BY DEF AnswerCodes, PC
  <2>3. y \in Call /\ y.pc = "done" /\ y.method = k.method
    BY <1>0, <2>2 DEF Call
  <2> HIDE DEF y
  <2>4. RateOK(y)
    BY <1>0, <2>3 DEF RateOK, Limits
  <2> QED
    BY <1>3, <2>1, <2>3, <2>4
<1> QED
  BY <1>4, <1>5

\* The rest of the limiter, validation and authentication: who has passed all
\* checks owes the same afterwards.
LEMMA ChainLimited ==
  ASSUME CallInv, LimitInv, NEW c \in Callers,
         \/ Exhausted(c) \/ WithinLimits(c) \/ Validate(c) \/ Authenticate(c)
         \/ FindRole(c) \/ LoadPermissions(c) \/ PermissionInterceptor(c)
  PROVE  LimitInv'
<1> DEFINE k == call[c]
<1>0. /\ k \in Call /\ RateOK(k) /\ UNCHANGED <<load, bucket, refills, errors, begun, served>>
      /\ k.pc \in Under
  BY DEF LimitInv, Exhausted, WithinLimits, Validate, Authenticate, FindRole, LoadPermissions,
         PermissionInterceptor, Checking, Under
<1>1. CASE \E code \in AnswerCodes : Answer(c, code)
  BY <1>0, <1>1, AnswersLimited DEF Under
<1>2. ASSUME NEW pc \in {"validate", "session", "role", "permissions", "permit", "handler",
                         "panic"},
             GoTo(c, pc), k.pc \in Limits => k.checks = {},
             pc \in Early => k.pc \in Early
      PROVE  LimitInv'
  <2>1. pc \in PC \ ({"idle"} \cup Limits)
    BY DEF PC, Limits
  <2> QED
    BY <1>0, <1>2, <2>1, GoesLimited DEF Under
<1>3. ASSUME NEW r \in Call, Put(c, Enter(r, "post_auth")), k.pc \in {"session", "permissions"},
             r.method = k.method, r.ip = k.ip, r.name = k.name
      PROVE  LimitInv'
  <2> DEFINE y == Enter(r, "post_auth")
  <2>1. RateOK(y) /\ y.pc = "post_auth"
    BY <1>0, <1>3, EnterRateOK, EnterCall DEF Limits, RateOK
  <2>2. ASSUME NEW x \in Keys, Owes(y, x) PROVE Owes(k, x)
    <3>1. /\ load.enabled /\ PolicyForMethod(k.method).phase # "post_auth"
          /\ x \in KeysOf(k.method) /\ x[3] = Charged(r)[x[2]]
      BY <1>3, <2>2, EnterOwes DEF Limits
    <3>2. x[2] \in {"ip", "identifier", "email"}
      BY <3>1, KeyParts, PolicyScopes
    <3>3. Charged(r)[x[2]] = Charged(k)[x[2]]
      BY <1>3, <3>2 DEF Charged
    <3> QED
      BY <1>0, <1>3, <3>1, <3>3 DEF Owes
  <2> HIDE DEF y
  <2>3. Put(c, y)
    BY <1>3 DEF y
  <2> QED
    BY <1>0, <2>1, <2>2, <2>3, MovesOn
<1>4. CASE Exhausted(c)
  BY <1>1, <1>4 DEF Exhausted, AnswerCodes
<1>5. CASE WithinLimits(c)
  <2>1. k.checks = {} /\ k.pc \in Limits
        /\ GoTo(c, IF k.pc = "pre_auth" THEN "validate" ELSE "permit")
    BY <1>5 DEF WithinLimits, Passed, Limits
  <2>2. CASE k.pc = "pre_auth"
    BY <1>2, <2>1, <2>2 DEF Early
  <2>3. CASE k.pc # "pre_auth"
    BY <1>2, <2>1, <2>3 DEF Early
  <2> QED
    BY <2>2, <2>3
<1>6. CASE Validate(c)
  <2>1. k.pc = "validate" /\ (Answer(c, "InvalidArgument") \/ GoTo(c, "session"))
    BY <1>6 DEF Validate
  <2> QED
    BY <1>1, <1>2, <2>1 DEF AnswerCodes, Early, Limits
<1>7. CASE Authenticate(c)
  <2>1. /\ k.pc = "session"
        /\ \/ Put(c, Enter(k, "post_auth")) \/ GoTo(c, "role") \/ GoTo(c, "panic")
           \/ Answer(c, "Unauthenticated")
    BY <1>7 DEF Authenticate, Denied
  <2>2. CASE Put(c, Enter(k, "post_auth"))
    BY <1>0, <1>3, <2>1, <2>2
  <2> QED
    BY <1>1, <1>2, <2>1, <2>2 DEF AnswerCodes, Early, Limits
<1>8. CASE FindRole(c)
  <2>1. k.pc = "role" /\ (GoTo(c, "permissions") \/ Answer(c, "Unauthenticated"))
    BY <1>8 DEF FindRole, Denied
  <2> QED
    BY <1>1, <1>2, <2>1 DEF AnswerCodes, Early, Limits
<1>9. CASE LoadPermissions(c)
  <2> DEFINE a == UserOf[k.token]
             ps == Granted(RoleOf[k.token])
             r == [k EXCEPT !.actor = a, !.perms = ps]
  <2>1. /\ k.pc = "permissions"
        /\ Put(c, Enter(r, "post_auth")) \/ Answer(c, "Unauthenticated")
    BY <1>9 DEF LoadPermissions, Denied
  <2>2. k.token \in Tokens
    BY <2>1 DEF CallInv, CallOK, ChainInv
  <2>3. a \in Users \cup {None} /\ ps \in SUBSET Permissions
    BY <2>2, ClaimsAssumption DEF Granted, CallInv
  <2> HIDE DEF a, ps
  <2>4. r \in Call /\ r.method = k.method /\ r.ip = k.ip /\ r.name = k.name
    BY <1>0, <2>3 DEF Call
  <2> HIDE DEF r
  <2>5. CASE Put(c, Enter(r, "post_auth"))
    BY <1>3, <2>1, <2>4, <2>5
  <2> QED
    BY <1>1, <2>1, <2>5 DEF AnswerCodes
<1>10. CASE PermissionInterceptor(c)
  <2>1. /\ k.pc = "permit"
        /\ \/ GoTo(c, "handler") \/ Answer(c, "Unauthenticated") \/ Answer(c, "PermissionDenied")
    BY <1>10 DEF PermissionInterceptor, Denied
  <2> QED
    BY <1>1, <1>2, <2>1 DEF AnswerCodes, Early, Limits
<1> QED
  BY <1>4, <1>5, <1>6, <1>7, <1>8, <1>9, <1>10

\* The mapper's answer is one of the codes.
LEMMA MapErrorCode ==
  ASSUME NEW e
  PROVE  MapError(e) \in AnswerCodes
<1>1. fallbackCodeByGroup(e) \in {"Unauthenticated", "InvalidArgument", "PermissionDenied",
                                  "Internal"}
  BY DEF fallbackCodeByGroup
<1>2. mapAppErrorCode(e) \in {"InvalidArgument", "Unauthenticated", "PermissionDenied",
                              "NotFound", "AlreadyExists", "FailedPrecondition", "Internal"}
  BY <1>1 DEF mapAppErrorCode
<1> QED
  BY <1>2 DEF MapError, AnswerCodes

\* The service begins: what the call owed is served.
LEMMA ServingLimited ==
  ASSUME LimitInv, NEW c \in Callers, call[c].pc = "handler", Serving(c),
         UNCHANGED <<load, bucket, refills, errors, begun>>
  PROVE  LimitInv'
<1> DEFINE k == call[c]
           y == [k EXCEPT !.pc = "service"]
<1>0. k \in Call /\ RateOK(k) /\ Put(c, y)
  BY DEF LimitInv, Serving, GoTo
<1>1. y \in Call /\ y.pc = "service" /\ y.method = k.method
  BY <1>0 DEF Call, PC
<1> HIDE DEF y
<1>2. RateOK(y)
  BY <1>0, <1>1 DEF RateOK
<1>3. DOMAIN served' = Keys /\ \A x \in Keys : served'[x] = served[x] + One(Owes(k, x))
  <2>1. DOMAIN served = Keys
    BY DEF LimitInv, TablesInv
  <2>2. DOMAIN served' = Keys
    BY <2>1 DEF Serving
  <2>3. ASSUME NEW x \in Keys PROVE served'[x] = served[x] + One(Owes(k, x))
    <3>1. served[x] \in Nat
      BY KeyFacts DEF LimitInv
    <3>2. Owes(k, x) <=> load.enabled /\ x \in KeysOf(k.method) /\ x[3] = Charged(k)[x[2]]
      BY DEF Owes, Under
    <3>3. served'[x] = IF load.enabled /\ x \in KeysOf(k.method) /\ x[3] = Charged(k)[x[2]]
                       THEN served[x] + 1 ELSE served[x]
      BY <2>1 DEF Serving
    <3> QED
      BY <3>1, <3>2, <3>3 DEF One
  <2> QED
    BY <2>2, <2>3
<1>4. begun \in Nat
  BY WorkloadAssumption DEF LimitInv, TablesInv
<1>5. TablesInv'
  <2>1. ASSUME NEW x \in Keys PROVE served'[x] \in Nat
    BY <1>3, KeyFacts DEF LimitInv, One
  <2> QED
    BY <1>3, <2>1 DEF LimitInv, TablesInv, Keys
<1>6. One(y.pc \in Under) = 0 /\ One(k.pc \in Under) = 1
  BY <1>1 DEF One, Under
<1>7. ASSUME NEW x \in Keys
      PROVE  /\ served'[x] + One(Owes(y, x)) + bucket'[x] - Lenience'
                  <= served[x] + One(Owes(k, x)) + bucket[x] - Lenience
             /\ served'[x] + One(y.pc \in Under) - begun'
                  <= served[x] + One(k.pc \in Under) - begun
  <2>1. bucket[x] \in Nat /\ served[x] \in Nat /\ Lenience \in Nat
    BY KeyFacts, BoundAssumption DEF LimitInv
  <2>2. One(Owes(y, x)) = 0 /\ One(Owes(k, x)) \in {0, 1}
    BY <1>1 DEF One, Owes, Under
  <2>3. served'[x] = served[x] + One(Owes(k, x)) /\ bucket'[x] = bucket[x] /\ begun' = begun
        /\ Lenience' = Lenience
    BY <1>3 DEF Lenience
  <2> QED
    BY <1>4, <1>6, <2>1, <2>2, <2>3
<1>8. One(y.pc \in Under) - begun' <= One(k.pc \in Under) - begun
  BY <1>4, <1>6
<1> QED
  BY <1>0, <1>2, <1>5, <1>7, <1>8, CallMoves

LEMMA ServeLimited ==
  ASSUME CallInv, LimitInv, NEW c \in Callers, Handle(c) \/ Serve(c) \/ Recover(c) \/ Return(c)
  PROVE  LimitInv'
<1> DEFINE k == call[c]
<1>0. k \in Call /\ RateOK(k)
  BY DEF LimitInv
<1>1. CASE Handle(c)
  <2>1. /\ k.pc = "handler" /\ UNCHANGED <<load, bucket, refills, errors, begun>>
        /\ \/ Answer(c, "Unknown") /\ UNCHANGED served
           \/ Answer(c, "InvalidArgument") /\ UNCHANGED served
           \/ Serving(c)
    BY <1>1 DEF Handle
  <2> QED
    BY <2>1, AnswersLimited, ServingLimited DEF AnswerCodes
<1>2. CASE Serve(c)
  <2>1. k.pc = "service" /\ UNCHANGED <<load, bucket, refills, errors, begun, served>>
    BY <1>2 DEF Serve
  <2>2. k.method \in Methods
    BY <1>0, <2>1, WorkloadAssumption DEF RateOK, LimitInv, TablesInv
  <2>3. PICK e \in Outcomes(k) :
          Put(c, IF e = "panic" THEN [k EXCEPT !.pc = "panic", !.error = e]
                 ELSE [k EXCEPT !.pc = "done", !.error = e, !.code = MapError(e)])
    BY <1>2 DEF Serve
  <2>4. e \in AppErrors \cup {"raw", "panic", None}
    <3>1. load \in Workloads /\ k.defect \in DefectsOf(k.method) /\ k.defect \notin {"shape", "date"}
      BY <2>1 DEF CallInv, CallOK, DefectInv, Validated
    <3>2. e \in Known \cup {"panic", None}
      BY <2>2, <2>3, <3>1, OutcomesExplained
    <3> QED
      BY <3>2, KnownErrors
  <2>5. PICK y : /\ Put(c, y) /\ y \in Call /\ y.pc \in {"panic", "done"} /\ y.method = k.method
    <3>1. CASE e = "panic"
      <4>1. [k EXCEPT !.pc = "panic", !.error = e] \in Call
        BY <1>0, <2>4 DEF Call, PC
      <4>2. /\ [k EXCEPT !.pc = "panic", !.error = e].pc = "panic"
            /\ [k EXCEPT !.pc = "panic", !.error = e].method = k.method
        BY <1>0 DEF Call
      <4> QED
        BY <2>3, <3>1, <4>1, <4>2
    <3>2. CASE e # "panic"
      <4> DEFINE m == MapError(e)
                 y == [k EXCEPT !.pc = "done", !.error = e, !.code = m]
      <4>1. m \in AnswerCodes
        BY MapErrorCode
      <4>2. Put(c, y)
        BY <2>3, <3>2
      <4> HIDE DEF m
      <4>3. y \in Call
        BY <1>0, <2>4, <4>1 DEF Call, PC
      <4>4. y.pc = "done" /\ y.method = k.method
        BY <1>0 DEF Call
      <4> HIDE DEF y
      <4> QED
        BY <4>2, <4>3, <4>4
    <3> QED
      BY <3>1, <3>2
  <2>6. RateOK(y) /\ y.pc \notin Under /\ \A x \in Keys : ~Owes(y, x)
    BY <1>0, <2>1, <2>5 DEF RateOK, Under, Owes
  <2> QED
    BY <2>1, <2>5, <2>6, MovesOn
<1>3. CASE Recover(c)
  BY <1>3, AnswersLimited DEF Recover, AnswerCodes
<1>4. CASE Return(c)
  <2>1. RateOK(Idle) /\ Idle.pc \notin Under /\ \A x \in Keys : ~Owes(Idle, x)
    BY IdleIsCall DEF RateOK, Under, Owes
  <2> QED
    BY <1>4, <2>1, MovesOn DEF Return
<1> QED
  BY <1>1, <1>2, <1>3, <1>4

\* What others do moves no call.
LEMMA OthersLimited ==
  ASSUME LimitInv, UNCHANGED <<load, bucket, refills, errors, begun, served>>,
         call' \in [Callers -> Call],
         \A d \in Callers : Kept(call[d], call'[d]) /\ call'[d].pc = call[d].pc
  PROVE  LimitInv'
<1>1. Keys' = Keys /\ TablesInv'
  BY DEF LimitInv, TablesInv, Keys
<1>2. Waiting' = Waiting
  BY DEF Waiting
<1>3. ASSUME NEW d \in Callers PROVE RateOK(call'[d])
  <2>1. RateOK(call[d]) /\ ChecksOf(call'[d]) = ChecksOf(call[d])
    BY DEF LimitInv, Kept, ChecksOf, ScopeValue
  <2> QED
    BY <2>1 DEF RateOK, Kept
<1>4. ASSUME NEW x PROVE Pending(x)' = Pending(x)
  <2>1. ASSUME NEW d \in Callers PROVE Owes(call[d], x) <=> Owes(call'[d], x)
    <3>1. Charged(call'[d]) = Charged(call[d])
      BY DEF Kept, Charged
    <3> QED
      BY <3>1 DEF Owes, Kept
  <2> QED
    BY <2>1 DEF Pending, Owes
<1>5. \A x \in Keys : Covered(x)' /\ Counted(x)'
  BY <1>2, <1>4 DEF LimitInv, Covered, Counted, Lenience
<1> QED
  BY <1>1, <1>2, <1>3, <1>5 DEF LimitInv, RateOK

\* A token comes back: there is one more to take, and one more to give back.
LEMMA RefillLimited ==
  ASSUME LimitInv, NEW a \in DOMAIN bucket, Refill(a)
  PROVE  LimitInv'
<1>1. a \in Keys /\ Keys' = Keys
  BY DEF LimitInv, TablesInv, Refill, Keys
<1>2. /\ bucket[a] < Burst[a[1]]
      /\ bucket' = [bucket EXCEPT ![a] = @ + 1] /\ refills' = [refills EXCEPT ![a] = @ + 1]
      /\ UNCHANGED <<load, errors, begun, served, call>>
  BY DEF Refill
<1>3. /\ Burst[a[1]] \in Nat /\ bucket[a] \in 0..Burst[a[1]]
      /\ Limit[a[1]] \in Nat /\ refills[a] \in 0..Limit[a[1]]
  BY <1>1, KeyFacts, BoundAssumption DEF LimitInv
<1>4. refills[a] < Limit[a[1]]
  <2> DEFINE l == Limit[a[1]]
             r == load.refills
  <2>1. refills[a] < Min({l, r}) /\ l \in Nat /\ r \in Nat
    BY <1>3, WorkloadAssumption DEF Refill, LimitInv, TablesInv
  <2> HIDE DEF l, r
  <2>2. \E z \in {l, r} : \A y \in {l, r} : z <= y
    BY <2>1
  <2>3. Min({l, r}) \in {l, r} /\ Min({l, r}) <= l
    BY <2>2 DEF Min
  <2>4. refills[a] < l
    BY <1>3, <2>1, <2>3
  <2> QED
    BY <2>4 DEF l
<1>5. ASSUME NEW x \in Keys
      PROVE  /\ bucket'[x] = bucket[x] + One(x = a) /\ refills'[x] = refills[x] + One(x = a)
             /\ bucket'[x] \in 0..Burst[x[1]] /\ refills'[x] \in 0..Limit[x[1]]
             /\ bucket[x] \in Nat /\ refills[x] \in Nat
  <2>1. /\ Burst[x[1]] \in Nat /\ bucket[x] \in 0..Burst[x[1]]
        /\ Limit[x[1]] \in Nat /\ refills[x] \in 0..Limit[x[1]]
    BY KeyFacts, BoundAssumption DEF LimitInv
  <2>2. x \in DOMAIN bucket /\ x \in DOMAIN refills
    BY DEF LimitInv, TablesInv
  <2>3. CASE x = a
    BY <1>2, <1>3, <1>4, <2>1, <2>2, <2>3 DEF One
  <2>4. CASE x # a
    BY <1>2, <2>1, <2>2, <2>4 DEF One
  <2> QED
    BY <2>3, <2>4
<1>6. TablesInv'
  <2>1. DOMAIN bucket' = Keys /\ DOMAIN refills' = Keys
    BY <1>2 DEF LimitInv, TablesInv
  <2> QED
    BY <1>1, <1>2, <1>5, <2>1 DEF LimitInv, TablesInv
<1>7. Waiting' = Waiting /\ Lenience' = Lenience
  BY <1>2 DEF Waiting, Lenience
<1>8. ASSUME NEW x \in Keys PROVE Covered(x)' /\ Counted(x)'
  <2>1. Pending(x)' = Pending(x)
    BY <1>2 DEF Pending, Owes
  <2> DEFINE p == Cardinality(Pending(x))
  <2>2. p \in Nat
    BY CallersAssumption, FS_Subset, FS_CardinalityType DEF Pending
  <2>3. served[x] + p <= Burst[x[1]] - bucket[x] + refills[x] + Lenience
    BY DEF LimitInv, Covered
  <2>4. served[x] \in Nat /\ Burst[x[1]] \in Nat /\ Lenience \in Nat
    BY KeyFacts, BoundAssumption DEF LimitInv
  <2>5. /\ bucket'[x] = bucket[x] + One(x = a) /\ refills'[x] = refills[x] + One(x = a)
        /\ bucket[x] \in Nat /\ refills[x] \in Nat /\ One(x = a) \in Nat
    BY <1>5 DEF One
  <2> HIDE DEF p
  <2>6. served[x] + p <= Burst[x[1]] - bucket'[x] + refills'[x] + Lenience
    BY <2>2, <2>3, <2>4, <2>5
  <2>7. Covered(x)'
    BY <1>2, <1>7, <2>1, <2>6 DEF Covered, p
  <2>8. Counted(x)'
    BY <1>2, <1>7 DEF LimitInv, Counted
  <2> QED
    BY <2>7, <2>8
<1> QED
  BY <1>1, <1>2, <1>6, <1>7, <1>8 DEF LimitInv, RateOK

LEMMA LimitStep == CallInv /\ LimitInv /\ [Next]_vars => LimitInv'
<1> SUFFICES ASSUME CallInv, LimitInv, [Next]_vars PROVE LimitInv'
  OBVIOUS
<1>1. ASSUME NEW c \in Callers, Step(c) PROVE LimitInv'
  BY <1>1, AllowLimited, ErrorLimited, ChainLimited, ServeLimited DEF Step
<1>2. ASSUME NEW r \in Roles, NEW perm, ChangeGrants(r, perm) PROVE LimitInv'
  <2>1. ASSUME NEW d \in Callers
        PROVE  Kept(call[d], call'[d]) /\ call'[d].pc = call[d].pc
    <3> DEFINE k == call[d]
               a == Allowed(k.method, k.token, grants')
               h == k.held \/ a
               y == [k EXCEPT !.held = h]
    <3>1. call'[d] = y
      BY <1>2 DEF ChangeGrants
    <3>2. k \in Call
      BY DEF LimitInv
    <3>3. h \in BOOLEAN
      BY <3>2 DEF Call, Allowed
    <3> HIDE DEF h
    <3>4. Kept(k, y) /\ y.pc = k.pc
      BY <3>2, <3>3 DEF Kept, Call
    <3> QED
      BY <3>1, <3>4
  <2>2. call' \in [Callers -> Call]
    BY <1>2, <2>1 DEF ChangeGrants, Kept
  <2> QED
    BY <1>2, <2>1, <2>2, OthersLimited DEF ChangeGrants
<1>3. ASSUME UNCHANGED <<load, bucket, refills, errors, begun, served, call>> PROVE LimitInv'
  BY <1>3, OthersLimited DEF LimitInv, Kept
<1>4. CASE \E r \in Roles : DropRole(r)
  BY <1>3, <1>4 DEF DropRole
<1>5. CASE \E t \in Tokens : EndToken(t)
  BY <1>3, <1>5 DEF EndToken
<1>6. CASE UNCHANGED vars
  BY <1>3, <1>6 DEF vars
<1> QED
  BY <1>1, <1>2, <1>4, <1>5, <1>6, BeginsLimited, RefillLimited DEF Next, Others

\* No more services run under a key than its bucket holds and the limiter has
\* given back, and with FailOpen one more for each error of the limiter: a
\* token is taken for every service under each of its keys, whatever else the
\* call meets on its way.
THEOREM LimitsHold == Spec => []LimitHolds
<1>1. LimitInv => LimitHolds
  <2> SUFFICES ASSUME LimitInv, NEW x \in DOMAIN served
               PROVE  served[x] <= Burst[x[1]] + refills[x] + (IF load.failOpen THEN errors ELSE 0)
    BY DEF LimitHolds
  <2>1. x \in Keys
    BY DEF LimitInv, TablesInv
  <2>2. /\ Burst[x[1]] \in Nat /\ bucket[x] \in Nat /\ served[x] \in Nat /\ Lenience \in Nat
        /\ refills[x] \in Nat
    BY <2>1, KeyFacts, BoundAssumption DEF LimitInv
  <2>3. Cardinality(Pending(x)) \in Nat
    BY CallersAssumption, FS_Subset, FS_CardinalityType DEF Pending
  <2>4. served[x] + Cardinality(Pending(x)) <= Burst[x[1]] - bucket[x] + refills[x] + Lenience
    BY <2>1 DEF LimitInv, Covered
  <2>5. served[x] <= Burst[x[1]] + refills[x] + Lenience
    BY <2>2, <2>3, <2>4
  <2> QED
    BY <2>5 DEF Lenience
<1> QED
  BY <1>1, CallInit, CallStep, LimitInit, LimitStep, PTL DEF Spec

\* The types: no bucket is overdrawn, and no service runs that no call began.
THEOREM CallsTyped == Spec => []TypeOK
<1>1. CallInv /\ LimitInv => TypeOK
  <2> SUFFICES ASSUME CallInv, LimitInv PROVE TypeOK
    OBVIOUS
  <2>1. Cardinality(Waiting) \in Nat
    BY CallersAssumption, FS_Subset, FS_CardinalityType DEF Waiting
  <2>2. ASSUME NEW x \in DOMAIN bucket
        PROVE  /\ bucket[x] \in 0..Burst[x[1]] /\ refills[x] \in 0..Limit[x[1]]
               /\ served[x] \in 0..begun
    <3>1. x \in Keys
      BY DEF LimitInv, TablesInv
    <3>2. /\ bucket[x] \in 0..Burst[x[1]] /\ refills[x] \in 0..Limit[x[1]]
          /\ served[x] \in Nat /\ begun \in Nat
      BY <3>1, KeyFacts DEF LimitInv
    <3>3. served[x] + Cardinality(Waiting) <= begun
      BY <3>1 DEF LimitInv, Counted
    <3> QED
      BY <2>1, <3>2, <3>3
  <2> QED
    BY <2>2 DEF TypeOK, CallInv, LimitInv, TablesInv
<1> QED
  BY <1>1, CallInit, CallStep, LimitInit, LimitStep, PTL DEF Spec
=============================================================================
