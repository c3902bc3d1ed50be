------------------------------ MODULE Sessions ------------------------------
(***************************************************************************)
(* Sessions and refresh tokens of the portal backend: LogIn, Refresh,      *)
(* handleRefreshTokenReuse, Logout and LogoutAll of                        *)
(* internal/service/auth.go, the tables auth_sessions and refresh_tokens,  *)
(* the revocation store in Redis and Authenticator.Authenticate.           *)
(*                                                                         *)
(* A request is a process whose database statements interleave with those  *)
(* of every other request. Transactions run at Postgres's default level,   *)
(* READ COMMITTED: a statement sees what was committed when it began, an   *)
(* UPDATE waits for the rows it found that another transaction has written *)
(* and then checks its WHERE clause again, so that rows committed in the   *)
(* meantime escape it. An UPDATE of several rows is therefore two steps.   *)
(*                                                                         *)
(* Time is the set of sessions that have expired. Refresh caps the expiry  *)
(* of a token at its session's, which is a full refresh TTL after the      *)
(* login, so a token expires with its session.                             *)
(***************************************************************************)
EXTENDS Naturals, FiniteSets

CONSTANTS
  Procs,      \* requests in flight at one time
  Sessions, NoSession,
  Tokens, NoToken,     \* refresh tokens
  Owner,      \* the user that each session belongs to
  Faults      \* the failures that may happen: see FaultKinds

FaultKinds == {
  "fail",   \* a statement fails, or the process crashes: the request ends
  "redis"}  \* a call of Redis fails

ASSUME NoSessionAssumption == NoSession \notin Sessions
ASSUME NoTokenAssumption   == NoToken \notin Tokens
ASSUME OwnerAssumption     == DOMAIN Owner = Sessions
ASSUME FaultsAssumption    == Faults \subseteq FaultKinds

VARIABLES
  session,   \* auth_sessions: "none" before the INSERT, "active", "revoked"
  expired,   \* the sessions whose expires_at has passed
  token,     \* refresh_tokens
  redis,     \* the sessions with a key revoked_session:<id>
  issued,    \* the sessions for which a login has returned an access token
  req        \* what each request is doing

vars == <<session, expired, token, redis, issued, req>>

SessionState == {"none", "active", "revoked"}

\* session is NoSession before the INSERT.
TokenRow == [session: Sessions \cup {NoSession}, revoked: BOOLEAN,
             replacedBy: Tokens \cup {NoToken}]

PC == {"idle", "login_token",
       "auth_db", "granted",
       "refresh_check", "refresh_revoke", "refresh_commit",
       "reuse", "sessions", "sessions_wait", "tokens", "tokens_wait", "mark"}

Kind == {"none", "logout", "logout_all", "reuse"}

Request == [
  pc: PC,
  kind: Kind,                         \* which revocation, if it is one
  session: Sessions \cup {NoSession}, \* the session it is about
  token: Tokens \cup {NoToken},       \* the refresh token it was given
  seen: SUBSET Sessions,    \* active sessions read before the transaction
  snapS: SUBSET Sessions,   \* rows the UPDATE of auth_sessions has found
  snapT: SUBSET Tokens,     \* rows the UPDATE of refresh_tokens has found
  holdS: SUBSET Sessions,   \* rows written and not yet committed
  holdT: SUBSET Tokens,
  late: BOOLEAN]  \* history: its session was revoked before it began

Idle == [pc |-> "idle", kind |-> "none", session |-> NoSession,
         token |-> NoToken, seen |-> {}, snapS |-> {}, snapT |-> {},
         holdS |-> {}, holdT |-> {}, late |-> FALSE]

Init ==
  /\ session = [s \in Sessions |-> "none"]
  /\ expired = {}
  /\ token = [t \in Tokens |-> [session |-> NoSession, revoked |-> FALSE,
                                replacedBy |-> NoToken]]
  /\ redis = {}
  /\ issued = {}
  /\ req = [p \in Procs |-> Idle]

-----------------------------------------------------------------------------
Begin(p, r) == req[p].pc = "idle" /\ req' = [req EXCEPT ![p] = r]

\* Mutant: the locks of the transaction are not released.
EndLeaky(p) ==
  req' = [req EXCEPT ![p] = [Idle EXCEPT !.holdS = req[p].holdS,
                                         !.holdT = req[p].holdT]]

End(p) == req' = [req EXCEPT ![p] = Idle]
GoTo(p, pc) == req' = [req EXCEPT ![p].pc = pc]

IsActive(s) == session[s] = "active" /\ s \notin expired   \* FindActiveByID
Exists(t) == token[t].session # NoSession
Live(t) == Exists(t) /\ ~token[t].revoked

\* Bound: a request that will insert a token begins only while one is left.
TokensLeft ==
  LET inserting == {p \in Procs : req[p].pc \in {"login_token", "refresh_check",
                                                "refresh_revoke", "refresh_commit"}}
  IN  Cardinality({t \in Tokens : ~Exists(t)}) > Cardinality(inserting)

\* Mutant: the new row's replaced_by_token_id is not a token's.
NewTokenBadReplacement(s) == [session |-> s, revoked |-> FALSE, replacedBy |-> s]

NewToken(s) == [session |-> s, revoked |-> FALSE, replacedBy |-> NoToken]

\* Rows written by an open transaction of another request.
LockedSession(p, s) == \E q \in Procs \ {p} : s \in req[q].holdS
LockedToken(p, t) == \E q \in Procs \ {p} : t \in req[q].holdT

-----------------------------------------------------------------------------
(* LogIn, once the credentials are accepted. sessionRepo.Create is called  *)
(* with the outer context: the session is committed on its own.            *)

LogInSession(p, s) ==
  /\ TokensLeft
  /\ session[s] = "none"
  /\ session' = [session EXCEPT ![s] = "active"]
  /\ Begin(p, [Idle EXCEPT !.pc = "login_token", !.session = s])
  /\ UNCHANGED <<expired, token, redis, issued>>

LogInToken(p) ==
  /\ req[p].pc = "login_token"
  /\ \E t \in Tokens :
       /\ ~Exists(t)
       /\ token' = [token EXCEPT ![t] = NewToken(req[p].session)]
  /\ issued' = issued \cup {req[p].session}
  /\ End(p)
  /\ UNCHANGED <<session, expired, redis>>

-----------------------------------------------------------------------------
(* Authenticate, for an access token of session s. A failing Redis is only *)
(* logged.                                                                 *)

AuthIsRevoked(p, s) ==
  /\ s \in issued
  /\ s \notin redis \/ "redis" \in Faults
  /\ Begin(p, [Idle EXCEPT !.pc = "auth_db", !.session = s,
                           !.late = (session[s] = "revoked")])
  /\ UNCHANGED <<session, expired, token, redis, issued>>

\* Mutant: Authenticate relies on Redis alone.
AuthRedisOnly(p) ==
  /\ req[p].pc = "auth_db"
  /\ GoTo(p, "granted")
  /\ UNCHANGED <<session, expired, token, redis, issued>>

AuthFindActive(p) ==
  /\ req[p].pc = "auth_db"
  /\ IF IsActive(req[p].session) THEN GoTo(p, "granted") ELSE End(p)
  /\ UNCHANGED <<session, expired, token, redis, issued>>

\* Any authenticated call that is neither Logout nor LogoutAll.
Serve(p) ==
  /\ req[p].pc = "granted"
  /\ End(p)
  /\ UNCHANGED <<session, expired, token, redis, issued>>

-----------------------------------------------------------------------------
(* Refresh *)

RefreshFind(p, t) ==
  /\ Exists(t)
  /\ LET s == token[t].session
     IN  \/ /\ token[t].revoked
            /\ Begin(p, [Idle EXCEPT !.pc = "reuse", !.kind = "reuse",
                                     !.session = s])
         \/ /\ ~token[t].revoked
            /\ s \notin expired
            /\ TokensLeft
            /\ Begin(p, [Idle EXCEPT !.pc = "refresh_check",
                                     !.session = s, !.token = t,
                                     !.late = (session[s] = "revoked")])
  /\ UNCHANGED <<session, expired, token, redis, issued>>

\* The session is no longer active, or the user was deleted: the call fails.
RefreshCheck(p) ==
  /\ req[p].pc = "refresh_check"
  /\ \/ IsActive(req[p].session) /\ GoTo(p, "refresh_revoke")
     \/ End(p)
  /\ UNCHANGED <<session, expired, token, redis, issued>>

\* Mutant: RevokeByID is called with the outer context, as LogIn calls Create,
\* and is committed on its own.
RefreshRevokeOuter(p) ==
  /\ req[p].pc = "refresh_revoke"
  /\ ~LockedToken(p, req[p].token)
  /\ IF token[req[p].token].revoked
     THEN End(p) /\ UNCHANGED token
     ELSE GoTo(p, "refresh_commit") /\ token' = [token EXCEPT ![req[p].token].revoked = TRUE]
  /\ UNCHANGED <<session, expired, redis, issued>>

\* RevokeByID inside the transaction: no row matches when another request
\* has revoked the token since, and the transaction is rolled back.
RefreshRevoke(p) ==
  /\ req[p].pc = "refresh_revoke"
  /\ ~LockedToken(p, req[p].token)
  /\ IF token[req[p].token].revoked
     THEN End(p)
     ELSE req' = [req EXCEPT ![p].pc = "refresh_commit",
                             ![p].holdT = {req[p].token}]
  /\ UNCHANGED <<session, expired, token, redis, issued>>

\* Mutant: MarkReplacement is left out.
RefreshCommitUnlinked(p) ==
  /\ req[p].pc = "refresh_commit"
  /\ \E n \in Tokens :
       /\ ~Exists(n)
       /\ token' = [token EXCEPT ![n] = NewToken(req[p].session),
                                 ![req[p].token].revoked = TRUE]
  /\ End(p)
  /\ UNCHANGED <<session, expired, redis, issued>>

\* Create, MarkReplacement and the commit.
RefreshCommit(p) ==
  /\ req[p].pc = "refresh_commit"
  /\ \E n \in Tokens :
       /\ ~Exists(n)
       /\ token' = [token EXCEPT ![n] = NewToken(req[p].session),
                                 ![req[p].token].revoked = TRUE,
                                 ![req[p].token].replacedBy = n]
  /\ End(p)
  /\ UNCHANGED <<session, expired, redis, issued>>

-----------------------------------------------------------------------------
(* Logout, LogoutAll and handleRefreshTokenReuse: read the active sessions, *)
(* revoke sessions and tokens in one transaction, then tell Redis.          *)

ActiveOf(s) == {r \in Sessions : Owner[r] = Owner[s] /\ IsActive(r)}

Logout(p) ==
  LET s == req[p].session IN
  /\ req[p].pc = "granted"
  /\ IF IsActive(s)
     THEN req' = [req EXCEPT ![p].pc = "sessions", ![p].kind = "logout",
                             ![p].seen = {s}]
     ELSE End(p)
  /\ UNCHANGED <<session, expired, token, redis, issued>>

LogoutAll(p) ==
  /\ req[p].pc = "granted"
  /\ req' = [req EXCEPT ![p].pc = "sessions", ![p].kind = "logout_all",
                        ![p].seen = ActiveOf(req[p].session)]
  /\ UNCHANGED <<session, expired, token, redis, issued>>

HandleReuse(p) ==
  /\ req[p].pc = "reuse"
  /\ req' = [req EXCEPT ![p].pc = "sessions",
                        ![p].seen = ActiveOf(req[p].session)]
  /\ UNCHANGED <<session, expired, token, redis, issued>>

\* RevokeByID, or RevokeAllByUserID: the rows the UPDATE finds ...
RevokeSessionsFind(p) ==
  /\ req[p].pc = "sessions"
  /\ req' = [req EXCEPT
       ![p].pc = "sessions_wait",
       ![p].snapS = IF req[p].kind = "logout"
                    THEN {s \in {req[p].session} : session[s] = "active"}
                    ELSE ActiveOf(req[p].session)]
  /\ UNCHANGED <<session, expired, token, redis, issued>>

\* Mutant: rows that another transaction has written are skipped.
RevokeSessionsSkipLocked(p) ==
  /\ req[p].pc = "sessions_wait"
  /\ req' = [req EXCEPT ![p].pc = "tokens", ![p].snapS = {},
                        ![p].holdS = {s \in req[p].snapS :
                                        session[s] = "active" /\ ~LockedSession(p, s)}]
  /\ UNCHANGED <<session, expired, token, redis, issued>>

\* ... and the ones it writes. None is no error here.
RevokeSessions(p) ==
  /\ req[p].pc = "sessions_wait"
  /\ \A s \in req[p].snapS : ~LockedSession(p, s)
  /\ req' = [req EXCEPT ![p].pc = "tokens", ![p].snapS = {},
                        ![p].holdS = {s \in req[p].snapS : session[s] = "active"}]
  /\ UNCHANGED <<session, expired, token, redis, issued>>

\* RevokeBySessionID, or RevokeByUserID.
RevokeTokensFind(p) ==
  LET InScope(t) == IF req[p].kind = "logout"
                    THEN token[t].session = req[p].session
                    ELSE Owner[token[t].session] = Owner[req[p].session]
  IN  /\ req[p].pc = "tokens"
      /\ req' = [req EXCEPT ![p].pc = "tokens_wait",
                            ![p].snapT = {t \in Tokens : Live(t) /\ InScope(t)}]
      /\ UNCHANGED <<session, expired, token, redis, issued>>

\* Without a row to write, Logout and LogoutAll roll back and fail;
\* handleRefreshTokenReuse goes on. Otherwise the transaction commits.
RevokeTokens(p) ==
  LET hit == {t \in req[p].snapT : Live(t)} IN
  /\ req[p].pc = "tokens_wait"
  /\ \A t \in req[p].snapT : ~LockedToken(p, t)
  /\ \/ /\ hit = {} /\ req[p].kind # "reuse"
        /\ End(p)
        /\ UNCHANGED <<session, token>>
     \/ /\ hit # {} \/ req[p].kind = "reuse"
        /\ session' = [s \in Sessions |-> IF s \in req[p].holdS THEN "revoked"
                                                               ELSE session[s]]
        /\ token' = [t \in Tokens |-> IF t \in hit
                                      THEN [token[t] EXCEPT !.revoked = TRUE]
                                      ELSE token[t]]
        /\ req' = [req EXCEPT ![p] = [Idle EXCEPT !.pc = "mark",
                                                  !.seen = req[p].seen]]
  /\ UNCHANGED <<expired, redis, issued>>

\* Mutant: the key is set whatever the time to live.
MarkRevokedAlways(p, s) ==
  /\ req[p].pc = "mark"
  /\ s \in req[p].seen
  /\ redis' = redis \cup {s}
  /\ req' = [req EXCEPT ![p].seen = @ \ {s}]
  /\ UNCHANGED <<session, expired, token, issued>>

\* MarkRevoked: nothing is stored for a session that has expired, and an
\* error is only logged.
MarkRevoked(p, s) ==
  /\ req[p].pc = "mark"
  /\ s \in req[p].seen
  /\ \/ redis' = IF s \in expired THEN redis ELSE redis \cup {s}
     \/ "redis" \in Faults /\ UNCHANGED redis
  /\ req' = [req EXCEPT ![p].seen = @ \ {s}]
  /\ UNCHANGED <<session, expired, token, issued>>

MarkDone(p) ==
  /\ req[p].pc = "mark"
  /\ req[p].seen = {}
  /\ End(p)
  /\ UNCHANGED <<session, expired, token, redis, issued>>

-----------------------------------------------------------------------------
(* Failures and time *)

\* The request ends where it is; an open transaction is rolled back.
Fail(p) ==
  /\ "fail" \in Faults
  /\ req[p].pc # "idle"
  /\ End(p)
  /\ UNCHANGED <<session, expired, token, redis, issued>>

\* expires_at passes; it is also when the key in Redis expires.
SessionExpires(s) ==
  /\ session[s] # "none"
  /\ s \notin expired
  /\ expired' = expired \cup {s}
  /\ redis' = redis \ {s}
  /\ UNCHANGED <<session, token, issued, req>>

\* The next statement of a request that has begun.
Step(p) ==
  \/ LogInToken(p)
  \/ AuthFindActive(p) \/ Serve(p)
  \/ RefreshCheck(p) \/ RefreshRevoke(p) \/ RefreshCommit(p)
  \/ Logout(p) \/ LogoutAll(p) \/ HandleReuse(p)
  \/ RevokeSessionsFind(p) \/ RevokeSessions(p)
  \/ RevokeTokensFind(p) \/ RevokeTokens(p)
  \/ \E s \in Sessions : MarkRevoked(p, s)
  \/ MarkDone(p)

Start(p) ==
  \/ \E s \in Sessions : LogInSession(p, s) \/ AuthIsRevoked(p, s)
  \/ \E t \in Tokens : RefreshFind(p, t)

Next ==
  \/ \E p \in Procs : Start(p) \/ Step(p) \/ Fail(p)
  \/ \E s \in Sessions : SessionExpires(s)

Spec == Init /\ [][Next]_vars

-----------------------------------------------------------------------------
(* Properties *)

\* The tables, Redis and the requests are well formed.
TypeOK ==
  /\ session \in [Sessions -> SessionState]
  /\ expired \subseteq Sessions
  /\ token \in [Tokens -> TokenRow]
  /\ redis \subseteq Sessions
  /\ issued \subseteq Sessions
  /\ req \in [Procs -> Request]

\* The tokens of a session form one chain that starts at its login: a token
\* has at most one successor, of the same session, and was revoked when it
\* was replaced, so at most one is live. Two requests that both rotated one
\* token would leave two tokens without a predecessor.
Replaced(t) == \E u \in Tokens : token[u].replacedBy = t

OneChain ==
  /\ \A t \in Tokens : token[t].replacedBy # NoToken =>
       /\ token[t].revoked
       /\ token[token[t].replacedBy].session = token[t].session
  /\ \A t, u \in Tokens :
       /\ token[t].replacedBy = token[u].replacedBy
       /\ token[t].replacedBy # NoToken
       => t = u
  /\ \A t, u \in Tokens :
       /\ Exists(t) /\ ~Replaced(t)
       /\ Exists(u) /\ ~Replaced(u)
       /\ token[t].session = token[u].session
       => t = u

\* A key in Redis is never wrong: it is set only for sessions whose
\* revocation is committed, although Logout, LogoutAll and the reuse handler
\* choose the keys from what they read before their transaction.
RedisSound == \A s \in redis : session[s] = "revoked"

\* LogoutAll and the handler of a reused refresh token revoke every session
\* they saw, whatever the requests that ran in the meantime committed or
\* rolled back; Logout revokes its own.
RevocationComplete ==
  \A p \in Procs : req[p].pc = "mark" =>
    \A s \in req[p].seen : session[s] = "revoked" \/ s \in expired

\* A request that begins after the revocation of its session has committed
\* is refused by Authenticate and by Refresh, even when Redis has no key or
\* fails, and even when a Refresh that began earlier has left a live token.
RevokedIsRefused ==
  \A p \in Procs : req[p].late => req[p].pc \in {"auth_db", "refresh_check"}

\* Transactions that wait for each other's rows never all wait: while one waits
\* another, that has begun, can take its next step. Logout, LogoutAll and the
\* reuse handler hold rows of auth_sessions while they wait for rows of
\* refresh_tokens, which a Refresh holds.
Waits(p) ==
  \/ req[p].pc = "refresh_revoke" /\ LockedToken(p, req[p].token)
  \/ req[p].pc = "sessions_wait" /\ \E s \in req[p].snapS : LockedSession(p, s)
  \/ req[p].pc = "tokens_wait" /\ \E t \in req[p].snapT : LockedToken(p, t)

NoStandstill ==
  (\E p \in Procs : Waits(p)) => \E q \in Procs : req[q].pc # "idle" /\ ~Waits(q)

\* An active session without a live refresh token can be neither refreshed nor
\* logged out: Logout finds no token and rolls back (auth.go:690). Once a login
\* has given it one, a session keeps one through every rotation, failure and
\* revocation, until it is revoked or expires: Refresh and Logout change
\* sessions and tokens together, whatever they overlap with. The exception is
\* a user-wide revocation that read the active sessions before this login and
\* finds its token after it (auth.go:641).
HasLiveToken(s) == \E t \in Tokens : Live(t) /\ token[t].session = s

Overtakes(p, s) ==
  /\ req[p].pc = "tokens_wait" /\ req'[p].pc = "mark" /\ req[p].kind # "logout"
  /\ Owner[s] = Owner[req[p].session] /\ s \notin req[p].seen

TokenStays ==
  [][\A s \in Sessions :
       IsActive(s) /\ HasLiveToken(s) =>
         HasLiveToken(s)' \/ session'[s] = "revoked" \/ \E p \in Procs : Overtakes(p, s)]_vars
=============================================================================
