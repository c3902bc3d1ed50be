--------------------------- MODULE SessionsProofs ---------------------------
(***************************************************************************)
(* Proofs about Sessions, for any number of requests, users, sessions and  *)
(* tokens. Each invariant is inductive relative to the ones before it:     *)
(* TypeInv; LockInv (who holds row locks, and that no token has two        *)
(* holders); RootInv (tokens and requests belong to sessions that exist);  *)
(* ChainInv (one login gives a session its first token, and the            *)
(* Refresh that holds a token is about a live one); LateInv (a request     *)
(* that began after a revocation has not passed its check); SeenInv (what  *)
(* a revocation has read, or locked, is revoked when it marks it in        *)
(* Redis). Grows says once what no step undoes.                            *)
(***************************************************************************)
EXTENDS Sessions, TLAPS

Refreshing == {"refresh_check", "refresh_revoke", "refresh_commit"}
Revoking == {"sessions", "sessions_wait", "tokens", "tokens_wait"}
Serving == {"login_token", "auth_db", "granted", "reuse"} \cup Refreshing \cup Revoking

\* A request that is under way is about a session, and a Refresh about a token.
Named ==
  \A p \in Procs :
    /\ req[p].pc \in Serving => req[p].session \in Sessions
    /\ req[p].pc \in Refreshing => req[p].token \in Tokens

TypeInv == TypeOK /\ Named

LEMMA IdleType == Idle \in Request /\ Idle.pc = "idle"
BY DEF Idle, Request, PC, Kind

LEMMA TypeInit == Init => TypeInv
BY IdleType DEF Init, TypeInv, TypeOK, Named, SessionState, TokenRow, Serving, Refreshing, Revoking

\* A request takes its next step, or ends.
LEMMA RequestType ==
  ASSUME TypeInv, NEW p \in Procs, NEW r \in Request,
         r.pc \in Serving => r.session \in Sessions,
         r.pc \in Refreshing => r.token \in Tokens,
         req' = [req EXCEPT ![p] = r]
  PROVE  req' \in [Procs -> Request] /\ Named'
BY DEF TypeInv, TypeOK, Named

LEMMA EndType ==
  ASSUME TypeInv, NEW p \in Procs, End(p)
  PROVE  req' \in [Procs -> Request] /\ Named'
BY IdleType, RequestType DEF End, Serving, Refreshing, Revoking

LEMMA TypeStep == TypeInv /\ [Next]_vars => TypeInv'
<1> SUFFICES ASSUME TypeInv, [Next]_vars PROVE TypeInv'
  OBVIOUS
<1> USE DEF TypeInv
<1>1. ASSUME NEW p \in Procs, NEW s \in Sessions, LogInSession(p, s) PROVE TypeInv'
  <2> DEFINE r == [Idle EXCEPT !.pc = "login_token", !.session = s]
  <2>1. r \in Request /\ r.session = s /\ r.pc = "login_token"
    BY DEF Idle, Request, PC, Kind
  <2> HIDE DEF r
  <2>2. req' \in [Procs -> Request] /\ Named'
    BY <1>1, <2>1, RequestType DEF LogInSession, Begin, Refreshing, r
  <2> QED
    BY <1>1, <2>2 DEF TypeOK, LogInSession, SessionState
<1>2. ASSUME NEW p \in Procs, NEW s \in Sessions, AuthIsRevoked(p, s) PROVE TypeInv'
  <2> DEFINE r == [Idle EXCEPT !.pc = "auth_db", !.session = s,
                               !.late = (session[s] = "revoked")]
  <2>1. r \in Request /\ r.session = s /\ r.pc = "auth_db"
    BY DEF Idle, Request, PC, Kind
  <2> HIDE DEF r
  <2>2. req' \in [Procs -> Request] /\ Named'
    BY <1>2, <2>1, RequestType DEF AuthIsRevoked, Begin, Refreshing, r
  <2> QED
    BY <1>2, <2>2 DEF TypeOK, AuthIsRevoked
<1>3. ASSUME NEW p \in Procs, NEW t \in Tokens, RefreshFind(p, t) PROVE TypeInv'
  <2> DEFINE s == token[t].session
             r1 == [Idle EXCEPT !.pc = "reuse", !.kind = "reuse", !.session = s]
             r2 == [Idle EXCEPT !.pc = "refresh_check", !.session = s, !.token = t,
                                !.late = (session[s] = "revoked")]
  <2>1. s \in Sessions
    BY <1>3 DEF TypeOK, TokenRow, RefreshFind, Exists
  <2>2. /\ r1 \in Request /\ r1.session \in Sessions /\ r1.pc = "reuse"
        /\ r2 \in Request /\ r2.session \in Sessions /\ r2.token \in Tokens
    BY <2>1 DEF Request, Idle, PC, Kind
  <2>3. req' = [req EXCEPT ![p] = r1] \/ req' = [req EXCEPT ![p] = r2]
    BY <1>3 DEF RefreshFind, Begin
  <2> HIDE DEF r1, r2
  <2>4. req' \in [Procs -> Request] /\ Named'
    BY <2>2, <2>3, RequestType DEF Refreshing
  <2> QED
    BY <1>3, <2>4 DEF TypeOK, RefreshFind
<1>4. ASSUME NEW p \in Procs, LogInToken(p) PROVE TypeInv'
  <2>1. PICK t \in Tokens : token' = [token EXCEPT ![t] = NewToken(req[p].session)]
    BY <1>4 DEF LogInToken
  <2>2. req[p].session \in Sessions
    BY <1>4 DEF Named, Serving, LogInToken
  <2>3. token' \in [Tokens -> TokenRow]
    BY <2>1, <2>2 DEF TypeOK, NewToken, TokenRow
  <2> QED
    BY <1>4, <2>2, <2>3, EndType DEF TypeOK, LogInToken
<1>5. ASSUME NEW p \in Procs,
             \/ AuthFindActive(p) \/ Serve(p) \/ RefreshCheck(p)
             \/ RefreshRevoke(p) \/ Fail(p) \/ MarkDone(p)
      PROVE  TypeInv'
  <2>1. CASE End(p)
    BY <1>5, <2>1, EndType DEF TypeOK, AuthFindActive, Serve, RefreshCheck, RefreshRevoke,
       Fail, MarkDone
  <2>2. CASE ~End(p)
    <3>1. \/ req[p].pc = "auth_db" /\ GoTo(p, "granted")
          \/ req[p].pc = "refresh_check" /\ GoTo(p, "refresh_revoke")
          \/ /\ req[p].pc = "refresh_revoke"
             /\ req' = [req EXCEPT ![p].pc = "refresh_commit",
                                   ![p].holdT = {req[p].token}]
      BY <1>5, <2>2 DEF AuthFindActive, Serve, RefreshCheck, RefreshRevoke, Fail, MarkDone
    <3>2. req' \in [Procs -> Request] /\ Named'
      BY <3>1 DEF TypeOK, Named, Serving, Refreshing, Request, GoTo, PC
    <3> QED
      BY <1>5, <3>2 DEF TypeOK, AuthFindActive, Serve, RefreshCheck, RefreshRevoke,
         Fail, MarkDone
  <2> QED
    BY <2>1, <2>2
<1>7. ASSUME NEW p \in Procs, RefreshCommit(p) PROVE TypeInv'
  <2>1. PICK n \in Tokens :
          token' = [token EXCEPT ![n] = NewToken(req[p].session),
                                 ![req[p].token].revoked = TRUE,
                                 ![req[p].token].replacedBy = n]
    BY <1>7 DEF RefreshCommit
  <2>2. req[p].session \in Sessions /\ req[p].token \in Tokens
    BY <1>7 DEF Named, Serving, Refreshing, RefreshCommit
  <2> DEFINE tt == [token EXCEPT ![n] = NewToken(req[p].session)]
             u == req[p].token
             tu == [tt EXCEPT ![u].revoked = TRUE]
  <2>3. tt \in [Tokens -> TokenRow]
    BY <2>2 DEF TypeOK, TokenRow, NewToken
  <2>4. token' = [tu EXCEPT ![u].replacedBy = n]
    BY <2>1
  <2> HIDE DEF tt
  <2>5. tu \in [Tokens -> TokenRow]
    BY <2>2, <2>3 DEF TokenRow
  <2> HIDE DEF tu
  <2>6. token' \in [Tokens -> TokenRow]
    BY <2>2, <2>4, <2>5 DEF TokenRow
  <2> QED
    BY <1>7, <2>6, EndType DEF TypeOK, RefreshCommit
<1>8. ASSUME NEW p \in Procs, Logout(p) \/ LogoutAll(p) \/ HandleReuse(p) PROVE TypeInv'
  <2>1. CASE End(p)
    BY <1>8, <2>1, EndType DEF TypeOK, Logout, LogoutAll, HandleReuse
  <2>2. CASE ~End(p)
    <3>1. req[p].pc \in Serving /\ req[p].session \in Sessions
      BY <1>8 DEF Named, Serving, Logout, LogoutAll, HandleReuse
    <3>2. req' \in [Procs -> Request] /\ Named'
      BY <1>8, <2>2, <3>1
         DEF TypeOK, Named, Serving, Refreshing, Request, PC, Kind, Logout, LogoutAll,
             HandleReuse, ActiveOf
    <3> QED
      BY <1>8, <3>2 DEF TypeOK, Logout, LogoutAll, HandleReuse
  <2> QED
    BY <2>1, <2>2
<1>9. ASSUME NEW p \in Procs,
             RevokeSessionsFind(p) \/ RevokeSessions(p) \/ RevokeTokensFind(p)
      PROVE  TypeInv'
  <2>1. req[p].pc \in Serving /\ req[p].session \in Sessions
    BY <1>9 DEF Named, Serving, Revoking, RevokeSessionsFind, RevokeSessions, RevokeTokensFind
  <2>2. req' \in [Procs -> Request] /\ Named'
    BY <1>9, <2>1
       DEF TypeOK, Named, Serving, Refreshing, Request, PC, Kind, RevokeSessionsFind,
           RevokeSessions, RevokeTokensFind, ActiveOf
  <2> QED
    BY <1>9, <2>2 DEF TypeOK, RevokeSessionsFind, RevokeSessions, RevokeTokensFind
<1>10. ASSUME NEW p \in Procs, RevokeTokens(p) PROVE TypeInv'
  <2> DEFINE r == [Idle EXCEPT !.pc = "mark", !.seen = req[p].seen]
  <2>1. r \in Request /\ r.pc = "mark"
    BY DEF TypeOK, Idle, Request, PC, Kind
  <2>2. \/ End(p) /\ UNCHANGED <<session, token>>
        \/ /\ session' \in [Sessions -> SessionState]
           /\ token' \in [Tokens -> TokenRow]
           /\ req' = [req EXCEPT ![p] = r]
    <3>1. \A t \in Tokens : [token[t] EXCEPT !.revoked = TRUE] \in TokenRow
      BY DEF TypeOK, TokenRow
    <3> QED
      BY <1>10, <3>1 DEF RevokeTokens, TypeOK, SessionState
  <2> HIDE DEF r
  <2>3. req' \in [Procs -> Request] /\ Named'
    BY <2>1, <2>2, EndType, RequestType DEF Serving, Refreshing, Revoking
  <2> QED
    BY <1>10, <2>2, <2>3 DEF TypeOK, RevokeTokens
<1>11. ASSUME NEW p \in Procs, NEW s \in Sessions, MarkRevoked(p, s) PROVE TypeInv'
  BY <1>11 DEF TypeOK, Named, MarkRevoked, Request
<1>12. ASSUME NEW s \in Sessions, SessionExpires(s) PROVE TypeInv'
  BY <1>12 DEF TypeOK, Named, SessionExpires
<1>13. ASSUME UNCHANGED vars PROVE TypeInv'
  BY <1>13 DEF TypeOK, Named, vars
<1> QED
  BY <1>1, <1>2, <1>3, <1>4, <1>5, <1>7, <1>8, <1>9, <1>10, <1>11, <1>12, <1>13
     DEF Next, Start, Step

\* The tables and the requests stay well formed: every statement of a request is
\* about a session or a token that it was given, and every lock is on a row.
THEOREM TypeCorrect == Spec => []TypeOK
<1>1. Spec => []TypeInv
  BY TypeInit, TypeStep, PTL DEF Spec
<1> QED
  BY <1>1, PTL DEF TypeInv

-----------------------------------------------------------------------------
(* The request of a step, field by field *)

Only(p) == \A q \in Procs \ {p} : req'[q] = req[q]

\* Request p begins, about session s and token t.
Begun(p, pc, kind, s, t, late) ==
  /\ Only(p)
  /\ req'[p].pc = pc /\ req'[p].kind = kind
  /\ req'[p].session = s /\ req'[p].token = t /\ (req'[p].late => late)
  /\ req'[p].seen = {} /\ req'[p].snapS = {} /\ req'[p].snapT = {}
  /\ req'[p].holdS = {} /\ req'[p].holdT = {}

\* Request p goes on, about the same session and token.
Moved(p, pc, kind, seen, snapS, holdS, holdT) ==
  /\ Only(p)
  /\ req'[p].pc = pc /\ req'[p].kind = kind
  /\ req'[p].session = req[p].session /\ req'[p].token = req[p].token
  /\ req'[p].late = req[p].late
  /\ req'[p].seen = seen /\ req'[p].snapS = snapS
  /\ req'[p].holdS = holdS /\ req'[p].holdT = holdT

Ended(p) == Begun(p, "idle", "none", NoSession, NoToken, FALSE)

LEMMA EndFields ==
  ASSUME TypeInv, NEW p \in Procs, End(p)
  PROVE  Ended(p)
BY DEF End, Ended, Begun, Only, Idle, TypeInv, TypeOK

LEMMA StartFields ==
  ASSUME TypeInv, NEW p \in Procs
  PROVE  /\ \A s \in Sessions :
              /\ LogInSession(p, s) => Begun(p, "login_token", "none", s, NoToken, FALSE)
              /\ AuthIsRevoked(p, s) =>
                   Begun(p, "auth_db", "none", s, NoToken, session[s] = "revoked")
         /\ \A t \in Tokens : RefreshFind(p, t) =>
              LET s == token[t].session IN
              \/ token[t].revoked /\ Begun(p, "reuse", "reuse", s, NoToken, FALSE)
              \/ /\ ~token[t].revoked /\ s \notin expired
                 /\ Begun(p, "refresh_check", "none", s, t, session[s] = "revoked")
<1>1. ASSUME NEW s \in Sessions, LogInSession(p, s)
      PROVE  Begun(p, "login_token", "none", s, NoToken, FALSE)
  BY <1>1 DEF LogInSession, Begin, Begun, Only, Idle, TypeInv, TypeOK
<1>2. ASSUME NEW s \in Sessions, AuthIsRevoked(p, s)
      PROVE  Begun(p, "auth_db", "none", s, NoToken, session[s] = "revoked")
  <2> DEFINE late == session[s] = "revoked"
             r == [Idle EXCEPT !.pc = "auth_db", !.session = s, !.late = late]
  <2>1. req' = [req EXCEPT ![p] = r]
    BY <1>2 DEF AuthIsRevoked, Begin
  <2>2. /\ r.pc = "auth_db" /\ r.kind = "none" /\ r.session = s /\ r.token = NoToken
        /\ r.seen = {} /\ r.snapS = {} /\ r.snapT = {} /\ r.holdS = {} /\ r.holdT = {}
    BY DEF Idle
  <2>3. r.late => late
    BY DEF Idle
  <2> HIDE DEF r, late
  <2> QED
    BY <2>1, <2>2, <2>3 DEF Begun, Only, TypeInv, TypeOK, late
<1>3. ASSUME NEW t \in Tokens, RefreshFind(p, t), token[t].revoked
      PROVE  Begun(p, "reuse", "reuse", token[t].session, NoToken, FALSE)
  <2> DEFINE r == [Idle EXCEPT !.pc = "reuse", !.kind = "reuse", !.session = token[t].session]
  <2>1. req' = [req EXCEPT ![p] = r]
    BY <1>3 DEF RefreshFind, Begin
  <2> QED
    BY <2>1 DEF Begun, Only, Idle, TypeInv, TypeOK
<1>4. ASSUME NEW t \in Tokens, RefreshFind(p, t), ~token[t].revoked
      PROVE  /\ token[t].session \notin expired
             /\ Begun(p, "refresh_check", "none", token[t].session, t,
                      session[token[t].session] = "revoked")
  <2> DEFINE s == token[t].session
             late == session[s] = "revoked"
             r == [Idle EXCEPT !.pc = "refresh_check", !.session = s, !.token = t,
                               !.late = late]
  <2>1. s \notin expired /\ req' = [req EXCEPT ![p] = r]
    BY <1>4 DEF RefreshFind, Begin
  <2>2. /\ r.pc = "refresh_check" /\ r.kind = "none" /\ r.session = s /\ r.token = t
        /\ r.seen = {} /\ r.snapS = {} /\ r.snapT = {} /\ r.holdS = {} /\ r.holdT = {}
    BY DEF Idle
  <2>3. r.late => late
    BY DEF Idle
  <2> HIDE DEF r, late
  <2> QED
    BY <2>1, <2>2, <2>3 DEF Begun, Only, TypeInv, TypeOK, late
<1> QED
  BY <1>1, <1>2, <1>3, <1>4

LEMMA StepFields ==
  ASSUME TypeInv, NEW p \in Procs
  PROVE  LET r == req[p] IN
         /\ AuthFindActive(p) =>
              \/ IsActive(r.session) /\ Moved(p, "granted", r.kind, r.seen, r.snapS, r.holdS, r.holdT)
              \/ Ended(p)
         /\ RefreshCheck(p) =>
              \/ /\ IsActive(r.session)
                 /\ Moved(p, "refresh_revoke", r.kind, r.seen, r.snapS, r.holdS, r.holdT)
              \/ Ended(p)
         /\ RefreshRevoke(p) =>
              \/ /\ ~token[r.token].revoked
                 /\ Moved(p, "refresh_commit", r.kind, r.seen, r.snapS, r.holdS, {r.token})
              \/ Ended(p)
         /\ Logout(p) =>
              \/ /\ IsActive(r.session)
                 /\ Moved(p, "sessions", "logout", {r.session}, r.snapS, r.holdS, r.holdT)
              \/ Ended(p)
         /\ LogoutAll(p) =>
              Moved(p, "sessions", "logout_all", ActiveOf(r.session), r.snapS, r.holdS, r.holdT)
         /\ HandleReuse(p) =>
              Moved(p, "sessions", r.kind, ActiveOf(r.session), r.snapS, r.holdS, r.holdT)
         /\ RevokeSessionsFind(p) =>
              Moved(p, "sessions_wait", r.kind, r.seen,
                    IF r.kind = "logout" THEN {s \in {r.session} : session[s] = "active"}
                                         ELSE ActiveOf(r.session),
                    r.holdS, r.holdT)
         /\ RevokeSessions(p) =>
              Moved(p, "tokens", r.kind, r.seen, {},
                    {s \in r.snapS : session[s] = "active"}, r.holdT)
         /\ RevokeTokensFind(p) =>
              Moved(p, "tokens_wait", r.kind, r.seen, r.snapS, r.holdS, r.holdT)
         /\ \A s \in Sessions : MarkRevoked(p, s) =>
              Moved(p, "mark", r.kind, r.seen \ {s}, r.snapS, r.holdS, r.holdT)
<1> USE DEF Moved, Only, TypeInv, TypeOK, Request
<1>1. ASSUME AuthFindActive(p), IsActive(req[p].session)
      PROVE  Moved(p, "granted", req[p].kind, req[p].seen, req[p].snapS, req[p].holdS,
                   req[p].holdT)
  BY <1>1 DEF AuthFindActive, GoTo
<1>2. ASSUME RefreshCheck(p), ~End(p)
      PROVE  /\ IsActive(req[p].session)
             /\ Moved(p, "refresh_revoke", req[p].kind, req[p].seen, req[p].snapS, req[p].holdS,
                      req[p].holdT)
  BY <1>2 DEF RefreshCheck, GoTo
<1>3. ASSUME RefreshRevoke(p), ~token[req[p].token].revoked
      PROVE  Moved(p, "refresh_commit", req[p].kind, req[p].seen, req[p].snapS, req[p].holdS,
                   {req[p].token})
  BY <1>3 DEF RefreshRevoke
<1>4. ASSUME Logout(p), IsActive(req[p].session)
      PROVE  Moved(p, "sessions", "logout", {req[p].session}, req[p].snapS, req[p].holdS,
                   req[p].holdT)
  BY <1>4 DEF Logout
<1>5. ASSUME LogoutAll(p)
      PROVE  Moved(p, "sessions", "logout_all", ActiveOf(req[p].session), req[p].snapS,
                   req[p].holdS, req[p].holdT)
  BY <1>5 DEF LogoutAll
<1>6. ASSUME HandleReuse(p)
      PROVE  Moved(p, "sessions", req[p].kind, ActiveOf(req[p].session), req[p].snapS,
                   req[p].holdS, req[p].holdT)
  BY <1>6 DEF HandleReuse
<1>7. ASSUME RevokeSessionsFind(p)
      PROVE  Moved(p, "sessions_wait", req[p].kind, req[p].seen,
                   IF req[p].kind = "logout"
                   THEN {s \in {req[p].session} : session[s] = "active"}
                   ELSE ActiveOf(req[p].session),
                   req[p].holdS, req[p].holdT)
  BY <1>7 DEF RevokeSessionsFind
<1>8. ASSUME RevokeSessions(p)
      PROVE  Moved(p, "tokens", req[p].kind, req[p].seen, {},
                   {s \in req[p].snapS : session[s] = "active"}, req[p].holdT)
  BY <1>8 DEF RevokeSessions
<1>9. ASSUME RevokeTokensFind(p)
      PROVE  Moved(p, "tokens_wait", req[p].kind, req[p].seen, req[p].snapS, req[p].holdS,
                   req[p].holdT)
  BY <1>9 DEF RevokeTokensFind
<1>10. ASSUME NEW s \in Sessions, MarkRevoked(p, s)
       PROVE  Moved(p, "mark", req[p].kind, req[p].seen \ {s}, req[p].snapS, req[p].holdS,
                    req[p].holdT)
  BY <1>10 DEF MarkRevoked
<1> HIDE DEF Moved, Only, TypeOK, Request, TypeInv
<1>11. /\ AuthFindActive(p) /\ ~IsActive(req[p].session) => End(p)
       /\ RefreshRevoke(p) /\ token[req[p].token].revoked => End(p)
       /\ Logout(p) /\ ~IsActive(req[p].session) => End(p)
  BY DEF AuthFindActive, RefreshRevoke, Logout
<1> QED
  BY <1>1, <1>2, <1>3, <1>4, <1>5, <1>6, <1>7, <1>8, <1>9, <1>10, <1>11, EndFields

\* The steps that end a request or begin its last one, on the tables and in Redis.
LEMMA RevokeTokensFields ==
  ASSUME TypeInv, NEW p \in Procs, RevokeTokens(p)
  PROVE  \/ Ended(p) /\ UNCHANGED <<session, token>>
         \/ /\ Only(p)
            /\ req'[p].pc = "mark" /\ req'[p].seen = req[p].seen
            /\ req'[p].holdS = {} /\ req'[p].holdT = {} /\ ~req'[p].late
            /\ session' = [s \in Sessions |-> IF s \in req[p].holdS THEN "revoked"
                                                                   ELSE session[s]]
            /\ token' = [t \in Tokens |-> IF t \in req[p].snapT /\ Live(t)
                                          THEN [token[t] EXCEPT !.revoked = TRUE]
                                          ELSE token[t]]
<1>1. CASE End(p) /\ UNCHANGED <<session, token>>
  BY <1>1, EndFields
<1>2. CASE ~(End(p) /\ UNCHANGED <<session, token>>)
  <2>1. /\ session' = [s \in Sessions |-> IF s \in req[p].holdS THEN "revoked"
                                                               ELSE session[s]]
        /\ token' = [t \in Tokens |-> IF t \in {u \in req[p].snapT : Live(u)}
                                      THEN [token[t] EXCEPT !.revoked = TRUE]
                                      ELSE token[t]]
        /\ req' = [req EXCEPT ![p] = [Idle EXCEPT !.pc = "mark", !.seen = req[p].seen]]
    BY <1>2 DEF RevokeTokens
  <2>2. /\ Only(p)
        /\ req'[p].pc = "mark" /\ req'[p].seen = req[p].seen
        /\ req'[p].holdS = {} /\ req'[p].holdT = {} /\ ~req'[p].late
    BY <2>1 DEF Only, Idle, TypeInv, TypeOK
  <2> QED
    BY <2>1, <2>2
<1> QED
  BY <1>1, <1>2

-----------------------------------------------------------------------------
(* Row locks *)

\* Only a Refresh about to commit holds rows of refresh_tokens, its own token;
\* only a revocation holds rows of auth_sessions.
Holds ==
  \A p \in Procs :
    /\ req[p].holdT # {} => req[p].pc = "refresh_commit"
    /\ req[p].pc = "refresh_commit" => req[p].holdT = {req[p].token}
    /\ req[p].holdS # {} => req[p].pc \in {"tokens", "tokens_wait"}

\* No row of refresh_tokens has two holders.
TokenLocksDisjoint ==
  \A p, q \in Procs : p # q => req[p].holdT \cap req[q].holdT = {}

LockInv == Holds /\ TokenLocksDisjoint

LEMMA LockInit == Init => LockInv
BY DEF Init, LockInv, Holds, TokenLocksDisjoint, Idle

\* A step that gets no row of refresh_tokens keeps the locks in order.
LEMMA LockKept ==
  ASSUME LockInv, NEW p \in Procs, Only(p),
         req'[p].holdT = {}, req'[p].pc # "refresh_commit",
         req'[p].holdS # {} => req'[p].pc \in {"tokens", "tokens_wait"}
  PROVE  LockInv'
BY DEF LockInv, Holds, TokenLocksDisjoint, Only

LEMMA LockEnd ==
  ASSUME LockInv, NEW p \in Procs, Ended(p)
  PROVE  LockInv'
BY LockKept DEF Ended, Begun

LEMMA LockStep == TypeInv /\ LockInv /\ [Next]_vars => LockInv'
<1> SUFFICES ASSUME TypeInv, LockInv, [Next]_vars PROVE LockInv'
  OBVIOUS
<1>1. ASSUME NEW p \in Procs, Start(p) PROVE LockInv'
  BY <1>1, StartFields, LockKept DEF Start, Begun
<1>2. ASSUME NEW p \in Procs, RefreshRevoke(p) PROVE LockInv'
  <2>1. CASE Moved(p, "refresh_commit", req[p].kind, req[p].seen, req[p].snapS,
                   req[p].holdS, {req[p].token})
    <3>1. \A q \in Procs \ {p} : req'[q] = req[q] /\ req[p].token \notin req[q].holdT
      BY <1>2, <2>1 DEF RefreshRevoke, LockedToken, Moved, Only
    <3>2. req[p].holdS = {}
      BY <1>2 DEF RefreshRevoke, LockInv, Holds
    <3> QED
      BY <2>1, <3>1, <3>2 DEF LockInv, Holds, TokenLocksDisjoint, Moved
  <2> QED
    BY <1>2, <2>1, StepFields, LockEnd
<1>3. ASSUME NEW p \in Procs,
             \/ AuthFindActive(p) \/ RefreshCheck(p) \/ Logout(p) \/ LogoutAll(p)
             \/ HandleReuse(p) \/ RevokeSessionsFind(p) \/ RevokeSessions(p)
             \/ RevokeTokensFind(p) \/ \E s \in Sessions : MarkRevoked(p, s)
      PROVE  LockInv'
  <2>1. req[p].holdT = {}
    BY <1>3 DEF LockInv, Holds, AuthFindActive, RefreshCheck, Logout, LogoutAll, HandleReuse,
       RevokeSessionsFind, RevokeSessions, RevokeTokensFind, MarkRevoked
  <2>2. req[p].pc \notin {"tokens", "tokens_wait"} => req[p].holdS = {}
    BY DEF LockInv, Holds
  <2>3. CASE AuthFindActive(p) \/ RefreshCheck(p) \/ Logout(p) \/ LogoutAll(p) \/ HandleReuse(p)
    BY <2>1, <2>2, <2>3, StepFields, LockKept, LockEnd DEF Moved, AuthFindActive, RefreshCheck,
       Logout, LogoutAll, HandleReuse
  <2>4. CASE RevokeSessionsFind(p) \/ RevokeSessions(p) \/ RevokeTokensFind(p)
             \/ \E s \in Sessions : MarkRevoked(p, s)
    BY <2>1, <2>2, <2>4, StepFields, LockKept DEF Moved, RevokeSessionsFind, RevokeSessions,
       RevokeTokensFind, MarkRevoked
  <2> QED
    BY <1>3, <2>3, <2>4
<1>4. ASSUME NEW p \in Procs,
             LogInToken(p) \/ RefreshCommit(p) \/ Serve(p) \/ MarkDone(p) \/ Fail(p)
      PROVE  LockInv'
  BY <1>4, EndFields, LockEnd DEF LogInToken, RefreshCommit, Serve, MarkDone, Fail
<1>5. ASSUME NEW p \in Procs, RevokeTokens(p) PROVE LockInv'
  BY <1>5, RevokeTokensFields, LockEnd, LockKept
<1>6. ASSUME req' = req PROVE LockInv'
  BY <1>6 DEF LockInv, Holds, TokenLocksDisjoint
<1> QED
  BY <1>1, <1>2, <1>3, <1>4, <1>5, <1>6 DEF Next, Step, SessionExpires, vars

\* While a transaction waits for a row, another request, that has begun, can
\* take its next step: a Refresh waits for nothing once it holds its token, and
\* whoever holds a session waits for tokens only.
THEOREM NobodyStandsStill == Spec => []NoStandstill
<1>1. LockInv => NoStandstill
  <2> SUFFICES ASSUME LockInv, NEW p \in Procs, Waits(p)
               PROVE  \E q \in Procs : req[q].pc # "idle" /\ ~Waits(q)
    BY DEF NoStandstill
  <2>1. ASSUME NEW x \in Procs, NEW t, LockedToken(x, t)
        PROVE  \E q \in Procs : req[q].pc # "idle" /\ ~Waits(q)
    <3>1. PICK q \in Procs : req[q].pc = "refresh_commit"
      BY <2>1 DEF LockedToken, LockInv, Holds
    <3> QED
      BY <3>1 DEF Waits
  <2>2. ASSUME NEW s, LockedSession(p, s)
        PROVE  \E q \in Procs : req[q].pc # "idle" /\ ~Waits(q)
    <3>1. PICK q \in Procs : req[q].pc \in {"tokens", "tokens_wait"}
      BY <2>2 DEF LockedSession, LockInv, Holds
    <3>2. CASE Waits(q)
      BY <3>1, <3>2, <2>1 DEF Waits
    <3> QED
      BY <3>1, <3>2
  <2> QED
    BY <2>1, <2>2 DEF Waits
<1> QED
  BY <1>1, TypeInit, TypeStep, LockInit, LockStep, PTL DEF Spec

-----------------------------------------------------------------------------
(* The tables only grow *)

\* Tokens belong to sessions that were created, and so do requests; a Refresh
\* is about the session of its token.
RootInv ==
  /\ \A s \in issued : session[s] # "none"
  /\ \A t \in Tokens : Exists(t) => session[token[t].session] # "none"
  /\ \A p \in Procs :
       /\ req[p].pc \in Serving => session[req[p].session] # "none"
       /\ req[p].pc \in Refreshing => token[req[p].token].session = req[p].session

Grows ==
  /\ \A s \in Sessions : /\ session[s] # "none" => session'[s] # "none"
                         /\ session[s] = "revoked" => session'[s] = "revoked"
  /\ expired \subseteq expired'
  /\ \A t \in Tokens : Exists(t) => token'[t].session = token[t].session

LEMMA LogInTokenRows ==
  ASSUME TypeInv, NEW p \in Procs, LogInToken(p)
  PROVE  \E n \in Tokens :
           /\ ~Exists(n)
           /\ token'[n] = NewToken(req[p].session)
           /\ \A t \in Tokens \ {n} : token'[t] = token[t]
BY DEF LogInToken, TypeInv, TypeOK

\* The new token, and the one it replaces.
LEMMA RefreshCommitRows ==
  ASSUME TypeInv, RootInv, NEW p \in Procs, RefreshCommit(p)
  PROVE  LET u == req[p].token IN
         /\ u \in Tokens /\ Exists(u) /\ token[u].session = req[p].session
         /\ \E n \in Tokens \ {u} :
              /\ ~Exists(n)
              /\ token'[n] = NewToken(req[p].session)
              /\ token'[u] = [session |-> token[u].session, revoked |-> TRUE, replacedBy |-> n]
              /\ \A t \in Tokens \ {n, u} : token'[t] = token[t]
<1> DEFINE u == req[p].token
<1>1. /\ u \in Tokens /\ req[p].session \in Sessions
      /\ token[u].session = req[p].session
  BY DEF RefreshCommit, RootInv, TypeInv, Named, Refreshing, Serving
<1>2. Exists(u)
  BY <1>1, NoSessionAssumption DEF Exists
<1>3. PICK n \in Tokens :
        /\ ~Exists(n)
        /\ token' = [token EXCEPT ![n] = NewToken(req[p].session),
                                  ![u].revoked = TRUE, ![u].replacedBy = n]
  BY DEF RefreshCommit
<1>4. n # u
  BY <1>2, <1>3
<1> DEFINE tt == [token EXCEPT ![n] = NewToken(req[p].session)]
           tu == [tt EXCEPT ![u].revoked = TRUE]
<1>5. /\ tt \in [Tokens -> TokenRow] /\ tt[u] = token[u]
      /\ tt[n] = NewToken(req[p].session)
      /\ \A t \in Tokens \ {n, u} : tt[t] = token[t]
  BY <1>1, <1>4 DEF TypeInv, TypeOK, TokenRow, NewToken
<1>6. token' = [tu EXCEPT ![u].replacedBy = n]
  BY <1>3
<1> HIDE DEF tt
<1>7. /\ tu \in [Tokens -> TokenRow]
      /\ tu[u].session = tt[u].session /\ tu[u].revoked = TRUE
      /\ \A t \in Tokens \ {u} : tu[t] = tt[t]
  BY <1>1, <1>5 DEF TokenRow
<1> HIDE DEF tu
<1>8. /\ token'[u] \in TokenRow
      /\ token'[u].session = tu[u].session /\ token'[u].revoked = TRUE
      /\ token'[u].replacedBy = n
      /\ \A t \in Tokens \ {u} : token'[t] = tu[t]
  BY <1>1, <1>6, <1>7 DEF TokenRow
<1>9. token'[u] = [session |-> token[u].session, revoked |-> TRUE, replacedBy |-> n]
  BY <1>5, <1>7, <1>8 DEF TokenRow
<1>10. /\ token'[n] = NewToken(req[p].session)
       /\ \A t \in Tokens \ {n, u} : token'[t] = token[t]
  BY <1>4, <1>5, <1>7, <1>8
<1> QED
  BY <1>1, <1>2, <1>3, <1>4, <1>9, <1>10

LEMMA GrowStep ==
  ASSUME TypeInv, RootInv, [Next]_vars
  PROVE  Grows
<1>1. ASSUME NEW p \in Procs, NEW s \in Sessions, LogInSession(p, s) PROVE Grows
  BY <1>1 DEF LogInSession, Grows, TypeInv, TypeOK
<1>2. ASSUME NEW p \in Procs, LogInToken(p) PROVE Grows
  BY <1>2, LogInTokenRows DEF LogInToken, Grows
<1>3. ASSUME NEW p \in Procs, RefreshCommit(p) PROVE Grows
  <2> DEFINE u == req[p].token
  <2>1. PICK n \in Tokens \ {u} :
          /\ ~Exists(n)
          /\ token'[u] = [session |-> token[u].session, revoked |-> TRUE, replacedBy |-> n]
          /\ \A t \in Tokens \ {n, u} : token'[t] = token[t]
    BY <1>3, RefreshCommitRows
  <2>2. token'[u].session = token[u].session
    BY <2>1
  <2> QED
    BY <1>3, <2>1, <2>2 DEF RefreshCommit, Grows
<1>4. ASSUME NEW p \in Procs, RevokeTokens(p) PROVE Grows
  <2>1. \A t \in Tokens : [token[t] EXCEPT !.revoked = TRUE].session = token[t].session
    BY DEF TypeInv, TypeOK, TokenRow
  <2> QED
    BY <1>4, <2>1, RevokeTokensFields DEF RevokeTokens, Grows
<1>5. ASSUME NEW s \in Sessions, SessionExpires(s) PROVE Grows
  BY <1>5 DEF SessionExpires, Grows
<1>6. ASSUME UNCHANGED <<session, expired, token>> PROVE Grows
  BY <1>6 DEF Grows
<1>7. ASSUME NEW p \in Procs, Start(p) \/ Step(p) \/ Fail(p) PROVE Grows
  BY <1>1, <1>2, <1>3, <1>4, <1>6, <1>7
     DEF Start, Step, Fail, AuthIsRevoked, RefreshFind, AuthFindActive, Serve, RefreshCheck,
         RefreshRevoke, Logout, LogoutAll, HandleReuse, RevokeSessionsFind, RevokeSessions,
         RevokeTokensFind, MarkRevoked, MarkDone
<1> QED
  BY <1>5, <1>6, <1>7 DEF Next, vars

LEMMA RootInit == Init => RootInv
BY DEF Init, RootInv, Idle, Exists, Serving, Refreshing, Revoking

\* The request of the step is rooted in tables that grow.
LEMMA RootKept ==
  ASSUME TypeInv, RootInv, Grows, NEW p \in Procs, Only(p),
         req'[p].pc \in Serving => /\ req'[p].session \in Sessions
                                   /\ session'[req'[p].session] # "none",
         req'[p].pc \in Refreshing => token'[req'[p].token].session = req'[p].session,
         \A t \in Tokens : ~Exists(t) /\ Exists(t)' => session'[token'[t].session] # "none",
         \A s \in issued' : s \notin issued => session'[s] # "none"
  PROVE  RootInv'
<1>1. ASSUME NEW t \in Tokens, Exists(t)' PROVE session'[token'[t].session] # "none"
  <2>1. CASE Exists(t)
    <3>1. token'[t].session = token[t].session /\ token[t].session \in Sessions
      BY <2>1 DEF Grows, TypeInv, TypeOK, TokenRow, Exists
    <3> QED
      BY <2>1, <3>1 DEF RootInv, Grows
  <2> QED
    BY <1>1, <2>1
<1>2. ASSUME NEW q \in Procs, q # p
      PROVE  /\ req'[q].pc \in Serving => session'[req'[q].session] # "none"
             /\ req'[q].pc \in Refreshing => token'[req'[q].token].session = req'[q].session
  <2>1. req'[q] = req[q]
    BY <1>2 DEF Only
  <2>2. req[q].pc \in Serving => session'[req[q].session] # "none"
    BY DEF TypeInv, Named, RootInv, Grows
  <2>3. ASSUME req[q].pc \in Refreshing
        PROVE  token'[req[q].token].session = req[q].session
    <3>1. req[q].token \in Tokens /\ req[q].session \in Sessions
      BY <2>3 DEF TypeInv, Named, Serving
    <3>2. Exists(req[q].token)
      BY <2>3, <3>1, NoSessionAssumption DEF Exists, RootInv
    <3> QED
      BY <2>3, <3>1, <3>2 DEF RootInv, Grows
  <2> QED
    BY <2>1, <2>2, <2>3
<1>3. \A s \in issued : session'[s] # "none"
  BY DEF TypeInv, TypeOK, RootInv, Grows
<1> QED
  BY <1>1, <1>2, <1>3 DEF RootInv

LEMMA RootStep == TypeInv /\ LockInv /\ RootInv /\ [Next]_vars => RootInv'
<1> SUFFICES ASSUME TypeInv, LockInv, RootInv, [Next]_vars PROVE RootInv'
  OBVIOUS
<1>0. Grows
  BY GrowStep
<1>1. ASSUME NEW p \in Procs, NEW s \in Sessions, LogInSession(p, s) PROVE RootInv'
  <2>1. session'[s] = "active" /\ token' = token /\ issued' = issued
    BY <1>1 DEF LogInSession, TypeInv, TypeOK
  <2> QED
    BY <1>0, <1>1, <2>1, StartFields, RootKept DEF Begun, Refreshing, Exists
<1>2. ASSUME NEW p \in Procs, NEW s \in Sessions, AuthIsRevoked(p, s) PROVE RootInv'
  <2>1. session'[s] # "none" /\ token' = token /\ issued' = issued
    BY <1>2 DEF RootInv, AuthIsRevoked
  <2> QED
    BY <1>0, <1>2, <2>1, StartFields, RootKept DEF Begun, Refreshing, Exists
<1>3. ASSUME NEW p \in Procs, NEW t \in Tokens, RefreshFind(p, t) PROVE RootInv'
  <2>1. /\ token[t].session \in Sessions /\ session[token[t].session] # "none"
        /\ token' = token /\ issued' = issued /\ session' = session
    BY <1>3 DEF RootInv, RefreshFind, Exists, TypeInv, TypeOK, TokenRow
  <2> QED
    BY <1>0, <1>3, <2>1, StartFields, RootKept DEF Begun, Refreshing, Exists
<1>4. ASSUME NEW p \in Procs, Ended(p), UNCHANGED <<token, issued>> PROVE RootInv'
  BY <1>0, <1>4, RootKept DEF Ended, Begun, Exists, Serving, Refreshing, Revoking
<1>5. ASSUME NEW p \in Procs, LogInToken(p) PROVE RootInv'
  <2>1. PICK n \in Tokens :
          /\ ~Exists(n)
          /\ token'[n] = NewToken(req[p].session)
          /\ \A t \in Tokens \ {n} : token'[t] = token[t]
    BY <1>5, LogInTokenRows
  <2>2. token'[n].session = req[p].session
    BY <2>1 DEF NewToken
  <2>3. /\ req[p].session \in Sessions /\ session'[req[p].session] # "none"
        /\ issued' = issued \cup {req[p].session} /\ End(p)
    BY <1>5 DEF LogInToken, RootInv, TypeInv, Named, Serving
  <2> QED
    BY <1>0, <2>1, <2>2, <2>3, EndFields, RootKept
       DEF Ended, Begun, Exists, Serving, Refreshing, Revoking
<1>6. ASSUME NEW p \in Procs, RefreshCommit(p) PROVE RootInv'
  <2> DEFINE u == req[p].token
  <2>1. PICK n \in Tokens \ {u} :
          /\ ~Exists(n)
          /\ token'[n] = NewToken(req[p].session)
          /\ token'[u] = [session |-> token[u].session, revoked |-> TRUE, replacedBy |-> n]
          /\ \A t \in Tokens \ {n, u} : token'[t] = token[t]
    BY <1>6, RefreshCommitRows
  <2>2. token'[n].session = req[p].session /\ Exists(u)
    BY <1>6, <2>1, RefreshCommitRows DEF NewToken
  <2>3. /\ req[p].session \in Sessions /\ session'[req[p].session] # "none"
        /\ issued' = issued /\ End(p)
    BY <1>6 DEF RefreshCommit, RootInv, TypeInv, Named, Serving, Refreshing
  <2> QED
    BY <1>0, <2>1, <2>2, <2>3, EndFields, RootKept
       DEF Ended, Begun, Exists, Serving, Refreshing, Revoking
<1>7. ASSUME NEW p \in Procs,
             \/ AuthFindActive(p) \/ RefreshCheck(p) \/ RefreshRevoke(p) \/ Logout(p)
             \/ LogoutAll(p) \/ HandleReuse(p) \/ RevokeSessionsFind(p) \/ RevokeSessions(p)
             \/ RevokeTokensFind(p) \/ \E s \in Sessions : MarkRevoked(p, s)
      PROVE  RootInv'
  <2>1. UNCHANGED <<session, token, issued>>
    BY <1>7 DEF AuthFindActive, RefreshCheck, RefreshRevoke, Logout, LogoutAll, HandleReuse,
       RevokeSessionsFind, RevokeSessions, RevokeTokensFind, MarkRevoked
  <2>2. CASE \/ AuthFindActive(p) \/ Logout(p) \/ LogoutAll(p) \/ HandleReuse(p)
             \/ RevokeSessionsFind(p) \/ RevokeSessions(p) \/ RevokeTokensFind(p)
    <3>1. req[p].session \in Sessions /\ session[req[p].session] # "none"
      BY <2>2 DEF TypeInv, Named, RootInv, Serving, Revoking, AuthFindActive, Logout, LogoutAll,
         HandleReuse, RevokeSessionsFind, RevokeSessions, RevokeTokensFind
    <3>2. \/ Ended(p)
          \/ /\ Only(p) /\ req'[p].session = req[p].session
             /\ req'[p].pc \notin Refreshing
      BY <2>2, StepFields DEF Moved, Refreshing
    <3> QED
      BY <1>0, <1>4, <2>1, <3>1, <3>2, RootKept DEF Exists
  <2>3. CASE RefreshCheck(p) \/ RefreshRevoke(p)
    <3>1. /\ req[p].session \in Sessions /\ session[req[p].session] # "none"
          /\ token[req[p].token].session = req[p].session
      BY <2>3 DEF TypeInv, Named, RootInv, Serving, Refreshing, RefreshCheck, RefreshRevoke
    <3>2. \/ Ended(p)
          \/ /\ Only(p) /\ req'[p].session = req[p].session /\ req'[p].token = req[p].token
      BY <2>3, StepFields DEF Moved
    <3> QED
      BY <1>0, <1>4, <2>1, <3>1, <3>2, RootKept DEF Exists
  <2>4. CASE \E s \in Sessions : MarkRevoked(p, s)
    <3>1. Only(p) /\ req'[p].pc = "mark"
      BY <2>4, StepFields DEF Moved
    <3> QED
      BY <1>0, <2>1, <3>1, RootKept DEF Exists, Serving, Refreshing, Revoking
  <2> QED
    BY <1>7, <2>2, <2>3, <2>4
<1>8. ASSUME NEW p \in Procs, RevokeTokens(p) PROVE RootInv'
  <2>1. issued' = issued
    BY <1>8 DEF RevokeTokens
  <2>2. CASE Ended(p) /\ UNCHANGED <<session, token>>
    BY <1>4, <2>1, <2>2
  <2>3. CASE ~(Ended(p) /\ UNCHANGED <<session, token>>)
    <3>1. Only(p) /\ req'[p].pc = "mark"
      BY <1>8, <2>3, RevokeTokensFields
    <3>2. \A t \in Tokens : token'[t].session = token[t].session
      <4>1. \A t \in Tokens : [token[t] EXCEPT !.revoked = TRUE].session = token[t].session
        BY DEF TypeInv, TypeOK, TokenRow
      <4> QED
        BY <1>8, <2>3, <4>1, RevokeTokensFields
    <3> QED
      BY <1>0, <2>1, <3>1, <3>2, RootKept DEF Exists, Serving, Refreshing, Revoking
  <2> QED
    BY <2>2, <2>3
<1>9. ASSUME NEW p \in Procs, Serve(p) \/ MarkDone(p) \/ Fail(p) PROVE RootInv'
  BY <1>4, <1>9, EndFields DEF Serve, MarkDone, Fail
<1>10. ASSUME UNCHANGED <<session, token, issued, req>> PROVE RootInv'
  BY <1>10 DEF RootInv, Exists
<1> QED
  BY <1>1, <1>2, <1>3, <1>5, <1>6, <1>7, <1>8, <1>9, <1>10
     DEF Next, Start, Step, SessionExpires, vars

-----------------------------------------------------------------------------
(* The chain of tokens of a session *)

\* A login that has not inserted its token is the only request that will give
\* its session a first one; a Refresh that holds its token rotates a live one.
ChainInv ==
  /\ OneChain
  /\ \A t \in Tokens : token[t].replacedBy # NoToken => Exists(t)
  /\ \A p \in Procs : req[p].pc = "refresh_commit" => ~token[req[p].token].revoked
  /\ \A p \in Procs : req[p].pc = "login_token" =>
       \A t \in Tokens : token[t].session # req[p].session
  /\ \A p, q \in Procs :
       p # q /\ req[p].pc = "login_token" /\ req[q].pc = "login_token" =>
         req[p].session # req[q].session

LEMMA ChainInit == Init => ChainInv
BY NoSessionAssumption, NoTokenAssumption
   DEF Init, ChainInv, OneChain, Exists, Replaced, Idle

\* Steps that leave the tokens alone.
LEMMA ChainKept ==
  ASSUME ChainInv, token' = token, NEW p \in Procs, Only(p),
         req'[p].pc = "refresh_commit" => ~token[req'[p].token].revoked,
         req'[p].pc = "login_token" =>
           /\ \A t \in Tokens : token[t].session # req'[p].session
           /\ \A q \in Procs \ {p} : req[q].pc = "login_token" =>
                req[q].session # req'[p].session
  PROVE  ChainInv'
<1>1. OneChain'
  BY DEF ChainInv, OneChain, Exists, Replaced
<1>2. \A q \in Procs \ {p} : req'[q] = req[q]
  BY DEF Only
<1> QED
  BY <1>1, <1>2 DEF ChainInv, Exists

\* The first token of a session.
LEMMA ChainLogIn ==
  ASSUME TypeInv, RootInv, ChainInv, NEW p \in Procs, LogInToken(p)
  PROVE  ChainInv'
<1> DEFINE s == req[p].session
<1>1. PICK n \in Tokens :
        /\ ~Exists(n)
        /\ token'[n] = NewToken(s)
        /\ \A t \in Tokens \ {n} : token'[t] = token[t]
  BY LogInTokenRows
<1>2. token'[n].session = s /\ token'[n].replacedBy = NoToken /\ ~token'[n].revoked
  BY <1>1 DEF NewToken
<1>3. s \in Sessions /\ req[p].pc = "login_token" /\ Ended(p)
  BY EndFields DEF LogInToken, TypeInv, Named, Serving
<1>4. token[n].replacedBy = NoToken /\ \A t \in Tokens : token[t].replacedBy # n
  <2>1. token[n].replacedBy = NoToken
    BY <1>1 DEF ChainInv
  <2>2. ASSUME NEW t \in Tokens, token[t].replacedBy = n PROVE FALSE
    <3>1. n # NoToken
      BY NoTokenAssumption
    <3>2. token[n].session = token[t].session /\ Exists(t)
      BY <2>2, <3>1 DEF ChainInv, OneChain
    <3> QED
      BY <1>1, <3>2 DEF Exists
  <2> QED
    BY <2>1, <2>2
<1>5. \A t \in Tokens \ {n} : Exists(t)' <=> Exists(t)
  BY <1>1 DEF Exists
<1>6. \A t \in Tokens : Replaced(t)' <=> Replaced(t)
  <2>1. \A u \in Tokens : token'[u].replacedBy = token[u].replacedBy
    BY <1>1, <1>2, <1>4
  <2> QED
    BY <2>1 DEF Replaced
<1>7. \A t \in Tokens : token[t].session # s
  BY <1>3 DEF ChainInv
<1>8. OneChain'
  <2>1. ASSUME NEW t \in Tokens, token'[t].replacedBy # NoToken
        PROVE  token'[t].revoked /\ token'[token'[t].replacedBy].session = token'[t].session
    <3>1. t # n /\ token'[t] = token[t] /\ token[t].replacedBy \in Tokens \ {n}
      BY <1>1, <1>2, <1>4, <2>1 DEF TypeInv, TypeOK, TokenRow
    <3> QED
      BY <1>1, <2>1, <3>1 DEF ChainInv, OneChain
  <2>2. ASSUME NEW t \in Tokens, NEW u \in Tokens,
               token'[t].replacedBy = token'[u].replacedBy, token'[t].replacedBy # NoToken
        PROVE  t = u
    BY <1>1, <1>2, <2>2 DEF ChainInv, OneChain
  <2>3. ASSUME NEW t \in Tokens, NEW u \in Tokens,
               Exists(t)', ~Replaced(t)', Exists(u)', ~Replaced(u)',
               token'[t].session = token'[u].session
        PROVE  t = u
    <3>1. CASE t # n /\ u # n
      BY <1>1, <1>5, <1>6, <2>3, <3>1 DEF ChainInv, OneChain
    <3>2. CASE t = n /\ u # n
      BY <1>1, <1>2, <1>7, <2>3, <3>2
    <3>3. CASE t # n /\ u = n
      BY <1>1, <1>2, <1>7, <2>3, <3>3
    <3> QED
      BY <3>1, <3>2, <3>3
  <2> QED
    BY <2>1, <2>2, <2>3 DEF OneChain
<1>9. ASSUME NEW q \in Procs, q # p
      PROVE  /\ req'[q] = req[q]
             /\ req[q].pc = "refresh_commit" => ~token'[req[q].token].revoked
             /\ req[q].pc = "login_token" => \A t \in Tokens : token'[t].session # req[q].session
  <2>1. req'[q] = req[q]
    BY <1>3, <1>9 DEF Ended, Begun, Only
  <2>2. ASSUME req[q].pc = "refresh_commit" PROVE ~token'[req[q].token].revoked
    <3>1. req[q].token \in Tokens /\ req[q].session \in Sessions
      BY <2>2 DEF TypeInv, Named, Serving, Refreshing
    <3>2. Exists(req[q].token)
      BY <2>2, <3>1, NoSessionAssumption DEF RootInv, Exists, Refreshing
    <3> QED
      BY <1>1, <2>2, <3>1, <3>2 DEF ChainInv
  <2>3. ASSUME req[q].pc = "login_token"
        PROVE  \A t \in Tokens : token'[t].session # req[q].session
    BY <1>1, <1>2, <1>3, <1>9, <2>3 DEF ChainInv
  <2> QED
    BY <2>1, <2>2, <2>3
<1>10. \A t \in Tokens : token'[t].replacedBy # NoToken => Exists(t)'
  BY <1>1, <1>2, <1>5 DEF ChainInv
<1>11. req'[p].pc = "idle"
  BY <1>3 DEF Ended, Begun
<1> QED
  BY <1>8, <1>9, <1>10, <1>11 DEF ChainInv

\* A token and its successor.
LEMMA ChainRefresh ==
  ASSUME TypeInv, LockInv, RootInv, ChainInv, NEW p \in Procs, RefreshCommit(p)
  PROVE  ChainInv'
<1> DEFINE s == req[p].session
           o == req[p].token
<1>1. /\ o \in Tokens /\ Exists(o) /\ token[o].session = s
      /\ \E n \in Tokens \ {o} :
           /\ ~Exists(n)
           /\ token'[n] = NewToken(s)
           /\ token'[o] = [session |-> token[o].session, revoked |-> TRUE, replacedBy |-> n]
           /\ \A t \in Tokens \ {n, o} : token'[t] = token[t]
  BY RefreshCommitRows
<1>2. PICK n \in Tokens \ {o} :
        /\ ~Exists(n)
        /\ token'[n] = NewToken(s)
        /\ token'[o] = [session |-> token[o].session, revoked |-> TRUE, replacedBy |-> n]
        /\ \A t \in Tokens \ {n, o} : token'[t] = token[t]
  BY <1>1
<1>3. /\ token'[n].session = s /\ token'[n].replacedBy = NoToken
      /\ token'[o].session = s /\ token'[o].replacedBy = n /\ token'[o].revoked
  BY <1>1, <1>2 DEF NewToken
<1>4. /\ req[p].pc = "refresh_commit" /\ Ended(p) /\ s \in Sessions
      /\ token[o].replacedBy = NoToken
  <2>1. req[p].pc = "refresh_commit" /\ Ended(p) /\ s \in Sessions
    BY EndFields DEF RefreshCommit, TypeInv, Named, Serving, Refreshing
  <2>2. ~token[o].revoked
    BY <2>1 DEF ChainInv
  <2> QED
    BY <1>1, <2>1, <2>2 DEF ChainInv, OneChain
<1>5. n # NoToken /\ token[n].replacedBy = NoToken /\ \A t \in Tokens : token[t].replacedBy # n
  <2>1. token[n].replacedBy = NoToken /\ n # NoToken
    BY <1>2, NoTokenAssumption DEF ChainInv
  <2>2. ASSUME NEW t \in Tokens, token[t].replacedBy = n PROVE FALSE
    <3>1. token[n].session = token[t].session /\ Exists(t)
      BY <2>1, <2>2 DEF ChainInv, OneChain
    <3> QED
      BY <1>2, <3>1 DEF Exists
  <2> QED
    BY <2>1, <2>2
<1>6. \A t \in Tokens \ {n} : (Exists(t)' <=> Exists(t)) /\ token'[t].session = token[t].session
  BY <1>1, <1>2, <1>3 DEF Exists
<1>7. /\ Replaced(n)'
      /\ \A t \in Tokens \ {n} : Replaced(t) => Replaced(t)'
  <2>1. Replaced(n)'
    BY <1>1, <1>3 DEF Replaced
  <2>2. ASSUME NEW t \in Tokens, t # n, NEW u \in Tokens, token[u].replacedBy = t
        PROVE  token'[u].replacedBy = t
    BY <1>2, <1>4, <1>5, <2>2, NoTokenAssumption
  <2> QED
    BY <2>1, <2>2 DEF Replaced
<1>8. OneChain'
  <2>1. ASSUME NEW t \in Tokens, token'[t].replacedBy # NoToken
        PROVE  token'[t].revoked /\ token'[token'[t].replacedBy].session = token'[t].session
    <3>1. CASE t = o
      BY <1>3, <3>1
    <3>2. CASE t # o
      <4>1. t # n /\ token'[t] = token[t] /\ token[t].replacedBy \in Tokens \ {n}
        BY <1>2, <1>3, <1>5, <2>1, <3>2 DEF TypeInv, TypeOK, TokenRow
      <4> QED
        BY <1>6, <2>1, <4>1 DEF ChainInv, OneChain
    <3> QED
      BY <3>1, <3>2
  <2>2. ASSUME NEW t \in Tokens, NEW u \in Tokens,
               token'[t].replacedBy = token'[u].replacedBy, token'[t].replacedBy # NoToken
        PROVE  t = u
    <3>1. t # n /\ u # n
      BY <1>3, <2>2
    <3>2. CASE t # o /\ u # o
      BY <1>2, <2>2, <3>1, <3>2 DEF ChainInv, OneChain
    <3>3. CASE t = o /\ u # o
      BY <1>2, <1>3, <1>5, <2>2, <3>1, <3>3
    <3>4. CASE t # o /\ u = o
      BY <1>2, <1>3, <1>5, <2>2, <3>1, <3>4
    <3> QED
      BY <3>2, <3>3, <3>4
  <2>3. ASSUME NEW t \in Tokens, NEW u \in Tokens,
               Exists(t)', ~Replaced(t)', Exists(u)', ~Replaced(u)',
               token'[t].session = token'[u].session
        PROVE  t = u
    <3>1. t # n /\ u # n
      BY <1>7, <2>3
    <3> QED
      BY <1>6, <1>7, <2>3, <3>1 DEF ChainInv, OneChain
  <2> QED
    BY <2>1, <2>2, <2>3 DEF OneChain
<1>9. ASSUME NEW q \in Procs, q # p
      PROVE  /\ req'[q] = req[q]
             /\ req[q].pc = "refresh_commit" => ~token'[req[q].token].revoked
             /\ req[q].pc = "login_token" => \A t \in Tokens : token'[t].session # req[q].session
  <2>1. req'[q] = req[q]
    BY <1>4, <1>9 DEF Ended, Begun, Only
  <2>2. ASSUME req[q].pc = "refresh_commit" PROVE ~token'[req[q].token].revoked
    <3>1. req[q].token \in Tokens /\ req[q].session \in Sessions
      BY <2>2 DEF TypeInv, Named, Serving, Refreshing
    <3>2. Exists(req[q].token)
      BY <2>2, <3>1, NoSessionAssumption DEF RootInv, Exists, Refreshing
    <3>3. req[q].token # o
      BY <1>4, <1>9, <2>2 DEF LockInv, Holds, TokenLocksDisjoint
    <3> QED
      BY <1>2, <2>2, <3>1, <3>2, <3>3 DEF ChainInv
  <2>3. ASSUME req[q].pc = "login_token"
        PROVE  \A t \in Tokens : token'[t].session # req[q].session
    <3>1. req[q].session # s
      BY <1>1, <2>3 DEF ChainInv
    <3> QED
      BY <1>3, <1>6, <2>3, <3>1 DEF ChainInv
  <2> QED
    BY <2>1, <2>2, <2>3
<1>10. \A t \in Tokens : token'[t].replacedBy # NoToken => Exists(t)'
  BY <1>1, <1>2, <1>3, <1>6 DEF ChainInv
<1>11. req'[p].pc = "idle"
  BY <1>4 DEF Ended, Begun
<1> QED
  BY <1>8, <1>9, <1>10, <1>11 DEF ChainInv

\* A revocation changes no link, and no token that a Refresh holds.
LEMMA ChainRevoke ==
  ASSUME TypeInv, LockInv, ChainInv, NEW p \in Procs, RevokeTokens(p)
  PROVE  ChainInv'
<1>1. CASE Ended(p) /\ token' = token
  BY <1>1, ChainKept DEF Ended, Begun
<1>2. CASE ~(Ended(p) /\ token' = token)
  <2>1. /\ Only(p) /\ req'[p].pc = "mark"
        /\ token' = [t \in Tokens |-> IF t \in req[p].snapT /\ Live(t)
                                      THEN [token[t] EXCEPT !.revoked = TRUE]
                                      ELSE token[t]]
    BY <1>2, RevokeTokensFields
  <2>2. \A t \in Tokens :
          /\ token'[t].session = token[t].session
          /\ token'[t].replacedBy = token[t].replacedBy
          /\ token[t].revoked => token'[t].revoked
          /\ t \notin req[p].snapT => token'[t] = token[t]
    <3>1. \A t \in Tokens : LET r == [token[t] EXCEPT !.revoked = TRUE] IN
            /\ r.session = token[t].session
            /\ r.replacedBy = token[t].replacedBy
            /\ r.revoked
      BY DEF TypeInv, TypeOK, TokenRow
    <3> QED
      BY <2>1, <3>1
  <2>3. OneChain'
    <3>1. \A t \in Tokens : (Exists(t)' <=> Exists(t)) /\ (Replaced(t)' <=> Replaced(t))
      BY <2>2 DEF Exists, Replaced
    <3>2. \A t \in Tokens : token[t].replacedBy # NoToken => token[t].replacedBy \in Tokens
      BY DEF TypeInv, TypeOK, TokenRow
    <3> QED
      BY <2>2, <3>1, <3>2 DEF ChainInv, OneChain
  <2>4. ASSUME NEW q \in Procs, q # p, req[q].pc = "refresh_commit"
        PROVE  ~token'[req[q].token].revoked
    <3>1. req[q].token \in Tokens /\ req[q].token \in req[q].holdT
      BY <2>4 DEF TypeInv, Named, Refreshing, LockInv, Holds
    <3>2. req[q].token \notin req[p].snapT
      BY <2>4, <3>1 DEF RevokeTokens, LockedToken
    <3> QED
      BY <2>2, <2>4, <3>1, <3>2 DEF ChainInv
  <2> QED
    BY <2>1, <2>2, <2>3, <2>4 DEF ChainInv, Only, Exists
<1> QED
  BY <1>1, <1>2

LEMMA ChainStep ==
  TypeInv /\ LockInv /\ RootInv /\ ChainInv /\ [Next]_vars => ChainInv'
<1> SUFFICES ASSUME TypeInv, LockInv, RootInv, ChainInv, [Next]_vars PROVE ChainInv'
  OBVIOUS
<1>1. ASSUME NEW p \in Procs, NEW s \in Sessions, LogInSession(p, s) PROVE ChainInv'
  <2>1. session[s] = "none" /\ token' = token
    BY <1>1 DEF LogInSession
  <2>2. \A t \in Tokens : token[t].session # s
    BY <2>1, NoSessionAssumption DEF RootInv, Exists
  <2>3. \A q \in Procs : req[q].pc = "login_token" => req[q].session # s
    BY <2>1 DEF RootInv, Serving
  <2> QED
    BY <1>1, <2>1, <2>2, <2>3, StartFields, ChainKept DEF Begun
<1>2. ASSUME NEW p \in Procs,
             \/ \E s \in Sessions : AuthIsRevoked(p, s)
             \/ \E t \in Tokens : RefreshFind(p, t)
      PROVE  ChainInv'
  <2>1. Only(p) /\ req'[p].pc \in {"auth_db", "reuse", "refresh_check"}
    BY <1>2, StartFields DEF Begun
  <2> QED
    BY <1>2, <2>1, ChainKept DEF AuthIsRevoked, RefreshFind
<1>3. ASSUME NEW p \in Procs, Ended(p), token' = token PROVE ChainInv'
  BY <1>3, ChainKept DEF Ended, Begun
<1>4. ASSUME NEW p \in Procs,
             \/ AuthFindActive(p) \/ RefreshCheck(p) \/ RefreshRevoke(p) \/ Logout(p)
             \/ LogoutAll(p) \/ HandleReuse(p) \/ RevokeSessionsFind(p) \/ RevokeSessions(p)
             \/ RevokeTokensFind(p) \/ \E s \in Sessions : MarkRevoked(p, s)
      PROVE  ChainInv'
  <2>1. token' = token
    BY <1>4 DEF AuthFindActive, RefreshCheck, RefreshRevoke, Logout, LogoutAll, HandleReuse,
       RevokeSessionsFind, RevokeSessions, RevokeTokensFind, MarkRevoked
  <2>2. \/ Ended(p)
        \/ /\ Only(p) /\ req'[p].pc # "login_token"
           /\ req'[p].pc = "refresh_commit" => ~token[req'[p].token].revoked
    BY <1>4, StepFields DEF Moved
  <2> QED
    BY <1>3, <2>1, <2>2, ChainKept
<1>5. ASSUME NEW p \in Procs, Serve(p) \/ MarkDone(p) \/ Fail(p) PROVE ChainInv'
  BY <1>3, <1>5, EndFields DEF Serve, MarkDone, Fail
<1>6. ASSUME UNCHANGED <<token, req>> PROVE ChainInv'
  BY <1>6 DEF ChainInv, OneChain, Exists, Replaced
<1> QED
  BY <1>1, <1>2, <1>4, <1>5, <1>6, ChainLogIn, ChainRefresh, ChainRevoke
     DEF Next, Start, Step, SessionExpires, vars

\* The tokens of a session form one chain that starts at its login, however many
\* Refresh, Logout and LogoutAll calls race: the row lock that RevokeByID takes
\* makes rotation of a token exclusive, and the check of revoked_at under it
\* makes it happen once.
THEOREM TokensFormChain == Spec => []OneChain
<1>1. ChainInv => OneChain
  BY DEF ChainInv
<1> QED
  BY <1>1, TypeInit, TypeStep, LockInit, LockStep, RootInit, RootStep, ChainInit, ChainStep,
     PTL DEF Spec

-----------------------------------------------------------------------------
(* Requests that begin after the revocation *)

\* A late request has not passed its check of auth_sessions, and will not.
LateInv ==
  \A p \in Procs : req[p].late =>
    /\ req[p].pc \in {"auth_db", "refresh_check"}
    /\ session[req[p].session] = "revoked"

LEMMA LateInit == Init => LateInv
BY DEF Init, LateInv, Idle

LEMMA LateKept ==
  ASSUME TypeInv, LateInv, Grows, NEW p \in Procs, Only(p),
         req'[p].late => /\ req'[p].pc \in {"auth_db", "refresh_check"}
                         /\ session'[req'[p].session] = "revoked"
  PROVE  LateInv'
<1>1. ASSUME NEW q \in Procs, q # p, req'[q].late
      PROVE  /\ req'[q].pc \in {"auth_db", "refresh_check"}
             /\ session'[req'[q].session] = "revoked"
  <2>1. req'[q] = req[q]
    BY <1>1 DEF Only
  <2>2. req[q].pc \in {"auth_db", "refresh_check"} /\ session[req[q].session] = "revoked"
    BY <1>1, <2>1 DEF LateInv
  <2>3. req[q].session \in Sessions
    BY <2>2 DEF TypeInv, Named, Serving, Refreshing
  <2> QED
    BY <2>1, <2>2, <2>3 DEF Grows
<1> QED
  BY <1>1 DEF LateInv

LEMMA LateStep == TypeInv /\ RootInv /\ LateInv /\ [Next]_vars => LateInv'
<1> SUFFICES ASSUME TypeInv, RootInv, LateInv, [Next]_vars PROVE LateInv'
  OBVIOUS
<1>0. Grows
  BY GrowStep
<1>1. ASSUME NEW p \in Procs, Start(p) PROVE LateInv'
  <2>1. ASSUME NEW s \in Sessions, LogInSession(p, s) PROVE LateInv'
    BY <1>0, <2>1, StartFields, LateKept DEF Begun
  <2>2. ASSUME NEW s \in Sessions, AuthIsRevoked(p, s) PROVE LateInv'
    BY <1>0, <2>2, StartFields, LateKept DEF Begun, AuthIsRevoked
  <2>3. ASSUME NEW t \in Tokens, RefreshFind(p, t) PROVE LateInv'
    BY <1>0, <2>3, StartFields, LateKept DEF Begun, RefreshFind
  <2> QED
    BY <1>1, <2>1, <2>2, <2>3 DEF Start
<1>2. ASSUME NEW p \in Procs, Ended(p) PROVE LateInv'
  BY <1>0, <1>2, LateKept DEF Ended, Begun
<1>3. ASSUME NEW p \in Procs, AuthFindActive(p) \/ RefreshCheck(p) PROVE LateInv'
  <2>1. \/ Ended(p)
        \/ IsActive(req[p].session) /\ Only(p) /\ req'[p].late = req[p].late
    BY <1>3, StepFields DEF Moved
  <2>2. IsActive(req[p].session) => ~req[p].late
    BY DEF IsActive, LateInv
  <2> QED
    BY <1>0, <1>2, <2>1, <2>2, LateKept
<1>4. ASSUME NEW p \in Procs,
             \/ RefreshRevoke(p) \/ Logout(p) \/ LogoutAll(p) \/ HandleReuse(p)
             \/ RevokeSessionsFind(p) \/ RevokeSessions(p) \/ RevokeTokensFind(p)
             \/ \E s \in Sessions : MarkRevoked(p, s)
      PROVE  LateInv'
  <2>1. ~req[p].late
    BY <1>4 DEF LateInv, RefreshRevoke, Logout, LogoutAll, HandleReuse, RevokeSessionsFind,
       RevokeSessions, RevokeTokensFind, MarkRevoked
  <2>2. Ended(p) \/ (Only(p) /\ req'[p].late = req[p].late)
    BY <1>4, StepFields DEF Moved
  <2> QED
    BY <1>0, <1>2, <2>1, <2>2, LateKept
<1>5. ASSUME NEW p \in Procs, RevokeTokens(p) PROVE LateInv'
  BY <1>0, <1>2, <1>5, RevokeTokensFields, LateKept
<1>6. ASSUME NEW p \in Procs,
             LogInToken(p) \/ RefreshCommit(p) \/ Serve(p) \/ MarkDone(p) \/ Fail(p)
      PROVE  LateInv'
  BY <1>2, <1>6, EndFields DEF LogInToken, RefreshCommit, Serve, MarkDone, Fail
<1>7. ASSUME UNCHANGED <<session, req>> PROVE LateInv'
  BY <1>7 DEF LateInv
<1> QED
  BY <1>1, <1>3, <1>4, <1>5, <1>6, <1>7 DEF Next, Step, SessionExpires, vars

\* Once the revocation of a session has committed, Authenticate and Refresh
\* refuse every request that begins: the row of auth_sessions is read again
\* after the key in Redis, and no step makes a revoked session active.
THEOREM RevokedAreRefused == Spec => []RevokedIsRefused
<1>1. LateInv => RevokedIsRefused
  BY DEF LateInv, RevokedIsRefused
<1> QED
  BY <1>1, TypeInit, TypeStep, LockInit, LockStep, RootInit, RootStep, LateInit, LateStep,
     PTL DEF Spec

-----------------------------------------------------------------------------
(* What a revocation revokes *)

Gone(s) == session[s] = "revoked" \/ s \in expired

\* The sessions that request p read before its transaction are the ones that
\* its UPDATE finds, unless they are revoked or expire in the meantime.
SeenBy(p) ==
  LET r == req[p] IN
  /\ r.pc \in Revoking => \A s \in r.seen : session[s] # "none"
  /\ r.pc = "reuse" => r.kind = "reuse"
  /\ r.pc = "sessions" => IF r.kind = "logout" THEN r.seen = {r.session}
                          ELSE \A s \in r.seen : Owner[s] = Owner[r.session]
  /\ r.pc = "sessions_wait" => \A s \in r.seen : s \in r.snapS \/ Gone(s)
  /\ r.pc \in {"tokens", "tokens_wait"} => \A s \in r.seen : s \in r.holdS \/ Gone(s)
  /\ r.pc = "mark" => \A s \in r.seen : Gone(s)

SeenInv == RedisSound /\ \A p \in Procs : SeenBy(p)

LEMMA SeenInit == Init => SeenInv
BY DEF Init, SeenInv, RedisSound, SeenBy, Revoking, Idle

\* Requests that take no step keep what they know, since the tables only grow.
LEMMA SeenKept ==
  ASSUME TypeInv, SeenInv, Grows, RedisSound', NEW p \in Procs, Only(p), SeenBy(p)'
  PROVE  SeenInv'
<1>1. ASSUME NEW q \in Procs, q # p PROVE SeenBy(q)'
  <2>1. req'[q] = req[q] /\ SeenBy(q)
    BY <1>1 DEF Only, SeenInv
  <2>2. req[q].seen \subseteq Sessions
    BY DEF TypeInv, TypeOK, Request
  <2>3. \A s \in req[q].seen : /\ Gone(s) => Gone(s)'
                               /\ session[s] # "none" => session'[s] # "none"
    BY <2>2 DEF Grows, Gone
  <2> QED
    BY <2>1, <2>3 DEF SeenBy
<1> QED
  BY <1>1 DEF SeenInv

\* A step that leaves the keys in Redis alone, or lets one expire.
LEMMA RedisKept ==
  ASSUME TypeInv, SeenInv, Grows, redis' \subseteq redis
  PROVE  RedisSound'
BY DEF SeenInv, RedisSound, Grows, TypeInv, TypeOK

LEMMA SeenStep == TypeInv /\ RootInv /\ SeenInv /\ [Next]_vars => SeenInv'
<1> SUFFICES ASSUME TypeInv, RootInv, SeenInv, [Next]_vars PROVE SeenInv'
  OBVIOUS
<1>0. Grows
  BY GrowStep
<1>1. ASSUME NEW p \in Procs, Only(p), redis' = redis, SeenBy(p)' PROVE SeenInv'
  BY <1>0, <1>1, RedisKept, SeenKept
<1>2. ASSUME NEW p \in Procs, Only(p), redis' = redis,
             \/ req'[p].pc \notin Revoking \cup {"reuse", "mark"}
             \/ req'[p].pc = "reuse" /\ req'[p].kind = "reuse"
      PROVE  SeenInv'
  BY <1>1, <1>2 DEF SeenBy, Revoking
<1>3. ASSUME NEW p \in Procs, Ended(p), redis' = redis PROVE SeenInv'
  BY <1>2, <1>3 DEF Ended, Begun, Revoking
<1>4. ASSUME NEW p \in Procs, Start(p) PROVE SeenInv'
  <2>1. redis' = redis
    BY <1>4 DEF Start, LogInSession, AuthIsRevoked, RefreshFind
  <2>2. /\ Only(p)
        /\ \/ req'[p].pc \notin Revoking \cup {"reuse", "mark"}
           \/ req'[p].pc = "reuse" /\ req'[p].kind = "reuse"
    BY <1>4, StartFields DEF Start, Begun, Revoking
  <2> QED
    BY <1>2, <2>1, <2>2
<1>5. ASSUME NEW p \in Procs, AuthFindActive(p) \/ RefreshCheck(p) \/ RefreshRevoke(p)
      PROVE  SeenInv'
  <2>1. redis' = redis
    BY <1>5 DEF AuthFindActive, RefreshCheck, RefreshRevoke
  <2>2. \/ Ended(p)
        \/ Only(p) /\ req'[p].pc \in {"granted", "refresh_revoke", "refresh_commit"}
    BY <1>5, StepFields DEF Moved
  <2> QED
    BY <1>2, <1>3, <2>1, <2>2 DEF Revoking
<1>6. ASSUME NEW p \in Procs, Logout(p) \/ LogoutAll(p) \/ HandleReuse(p) PROVE SeenInv'
  <2>1. UNCHANGED <<session, redis>> /\ SeenBy(p) /\ req[p].pc \in {"granted", "reuse"}
    BY <1>6 DEF SeenInv, Logout, LogoutAll, HandleReuse
  <2>2. \/ Ended(p)
        \/ /\ Only(p) /\ req'[p].pc = "sessions" /\ req'[p].session = req[p].session
           /\ \/ /\ IsActive(req[p].session)
                 /\ req'[p].kind = "logout" /\ req'[p].seen = {req[p].session}
              \/ req'[p].kind # "logout" /\ req'[p].seen = ActiveOf(req[p].session)
    BY <1>6, <2>1, StepFields DEF Moved, SeenBy, HandleReuse
  <2>3. CASE ~Ended(p)
    <3>1. SeenBy(p)'
      BY <2>1, <2>2, <2>3 DEF SeenBy, ActiveOf, IsActive, Revoking
    <3> QED
      BY <1>1, <2>1, <2>2, <2>3, <3>1
  <2> QED
    BY <1>3, <2>1, <2>3
<1>7. ASSUME NEW p \in Procs, RevokeSessionsFind(p) PROVE SeenInv'
  <2>1. UNCHANGED <<session, expired, redis>> /\ SeenBy(p) /\ req[p].pc = "sessions"
    BY <1>7 DEF SeenInv, RevokeSessionsFind
  <2>2. /\ Only(p) /\ req'[p].pc = "sessions_wait" /\ req'[p].seen = req[p].seen
        /\ req'[p].snapS = IF req[p].kind = "logout"
                           THEN {s \in {req[p].session} : session[s] = "active"}
                           ELSE ActiveOf(req[p].session)
    BY <1>7, StepFields DEF Moved
  <2>3. ASSUME NEW s \in req[p].seen PROVE s \in req'[p].snapS \/ Gone(s)
    <3>1. s \in Sessions /\ session[s] \in {"active", "revoked"}
      BY <2>1 DEF TypeInv, TypeOK, Request, SessionState, SeenBy, Revoking
    <3> QED
      BY <2>1, <2>2, <3>1 DEF SeenBy, ActiveOf, IsActive, Gone
  <2>4. SeenBy(p)'
    BY <2>1, <2>2, <2>3 DEF SeenBy, Gone, Revoking
  <2> QED
    BY <1>1, <2>1, <2>2, <2>4
<1>8. ASSUME NEW p \in Procs, RevokeSessions(p) PROVE SeenInv'
  <2>1. UNCHANGED <<session, expired, redis>> /\ SeenBy(p) /\ req[p].pc = "sessions_wait"
    BY <1>8 DEF SeenInv, RevokeSessions
  <2>2. /\ Only(p) /\ req'[p].pc = "tokens" /\ req'[p].seen = req[p].seen
        /\ req'[p].holdS = {s \in req[p].snapS : session[s] = "active"}
    BY <1>8, StepFields DEF Moved
  <2>3. ASSUME NEW s \in req[p].seen PROVE s \in req'[p].holdS \/ Gone(s)
    <3>1. s \in Sessions /\ session[s] \in {"active", "revoked"}
      BY <2>1 DEF TypeInv, TypeOK, Request, SessionState, SeenBy, Revoking
    <3> QED
      BY <2>1, <2>2, <3>1 DEF SeenBy, Gone
  <2>4. SeenBy(p)'
    BY <2>1, <2>2, <2>3 DEF SeenBy, Gone, Revoking
  <2> QED
    BY <1>1, <2>1, <2>2, <2>4
<1>9. ASSUME NEW p \in Procs, RevokeTokensFind(p) PROVE SeenInv'
  <2>1. UNCHANGED <<session, expired, redis>> /\ SeenBy(p) /\ req[p].pc = "tokens"
    BY <1>9 DEF SeenInv, RevokeTokensFind
  <2>2. /\ Only(p) /\ req'[p].pc = "tokens_wait" /\ req'[p].seen = req[p].seen
        /\ req'[p].holdS = req[p].holdS
    BY <1>9, StepFields DEF Moved
  <2>3. SeenBy(p)'
    BY <2>1, <2>2 DEF SeenBy, Gone, Revoking
  <2> QED
    BY <1>1, <2>1, <2>2, <2>3
<1>10. ASSUME NEW p \in Procs, RevokeTokens(p) PROVE SeenInv'
  <2>1. UNCHANGED <<expired, redis>> /\ SeenBy(p) /\ req[p].pc = "tokens_wait"
    BY <1>10 DEF SeenInv, RevokeTokens
  <2>2. CASE ~Ended(p)
    <3>1. /\ Only(p) /\ req'[p].pc = "mark" /\ req'[p].seen = req[p].seen
          /\ session' = [s \in Sessions |-> IF s \in req[p].holdS THEN "revoked"
                                                                 ELSE session[s]]
      BY <1>10, <2>2, RevokeTokensFields
    <3>2. ASSUME NEW s \in req[p].seen PROVE Gone(s)'
      <4>1. s \in Sessions
        BY DEF TypeInv, TypeOK, Request
      <4> QED
        BY <2>1, <3>1, <4>1 DEF SeenBy, Gone
    <3>3. SeenBy(p)'
      BY <3>1, <3>2 DEF SeenBy, Revoking
    <3> QED
      BY <1>1, <2>1, <3>1, <3>3
  <2> QED
    BY <1>3, <2>1, <2>2
<1>11. ASSUME NEW p \in Procs, NEW s \in Sessions, MarkRevoked(p, s) PROVE SeenInv'
  <2>1. /\ UNCHANGED <<session, expired>> /\ SeenBy(p)
        /\ req[p].pc = "mark" /\ s \in req[p].seen
        /\ redis' = redis \/ (redis' = redis \cup {s} /\ s \notin expired)
    BY <1>11 DEF SeenInv, MarkRevoked
  <2>2. Only(p) /\ req'[p].pc = "mark" /\ req'[p].seen = req[p].seen \ {s}
    BY <1>11, StepFields DEF Moved
  <2>3. SeenBy(p)'
    BY <2>1, <2>2 DEF SeenBy, Gone, Revoking
  <2>4. RedisSound'
    BY <2>1 DEF SeenInv, RedisSound, SeenBy, Gone
  <2> QED
    BY <1>0, <2>2, <2>3, <2>4, SeenKept
<1>12. ASSUME NEW p \in Procs,
              LogInToken(p) \/ RefreshCommit(p) \/ Serve(p) \/ MarkDone(p) \/ Fail(p)
       PROVE  SeenInv'
  BY <1>3, <1>12, EndFields DEF LogInToken, RefreshCommit, Serve, MarkDone, Fail
<1>13. ASSUME UNCHANGED <<session, req>>, redis' \subseteq redis, Procs # {} PROVE SeenInv'
  <2>1. PICK p \in Procs : TRUE
    BY <1>13
  <2>2. Only(p) /\ req'[p] = req[p] /\ SeenBy(p)
    BY <1>13 DEF Only, SeenInv
  <2>3. \A s : Gone(s) => Gone(s)'
    BY <1>0, <1>13 DEF Gone, Grows
  <2>4. SeenBy(p)'
    BY <1>13, <2>2, <2>3 DEF SeenBy
  <2> QED
    BY <1>0, <1>13, <2>2, <2>4, RedisKept, SeenKept
<1>14. ASSUME redis' \subseteq redis, Procs = {} PROVE SeenInv'
  BY <1>0, <1>14, RedisKept DEF SeenInv
<1>15. ASSUME NEW s \in Sessions, SessionExpires(s) PROVE SeenInv'
  BY <1>13, <1>14, <1>15 DEF SessionExpires
<1>16. ASSUME UNCHANGED vars PROVE SeenInv'
  BY <1>13, <1>14, <1>16 DEF vars
<1> QED
  BY <1>4, <1>5, <1>6, <1>7, <1>8, <1>9, <1>10, <1>11, <1>12, <1>15, <1>16 DEF Next, Step

LEMMA SeenAlways == Spec => []SeenInv
BY TypeInit, TypeStep, LockInit, LockStep, RootInit, RootStep, SeenInit, SeenStep, PTL DEF Spec

\* A key in Redis is never wrong: whatever commits or is rolled back between
\* the read of the active sessions and MarkRevoked, the sessions it marks are
\* revoked.
THEOREM RedisIsSound == Spec => []RedisSound
<1>1. SeenInv => RedisSound
  BY DEF SeenInv
<1> QED
  BY <1>1, SeenAlways, PTL

\* When LogoutAll, Logout or the reuse handler reaches Redis, every session it
\* read as active before its transaction is revoked, or has expired.
THEOREM RevocationsAreComplete == Spec => []RevocationComplete
<1>1. SeenInv => RevocationComplete
  BY DEF SeenInv, SeenBy, Gone, RevocationComplete
<1> QED
  BY <1>1, SeenAlways, PTL
-----------------------------------------------------------------------------
(* The tokens that a revocation finds *)

\* Logout has seen its own session and finds its tokens; the others find those
\* of the user.
ScopeBy(p) ==
  LET r == req[p] IN
  /\ r.pc \in Revoking /\ r.kind = "logout" => r.seen = {r.session}
  /\ r.pc = "tokens_wait" => \A t \in r.snapT :
       /\ Exists(t) /\ Owner[token[t].session] = Owner[r.session]
       /\ r.kind = "logout" => token[t].session = r.session

ScopeInv == \A p \in Procs : ScopeBy(p)

LEMMA ScopeInit == Init => ScopeInv
BY DEF Init, ScopeInv, ScopeBy, Revoking, Idle

\* Tokens stay with their sessions, so only the request of the step matters.
LEMMA ScopeKept ==
  ASSUME TypeInv, ScopeInv, Grows, NEW p \in Procs, Only(p), ScopeBy(p)'
  PROVE  ScopeInv'
<1>1. ASSUME NEW q \in Procs, q # p PROVE ScopeBy(q)'
  <2>1. req'[q] = req[q] /\ ScopeBy(q)
    BY <1>1 DEF Only, ScopeInv
  <2>2. req[q].snapT \subseteq Tokens
    BY DEF TypeInv, TypeOK, Request
  <2>3. \A t \in req[q].snapT : Exists(t) => token'[t].session = token[t].session /\ Exists(t)'
    BY <2>2 DEF Grows, Exists
  <2> QED
    BY <2>1, <2>3 DEF ScopeBy
<1> QED
  BY <1>1 DEF ScopeInv

LEMMA ScopeStep == TypeInv /\ RootInv /\ SeenInv /\ ScopeInv /\ [Next]_vars => ScopeInv'
<1> SUFFICES ASSUME TypeInv, RootInv, SeenInv, ScopeInv, [Next]_vars PROVE ScopeInv'
  OBVIOUS
<1>0. Grows
  BY GrowStep
<1>1. ASSUME NEW p \in Procs, Only(p), req'[p].pc \notin Revoking PROVE ScopeInv'
  BY <1>0, <1>1, ScopeKept DEF ScopeBy, Revoking
<1>2. ASSUME NEW p \in Procs, Start(p) PROVE ScopeInv'
  BY <1>1, <1>2, StartFields DEF Start, Begun, Revoking
<1>3. ASSUME NEW p \in Procs, Ended(p) PROVE ScopeInv'
  BY <1>1, <1>3 DEF Ended, Begun, Revoking
<1>4. ASSUME NEW p \in Procs, LogInToken(p) \/ Serve(p) \/ RefreshCommit(p) \/ MarkDone(p) \/ Fail(p)
      PROVE  ScopeInv'
  BY <1>3, <1>4, EndFields DEF LogInToken, Serve, RefreshCommit, MarkDone, Fail
<1>5. ASSUME NEW p \in Procs,
             \/ AuthFindActive(p) \/ RefreshCheck(p) \/ RefreshRevoke(p)
             \/ \E s \in Sessions : MarkRevoked(p, s)
      PROVE  ScopeInv'
  BY <1>1, <1>3, <1>5, StepFields DEF Moved, Revoking
<1>6. ASSUME NEW p \in Procs, RevokeTokens(p) PROVE ScopeInv'
  BY <1>1, <1>3, <1>6, RevokeTokensFields DEF Revoking
<1>7. ASSUME NEW p \in Procs, Logout(p) PROVE ScopeInv'
  <2>1. CASE Ended(p)
    BY <1>3, <2>1
  <2>2. CASE ~Ended(p)
    <3>1. /\ Only(p) /\ req'[p].pc = "sessions" /\ req'[p].session = req[p].session
          /\ req'[p].seen = {req[p].session}
      BY <1>7, <2>2, StepFields DEF Moved
    <3> QED
      BY <1>0, <3>1, ScopeKept DEF ScopeBy
  <2> QED
    BY <2>1, <2>2
<1>8. ASSUME NEW p \in Procs, LogoutAll(p) \/ HandleReuse(p) PROVE ScopeInv'
  <2>1. Only(p) /\ req'[p].pc = "sessions" /\ req'[p].kind # "logout"
    BY <1>8, StepFields DEF Moved, HandleReuse, SeenInv, SeenBy
  <2> QED
    BY <1>0, <2>1, ScopeKept DEF ScopeBy
<1>9. ASSUME NEW p \in Procs, RevokeSessionsFind(p) \/ RevokeSessions(p) PROVE ScopeInv'
  <2>1. /\ Only(p) /\ req'[p].pc \in {"sessions_wait", "tokens"} /\ req'[p].kind = req[p].kind
        /\ req'[p].session = req[p].session /\ req'[p].seen = req[p].seen
    BY <1>9, StepFields DEF Moved
  <2>2. req[p].pc \in Revoking
    BY <1>9 DEF RevokeSessionsFind, RevokeSessions, Revoking
  <2> QED
    BY <1>0, <2>1, <2>2, ScopeKept DEF ScopeBy, ScopeInv
<1>10. ASSUME NEW p \in Procs, RevokeTokensFind(p) PROVE ScopeInv'
  <2>1. /\ Only(p) /\ req'[p].pc = "tokens_wait" /\ req'[p].kind = req[p].kind
        /\ req'[p].session = req[p].session /\ req'[p].seen = req[p].seen
    BY <1>10, StepFields DEF Moved
  <2>2. req[p].pc \in Revoking /\ token' = token
    BY <1>10 DEF RevokeTokensFind, Revoking
  <2>3. ASSUME NEW t \in req'[p].snapT
        PROVE  /\ token[t].session # NoSession /\ Owner[token[t].session] = Owner[req[p].session]
               /\ req[p].kind = "logout" => token[t].session = req[p].session
    <3>1. req'[p].snapT = {u \in Tokens :
                             /\ Live(u)
                             /\ IF req[p].kind = "logout" THEN token[u].session = req[p].session
                                ELSE Owner[token[u].session] = Owner[req[p].session]}
      BY <1>10 DEF RevokeTokensFind, TypeInv, TypeOK, Request
    <3> QED
      BY <3>1 DEF Live, Exists
  <2>4. req[p].kind = "logout" => req[p].seen = {req[p].session}
    BY <2>2 DEF ScopeInv, ScopeBy
  <2>5. ASSUME NEW t \in req'[p].snapT
        PROVE  /\ token'[t].session # NoSession /\ Owner[token'[t].session] = Owner[req'[p].session]
               /\ req'[p].kind = "logout" => token'[t].session = req'[p].session
    BY <2>1, <2>2, <2>3
  <2>6. ScopeBy(p)'
    BY <2>1, <2>4, <2>5 DEF ScopeBy, Exists
  <2> QED
    BY <1>0, <2>1, <2>6, ScopeKept
<1>11. ASSUME UNCHANGED <<token, req>> PROVE ScopeInv'
  BY <1>11 DEF ScopeInv, ScopeBy, Exists
<1> QED
  BY <1>2, <1>4, <1>5, <1>6, <1>7, <1>8, <1>9, <1>10, <1>11
     DEF Next, Step, SessionExpires, vars

\* A session that has a live refresh token keeps one until it is revoked or
\* expires, except when a user-wide revocation that began before its login
\* finds the token: Refresh replaces the token in one transaction, and a
\* revocation holds every session that it has seen when it finds the tokens.
THEOREM TokensStay == Spec => TokenStays
<1>1. TypeInv /\ RootInv /\ SeenInv /\ ScopeInv /\ [Next]_vars =>
        [\A s \in Sessions :
           IsActive(s) /\ HasLiveToken(s) =>
             HasLiveToken(s)' \/ session'[s] = "revoked" \/ \E p \in Procs : Overtakes(p, s)]_vars
  <2> SUFFICES ASSUME TypeInv, RootInv, SeenInv, ScopeInv, [Next]_vars,
                      NEW s \in Sessions, IsActive(s), HasLiveToken(s)
               PROVE  \/ HasLiveToken(s)' \/ session'[s] = "revoked"
                      \/ \E p \in Procs : Overtakes(p, s)
    OBVIOUS
  <2>1. PICK t \in Tokens : Live(t) /\ token[t].session = s
    BY DEF HasLiveToken
  <2>2. CASE token'[t] = token[t]
    BY <2>1, <2>2 DEF HasLiveToken, Live, Exists
  <2>3. ASSUME NEW p \in Procs, LogInToken(p) PROVE token'[t] = token[t]
    BY <2>1, <2>3, LogInTokenRows DEF Live
  <2>4. ASSUME NEW p \in Procs, RefreshCommit(p) PROVE HasLiveToken(s)'
    <3> DEFINE u == req[p].token
    <3>1. /\ u \in Tokens /\ token[u].session = req[p].session
          /\ \E n \in Tokens \ {u} :
               /\ ~Exists(n) /\ token'[n] = NewToken(req[p].session)
               /\ \A x \in Tokens \ {n, u} : token'[x] = token[x]
      BY <2>4, RefreshCommitRows
    <3>2. PICK n \in Tokens \ {u} :
               /\ ~Exists(n) /\ token'[n] = NewToken(req[p].session)
               /\ \A x \in Tokens \ {n, u} : token'[x] = token[x]
      BY <3>1
    <3>3. CASE t = u
      <4>1. token'[n].session = s /\ token'[n].revoked = FALSE
        BY <2>1, <3>1, <3>2, <3>3 DEF NewToken
      <4> QED
        BY <4>1, NoSessionAssumption DEF HasLiveToken, Live, Exists
    <3>4. CASE t # u
      <4>1. token'[t] = token[t]
        BY <2>1, <3>2, <3>4 DEF Live
      <4> QED
        BY <2>1, <4>1 DEF HasLiveToken, Live, Exists
    <3> QED
      BY <3>3, <3>4
  <2>5. ASSUME NEW p \in Procs, RevokeTokens(p), token'[t] # token[t]
        PROVE  session'[s] = "revoked" \/ Overtakes(p, s)
    <3>1. /\ req'[p].pc = "mark" /\ t \in req[p].snapT
          /\ session' = [x \in Sessions |-> IF x \in req[p].holdS THEN "revoked" ELSE session[x]]
      BY <2>5, RevokeTokensFields
    <3>2. req[p].pc = "tokens_wait"
      BY <2>5 DEF RevokeTokens
    <3>3. /\ Owner[s] = Owner[req[p].session]
          /\ req[p].kind = "logout" => s \in req[p].seen
      BY <2>1, <3>1, <3>2 DEF ScopeInv, ScopeBy, Revoking
    <3>4. s \in req[p].seen => s \in req[p].holdS
      BY <3>2 DEF SeenInv, SeenBy, Gone, IsActive
    <3> QED
      BY <3>1, <3>2, <3>3, <3>4 DEF Overtakes
  <2>6. CASE UNCHANGED token
    BY <2>2, <2>6
  <2>7. ASSUME NEW p \in Procs, Start(p) \/ Step(p) \/ Fail(p)
        PROVE  \/ UNCHANGED token \/ LogInToken(p) \/ RefreshCommit(p) \/ RevokeTokens(p)
    BY <2>7
       DEF Start, Step, Fail, LogInSession, AuthIsRevoked, RefreshFind, AuthFindActive, Serve,
           RefreshCheck, RefreshRevoke, Logout, LogoutAll, HandleReuse, RevokeSessionsFind,
           RevokeSessions, RevokeTokensFind, MarkRevoked, MarkDone
  <2>8. CASE \E p \in Procs : Start(p) \/ Step(p) \/ Fail(p)
    BY <2>2, <2>3, <2>4, <2>5, <2>6, <2>7, <2>8
  <2>9. CASE (\E x \in Sessions : SessionExpires(x)) \/ UNCHANGED vars
    BY <2>6, <2>9 DEF SessionExpires, vars
  <2> QED
    BY <2>8, <2>9 DEF Next
<1> QED
  BY <1>1, TypeInit, TypeStep, LockInit, LockStep, RootInit, RootStep, SeenInit, SeenStep,
     ScopeInit, ScopeStep, PTL DEF Spec, TokenStays
=============================================================================
