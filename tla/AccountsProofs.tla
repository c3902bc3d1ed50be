--------------------------- MODULE AccountsProofs ---------------------------
(***************************************************************************)
(* Proofs about Accounts, for any number of requests, accounts, tokens and *)
(* passwords. Four invariants are inductive, each relative to the ones     *)
(* before it: TypeInv, LinkInv (a request that was given a token is about  *)
(* the account of that token), StatusInv with ProofInv (what the columns   *)
(* of an account say), and OlderInv (what an issuing request has found and *)
(* locked). RowStep and Grows say once what a step may do to a row of each *)
(* table; the invariants use them instead of the actions.                  *)
(***************************************************************************)
EXTENDS Accounts, TLAPS

Issuing == {"insert", "revoke_find", "revoke", "issue"}
Using == {"find_user", "verify", "use"}

\* A request that is under way is about an account, and has the token that
\* its next statements need.
Proper(r) ==
  /\ r.pc # "idle" => r.user \in Users
  /\ r.pc \in Issuing \cup {"find_user"} => r.type \in Type
  /\ r.pc \in Using => r.token \in Tokens
  /\ r.pc = "password" => /\ r.type \in {"none", "password_reset", "password_set"}
                          /\ r.type # "none" => r.token \in Tokens

TypeInv == TypeOK /\ \A p \in Procs : Proper(req[p])

LEMMA IdleType == Idle \in Request /\ Proper(Idle)
BY DEF Idle, Request, PC, Proper, Issuing, Using

LEMMA TypeInit == Init => TypeInv
BY IdleType DEF Init, TypeInv, TypeOK, UserRow, Status, TokenRow, Type

\* Request p becomes r.
LEMMA RequestType ==
  ASSUME TypeInv, NEW p \in Procs, NEW r \in Request, Proper(r),
         req' = [req EXCEPT ![p] = r]
  PROVE  req' \in [Procs -> Request] /\ \A q \in Procs : Proper(req'[q])
BY DEF TypeInv, TypeOK

LEMMA EndType ==
  ASSUME TypeInv, NEW p \in Procs, End(p)
  PROVE  req' \in [Procs -> Request] /\ \A q \in Procs : Proper(req'[q])
BY IdleType, RequestType DEF End

LEMMA GoToType ==
  ASSUME TypeInv, NEW p \in Procs, NEW pc \in {"verify", "password", "use"}, GoTo(p, pc),
         req[p].pc # "idle", req[p].token \in Tokens,
         pc = "password" => req[p].type \in {"password_reset", "password_set"}
  PROVE  req' \in [Procs -> Request] /\ \A q \in Procs : Proper(req'[q])
<1> DEFINE r == [req[p] EXCEPT !.pc = pc]
<1>1. req[p] \in Request /\ Proper(req[p])
  BY DEF TypeInv, TypeOK
<1>2. r \in Request
  BY <1>1 DEF Request, PC
<1>3. r.pc = pc /\ r.user = req[p].user /\ r.token = req[p].token /\ r.type = req[p].type
  BY <1>1 DEF Request
<1>4. req' = [req EXCEPT ![p] = r]
  BY DEF GoTo, TypeInv, TypeOK
<1> HIDE DEF r
<1>5. Proper(r)
  BY <1>1, <1>3 DEF Proper, Issuing, Using
<1> QED
  BY <1>2, <1>4, <1>5, RequestType

LEMMA RevokedRow ==
  ASSUME NEW r \in TokenRow
  PROVE  LET q == [r EXCEPT !.revoked = TRUE] IN
         /\ q \in TokenRow
         /\ q.user = r.user /\ q.type = r.type /\ q.older = r.older
         /\ q.used = r.used /\ q.revoked
BY DEF TokenRow

LEMMA TypeStep == TypeInv /\ [Next]_vars => TypeInv'
<1> SUFFICES ASSUME TypeInv, [Next]_vars PROVE TypeInv'
  OBVIOUS
<1>1. ASSUME NEW p \in Procs, NEW r \in Request, r.user \in Users,
             r.pc \in {"insert", "revoke_find", "password", "delete", "restore"},
             r.pc \in Issuing => r.type \in Type, r.pc = "password" => r.type = "none",
             Begin(p, r), UNCHANGED <<user, token, expired, presented, restored>>
      PROVE  TypeInv'
  <2>1. Proper(r)
    BY <1>1 DEF Proper, Using, Issuing
  <2>2. req' \in [Procs -> Request] /\ \A q \in Procs : Proper(req'[q])
    BY <1>1, <2>1, RequestType DEF Begin
  <2> QED
    BY <1>1, <2>2 DEF TypeInv, TypeOK
<1>2. ASSUME NEW p \in Procs, Start(p) PROVE TypeInv'
  <2>1. ASSUME NEW u \in Users, NEW w \in Passwords, Register(p, u, w) PROVE TypeInv'
    <3> DEFINE r == [Idle EXCEPT !.pc = "insert", !.user = u, !.password = w,
                                 !.type = "email_verification"]
    <3>1. r \in Request /\ r.pc = "insert" /\ r.user = u /\ r.type = "email_verification"
      BY DEF Idle, Request, PC, Type
    <3>2. Begin(p, r) /\ UNCHANGED <<user, token, expired, presented, restored>>
      BY <2>1 DEF Register
    <3> HIDE DEF r
    <3> QED
      BY <1>1, <3>1, <3>2 DEF Type
  <2>2. ASSUME NEW u \in Users, NEW w \in Passwords, ChangePassword(p, u, w) PROVE TypeInv'
    <3> DEFINE r == [Idle EXCEPT !.pc = "password", !.user = u, !.password = w]
    <3>1. r \in Request /\ r.pc = "password" /\ r.user = u /\ r.type = "none"
      BY DEF Idle, Request, PC
    <3>2. Begin(p, r) /\ UNCHANGED <<user, token, expired, presented, restored>>
      BY <2>2 DEF ChangePassword
    <3> HIDE DEF r
    <3> QED
      BY <1>1, <3>1, <3>2 DEF Issuing
  <2>3. ASSUME NEW u \in Users, NEW pc \in {"insert", "revoke_find"}, NEW type \in Type,
               Begin(p, [Idle EXCEPT !.pc = pc, !.user = u, !.type = type]),
               UNCHANGED <<user, token, expired, presented, restored>>
        PROVE  TypeInv'
    <3> DEFINE r == [Idle EXCEPT !.pc = pc, !.user = u, !.type = type]
    <3>1. r \in Request /\ r.pc = pc /\ r.user = u /\ r.type = type
      BY DEF Idle, Request, PC
    <3>2. Begin(p, r)
      BY <2>3
    <3> HIDE DEF r
    <3> QED
      BY <1>1, <2>3, <3>1, <3>2
  <2>4. ASSUME NEW u \in Users, NEW pc \in {"delete", "restore"},
               Begin(p, [Idle EXCEPT !.pc = pc, !.user = u]),
               UNCHANGED <<user, token, expired, presented, restored>>
        PROVE  TypeInv'
    <3> DEFINE r == [Idle EXCEPT !.pc = pc, !.user = u]
    <3>1. r \in Request /\ r.pc = pc /\ r.user = u
      BY DEF Idle, Request, PC
    <3>2. Begin(p, r)
      BY <2>4
    <3> HIDE DEF r
    <3> QED
      BY <1>1, <2>4, <3>1, <3>2 DEF Issuing
  <2>5. ASSUME NEW u \in Users,
               CreateUser(p, u) \/ ResendVerification(p, u) \/ ForgotPassword(p, u)
        PROVE  TypeInv'
    BY <2>3, <2>5 DEF CreateUser, ResendVerification, ForgotPassword, IssueBegins, Type
  <2>6. ASSUME NEW u \in Users, DeleteUser(p, u) \/ RestoreUser(p, u) PROVE TypeInv'
    BY <2>4, <2>6 DEF DeleteUser, RestoreUser
  <2> QED
    BY <1>2, <2>1, <2>2, <2>5, <2>6 DEF Start
<1>3. ASSUME NEW p \in Procs, NEW t \in Tokens, NEW w \in Passwords, FindValidToken(p, t, w)
      PROVE  TypeInv'
  <2> DEFINE type == token[t].type
             v == IF type = "email_verification" THEN NoPassword ELSE w
             r == [Idle EXCEPT !.pc = "find_user", !.type = type, !.user = token[t].user,
                               !.token = t, !.password = v]
  <2>1. type \in Type /\ token[t].user \in Users /\ v \in Passwords \cup {NoPassword}
    BY <1>3 DEF FindValidToken, Valid, Exists, TypeInv, TypeOK, TokenRow
  <2>2. req' = [req EXCEPT ![p] = r]
    BY <1>3 DEF FindValidToken, Begin
  <2> HIDE DEF type, v
  <2>3. r \in Request /\ r.pc = "find_user" /\ r.user = token[t].user /\ r.type = type /\ r.token = t
    BY <2>1 DEF Idle, Request, PC
  <2> HIDE DEF r
  <2>4. Proper(r)
    BY <2>1, <2>3 DEF Proper, Issuing, Using
  <2>5. req' \in [Procs -> Request] /\ \A q \in Procs : Proper(req'[q])
    BY <2>2, <2>3, <2>4, RequestType
  <2> QED
    BY <1>3, <2>5 DEF TypeInv, TypeOK, FindValidToken
<1>4. ASSUME NEW p \in Procs, InsertUser(p) PROVE TypeInv'
  <2>1. /\ req[p].user \in Users /\ req[p].type \in Type
        /\ req[p].password \in Passwords \cup {NoPassword} /\ req[p].snap \subseteq Tokens
    BY <1>4 DEF InsertUser, TypeInv, TypeOK, Proper, Issuing, Request
  <2>2. NewToken(req[p]) \in TokenRow
    BY <2>1 DEF NewToken, TokenRow
  <2>3. token' \in [Tokens -> TokenRow]
    BY <1>4, <2>2 DEF InsertUser, TypeInv, TypeOK
  <2>4. user' \in [Users -> UserRow]
    <3> DEFINE x == req[p].user
               v == [user EXCEPT ![x].status = "pending"]
    <3>1. v \in [Users -> UserRow]
      BY <2>1 DEF TypeInv, TypeOK, UserRow, Status
    <3>2. user' = user \/ user' = [v EXCEPT ![x].password = req[p].password]
      BY <1>4 DEF InsertUser
    <3> HIDE DEF v
    <3> QED
      BY <2>1, <3>1, <3>2 DEF TypeInv, TypeOK, UserRow
  <2> QED
    BY <1>4, <2>3, <2>4, EndType DEF InsertUser, TypeInv, TypeOK
<1>5. ASSUME NEW p \in Procs, RevokeFind(p) \/ RevokeByUserAndType(p) PROVE TypeInv'
  <2>1. req[p] \in Request /\ Proper(req[p])
    BY DEF TypeInv, TypeOK
  <2>2. \E pc \in {"revoke", "issue"}, s \in SUBSET Tokens, h \in SUBSET Tokens :
          req' = [req EXCEPT ![p] = [req[p] EXCEPT !.pc = pc, !.snap = s, !.hold = h]]
    <3>1. CASE RevokeFind(p)
      <4> DEFINE s == {t \in Tokens : /\ Valid(t)
                                      /\ token[t].user = req[p].user
                                      /\ token[t].type = req[p].type}
      <4>1. req' = [req EXCEPT ![p].pc = "revoke", ![p].snap = s]
        BY <3>1 DEF RevokeFind
      <4>2. s \in SUBSET Tokens /\ req[p].hold \in SUBSET Tokens
        BY <2>1 DEF Request
      <4> HIDE DEF s
      <4>3. req' = [req EXCEPT ![p] = [req[p] EXCEPT !.pc = "revoke", !.snap = s,
                                                     !.hold = req[p].hold]]
        BY <2>1, <4>1 DEF TypeInv, TypeOK, Request
      <4> QED
        BY <4>2, <4>3
    <3>2. CASE RevokeByUserAndType(p)
      <4> DEFINE h == {t \in req[p].snap : Valid(t)}
      <4>1. req' = [req EXCEPT ![p].pc = "issue", ![p].hold = h]
        BY <3>2 DEF RevokeByUserAndType
      <4>2. h \in SUBSET Tokens /\ req[p].snap \in SUBSET Tokens
        BY <2>1 DEF Request
      <4> HIDE DEF h
      <4>3. req' = [req EXCEPT ![p] = [req[p] EXCEPT !.pc = "issue", !.snap = req[p].snap,
                                                     !.hold = h]]
        BY <2>1, <4>1 DEF TypeInv, TypeOK, Request
      <4> QED
        BY <4>2, <4>3
    <3> QED
      BY <1>5, <3>1, <3>2
  <2>3. PICK pc \in {"revoke", "issue"}, s \in SUBSET Tokens, h \in SUBSET Tokens :
          req' = [req EXCEPT ![p] = [req[p] EXCEPT !.pc = pc, !.snap = s, !.hold = h]]
    BY <2>2
  <2> DEFINE r == [req[p] EXCEPT !.pc = pc, !.snap = s, !.hold = h]
  <2>4. r \in Request /\ r.pc = pc /\ r.user = req[p].user /\ r.type = req[p].type
    BY <2>1 DEF Request, PC
  <2> HIDE DEF r
  <2>5. req[p].pc \in Issuing
    BY <1>5 DEF RevokeFind, RevokeByUserAndType, Issuing
  <2>6. Proper(r)
    BY <2>1, <2>4, <2>5 DEF Proper, Issuing, Using
  <2>7. req' \in [Procs -> Request] /\ \A q \in Procs : Proper(req'[q])
    BY <2>3, <2>4, <2>6, RequestType DEF r
  <2> QED
    BY <1>5, <2>7 DEF TypeInv, TypeOK, RevokeFind, RevokeByUserAndType
<1>6. ASSUME NEW p \in Procs, IssueToken(p) PROVE TypeInv'
  <2>1. req[p].user \in Users /\ req[p].type \in Type /\ req[p].snap \subseteq Tokens
    BY <1>6 DEF IssueToken, TypeInv, TypeOK, Proper, Issuing, Request
  <2>2. NewToken(req[p]) \in TokenRow
    BY <2>1 DEF NewToken, TokenRow
  <2>3. \A t \in Tokens : [token[t] EXCEPT !.revoked = TRUE] \in TokenRow
    BY RevokedRow DEF TypeInv, TypeOK
  <2>4. token' \in [Tokens -> TokenRow]
    BY <1>6, <2>2, <2>3 DEF IssueToken, TypeInv, TypeOK
  <2> QED
    BY <1>6, <2>4, EndType DEF IssueToken, TypeInv, TypeOK
<1>7. ASSUME NEW p \in Procs, FindUser(p) PROVE TypeInv'
  <2>1. Proper(req[p]) /\ req[p].token \in Tokens
    BY <1>7 DEF TypeInv, FindUser, Proper, Using
  <2>2. req' \in [Procs -> Request] /\ \A q \in Procs : Proper(req'[q])
    BY <1>7, <2>1, EndType, GoToType DEF FindUser
  <2> QED
    BY <1>7, <2>2 DEF TypeInv, TypeOK, FindUser
<1>8. ASSUME NEW p \in Procs, UpdatePassword(p) PROVE TypeInv'
  <2>1. /\ Proper(req[p]) /\ req[p].user \in Users
        /\ req[p].type \in {"none", "password_reset", "password_set"}
        /\ req[p].password \in Passwords \cup {NoPassword}
    BY <1>8 DEF TypeInv, TypeOK, Request, UpdatePassword, Proper
  <2>2. End(p) \/ (req[p].type # "none" /\ (GoTo(p, "use") \/ GoTo(p, "verify")))
    BY <1>8, <2>1 DEF UpdatePassword, AfterPassword
  <2>3. req' \in [Procs -> Request] /\ \A q \in Procs : Proper(req'[q])
    BY <1>8, <2>1, <2>2, EndType, GoToType DEF UpdatePassword, Proper
  <2>4. user' \in [Users -> UserRow]
    BY <1>8, <2>1 DEF UpdatePassword, TypeInv, TypeOK, UserRow
  <2> QED
    BY <1>8, <2>3, <2>4 DEF TypeInv, TypeOK, UpdatePassword
<1>9. ASSUME NEW p \in Procs, MarkEmailVerified(p) PROVE TypeInv'
  <2>1. Proper(req[p]) /\ req[p].user \in Users /\ req[p].token \in Tokens
    BY <1>9 DEF TypeInv, MarkEmailVerified, Proper, Using
  <2>2. req' \in [Procs -> Request] /\ \A q \in Procs : Proper(req'[q])
    BY <1>9, <2>1, EndType, GoToType DEF MarkEmailVerified
  <2>3. user' \in [Users -> UserRow]
    <3> DEFINE x == req[p].user
               v == [user EXCEPT ![x].verified = TRUE]
    <3>1. v \in [Users -> UserRow]
      BY <2>1 DEF TypeInv, TypeOK, UserRow
    <3>2. user' = user \/ user' = [v EXCEPT ![x].status = "active"]
      BY <1>9 DEF MarkEmailVerified
    <3> HIDE DEF v
    <3>3. [v EXCEPT ![x].status = "active"] \in [Users -> UserRow]
      BY <2>1, <3>1 DEF UserRow, Status
    <3> QED
      BY <3>2, <3>3 DEF TypeInv, TypeOK
  <2> QED
    BY <1>9, <2>2, <2>3 DEF TypeInv, TypeOK, MarkEmailVerified
<1>10. ASSUME NEW p \in Procs, MarkUsed(p) PROVE TypeInv'
  <2>1. req[p].token \in Tokens
    BY <1>10 DEF TypeInv, MarkUsed, Proper, Using
  <2>2. token' \in [Tokens -> TokenRow]
    BY <1>10, <2>1 DEF TypeInv, TypeOK, MarkUsed, TokenRow
  <2> QED
    BY <1>10, <2>2, EndType DEF TypeInv, TypeOK, MarkUsed
<1>11. ASSUME NEW p \in Procs, Delete(p) \/ Restore(p) PROVE TypeInv'
  <2> DEFINE x == req[p].user
  <2>1. x \in Users /\ restored' \subseteq Users
    BY <1>11 DEF TypeInv, TypeOK, Delete, Restore, Proper
  <2>2. ASSUME NEW b \in BOOLEAN, NEW st \in Status,
               user' = [user EXCEPT ![x].deleted = b, ![x].status = st]
        PROVE  user' \in [Users -> UserRow]
    <3> DEFINE v == [user EXCEPT ![x].deleted = b]
    <3>1. v \in [Users -> UserRow]
      BY <2>1 DEF TypeInv, TypeOK, UserRow
    <3>2. user' = [v EXCEPT ![x].status = st]
      BY <2>2
    <3> HIDE DEF v
    <3> QED
      BY <2>1, <3>1, <3>2 DEF UserRow, Status
  <2>3. user' \in [Users -> UserRow]
    BY <1>11, <2>2 DEF TypeInv, TypeOK, Delete, Restore, Status
  <2> QED
    BY <1>11, <2>1, <2>3, EndType DEF TypeInv, TypeOK, Delete, Restore
<1>12. ASSUME NEW p \in Procs, Fail(p) PROVE TypeInv'
  BY <1>12, EndType DEF TypeInv, TypeOK, Fail
<1>13. ASSUME NEW t \in Tokens, TokenExpires(t) PROVE TypeInv'
  BY <1>13 DEF TypeInv, TypeOK, TokenExpires
<1>14. ASSUME UNCHANGED vars PROVE TypeInv'
  BY <1>14 DEF TypeInv, TypeOK, vars
<1> QED
  BY <1>2, <1>3, <1>4, <1>5, <1>6, <1>7, <1>8, <1>9, <1>10, <1>11, <1>12, <1>13, <1>14
     DEF Next, Present, Step

\* The tables and the requests stay well formed: the columns of a row hold what
\* the code knows, and every statement is about an account or a token that exists.
THEOREM TypeCorrect == Spec => []TypeOK
<1>1. TypeInv => TypeOK
  BY DEF TypeInv
<1> QED
  BY <1>1, TypeInit, TypeStep, PTL DEF Spec

-----------------------------------------------------------------------------
(* The request of a step, field by field *)

Only(p) == \A q \in Procs \ {p} : req'[q] = req[q]

LEMMA StartFields ==
  ASSUME TypeInv, NEW p \in Procs, Start(p)
  PROVE  /\ Only(p) /\ req'[p].snap = {}
         /\ \/ req'[p].pc \in {"insert", "revoke_find", "delete", "restore"}
            \/ req'[p].pc = "password" /\ req'[p].type = "none"
         /\ UNCHANGED <<user, token, expired, presented, restored>>
<1> USE DEF Begin, Only, Idle, TypeInv, TypeOK
<1>1. ASSUME NEW u \in Users, NEW w \in Passwords, Register(p, u, w)
      PROVE  Only(p) /\ req'[p].snap = {} /\ req'[p].pc = "insert"
  BY <1>1 DEF Register
<1>2. ASSUME NEW u \in Users, NEW w \in Passwords, ChangePassword(p, u, w)
      PROVE  Only(p) /\ req'[p].snap = {} /\ req'[p].pc = "password" /\ req'[p].type = "none"
  BY <1>2 DEF ChangePassword
<1>3. ASSUME NEW u \in Users, CreateUser(p, u)
      PROVE  Only(p) /\ req'[p].snap = {} /\ req'[p].pc = "insert"
  BY <1>3 DEF CreateUser
<1>4. ASSUME NEW u \in Users, ResendVerification(p, u) \/ ForgotPassword(p, u)
      PROVE  Only(p) /\ req'[p].snap = {} /\ req'[p].pc = "revoke_find"
  BY <1>4 DEF ResendVerification, ForgotPassword, IssueBegins
<1>5. ASSUME NEW u \in Users, DeleteUser(p, u)
      PROVE  Only(p) /\ req'[p].snap = {} /\ req'[p].pc = "delete"
  BY <1>5 DEF DeleteUser
<1>6. ASSUME NEW u \in Users, RestoreUser(p, u)
      PROVE  Only(p) /\ req'[p].snap = {} /\ req'[p].pc = "restore"
  BY <1>6 DEF RestoreUser
<1> HIDE DEF Begin, Only, Idle, TypeInv, TypeOK
<1>7. UNCHANGED <<user, token, expired, presented, restored>>
  BY DEF Start, Register, ChangePassword, CreateUser, ResendVerification, ForgotPassword,
     IssueBegins, DeleteUser, RestoreUser
<1> QED
  BY <1>1, <1>2, <1>3, <1>4, <1>5, <1>6, <1>7 DEF Start

LEMMA PresentFields ==
  ASSUME TypeInv, NEW p \in Procs, NEW t \in Tokens, NEW w \in Passwords, FindValidToken(p, t, w)
  PROVE  /\ Only(p) /\ req'[p].pc = "find_user" /\ req'[p].token = t
         /\ req'[p].user = token[t].user /\ req'[p].type = token[t].type
<1> DEFINE type == token[t].type
           v == IF type = "email_verification" THEN NoPassword ELSE w
           r == [Idle EXCEPT !.pc = "find_user", !.type = type, !.user = token[t].user,
                             !.token = t, !.password = v]
<1>1. req' = [req EXCEPT ![p] = r]
  BY DEF FindValidToken, Begin
<1> HIDE DEF type, v
<1>2. r.pc = "find_user" /\ r.user = token[t].user /\ r.type = type /\ r.token = t
  BY DEF Idle
<1> HIDE DEF r
<1> QED
  BY <1>1, <1>2 DEF Only, TypeInv, TypeOK, type

LEMMA StepFields ==
  ASSUME TypeInv, NEW p \in Procs
  PROVE  /\ End(p) => Only(p) /\ req'[p].pc = "idle"
         /\ \A pc : GoTo(p, pc) =>
              /\ Only(p) /\ req'[p].pc = pc
              /\ req'[p].user = req[p].user /\ req'[p].token = req[p].token
              /\ req'[p].type = req[p].type
         /\ RevokeFind(p) =>
              /\ Only(p) /\ req'[p].pc = "revoke"
              /\ \A t \in req'[p].snap : t \in Tokens /\ Valid(t)
         /\ RevokeByUserAndType(p) =>
              /\ Only(p) /\ req'[p].pc = "issue" /\ req'[p].snap = req[p].snap
              /\ req'[p].hold = {t \in req[p].snap : Valid(t)}
<1>1. End(p) => Only(p) /\ req'[p].pc = "idle"
  BY DEF End, Only, Idle, TypeInv, TypeOK
<1>2. ASSUME NEW pc, GoTo(p, pc)
      PROVE  /\ Only(p) /\ req'[p].pc = pc
             /\ req'[p].user = req[p].user /\ req'[p].token = req[p].token
             /\ req'[p].type = req[p].type
  BY <1>2 DEF GoTo, Only, TypeInv, TypeOK, Request
<1>3. ASSUME RevokeFind(p)
      PROVE  /\ Only(p) /\ req'[p].pc = "revoke"
             /\ \A t \in req'[p].snap : t \in Tokens /\ Valid(t)
  BY <1>3 DEF RevokeFind, Only, TypeInv, TypeOK, Request
<1>4. ASSUME RevokeByUserAndType(p)
      PROVE  /\ Only(p) /\ req'[p].pc = "issue" /\ req'[p].snap = req[p].snap
             /\ req'[p].hold = {t \in req[p].snap : Valid(t)}
  BY <1>4 DEF RevokeByUserAndType, Only, TypeInv, TypeOK, Request
<1> QED
  BY <1>1, <1>2, <1>3, <1>4

-----------------------------------------------------------------------------
(* The rows of user_tokens *)

\* A token that exists keeps its account and its type, and never becomes valid
\* again.
Grows ==
  /\ \A t \in Tokens : Exists(t) =>
       /\ token'[t].user = token[t].user /\ token'[t].type = token[t].type
       /\ token'[t].older = token[t].older
       /\ token[t].used => token'[t].used
       /\ token[t].revoked => token'[t].revoked
  /\ expired \subseteq expired'
  /\ presented \subseteq presented'

LEMMA GrowStep == TypeInv /\ [Next]_vars => Grows
<1> SUFFICES ASSUME TypeInv, [Next]_vars PROVE Grows
  OBVIOUS
<1>1. ASSUME NEW p \in Procs, InsertUser(p) PROVE Grows
  BY <1>1 DEF InsertUser, Grows, TypeInv, TypeOK
<1>2. ASSUME NEW p \in Procs, IssueToken(p) PROVE Grows
  <2>1. \A t \in Tokens : LET q == [token[t] EXCEPT !.revoked = TRUE] IN
          /\ q.user = token[t].user /\ q.type = token[t].type
          /\ q.older = token[t].older /\ q.used = token[t].used /\ q.revoked
    BY RevokedRow DEF TypeInv, TypeOK
  <2> QED
    BY <1>2, <2>1 DEF IssueToken, Grows
<1>3. ASSUME NEW p \in Procs, MarkUsed(p) PROVE Grows
  <2> DEFINE x == req[p].token
  <2>1. x \in Tokens /\ token \in [Tokens -> TokenRow]
    BY <1>3 DEF TypeInv, TypeOK, MarkUsed, Proper, Using
  <2>2. token' = [token EXCEPT ![x].used = TRUE]
    BY <1>3 DEF MarkUsed
  <2>3. /\ \A t \in Tokens \ {x} : token'[t] = token[t]
        /\ token'[x].user = token[x].user /\ token'[x].type = token[x].type
        /\ token'[x].older = token[x].older /\ token'[x].revoked = token[x].revoked
        /\ token'[x].used
    BY <2>1, <2>2 DEF TokenRow
  <2> QED
    BY <1>3, <2>3 DEF MarkUsed, Grows
<1>4. ASSUME token' = token, expired \subseteq expired', presented \subseteq presented'
      PROVE  Grows
  BY <1>4 DEF Grows
<1>5. ASSUME NEW p \in Procs, Start(p) PROVE Grows
  BY <1>4, <1>5, StartFields
<1>6. ASSUME NEW p \in Procs, Step(p) PROVE Grows
  BY <1>1, <1>2, <1>3, <1>4, <1>6 DEF Step, RevokeFind, RevokeByUserAndType, FindUser,
     UpdatePassword, MarkEmailVerified, Delete, Restore
<1> QED
  BY <1>4, <1>5, <1>6 DEF Next, Present, FindValidToken, Fail, TokenExpires, vars

\* What stays true of a token that exists.
LEMMA TokenKept ==
  ASSUME Grows, NEW t \in Tokens, Exists(t)
  PROVE  Exists(t)' /\ (~Valid(t) => ~Valid(t)')
BY DEF Grows, Exists, Valid

-----------------------------------------------------------------------------
(* A request is about the account of its token *)

Linked(r) ==
  /\ r.pc \in Using \/ (r.pc = "password" /\ r.type # "none") =>
       /\ r.token \in presented
       /\ token[r.token].user = r.user /\ token[r.token].type = r.type
  /\ r.pc = "verify" => r.type # "password_reset"

LinkInv == \A p \in Procs : Linked(req[p])

LEMMA LinkInit == Init => LinkInv
BY DEF Init, LinkInv, Linked, Idle, Using

LEMMA LinkKept ==
  ASSUME TypeInv, LinkInv, Grows, NEW p \in Procs, Only(p), Linked(req[p])'
  PROVE  LinkInv'
<1>1. ASSUME NEW q \in Procs, q # p PROVE Linked(req[q])'
  <2>1. req'[q] = req[q] /\ Linked(req[q]) /\ Proper(req[q])
    BY <1>1 DEF Only, LinkInv, TypeInv
  <2>2. ASSUME req[q].pc \in Using \/ (req[q].pc = "password" /\ req[q].type # "none")
        PROVE  /\ req[q].token \in presented'
               /\ token'[req[q].token].user = req[q].user
               /\ token'[req[q].token].type = req[q].type
    <3>1. req[q].token \in Tokens /\ req[q].user \in Users
      BY <2>1, <2>2 DEF Proper, Using
    <3>2. Exists(req[q].token)
      BY <2>1, <2>2, <3>1, NoUserAssumption DEF Linked, Exists
    <3> QED
      BY <2>1, <2>2, <3>1, <3>2 DEF Grows, Linked
  <2> QED
    BY <2>1, <2>2 DEF Linked
<1> QED
  BY <1>1 DEF LinkInv

LEMMA LinkStep == TypeInv /\ LinkInv /\ [Next]_vars => LinkInv'
<1> SUFFICES ASSUME TypeInv, LinkInv, [Next]_vars PROVE LinkInv'
  OBVIOUS
<1>0. Grows
  BY GrowStep
<1>1. ASSUME NEW p \in Procs, Only(p),
             \/ req'[p].pc \notin Using \cup {"password"}
             \/ req'[p].pc = "password" /\ req'[p].type = "none"
      PROVE  LinkInv'
  BY <1>0, <1>1, LinkKept DEF Linked, Using
<1>2. ASSUME NEW p \in Procs, Start(p) PROVE LinkInv'
  BY <1>1, <1>2, StartFields DEF Using
<1>3. ASSUME NEW p \in Procs, NEW t \in Tokens, NEW w \in Passwords, FindValidToken(p, t, w)
      PROVE  LinkInv'
  <2>1. token' = token /\ t \in presented'
    BY <1>3 DEF FindValidToken
  <2> QED
    BY <1>0, <1>3, <2>1, PresentFields, LinkKept DEF Linked
<1>4. ASSUME NEW p \in Procs, End(p) PROVE LinkInv'
  BY <1>1, <1>4, StepFields DEF Using
<1>5. ASSUME NEW p \in Procs, NEW pc, GoTo(p, pc), token' = token, presented' = presented,
             req[p].pc \in Using \/ req[p].pc = "password", req[p].type # "none",
             pc = "verify" => req[p].type # "password_reset"
      PROVE  LinkInv'
  <2>1. Linked(req[p])
    BY DEF LinkInv
  <2> QED
    BY <1>0, <1>5, <2>1, StepFields, LinkKept DEF Linked
<1>6. ASSUME NEW p \in Procs, FindUser(p) PROVE LinkInv'
  BY <1>4, <1>5, <1>6 DEF FindUser, Using
<1>7. ASSUME NEW p \in Procs, UpdatePassword(p) PROVE LinkInv'
  <2>1. req[p].type \in {"none", "password_reset", "password_set"}
    BY <1>7 DEF TypeInv, Proper, UpdatePassword
  <2>2. \/ End(p)
        \/ /\ req[p].type # "none"
           /\ GoTo(p, "use") \/ (GoTo(p, "verify") /\ req[p].type # "password_reset")
    BY <1>7, <2>1 DEF UpdatePassword, AfterPassword
  <2> QED
    BY <1>4, <1>5, <1>7, <2>2 DEF UpdatePassword
<1>8. ASSUME NEW p \in Procs, MarkEmailVerified(p) PROVE LinkInv'
  <2>1. req[p].type # "none"
    BY <1>8 DEF MarkEmailVerified, LinkInv, Linked, Using, TypeInv, TypeOK, TokenRow, Type
  <2> QED
    BY <1>4, <1>5, <1>8, <2>1 DEF MarkEmailVerified, Using
<1>9. ASSUME NEW p \in Procs, RevokeFind(p) \/ RevokeByUserAndType(p) PROVE LinkInv'
  BY <1>1, <1>9, StepFields DEF Using
<1>10. ASSUME UNCHANGED <<req, token, presented>> PROVE LinkInv'
  BY <1>10 DEF LinkInv, Linked
<1>11. ASSUME NEW p \in Procs, Step(p) PROVE LinkInv'
  BY <1>4, <1>6, <1>7, <1>8, <1>9, <1>11
     DEF Step, InsertUser, IssueToken, MarkUsed, Delete, Restore
<1> QED
  BY <1>2, <1>3, <1>4, <1>10, <1>11 DEF Next, Present, Fail, TokenExpires, vars

-----------------------------------------------------------------------------
(* The rows of users *)

\* A token that was mailed to the address of account u has come back.
Proved(u) == \E t \in presented : token[t].user = u /\ token[t].type # "password_reset"

\* What a step may do to the row of account u: nothing, INSERT, UpdatePassword,
\* MarkEmailVerified, Delete, Restore.
RowStep(u) ==
  LET r == user[u]
      n == user'[u]
  IN  \/ n = r
      \/ /\ r.status = "none" /\ n.status = "pending"
         /\ n.deleted = r.deleted /\ n.verified = r.verified
      \/ /\ ~r.deleted /\ n.status = r.status
         /\ n.deleted = r.deleted /\ n.verified = r.verified
      \/ ~r.deleted /\ Proved(u) /\ n.status = "active" /\ ~n.deleted /\ n.verified
      \/ /\ ~r.deleted /\ n.status = "deleted" /\ n.deleted
         /\ n.verified = r.verified /\ n.password = r.password
      \/ /\ u \in restored' /\ n.status = "active" /\ ~n.deleted
         /\ n.verified = r.verified /\ n.password = r.password

\* Two columns of one row.
LEMMA RowUpdate ==
  ASSUME user \in [Users -> UserRow], NEW x \in Users
  PROVE  /\ \A w \in Passwords \cup {NoPassword} :
              /\ user' = [user EXCEPT ![x].status = "pending", ![x].password = w] =>
                   /\ \A u \in Users \ {x} : user'[u] = user[u]
                   /\ user'[x].status = "pending"
                   /\ user'[x].deleted = user[x].deleted /\ user'[x].verified = user[x].verified
              /\ user' = [user EXCEPT ![x].password = w] =>
                   /\ \A u \in Users \ {x} : user'[u] = user[u]
                   /\ user'[x].status = user[x].status
                   /\ user'[x].deleted = user[x].deleted /\ user'[x].verified = user[x].verified
         /\ user' = [user EXCEPT ![x].verified = TRUE, ![x].status = "active"] =>
              /\ \A u \in Users \ {x} : user'[u] = user[u]
              /\ user'[x].status = "active" /\ user'[x].verified
              /\ user'[x].deleted = user[x].deleted
         /\ user' = [user EXCEPT ![x].deleted = TRUE, ![x].status = "deleted"] =>
              /\ \A u \in Users \ {x} : user'[u] = user[u]
              /\ user'[x].status = "deleted" /\ user'[x].deleted
              /\ user'[x].verified = user[x].verified /\ user'[x].password = user[x].password
         /\ user' = [user EXCEPT ![x].deleted = FALSE, ![x].status = "active"] =>
              /\ \A u \in Users \ {x} : user'[u] = user[u]
              /\ user'[x].status = "active" /\ ~user'[x].deleted
              /\ user'[x].verified = user[x].verified /\ user'[x].password = user[x].password
<1>1. ASSUME NEW w \in Passwords \cup {NoPassword},
             user' = [user EXCEPT ![x].status = "pending", ![x].password = w]
      PROVE  /\ \A u \in Users \ {x} : user'[u] = user[u]
             /\ user'[x].status = "pending"
             /\ user'[x].deleted = user[x].deleted /\ user'[x].verified = user[x].verified
  BY <1>1 DEF UserRow
<1>2. ASSUME NEW w \in Passwords \cup {NoPassword}, user' = [user EXCEPT ![x].password = w]
      PROVE  /\ \A u \in Users \ {x} : user'[u] = user[u]
             /\ user'[x].status = user[x].status
             /\ user'[x].deleted = user[x].deleted /\ user'[x].verified = user[x].verified
  BY <1>2 DEF UserRow
<1>3. ASSUME user' = [user EXCEPT ![x].verified = TRUE, ![x].status = "active"]
      PROVE  /\ \A u \in Users \ {x} : user'[u] = user[u]
             /\ user'[x].status = "active" /\ user'[x].verified
             /\ user'[x].deleted = user[x].deleted
  BY <1>3 DEF UserRow
<1>4. ASSUME user' = [user EXCEPT ![x].deleted = TRUE, ![x].status = "deleted"]
      PROVE  /\ \A u \in Users \ {x} : user'[u] = user[u]
             /\ user'[x].status = "deleted" /\ user'[x].deleted
             /\ user'[x].verified = user[x].verified /\ user'[x].password = user[x].password
  BY <1>4 DEF UserRow
<1>5. ASSUME user' = [user EXCEPT ![x].deleted = FALSE, ![x].status = "active"]
      PROVE  /\ \A u \in Users \ {x} : user'[u] = user[u]
             /\ user'[x].status = "active" /\ ~user'[x].deleted
             /\ user'[x].verified = user[x].verified /\ user'[x].password = user[x].password
  BY <1>5 DEF UserRow
<1> QED
  BY <1>1, <1>2, <1>3, <1>4, <1>5

LEMMA RowsStep == TypeInv /\ LinkInv /\ [Next]_vars => \A u \in Users : RowStep(u)
<1> SUFFICES ASSUME TypeInv, LinkInv, [Next]_vars, NEW u \in Users PROVE RowStep(u)
  OBVIOUS
<1>1. CASE user'[u] = user[u]
  BY <1>1 DEF RowStep
<1>2. ASSUME NEW p \in Procs, Step(p), user' # user
      PROVE  RowStep(u)
  <2> DEFINE x == req[p].user
  <2>0. /\ x \in Users /\ req[p].password \in Passwords \cup {NoPassword}
        /\ user \in [Users -> UserRow]
    BY <1>2 DEF Step, TypeInv, TypeOK, Proper, Request, InsertUser, UpdatePassword,
       MarkEmailVerified, Delete, Restore, RevokeFind, RevokeByUserAndType, IssueToken, FindUser,
       MarkUsed
  <2>1. CASE InsertUser(p)
    <3>1. /\ user[x].status = "none"
          /\ user' = [user EXCEPT ![x].status = "pending", ![x].password = req[p].password]
      BY <1>2, <2>1 DEF InsertUser, HasRow
    <3> QED
      BY <2>0, <3>1, RowUpdate DEF RowStep
  <2>2. CASE UpdatePassword(p)
    <3>1. Found(x) /\ user' = [user EXCEPT ![x].password = req[p].password]
      BY <1>2, <2>2 DEF UpdatePassword
    <3>2. /\ \A y \in Users \ {x} : user'[y] = user[y]
          /\ user'[x].status = user[x].status
          /\ user'[x].deleted = user[x].deleted /\ user'[x].verified = user[x].verified
      BY <2>0, <3>1, RowUpdate
    <3>3. ~user[x].deleted
      BY <3>1 DEF Found
    <3> QED
      BY <1>1, <3>2, <3>3 DEF RowStep
  <2>3. CASE MarkEmailVerified(p)
    <3>1. /\ Found(x)
          /\ user' = [user EXCEPT ![x].verified = TRUE, ![x].status = "active"]
      BY <1>2, <2>3 DEF MarkEmailVerified
    <3>2. Proved(x)
      BY <2>3 DEF MarkEmailVerified, LinkInv, Linked, Using, Proved
    <3>3. /\ \A y \in Users \ {x} : user'[y] = user[y]
          /\ user'[x].status = "active" /\ user'[x].verified
          /\ user'[x].deleted = user[x].deleted
      BY <2>0, <3>1, RowUpdate
    <3>4. ~user[x].deleted
      BY <3>1 DEF Found
    <3>5. ~user'[x].deleted
      BY <3>3, <3>4
    <3> QED
      BY <1>1, <3>2, <3>3, <3>4, <3>5 DEF RowStep
  <2>4. CASE Delete(p)
    <3>1. Found(x) /\ user' = [user EXCEPT ![x].deleted = TRUE, ![x].status = "deleted"]
      BY <1>2, <2>4 DEF Delete
    <3>2. /\ \A y \in Users \ {x} : user'[y] = user[y]
          /\ user'[x].status = "deleted" /\ user'[x].deleted
          /\ user'[x].verified = user[x].verified /\ user'[x].password = user[x].password
      BY <2>0, <3>1, RowUpdate
    <3>3. ~user[x].deleted
      BY <3>1 DEF Found
    <3> QED
      BY <1>1, <3>2, <3>3 DEF RowStep
  <2>5. CASE Restore(p)
    <3>1. /\ x \in restored'
          /\ user' = [user EXCEPT ![x].deleted = FALSE, ![x].status = "active"]
      BY <1>2, <2>5 DEF Restore
    <3> QED
      BY <2>0, <3>1, RowUpdate DEF RowStep
  <2> QED
    BY <1>2, <2>1, <2>2, <2>3, <2>4, <2>5 DEF Step, RevokeFind, RevokeByUserAndType, IssueToken,
       FindUser, MarkUsed
<1>3. ASSUME user' # user PROVE \E p \in Procs : Step(p)
  BY <1>3, StartFields DEF Next, Present, FindValidToken, Fail, TokenExpires, vars
<1> QED
  BY <1>1, <1>2, <1>3

\* No statement forgets a restoration.
LEMMA RestoredGrows == [Next]_vars => restored \subseteq restored'
<1> SUFFICES ASSUME [Next]_vars PROVE restored \subseteq restored'
  OBVIOUS
<1>1. ASSUME NEW p \in Procs, Start(p) PROVE restored' = restored
  BY <1>1 DEF Start, Register, ChangePassword, CreateUser, ResendVerification, ForgotPassword,
     IssueBegins, DeleteUser, RestoreUser
<1>2. ASSUME NEW p \in Procs, Step(p) PROVE restored \subseteq restored'
  BY <1>2 DEF Step, InsertUser, RevokeFind, RevokeByUserAndType, IssueToken, FindUser,
     UpdatePassword, MarkEmailVerified, MarkUsed, Delete, Restore
<1> QED
  BY <1>1, <1>2 DEF Next, Present, FindValidToken, Fail, TokenExpires, vars

\* An address without a row is not verified either.
StatusInv ==
  /\ StatusConsistent
  /\ \A u \in Users : user[u].status = "none" => ~user[u].verified

LEMMA StatusInit == Init => StatusInv
BY DEF Init, StatusInv, StatusConsistent

LEMMA StatusStep == TypeInv /\ LinkInv /\ StatusInv /\ [Next]_vars => StatusInv'
<1> SUFFICES ASSUME TypeInv, LinkInv, StatusInv, [Next]_vars, NEW u \in Users
             PROVE  /\ user'[u].deleted <=> user'[u].status = "deleted"
                    /\ user'[u].status = "pending" => ~user'[u].verified
                    /\ user'[u].status = "active" => user'[u].verified \/ u \in restored'
                    /\ user'[u].status = "none" => ~user'[u].verified
  BY DEF StatusInv, StatusConsistent
<1>1. RowStep(u) /\ restored \subseteq restored'
  BY RowsStep, RestoredGrows
<1> QED
  BY <1>1 DEF RowStep, StatusInv, StatusConsistent

\* The status of an account and the columns it summarises never drift apart,
\* although the requests write them in statements of their own, outside any
\* transaction, from what they read earlier.
THEOREM StatusIsConsistent == Spec => []StatusConsistent
<1>1. StatusInv => StatusConsistent
  BY DEF StatusInv
<1> QED
  BY <1>1, TypeInit, TypeStep, LinkInit, LinkStep, StatusInit, StatusStep, PTL DEF Spec

\* Every UPDATE that changes the password or the verification of an account
\* finds only rows that are not deleted: a request that had found the account
\* earlier changes neither after the deletion.
THEOREM DeletedAreFrozen == Spec => DeletedIsFrozen
<1>1. TypeInv /\ LinkInv /\ StatusInv /\ [Next]_vars =>
        [\A u \in Users : user[u].deleted =>
           /\ user'[u].password = user[u].password
           /\ user'[u].verified = user[u].verified]_vars
  <2> SUFFICES ASSUME TypeInv, LinkInv, StatusInv, [Next]_vars, NEW u \in Users, user[u].deleted
               PROVE  /\ user'[u].password = user[u].password
                      /\ user'[u].verified = user[u].verified
    OBVIOUS
  <2>1. RowStep(u) /\ user[u].status = "deleted"
    BY RowsStep DEF StatusInv, StatusConsistent
  <2> QED
    BY <2>1 DEF RowStep
<1> QED
  BY <1>1, TypeInit, TypeStep, LinkInit, LinkStep, StatusInit, StatusStep, PTL
     DEF Spec, DeletedIsFrozen

-----------------------------------------------------------------------------
(* Who can log in *)

ProofInv == \A u \in Users : user[u].verified => Proved(u)

LEMMA ProofInit == Init => ProofInv
BY DEF Init, ProofInv

LEMMA ProofStep == TypeInv /\ LinkInv /\ ProofInv /\ [Next]_vars => ProofInv'
<1> SUFFICES ASSUME TypeInv, LinkInv, ProofInv, [Next]_vars, NEW u \in Users, user'[u].verified
             PROVE  Proved(u)'
  BY DEF ProofInv
<1>1. Proved(u)
  <2>1. RowStep(u)
    BY RowsStep
  <2>2. user[u].verified => Proved(u)
    BY DEF ProofInv
  <2> QED
    BY <2>1, <2>2 DEF RowStep
<1>2. PICK t \in presented : token[t].user = u /\ token[t].type # "password_reset"
  BY <1>1 DEF Proved
<1>3. Grows /\ t \in Tokens /\ Exists(t)
  BY <1>2, GrowStep, NoUserAssumption DEF TypeInv, TypeOK, Exists
<1> QED
  BY <1>2, <1>3 DEF Grows, Proved

\* An account that can log in belongs to someone who received mail at its
\* address: no order of registrations, resets, restorations and password
\* changes verifies an account without one of its own tokens.
THEOREM LoginsAreProved == Spec => []LoginNeedsProof
<1>1. ProofInv => LoginNeedsProof
  BY DEF ProofInv, Proved, LoginNeedsProof, CanLogIn
<1> QED
  BY <1>1, TypeInit, TypeStep, LinkInit, LinkStep, ProofInit, ProofStep, PTL DEF Spec

-----------------------------------------------------------------------------
(* Issuing revokes *)

\* An issuing request has found tokens that exist, and those of them that it
\* has not locked were spent when it came to lock them.
OlderInv ==
  /\ \A t \in Tokens : Exists(t) =>
       \A o \in token[t].older : o \in Tokens /\ Exists(o) /\ ~Valid(o)
  /\ \A p \in Procs :
       /\ req[p].pc = "insert" => req[p].snap = {}
       /\ req[p].pc \in {"revoke", "issue"} => \A s \in req[p].snap : Exists(s)
       /\ req[p].pc = "issue" => \A s \in req[p].snap : s \in req[p].hold \/ ~Valid(s)

LEMMA OlderInit == Init => OlderInv
BY DEF Init, OlderInv, Exists, Idle

LEMMA OlderKept ==
  ASSUME TypeInv, OlderInv, Grows, NEW p \in Procs, Only(p),
         \A t \in Tokens : ~Exists(t) /\ Exists(t)' =>
           \A o \in token'[t].older : o \in Tokens /\ Exists(o) /\ ~Valid(o)',
         req'[p].pc = "insert" => req'[p].snap = {},
         req'[p].pc \in {"revoke", "issue"} => \A s \in req'[p].snap : s \in Tokens /\ Exists(s),
         req'[p].pc = "issue" => \A s \in req'[p].snap : s \in req'[p].hold \/ ~Valid(s)
  PROVE  OlderInv'
<1>1. \A t \in Tokens : Exists(t) => Exists(t)' /\ (~Valid(t) => ~Valid(t)')
  BY TokenKept
<1>2. ASSUME NEW t \in Tokens, Exists(t)', NEW o \in token'[t].older
      PROVE  o \in Tokens /\ Exists(o)' /\ ~Valid(o)'
  <2>1. CASE Exists(t)
    <3>1. token'[t].older = token[t].older
      BY <2>1 DEF Grows
    <3> QED
      BY <1>1, <1>2, <2>1, <3>1 DEF OlderInv
  <2>2. CASE ~Exists(t)
    BY <1>1, <1>2, <2>2
  <2> QED
    BY <2>1, <2>2
<1>3. ASSUME NEW q \in Procs, q # p
      PROVE  /\ req'[q].pc = "insert" => req'[q].snap = {}
             /\ req'[q].pc \in {"revoke", "issue"} => \A s \in req'[q].snap : Exists(s)'
             /\ req'[q].pc = "issue" =>
                  \A s \in req'[q].snap : s \in req'[q].hold \/ ~Valid(s)'
  <2>1. req'[q] = req[q] /\ req[q].snap \subseteq Tokens
    BY <1>3 DEF Only, TypeInv, TypeOK, Request
  <2> QED
    BY <1>1, <2>1 DEF OlderInv
<1> QED
  BY <1>1, <1>2, <1>3 DEF OlderInv

LEMMA OlderStep == TypeInv /\ OlderInv /\ [Next]_vars => OlderInv'
<1> SUFFICES ASSUME TypeInv, OlderInv, [Next]_vars PROVE OlderInv'
  OBVIOUS
<1>0. Grows
  BY GrowStep
<1>1. ASSUME NEW p \in Procs, Only(p), \A t \in Tokens : Exists(t)' => Exists(t),
             req'[p].pc \notin {"insert", "revoke", "issue"}
      PROVE  OlderInv'
  BY <1>0, <1>1, OlderKept
<1>2. ASSUME NEW p \in Procs, Start(p) PROVE OlderInv'
  BY <1>0, <1>2, StartFields, OlderKept DEF Exists
<1>3. ASSUME NEW p \in Procs, Present(p) PROVE OlderInv'
  BY <1>1, <1>3, PresentFields DEF Present, FindValidToken, Exists
<1>4. ASSUME NEW p \in Procs, InsertUser(p) PROVE OlderInv'
  <2>1. Only(p) /\ req'[p].pc = "idle" /\ req[p].snap = {}
    BY <1>4, StepFields DEF InsertUser, OlderInv
  <2>2. \A t \in Tokens : token'[t] = token[t] \/ token'[t].older = {}
    BY <1>4, <2>1 DEF InsertUser, NewToken, TypeInv, TypeOK
  <2> QED
    BY <1>0, <2>1, <2>2, OlderKept DEF Exists
<1>5. ASSUME NEW p \in Procs, RevokeFind(p) PROVE OlderInv'
  <2>1. token' = token
    BY <1>5 DEF RevokeFind
  <2> QED
    BY <1>0, <1>5, <2>1, StepFields, OlderKept DEF Exists, Valid
<1>6. ASSUME NEW p \in Procs, RevokeByUserAndType(p) PROVE OlderInv'
  <2>1. token' = token /\ req[p].snap \subseteq Tokens /\ \A s \in req[p].snap : Exists(s)
    BY <1>6 DEF RevokeByUserAndType, OlderInv, TypeInv, TypeOK, Request
  <2> QED
    BY <1>0, <1>6, <2>1, StepFields, OlderKept DEF Exists
<1>7. ASSUME NEW p \in Procs, IssueToken(p) PROVE OlderInv'
  <2>1. /\ Only(p) /\ req'[p].pc = "idle" /\ req[p].snap \subseteq Tokens
        /\ \A s \in req[p].snap : Exists(s) /\ (s \in req[p].hold \/ ~Valid(s))
    BY <1>7, StepFields DEF IssueToken, OlderInv, TypeInv, TypeOK, Request
  <2>2. PICK n \in Tokens :
          /\ ~Exists(n)
          /\ token' = [t \in Tokens |->
                         IF t = n THEN NewToken(req[p])
                         ELSE IF t \in req[p].hold
                              THEN [token[t] EXCEPT !.revoked = TRUE]
                              ELSE token[t]]
    BY <1>7 DEF IssueToken
  <2>3. token'[n].older = req[p].snap
    BY <2>2 DEF NewToken
  <2>4. ASSUME NEW s \in req[p].snap PROVE ~Valid(s)'
    <3>1. s \in Tokens /\ Exists(s) /\ s # n
      BY <2>1, <2>2
    <3>2. CASE s \in req[p].hold
      <4>1. token'[s] = [token[s] EXCEPT !.revoked = TRUE] /\ token[s] \in TokenRow
        BY <2>2, <3>1, <3>2 DEF TypeInv, TypeOK
      <4>2. token'[s].revoked
        BY <4>1, RevokedRow
      <4> QED
        BY <4>2 DEF Valid
    <3>3. CASE ~Valid(s)
      BY <1>0, <3>1, <3>3, TokenKept
    <3> QED
      BY <2>1, <3>2, <3>3
  <2>5. \A t \in Tokens : ~Exists(t) /\ Exists(t)' => t = n
    <3>1. ASSUME NEW t \in Tokens, t # n PROVE token'[t].user = token[t].user
      <4>1. token[t] \in TokenRow
        BY DEF TypeInv, TypeOK
      <4>2. token'[t] = [token[t] EXCEPT !.revoked = TRUE] \/ token'[t] = token[t]
        BY <2>2, <3>1
      <4>3. [token[t] EXCEPT !.revoked = TRUE].user = token[t].user
        BY <4>1, RevokedRow
      <4> QED
        BY <4>2, <4>3
    <3> QED
      BY <3>1 DEF Exists
  <2> QED
    BY <1>0, <2>1, <2>3, <2>4, <2>5, OlderKept
<1>8. ASSUME NEW p \in Procs, NEW pc \in {"verify", "password", "use"}, GoTo(p, pc), token' = token
      PROVE  OlderInv'
  BY <1>1, <1>8, StepFields DEF Exists
<1>9. ASSUME NEW p \in Procs, End(p), token' = token PROVE OlderInv'
  BY <1>1, <1>9, StepFields DEF Exists
<1>10. ASSUME NEW p \in Procs, FindUser(p) \/ UpdatePassword(p) \/ MarkEmailVerified(p)
       PROVE  OlderInv'
  <2>1. token' = token
    BY <1>10 DEF FindUser, UpdatePassword, MarkEmailVerified
  <2>2. End(p) \/ \E pc \in {"verify", "password", "use"} : GoTo(p, pc)
    <3>1. CASE FindUser(p) \/ MarkEmailVerified(p)
      BY <3>1 DEF FindUser, MarkEmailVerified
    <3>2. CASE UpdatePassword(p)
      <4>1. req[p].type \in {"none", "password_reset", "password_set"}
        BY <3>2 DEF TypeInv, Proper, UpdatePassword
      <4> QED
        BY <3>2, <4>1 DEF UpdatePassword, AfterPassword
    <3> QED
      BY <1>10, <3>1, <3>2
  <2> QED
    BY <1>8, <1>9, <2>1, <2>2
<1>11. ASSUME NEW p \in Procs, MarkUsed(p) PROVE OlderInv'
  <2>1. req[p].token \in Tokens
    BY <1>11 DEF TypeInv, MarkUsed, Proper, Using
  <2>2. \A t \in Tokens : token'[t].user = token[t].user
    BY <1>11, <2>1 DEF MarkUsed, TypeInv, TypeOK, TokenRow
  <2> QED
    BY <1>1, <1>11, <2>2, StepFields DEF MarkUsed, Exists
<1>12. ASSUME NEW p \in Procs, Delete(p) \/ Restore(p) \/ Fail(p) PROVE OlderInv'
  BY <1>9, <1>12 DEF Delete, Restore, Fail
<1>13. ASSUME UNCHANGED <<token, req>> PROVE OlderInv'
  <2>1. \A t : (Exists(t)' <=> Exists(t)) /\ (~Valid(t) => ~Valid(t)')
    BY <1>0, <1>13 DEF Grows, Exists, Valid
  <2> QED
    BY <1>13, <2>1 DEF OlderInv
<1> QED
  BY <1>2, <1>3, <1>4, <1>5, <1>6, <1>7, <1>10, <1>11, <1>12, <1>13
     DEF Next, Step, TokenExpires, vars

\* Every token that ResendVerification or ForgotPassword found valid is
\* worthless once its own token exists, whatever other requests issued, used
\* or rolled back while its UPDATE waited for their rows.
THEOREM OldTokensAreWorthless == Spec => []OldTokensWorthless
<1>1. OlderInv => OldTokensWorthless
  BY DEF OlderInv, OldTokensWorthless
<1> QED
  BY <1>1, TypeInit, TypeStep, OlderInit, OlderStep, PTL DEF Spec
=============================================================================
