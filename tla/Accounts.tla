------------------------------ MODULE Accounts ------------------------------
(***************************************************************************)
(* Accounts and one-time tokens of the portal backend: the tables users    *)
(* and user_tokens and the requests that change them. These are Register,  *)
(* VerifyEmail, ResendVerification, ForgotPassword, SetPassword and        *)
(* ResetPassword of internal/service/auth.go, CreateUser, DeleteUser and   *)
(* RestoreUser of admin.go, and ChangePassword of user.go.                 *)
(*                                                                         *)
(* A request is a process, and every statement it sends is a step. Only    *)
(* the requests that issue a token run their statements in a transaction.  *)
(* The others open one and then pass the outer context to the repositories *)
(* (auth.go:305, 487, admin.go:247, 284, user.go:102), so each of their    *)
(* statements commits on its own and none is rolled back.                  *)
(*                                                                         *)
(* An account is named by its email address: the unique index on that      *)
(* column counts soft-deleted rows too, so an address has one row at most. *)
(***************************************************************************)
EXTENDS Naturals, FiniteSets

CONSTANTS
  Procs,                  \* requests in flight at one time
  Users, NoUser,          \* email addresses
  Tokens, NoToken,        \* one-time tokens
  Passwords, NoPassword,  \* password hashes, and NULL
  Faults                  \* {"fail"} when requests may fail anywhere, or {}

ASSUME NoUserAssumption     == NoUser \notin Users
ASSUME NoTokenAssumption    == NoToken \notin Tokens
ASSUME NoPasswordAssumption == NoPassword \notin Passwords
ASSUME FaultsAssumption     == Faults \subseteq {"fail"}

VARIABLES
  user,       \* the table users
  token,      \* the table user_tokens
  expired,    \* the tokens whose expires_at has passed
  req,        \* what each request is doing
  presented,  \* history: tokens that FindValidToken has accepted
  restored    \* history: accounts an administrator has restored

vars == <<user, token, expired, req, presented, restored>>

Status == {"none", "pending", "active", "deleted"}   \* none: no row

UserRow == [status: Status, deleted: BOOLEAN, verified: BOOLEAN,
            password: Passwords \cup {NoPassword}]

Type == {"email_verification", "password_reset", "password_set"}

\* user is NoUser before the INSERT; older, a history, holds the tokens that
\* the issuing request found valid and meant to revoke.
TokenRow == [user: Users \cup {NoUser}, type: Type, used: BOOLEAN,
             revoked: BOOLEAN, older: SUBSET Tokens]

PC == {"idle", "insert", "find_user", "password", "verify", "use",
       "revoke_find", "revoke", "issue", "delete", "restore"}

Request == [
  pc: PC,
  type: Type \cup {"none"},                \* the type of its token
  user: Users \cup {NoUser},
  token: Tokens \cup {NoToken},            \* the token it was given
  password: Passwords \cup {NoPassword},   \* the password it will store
  snap: SUBSET Tokens,                     \* rows its UPDATE has found
  hold: SUBSET Tokens]                     \* rows written, not yet committed

Idle == [pc |-> "idle", type |-> "none", user |-> NoUser, token |-> NoToken,
         password |-> NoPassword, snap |-> {}, hold |-> {}]

Init ==
  /\ user = [u \in Users |-> [status |-> "none", deleted |-> FALSE,
                              verified |-> FALSE, password |-> NoPassword]]
  /\ token = [t \in Tokens |-> [user |-> NoUser, type |-> "password_set",
                                used |-> FALSE, revoked |-> FALSE, older |-> {}]]
  /\ expired = {}
  /\ req = [p \in Procs |-> Idle]
  /\ presented = {}
  /\ restored = {}

-----------------------------------------------------------------------------
Begin(p, r) == req[p].pc = "idle" /\ req' = [req EXCEPT ![p] = r]
End(p) == req' = [req EXCEPT ![p] = Idle]
GoTo(p, pc) == req' = [req EXCEPT ![p].pc = pc]

HasRow(u) == user[u].status # "none"
Found(u) == HasRow(u) /\ ~user[u].deleted   \* queries skip deleted rows

Exists(t) == token[t].user # NoUser
Valid(t) ==
  Exists(t) /\ ~token[t].used /\ ~token[t].revoked /\ t \notin expired

\* Bound: a request that will insert a token begins only while one is left.
TokensLeft ==
  LET inserting == {p \in Procs : req[p].pc \in {"insert", "revoke_find",
                                                "revoke", "issue"}}
  IN  Cardinality({t \in Tokens : ~Exists(t)}) > Cardinality(inserting)

NewToken(r) == [user |-> r.user, type |-> r.type, used |-> FALSE,
                revoked |-> FALSE, older |-> r.snap]

\* Rows of user_tokens that an open transaction has written.
Locked(p, t) == \E q \in Procs \ {p} : t \in req[q].hold

-----------------------------------------------------------------------------
(* Register and CreateUser *)

Register(p, u, w) ==
  /\ TokensLeft
  /\ ~Found(u)
  /\ Begin(p, [Idle EXCEPT !.pc = "insert", !.user = u, !.password = w,
                           !.type = "email_verification"])
  /\ UNCHANGED <<user, token, expired, presented, restored>>

CreateUser(p, u) ==
  /\ TokensLeft
  /\ ~Found(u)
  /\ Begin(p, [Idle EXCEPT !.pc = "insert", !.user = u, !.type = "password_set"])
  /\ UNCHANGED <<user, token, expired, presented, restored>>

\* The transaction: the account, its token and its notification, or nothing
\* when the address has a row by now. A row that is not yet committed makes a
\* second INSERT wait, so the transaction is one step.
InsertUser(p) ==
  LET r == req[p] IN
  /\ r.pc = "insert"
  /\ \/ HasRow(r.user) /\ UNCHANGED <<user, token>>
     \/ /\ ~HasRow(r.user)
        /\ user' = [user EXCEPT ![r.user].status = "pending",
                                ![r.user].password = r.password]
        /\ \E t \in Tokens : ~Exists(t) /\ token' = [token EXCEPT ![t] = NewToken(r)]
  /\ End(p)
  /\ UNCHANGED <<expired, presented, restored>>

-----------------------------------------------------------------------------
(* ResendVerification and ForgotPassword *)

IssueBegins(p, u, type) ==
  /\ TokensLeft
  /\ Found(u)
  /\ Begin(p, [Idle EXCEPT !.pc = "revoke_find", !.user = u, !.type = type])
  /\ UNCHANGED <<user, token, expired, presented, restored>>

ResendVerification(p, u) == IssueBegins(p, u, "email_verification")
ForgotPassword(p, u)     == IssueBegins(p, u, "password_reset")

\* RevokeByUserAndType: the rows the UPDATE finds ...
RevokeFind(p) ==
  /\ req[p].pc = "revoke_find"
  /\ req' = [req EXCEPT
       ![p].pc = "revoke",
       ![p].snap = {t \in Tokens : /\ Valid(t)
                                   /\ token[t].user = req[p].user
                                   /\ token[t].type = req[p].type}]
  /\ UNCHANGED <<user, token, expired, presented, restored>>

\* Mutant: the UPDATE does not wait for rows another transaction has written.
RevokeSkipLocked(p) ==
  /\ req[p].pc = "revoke"
  /\ req' = [req EXCEPT ![p].pc = "issue",
                        ![p].hold = {t \in req[p].snap : Valid(t) /\ ~Locked(p, t)}]
  /\ UNCHANGED <<user, token, expired, presented, restored>>

\* ... and, once no other transaction holds one of them, the ones it writes.
RevokeByUserAndType(p) ==
  /\ req[p].pc = "revoke"
  /\ \A t \in req[p].snap : ~Locked(p, t)
  /\ req' = [req EXCEPT ![p].pc = "issue",
                        ![p].hold = {t \in req[p].snap : Valid(t)}]
  /\ UNCHANGED <<user, token, expired, presented, restored>>

\* The new token, its notification and the commit.
IssueToken(p) ==
  /\ req[p].pc = "issue"
  /\ \E n \in Tokens :
       /\ ~Exists(n)
       /\ token' = [t \in Tokens |->
                      IF t = n THEN NewToken(req[p])
                      ELSE IF t \in req[p].hold
                           THEN [token[t] EXCEPT !.revoked = TRUE]
                           ELSE token[t]]
  /\ End(p)
  /\ UNCHANGED <<user, expired, presented, restored>>

-----------------------------------------------------------------------------
(* VerifyEmail, SetPassword and ResetPassword *)

FindValidToken(p, t, w) ==
  LET type == token[t].type IN
  /\ Valid(t)
  /\ Begin(p, [Idle EXCEPT
       !.pc = "find_user", !.type = type, !.user = token[t].user, !.token = t,
       !.password = IF type = "email_verification" THEN NoPassword ELSE w])
  /\ presented' = presented \cup {t}
  /\ UNCHANGED <<user, token, expired, restored>>

\* FindByID and the checks of VerifyEmail and applyPasswordByToken. A request
\* that passes none of them returns: VerifyEmail reports success when the
\* account is active already.
FindUser(p) ==
  LET r == req[p] IN
  /\ r.pc = "find_user"
  /\ \/ /\ Found(r.user)
        /\ r.type = "email_verification"
        /\ user[r.user].status = "pending"
        /\ GoTo(p, "verify")
     \/ /\ Found(r.user)
        /\ \/ r.type = "password_reset"
           \/ r.type = "password_set" /\ user[r.user].password = NoPassword
        /\ GoTo(p, "password")
     \/ /\ \/ ~Found(r.user)
           \/ r.type = "email_verification" /\ user[r.user].status # "pending"
           \/ r.type = "password_set" /\ user[r.user].password # NoPassword
        /\ End(p)
  /\ UNCHANGED <<user, token, expired, presented, restored>>

\* What follows a password that was stored: ChangePassword, which has no
\* token, is done.
AfterPassword(p) ==
  CASE req[p].type = "none"           -> End(p)
    [] req[p].type = "password_reset" -> GoTo(p, "use")
    [] req[p].type = "password_set"   -> GoTo(p, "verify")

\* Mutant: the UPDATE finds deleted rows too.
UpdatePasswordUnscoped(p) ==
  /\ req[p].pc = "password"
  /\ user' = [user EXCEPT ![req[p].user].password = req[p].password]
  /\ AfterPassword(p)
  /\ UNCHANGED <<token, expired, presented, restored>>

\* The request fails when the account was deleted in the meantime.
UpdatePassword(p) ==
  /\ req[p].pc = "password"
  /\ \/ ~Found(req[p].user) /\ End(p) /\ UNCHANGED user
     \/ /\ Found(req[p].user)
        /\ user' = [user EXCEPT ![req[p].user].password = req[p].password]
        /\ AfterPassword(p)
  /\ UNCHANGED <<token, expired, presented, restored>>

\* Mutant: the UPDATE finds deleted rows too.
MarkEmailVerifiedUnscoped(p) ==
  /\ req[p].pc = "verify"
  /\ user' = [user EXCEPT ![req[p].user].verified = TRUE,
                          ![req[p].user].status = "active"]
  /\ GoTo(p, "use")
  /\ UNCHANGED <<token, expired, presented, restored>>

MarkEmailVerified(p) ==
  /\ req[p].pc = "verify"
  /\ \/ ~Found(req[p].user) /\ End(p) /\ UNCHANGED user
     \/ /\ Found(req[p].user)
        /\ user' = [user EXCEPT ![req[p].user].verified = TRUE,
                                ![req[p].user].status = "active"]
        /\ GoTo(p, "use")
  /\ UNCHANGED <<token, expired, presented, restored>>

\* MarkUsed looks at used_at alone; when another request was first, this one
\* reports an error, and what it has written stays.
MarkUsed(p) ==
  /\ req[p].pc = "use"
  /\ ~Locked(p, req[p].token)
  /\ token' = [token EXCEPT ![req[p].token].used = TRUE]
  /\ End(p)
  /\ UNCHANGED <<user, expired, presented, restored>>

-----------------------------------------------------------------------------
(* ChangePassword, DeleteUser and RestoreUser *)

\* The caller gives the current password and a different new one.
ChangePassword(p, u, w) ==
  /\ Found(u)
  /\ user[u].password \notin {NoPassword, w}
  /\ Begin(p, [Idle EXCEPT !.pc = "password", !.user = u, !.password = w])
  /\ UNCHANGED <<user, token, expired, presented, restored>>

\* Accounts of administrators, whom no other administrator may delete, are
\* left out.
DeleteUser(p, u) ==
  /\ Found(u)
  /\ Begin(p, [Idle EXCEPT !.pc = "delete", !.user = u])
  /\ UNCHANGED <<user, token, expired, presented, restored>>

\* Mutant: a status that the code does not know.
DeleteUnknownStatus(p) ==
  /\ req[p].pc = "delete"
  /\ user' = [user EXCEPT ![req[p].user].deleted = TRUE,
                          ![req[p].user].status = "removed"]
  /\ End(p)
  /\ UNCHANGED <<token, expired, presented, restored>>

Delete(p) ==
  /\ req[p].pc = "delete"
  /\ user' = IF Found(req[p].user)
             THEN [user EXCEPT ![req[p].user].deleted = TRUE,
                               ![req[p].user].status = "deleted"]
             ELSE user
  /\ End(p)
  /\ UNCHANGED <<token, expired, presented, restored>>

RestoreUser(p, u) ==
  /\ HasRow(u) /\ user[u].deleted
  /\ Begin(p, [Idle EXCEPT !.pc = "restore", !.user = u])
  /\ UNCHANGED <<user, token, expired, presented, restored>>

\* Mutant: an account counts as verified when it is restored.
RestoreVerified(p) ==
  /\ req[p].pc = "restore"
  /\ user' = [user EXCEPT ![req[p].user].deleted = FALSE,
                          ![req[p].user].status = "active",
                          ![req[p].user].verified = TRUE]
  /\ restored' = restored \cup {req[p].user}
  /\ End(p)
  /\ UNCHANGED <<token, expired, presented>>

\* The UPDATE finds the row whether it is still deleted or not.
Restore(p) ==
  /\ req[p].pc = "restore"
  /\ user' = [user EXCEPT ![req[p].user].deleted = FALSE,
                          ![req[p].user].status = "active"]
  /\ restored' = restored \cup {req[p].user}
  /\ End(p)
  /\ UNCHANGED <<token, expired, presented>>

-----------------------------------------------------------------------------
\* A statement fails or the process stops: an open transaction is rolled
\* back, what was committed before stays.
Fail(p) ==
  /\ "fail" \in Faults
  /\ req[p].pc # "idle"
  /\ End(p)
  /\ UNCHANGED <<user, token, expired, presented, restored>>

TokenExpires(t) ==
  /\ Exists(t)
  /\ t \notin expired
  /\ expired' = expired \cup {t}
  /\ UNCHANGED <<user, token, req, presented, restored>>

Start(p) ==
  \E u \in Users :
    \/ CreateUser(p, u) \/ ResendVerification(p, u) \/ ForgotPassword(p, u)
    \/ DeleteUser(p, u) \/ RestoreUser(p, u)
    \/ \E w \in Passwords : Register(p, u, w) \/ ChangePassword(p, u, w)

Present(p) == \E t \in Tokens, w \in Passwords : FindValidToken(p, t, w)

Step(p) ==
  \/ InsertUser(p)
  \/ RevokeFind(p) \/ RevokeByUserAndType(p) \/ IssueToken(p)
  \/ FindUser(p) \/ UpdatePassword(p) \/ MarkEmailVerified(p) \/ MarkUsed(p)
  \/ Delete(p) \/ Restore(p)

Next ==
  \/ \E p \in Procs : Start(p) \/ Present(p) \/ Step(p) \/ Fail(p)
  \/ \E t \in Tokens : TokenExpires(t)

Spec == Init /\ [][Next]_vars

-----------------------------------------------------------------------------
(* Properties *)

\* The two tables and the requests are well formed.
TypeOK ==
  /\ user \in [Users -> UserRow]
  /\ token \in [Tokens -> TokenRow]
  /\ expired \subseteq Tokens
  /\ req \in [Procs -> Request]
  /\ presented \subseteq Tokens
  /\ restored \subseteq Users

\* The status and the columns it summarises never drift apart, although
\* VerifyEmail, SetPassword, DeleteUser and RestoreUser write them in
\* statements of their own from what they read earlier: an account is deleted
\* exactly when its status says so, a pending one is not verified, and an
\* active one is, unless it was restored.
StatusConsistent ==
  \A u \in Users :
    /\ user[u].deleted <=> user[u].status = "deleted"
    /\ user[u].status = "pending" => ~user[u].verified
    /\ user[u].status = "active" => user[u].verified \/ u \in restored

\* LogIn accepts an account only with a password and a verified address.
CanLogIn(u) == Found(u) /\ user[u].verified /\ user[u].password # NoPassword

\* An account that can log in belongs to someone who received mail at its
\* address: a verification or set-password token of that account has been
\* presented. Neither a reset nor an administrator stands in for it.
LoginNeedsProof ==
  \A u \in Users : CanLogIn(u) =>
    \E t \in presented : /\ token[t].user = u
                         /\ token[t].type # "password_reset"

\* ResendVerification and ForgotPassword revoke old tokens: every token that
\* was valid when the revoking UPDATE of a request began is worthless once the
\* request's own token exists, whatever other requests issued, used or rolled
\* back while it waited.
OldTokensWorthless ==
  \A t \in Tokens : \A o \in token[t].older : Exists(t) => ~Valid(o)

\* No request changes the password or the verification of a deleted account,
\* not even one that found it before it was deleted.
DeletedIsFrozen ==
  [][\A u \in Users : user[u].deleted =>
       /\ user'[u].password = user[u].password
       /\ user'[u].verified = user[u].verified]_vars

\* internal/domain/token.go: a password_set token lets a "user created by
\* admin set password first time"; internal/service/errors.go: otherwise
\* "Password has already been set". So SetPassword stores a password only in
\* an account that has none.
SetPasswordIsFirst ==
  [][\A p \in Procs :
       /\ req[p].pc = "password" /\ req[p].type = "password_set"
       /\ req'[p].pc = "verify"
       => user[req[p].user].password = NoPassword]_vars
=============================================================================
