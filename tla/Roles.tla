------------------------------- MODULE Roles --------------------------------
(***************************************************************************)
(* Roles, permissions and the users that hold them: the tables roles,      *)
(* role_permissions and users, and the requests that change them. These    *)
(* are CreateRole, DeleteRole, AssignPermission and RemovePermission of    *)
(* internal/service/role.go, CreateUser, UpdateRole, DeleteUser and        *)
(* RestoreUser of admin.go and UpdateProfile of user.go.                   *)
(*                                                                         *)
(* A request is a process. Its first action makes the reads and checks     *)
(* that precede its first write; a request refused by them changes nothing *)
(* and is not a step. Each later action is one statement, or the rest of a *)
(* transaction from the first statement that the others can tell apart.    *)
(* The role service and CreateUser run in a real transaction. The others   *)
(* pass the outer context to the repositories (admin.go:247, 284, 345,     *)
(* user.go:184): their write commits before the audit record is written.   *)
(*                                                                         *)
(* What keeps requests apart is Postgres: unique indexes on roles.code and *)
(* users.email, foreign keys from users (RESTRICT) and role_permissions    *)
(* (CASCADE) to roles, row locks, and the deadlock detector.               *)
(***************************************************************************)
EXTENDS Naturals, FiniteSets

CONSTANTS
  Procs,                   \* requests in flight at one time
  Users, AdminUser,        \* accounts, named by email; the seeded one
  RoleIds,                 \* ids of rows of roles; uuid.New never repeats one
  AdminRole, UserRole,     \* the two seeded system roles
  Codes,                   \* role codes
  AdminCode, UserCode,
  Permissions,
  UserPermissions,         \* what SeedRolePermissions gives to UserRole
  WriteBack,               \* may GORM write a loaded role back in Update?
  None

SystemRoles == {AdminRole, UserRole}

ASSUME NoneAssumption == None \notin Users \cup RoleIds \cup Codes \cup Permissions
ASSUME SeedAssumption ==
  /\ AdminUser \in Users
  /\ SystemRoles \subseteq RoleIds /\ AdminRole # UserRole
  /\ {AdminCode, UserCode} \subseteq Codes /\ AdminCode # UserCode
  /\ UserPermissions \subseteq Permissions
ASSUME BehaviourAssumption == WriteBack \subseteq BOOLEAN /\ WriteBack # {}
ASSUME FiniteAssumption == IsFiniteSet(Procs) /\ IsFiniteSet(RoleIds)

VARIABLES
  roles,    \* code of each row of roles, None where there is no row
  minted,   \* ids that were given to a role
  grants,   \* the table role_permissions
  users,    \* the table users, None where there is no row
  req       \* what each request is doing

vars == <<roles, minted, grants, users, req>>

UserRow == [role: RoleIds, deleted: BOOLEAN]
ASSUME NoRowAssumption == None \notin UserRow

PC == {"idle", "create_role", "assign", "remove", "role_used", "replace", "move",
       "delete_role", "create_user", "update_role", "delete_user",
       "restore_user", "update_profile", "audit"}

Request == [
  pc: PC,
  user: Users \cup {None},        \* the user it is about
  role: RoleIds \cup {None},      \* the role it is about
  code: Codes \cup {None},        \* that role's code
  other: RoleIds \cup {None},     \* replacement role of DeleteRole
  perm: Permissions \cup {None},
  moved: SUBSET Users]            \* rows given the replacement, not committed

Idle == [pc |-> "idle", user |-> None, role |-> None, code |-> None,
         other |-> None, perm |-> None, moved |-> {}]

SeedCode == [r \in SystemRoles |-> IF r = AdminRole THEN AdminCode ELSE UserCode]
SeedGrants == [r \in SystemRoles |->
                 IF r = AdminRole THEN Permissions ELSE UserPermissions]

\* The state that SeedPermissions, SeedRoles, SeedRolePermissions and
\* SeedAdmin leave.
Init ==
  /\ roles = [r \in RoleIds |-> IF r \in SystemRoles THEN SeedCode[r] ELSE None]
  /\ minted = SystemRoles
  /\ grants = [r \in RoleIds |-> IF r \in SystemRoles THEN SeedGrants[r] ELSE {}]
  /\ users = [u \in Users |->
       IF u = AdminUser
       THEN [role |-> AdminRole, deleted |-> FALSE]
       ELSE None]
  /\ req = [p \in Procs |-> Idle]

-----------------------------------------------------------------------------
(* Queries and constraints *)

Begin(p, r) == req[p].pc = "idle" /\ req' = [req EXCEPT ![p] = r]
End(p) == req' = [req EXCEPT ![p] = Idle]
GoTo(p, pc) == req' = [req EXCEPT ![p].pc = pc]

HasRow(u) == users[u] # None
Active(u) == HasRow(u) /\ ~users[u].deleted      \* queries skip deleted rows
FindByCode(c) == {r \in RoleIds : roles[r] = c}
Holders(r) == {u \in Users : HasRow(u) /\ users[u].role = r}   \* Unscoped

\* Someone else may not touch an administrator's account.
Forbidden(a, u) == a # u /\ users[u].role = AdminRole

\* GORM saves the role that is loaded in a user it inserts, ON CONFLICT DO
\* NOTHING: a row deleted in the meantime comes back, without permissions.
SaveRole(r, c) ==
  IF roles[r] = None /\ FindByCode(c) = {} THEN [roles EXCEPT ![r] = c] ELSE roles

\* Updating users.role_id share-locks the row of the role it names.
ShareLocked(q, r) == req[q].pc = "delete_role" /\ req[q].moved # {} /\ req[q].other = r

\* Request p cannot go on before q commits or rolls back.
Waits(p, q) ==
  /\ p # q
  /\ \/ req[p].pc = "delete_role" /\ ShareLocked(q, req[p].role)
     \/ req[p].pc = "move" /\ Holders(req[p].role) \cap req[q].moved # {}
     \/ /\ req[p].pc \in {"update_role", "delete_user", "restore_user", "update_profile"}
        /\ req[p].user \in req[q].moved
Waiting(p) == \E q \in Procs : Waits(p, q)

\* Bound: a CreateRole begins only while an id is left for it.
IdsLeft ==
  Cardinality(RoleIds \ minted)
    > Cardinality({p \in Procs : req[p].pc = "create_role"})

-----------------------------------------------------------------------------
(* The role service: CreateRole, AssignPermission, RemovePermission *)

CreateRole(p, c) ==
  /\ IdsLeft
  /\ FindByCode(c) = {}
  /\ Begin(p, [Idle EXCEPT !.pc = "create_role", !.code = c])

\* Mutant: roles.code has an index that is not unique.
InsertRoleUnindexed(p) ==
  /\ req[p].pc = "create_role"
  /\ \E r \in RoleIds \ minted :
       /\ roles' = [roles EXCEPT ![r] = req[p].code]
       /\ minted' = minted \cup {r}
  /\ End(p)
  /\ UNCHANGED <<grants, users>>

\* The transaction: the row, unique in its code, and the audit record.
InsertRole(p) ==
  /\ req[p].pc = "create_role"
  /\ FindByCode(req[p].code) = {}
  /\ \E r \in RoleIds \ minted :
       /\ roles' = [roles EXCEPT ![r] = req[p].code]
       /\ minted' = minted \cup {r}
  /\ End(p)
  /\ UNCHANGED <<grants, users>>

\* FindByID of the role and of the permission, inside the transaction.
ChangePermission(p, r, m, pc) ==
  /\ roles[r] # None
  /\ r \notin SystemRoles
  /\ Begin(p, [Idle EXCEPT !.pc = pc, !.role = r, !.perm = m])

AssignPermission(p, r, m) == ChangePermission(p, r, m, "assign")
RemovePermission(p, r, m) == ChangePermission(p, r, m, "remove")

\* FirstOrCreate; the foreign key refuses a role that is gone.
InsertGrant(p) ==
  /\ req[p].pc = "assign"
  /\ roles[req[p].role] # None
  /\ grants' = [grants EXCEPT ![req[p].role] = @ \cup {req[p].perm}]
  /\ End(p)
  /\ UNCHANGED <<roles, minted, users>>

\* Deleting no row is no error.
DeleteGrant(p) ==
  /\ req[p].pc = "remove"
  /\ grants' = [grants EXCEPT ![req[p].role] = @ \ {req[p].perm}]
  /\ End(p)
  /\ UNCHANGED <<roles, minted, users>>

-----------------------------------------------------------------------------
(* The role service: DeleteRole *)

DeleteRole(p, r, o) ==
  /\ roles[r] # None
  /\ r \notin SystemRoles
  /\ Begin(p, [Idle EXCEPT !.pc = "role_used", !.role = r,
                           !.other = o])

\* ExistsByRoleIDUnscoped, before the transaction.
CheckUsed(p) ==
  /\ req[p].pc = "role_used"
  /\ Holders(req[p].role) # {} => req[p].other # None
  /\ GoTo(p, IF req[p].other = None THEN "delete_role" ELSE "replace")
  /\ UNCHANGED <<roles, minted, grants, users>>

FindReplacement(p) ==
  /\ req[p].pc = "replace"
  /\ req[p].other # req[p].role
  /\ roles[req[p].other] # None
  /\ GoTo(p, "move")
  /\ UNCHANGED <<roles, minted, grants, users>>

\* Mutant: the update gets the outer context and commits at once.
MoveUsersCommitted(p) ==
  /\ req[p].pc = "move"
  /\ ~Waiting(p)
  /\ Holders(req[p].role) # {}
  /\ roles[req[p].other] # None
  /\ users' = [u \in Users |-> IF u \in Holders(req[p].role)
                               THEN [users[u] EXCEPT !.role = req[p].other]
                               ELSE users[u]]
  /\ GoTo(p, "delete_role")
  /\ UNCHANGED <<roles, minted, grants>>

\* UpdateRoleByRoleIDUnscoped: the rows are locked, and changed for the others
\* only when the transaction commits. Moving no row is an error.
MoveUsers(p) ==
  /\ req[p].pc = "move"
  /\ ~Waiting(p)
  /\ Holders(req[p].role) # {}
  /\ roles[req[p].other] # None
  /\ req' = [req EXCEPT ![p].pc = "delete_role", ![p].moved = Holders(req[p].role)]
  /\ UNCHANGED <<roles, minted, grants, users>>

\* Mutant: the foreign key of users.role_id does nothing on DELETE.
RestrictedNever(p) == FALSE

\* users.role_id restricts the deletion of a role that some other row names.
Restricted(p) == Holders(req[p].role) \ req[p].moved # {}

\* The role's row, its permissions by CASCADE, the audit record, and COMMIT.
RemoveRole(p) ==
  /\ req[p].pc = "delete_role"
  /\ ~Waiting(p)
  /\ ~Restricted(p)
  /\ roles' = [roles EXCEPT ![req[p].role] = None]
  /\ grants' = [grants EXCEPT ![req[p].role] = {}]
  /\ users' = [u \in Users |-> IF u \in req[p].moved
                               THEN [users[u] EXCEPT !.role = req[p].other]
                               ELSE users[u]]
  /\ End(p)
  /\ UNCHANGED <<minted>>

-----------------------------------------------------------------------------
(* Requests about one user *)

CreateUser(p, u, c) ==
  /\ ~Active(u)
  /\ \E r \in FindByCode(c) :
       Begin(p, [Idle EXCEPT !.pc = "create_user", !.user = u,
                             !.role = r, !.code = c])

\* Mutant: the column role_id is given the code of the role.
InsertUserByCode(p) ==
  /\ req[p].pc = "create_user"
  /\ ~HasRow(req[p].user)
  /\ users' = [users EXCEPT ![req[p].user] = [role |-> req[p].code, deleted |-> FALSE]]
  /\ End(p)
  /\ UNCHANGED <<roles, minted, grants>>

\* The transaction: user, token, outbox event and audit record.
InsertUser(p) ==
  LET r == req[p].role
      saved == SaveRole(r, req[p].code)
  IN  /\ req[p].pc = "create_user"
      /\ ~HasRow(req[p].user)
      /\ saved[r] # None
      /\ roles' = saved
      /\ users' = [users EXCEPT ![req[p].user] =
                     [role |-> r, deleted |-> FALSE]]
      /\ End(p)
      /\ UNCHANGED <<minted, grants>>

UpdateRole(p, a, u, c) ==
  /\ Active(u)
  /\ ~Forbidden(a, u)
  /\ \E r \in FindByCode(c) \ {users[u].role} :
       Begin(p, [Idle EXCEPT !.pc = "update_role", !.user = u,
                             !.role = r, !.code = c])

DeleteUser(p, a, u) ==
  /\ Active(u)
  /\ ~Forbidden(a, u)
  /\ Begin(p, [Idle EXCEPT !.pc = "delete_user", !.user = u])

RestoreUser(p, u) ==
  /\ HasRow(u) /\ users[u].deleted
  /\ Begin(p, [Idle EXCEPT !.pc = "restore_user", !.user = u])

UpdateProfile(p, a, u) ==
  /\ Active(u)
  /\ ~Forbidden(a, u)
  /\ LET r == users[u].role IN
       Begin(p, [Idle EXCEPT !.pc = "update_profile", !.user = u,
                             !.role = r, !.code = roles[r]])

\* The four writes below commit at once and go on to the audit record.
WriteRole(p) ==
  /\ req[p].pc = "update_role"
  /\ ~Waiting(p)
  /\ Active(req[p].user)
  /\ roles[req[p].role] # None
  /\ users' = [users EXCEPT ![req[p].user].role = req[p].role]
  /\ GoTo(p, "audit")
  /\ UNCHANGED <<roles, minted, grants>>

WriteDeleted(p) ==
  /\ req[p].pc = "delete_user"
  /\ ~Waiting(p)
  /\ Active(req[p].user)
  /\ users' = [users EXCEPT ![req[p].user].deleted = TRUE]
  /\ GoTo(p, "audit")
  /\ UNCHANGED <<roles, minted, grants>>

WriteRestored(p) ==
  /\ req[p].pc = "restore_user"
  /\ ~Waiting(p)
  /\ users' = [users EXCEPT ![req[p].user].deleted = FALSE]
  /\ GoTo(p, "audit")
  /\ UNCHANGED <<roles, minted, grants>>

\* Updates of a loaded user; GORM saves its role too, and writes role_id back.
\* A user deleted in the meantime is not updated, which is no error.
WriteProfile(p) ==
  LET u == req[p].user
      r == req[p].role
  IN  /\ req[p].pc = "update_profile"
      /\ ~Waiting(p)
      /\ \E back \in WriteBack :
           /\ roles' = IF back THEN SaveRole(r, req[p].code) ELSE roles
           /\ back /\ Active(u) => roles'[r] # None
           /\ users' = IF back /\ Active(u)
                       THEN [users EXCEPT ![u].role = r] ELSE users
      /\ GoTo(p, "audit")
      /\ UNCHANGED <<minted, grants>>

Audit(p) ==
  /\ req[p].pc = "audit"
  /\ End(p)
  /\ UNCHANGED <<roles, minted, grants, users>>

-----------------------------------------------------------------------------
(* Requests that fail *)

\* What the next statement of request p meets.
Refused(p) ==
  LET r == req[p]
      lost == SaveRole(r.role, r.code)[r.role] = None   \* its code was reused
  IN  CASE r.pc = "create_role"  -> FindByCode(r.code) # {}
        [] r.pc = "assign"       -> roles[r.role] = None
        [] r.pc = "role_used"    -> Holders(r.role) # {} /\ r.other = None
        [] r.pc = "replace"      -> r.other = r.role \/ roles[r.other] = None
        [] r.pc = "move"         -> Holders(r.role) = {} \/ roles[r.other] = None
        [] r.pc = "delete_role"  -> Restricted(p)
        [] r.pc = "create_user"  -> HasRow(r.user) \/ lost
        [] r.pc = "update_role"  -> ~Active(r.user) \/ roles[r.role] = None
        [] r.pc = "delete_user"  -> ~Active(r.user)
        [] r.pc = "update_profile" -> Active(r.user) /\ TRUE \in WriteBack /\ lost
        [] OTHER                 -> FALSE

\* The request returns an error, and its transaction, if any, is undone. The
\* writes of a request that is at its audit record stay.
Return(p) ==
  /\ End(p)
  /\ UNCHANGED <<roles, minted, grants, users>>

Refuse(p) == ~Waiting(p) /\ Refused(p) /\ Return(p)

\* A statement fails, the audit record does not fit its columns, the client gives
\* up, or the process stops.
Fail(p) == req[p].pc # "idle" /\ Return(p)

\* Mutant: nobody looks for circles.
AbortDeadlockNever(p) == FALSE

\* Postgres breaks a circle of waiting transactions by failing one of them.
AbortDeadlock(p) ==
  /\ \E circle \in SUBSET Procs :
       p \in circle /\ \A x \in circle : \E y \in circle : Waits(x, y)
  /\ Return(p)

-----------------------------------------------------------------------------
Start(p) ==
  \/ \E c \in Codes : CreateRole(p, c)
  \/ \E r \in RoleIds, m \in Permissions :
       AssignPermission(p, r, m) \/ RemovePermission(p, r, m)
  \/ \E r \in RoleIds, o \in RoleIds \cup {None} : DeleteRole(p, r, o)
  \/ \E u \in Users, c \in Codes : CreateUser(p, u, c)
  \/ \E u \in Users : RestoreUser(p, u)
  \/ \E a \in {x \in Users : HasRow(x)}, u \in Users :
       \/ DeleteUser(p, a, u) \/ UpdateProfile(p, a, u)
       \/ \E c \in Codes : UpdateRole(p, a, u, c)

Step(p) ==
  \/ InsertRole(p) \/ InsertGrant(p) \/ DeleteGrant(p)
  \/ CheckUsed(p) \/ FindReplacement(p) \/ MoveUsers(p) \/ RemoveRole(p)
  \/ InsertUser(p) \/ WriteRole(p) \/ WriteDeleted(p) \/ WriteRestored(p)
  \/ WriteProfile(p) \/ Audit(p) \/ Refuse(p) \/ AbortDeadlock(p)

Next == \E p \in Procs :
  \/ Start(p) /\ UNCHANGED <<roles, minted, grants, users>>
  \/ Step(p)
  \/ Fail(p)

Spec == Init /\ [][Next]_vars

-----------------------------------------------------------------------------
(* Properties *)

TypeOK ==
  /\ roles \in [RoleIds -> Codes \cup {None}]
  /\ minted \in SUBSET RoleIds
  /\ grants \in [RoleIds -> SUBSET Permissions]
  /\ users \in [Users -> UserRow \cup {None}]
  /\ req \in [Procs -> Request]

\* No user, deleted or not, and no permission is left with a role that is
\* gone, whatever reaches it between the checks of DeleteRole or of
\* AssignPermission and their writes (role.go:199, 102).
RolesResolve ==
  /\ \A u \in Users : HasRow(u) => roles[users[u].role] # None
  /\ \A r \in RoleIds : roles[r] = None => grants[r] = {}

\* Two roles never share a code, although CreateRole looks the code up before
\* its transaction and a deleted role may come back with the user that is
\* inserted (role.go:52, admin.go:182).
CodesUnique ==
  \A r, s \in RoleIds : roles[r] # None /\ roles[r] = roles[s] => r = s

\* DeleteRole moves users to the replacement and removes the role in one step:
\* a user whose role changes, other than by a request about this user, gets
\* the replacement while the old role disappears (role.go:208).
ReplacementAtomic ==
  [][\A u \in Users :
       HasRow(u) /\ users'[u].role # users[u].role =>
         \/ \E p \in Procs : req[p].user = u /\ req'[p].pc = "audit"
         \/ /\ roles'[users[u].role] = None
            /\ \E p \in Procs : req[p].pc = "delete_role" /\ req[p].other = users'[u].role
    ]_vars

\* The next statement of request p succeeds, or is refused, or a circle of waiting
\* requests is broken by failing p.
Ready(p) ==
  LET r == req[p]
      saved == SaveRole(r.role, r.code)[r.role] # None
  IN  \/ r.pc = "create_role" /\ FindByCode(r.code) = {} /\ RoleIds \ minted # {}
      \/ r.pc = "assign" /\ roles[r.role] # None
      \/ r.pc = "role_used" /\ (Holders(r.role) # {} => r.other # None)
      \/ r.pc = "replace" /\ r.other # r.role /\ roles[r.other] # None
      \/ r.pc = "create_user" /\ ~HasRow(r.user) /\ saved
      \/ r.pc \in {"remove", "audit"}
      \/ /\ ~Waiting(p)
         /\ \/ r.pc = "move" /\ Holders(r.role) # {} /\ roles[r.other] # None
            \/ r.pc = "delete_role" /\ ~Restricted(p)
            \/ r.pc = "update_role" /\ Active(r.user) /\ roles[r.role] # None
            \/ r.pc = "delete_user" /\ Active(r.user)
            \/ r.pc = "restore_user"
            \/ r.pc = "update_profile" /\ \E back \in WriteBack : back /\ Active(r.user) => saved
      \/ ~Waiting(p) /\ Refused(p)
      \/ \E circle \in SUBSET Procs :
           p \in circle /\ \A x \in circle : \E y \in circle : Waits(x, y)

SomebodyReady == (\E p \in Procs : req[p].pc # "idle") => \E p \in Procs : Ready(p)

\* While requests are under way, one of them can take a step, or is made to
\* give up: two requests that delete a role each, and name the other's as the
\* replacement, do not wait for one another for ever (role.go:222, 227). Ready
\* says when a request can, without ENABLED.
NoStandstill ==
  SomebodyReady /\ \A p \in Procs : Ready(p) <=> ENABLED Step(p)
=============================================================================
