----------------------------- MODULE RolesProofs ----------------------------
(***************************************************************************)
(* Proofs about Roles, for any number of requests, users, roles and        *)
(* permissions. TypeInv is inductive by itself. MoveInv says what the row  *)
(* locks of DeleteRole protect between its UPDATE of users and its commit; *)
(* with it RolesResolve is inductive, and ReplacementAtomic follows.       *)
(* IdsInv says that ids are left for the CreateRoles under way; with it    *)
(* one request can always go on.                                           *)
(***************************************************************************)
EXTENDS Roles, FiniteSetTheorems, TLAPS

\* A request that is under way has what its next statements need.
Proper(r) ==
  /\ r.pc = "create_role" => r.code \in Codes
  /\ r.pc \in {"assign", "remove"} => r.role \in RoleIds /\ r.perm \in Permissions
  /\ r.pc \in {"role_used", "replace", "move", "delete_role", "create_user", "update_role",
               "update_profile"} => r.role \in RoleIds
  /\ r.pc \in {"replace", "move"} => r.other \in RoleIds
  /\ r.pc \in {"create_user", "update_role", "delete_user", "restore_user", "update_profile"} =>
       r.user \in Users
  /\ r.moved # {} => r.pc = "delete_role" /\ r.other \in RoleIds

\* RestoreUser and DeleteRole have found the rows that they will write.
TypeInv ==
  /\ TypeOK
  /\ \A p \in Procs :
       /\ Proper(req[p])
       /\ req[p].pc = "restore_user" => HasRow(req[p].user)
       /\ \A u \in req[p].moved : HasRow(u)

LEMMA IdleType == Idle \in Request /\ Proper(Idle) /\ Idle.pc = "idle" /\ Idle.moved = {}
BY DEF Idle, Request, PC, Proper

LEMMA TypeInit == Init => TypeInv
<1> SUFFICES ASSUME Init PROVE TypeInv
  OBVIOUS
<1>1. roles \in [RoleIds -> Codes \cup {None}]
  BY SeedAssumption DEF Init, SeedCode
<1>2. grants \in [RoleIds -> SUBSET Permissions]
  BY SeedAssumption DEF Init, SeedGrants
<1>3. users \in [Users -> UserRow \cup {None}] /\ minted \in SUBSET RoleIds
  BY SeedAssumption DEF Init, UserRow, SystemRoles
<1>4. \A p \in Procs : req[p] = Idle
  BY DEF Init
<1>5. req \in [Procs -> Request]
  BY IdleType DEF Init
<1> QED
  BY <1>1, <1>2, <1>3, <1>4, <1>5, IdleType DEF TypeInv, TypeOK

-----------------------------------------------------------------------------
(* The request of a step *)

Only(p) ==
  /\ req' = [q \in Procs |-> req'[q]]
  /\ \A q \in Procs \ {p} : req'[q] = req[q]

\* Request p becomes r.
LEMMA Becomes ==
  ASSUME TypeOK, NEW p \in Procs, NEW r, req' = [req EXCEPT ![p] = r]
  PROVE  Only(p) /\ req'[p] = r
BY DEF Only, TypeOK

LEMMA EndFields ==
  ASSUME TypeOK, NEW p \in Procs, End(p)
  PROVE  Only(p) /\ req'[p] = Idle
BY Becomes DEF End

LEMMA GoToFields ==
  ASSUME TypeOK, NEW p \in Procs, NEW pc \in PC, GoTo(p, pc)
  PROVE  /\ Only(p) /\ req'[p] \in Request /\ req'[p].pc = pc
         /\ req'[p].user = req[p].user /\ req'[p].role = req[p].role
         /\ req'[p].other = req[p].other /\ req'[p].moved = req[p].moved
BY DEF GoTo, Only, TypeOK, Request

LEMMA MoveFields ==
  ASSUME TypeOK, NEW p \in Procs, MoveUsers(p)
  PROVE  /\ Only(p) /\ req'[p] \in Request /\ req'[p].pc = "delete_role"
         /\ req'[p].role = req[p].role /\ req'[p].other = req[p].other
         /\ req'[p].moved = Holders(req[p].role)
<1> DEFINE h == Holders(req[p].role)
<1>1. h \subseteq Users
  BY DEF Holders
<1>2. req' = [req EXCEPT ![p].pc = "delete_role", ![p].moved = h]
  BY DEF MoveUsers
<1> HIDE DEF h
<1>3. /\ Only(p) /\ req'[p] \in Request /\ req'[p].pc = "delete_role"
      /\ req'[p].role = req[p].role /\ req'[p].other = req[p].other
      /\ req'[p].moved = h
  BY <1>1, <1>2 DEF Only, TypeOK, Request, PC
<1> QED
  BY <1>3 DEF h

LEMMA StartFields ==
  ASSUME TypeInv, NEW p \in Procs, Start(p)
  PROVE  /\ Only(p) /\ req'[p] \in Request /\ Proper(req'[p]) /\ req'[p].moved = {}
         /\ req'[p].pc \notin {"move", "delete_role"}
         /\ req'[p].pc = "restore_user" => HasRow(req'[p].user)
         /\ req'[p].pc = "create_role" => IdsLeft
<1>0. \A u \in Users : HasRow(u) => users[u].role \in RoleIds
  BY DEF TypeInv, TypeOK, HasRow, UserRow
<1> DEFINE Goal == /\ Only(p) /\ req'[p] \in Request /\ Proper(req'[p]) /\ req'[p].moved = {}
                   /\ req'[p].pc \notin {"move", "delete_role"}
                   /\ req'[p].pc = "restore_user" => HasRow(req'[p].user)
                   /\ req'[p].pc = "create_role" => IdsLeft
<1>1. ASSUME NEW r \in Request, Begin(p, r), Proper(r), r.moved = {},
             r.pc \notin {"move", "delete_role"}, r.pc = "restore_user" => HasRow(r.user),
             r.pc = "create_role" => IdsLeft
      PROVE  Goal
  BY <1>1, Becomes DEF Begin, TypeInv
<1> HIDE DEF Goal
<1>2. ASSUME NEW c \in Codes, CreateRole(p, c) PROVE Goal
  <2> DEFINE r == [Idle EXCEPT !.pc = "create_role", !.code = c]
  <2>1. r \in Request /\ r.pc = "create_role" /\ r.code = c /\ r.moved = {}
    BY DEF Idle, Request, PC
  <2>2. Begin(p, r) /\ IdsLeft
    BY <1>2 DEF CreateRole
  <2> HIDE DEF r
  <2> QED
    BY <1>1, <2>1, <2>2 DEF Proper
<1>3. ASSUME NEW r0 \in RoleIds, NEW m \in Permissions, NEW pc \in {"assign", "remove"},
             ChangePermission(p, r0, m, pc)
      PROVE  Goal
  <2> DEFINE r == [Idle EXCEPT !.pc = pc, !.role = r0, !.perm = m]
  <2>1. r \in Request /\ r.pc = pc /\ r.role = r0 /\ r.perm = m /\ r.moved = {}
    BY DEF Idle, Request, PC
  <2>2. Begin(p, r)
    BY <1>3 DEF ChangePermission
  <2> HIDE DEF r
  <2> QED
    BY <1>1, <2>1, <2>2 DEF Proper
<1>4. ASSUME NEW r0 \in RoleIds, NEW o \in RoleIds \cup {None}, DeleteRole(p, r0, o) PROVE Goal
  <2> DEFINE r == [Idle EXCEPT !.pc = "role_used", !.role = r0, !.other = o]
  <2>1. r \in Request /\ r.pc = "role_used" /\ r.role = r0 /\ r.moved = {}
    BY DEF Idle, Request, PC
  <2>2. Begin(p, r)
    BY <1>4 DEF DeleteRole
  <2> HIDE DEF r
  <2> QED
    BY <1>1, <2>1, <2>2 DEF Proper
<1>5. ASSUME NEW u \in Users, NEW r0 \in RoleIds, NEW c \in Codes \cup {None},
             NEW pc \in {"create_user", "update_role", "update_profile"},
             Begin(p, [Idle EXCEPT !.pc = pc, !.user = u, !.role = r0, !.code = c])
      PROVE  Goal
  <2> DEFINE r == [Idle EXCEPT !.pc = pc, !.user = u, !.role = r0, !.code = c]
  <2>1. r \in Request /\ r.pc = pc /\ r.user = u /\ r.role = r0 /\ r.moved = {}
    BY DEF Idle, Request, PC
  <2>2. Begin(p, r)
    BY <1>5
  <2> HIDE DEF r
  <2> QED
    BY <1>1, <2>1, <2>2 DEF Proper
<1>6. ASSUME NEW u \in Users, NEW pc \in {"delete_user", "restore_user"}, HasRow(u),
             Begin(p, [Idle EXCEPT !.pc = pc, !.user = u])
      PROVE  Goal
  <2> DEFINE r == [Idle EXCEPT !.pc = pc, !.user = u]
  <2>1. r \in Request /\ r.pc = pc /\ r.user = u /\ r.moved = {}
    BY DEF Idle, Request, PC
  <2>2. Begin(p, r)
    BY <1>6
  <2> HIDE DEF r
  <2> QED
    BY <1>1, <1>6, <2>1, <2>2 DEF Proper
<1>7. ASSUME NEW u \in Users, NEW c \in Codes, CreateUser(p, u, c) PROVE Goal
  BY <1>5, <1>7 DEF CreateUser, FindByCode
<1>8. ASSUME NEW a, NEW u \in Users, NEW c \in Codes, UpdateRole(p, a, u, c) PROVE Goal
  BY <1>5, <1>8 DEF UpdateRole, FindByCode
<1>9. ASSUME NEW a, NEW u \in Users, UpdateProfile(p, a, u) PROVE Goal
  <2>1. users[u].role \in RoleIds
    BY <1>0, <1>9 DEF UpdateProfile, Active
  <2>2. roles[users[u].role] \in Codes \cup {None}
    BY <2>1 DEF TypeInv, TypeOK
  <2> QED
    BY <1>5, <1>9, <2>1, <2>2 DEF UpdateProfile
<1>10. ASSUME NEW a, NEW u \in Users, DeleteUser(p, a, u) \/ RestoreUser(p, u) PROVE Goal
  BY <1>6, <1>10 DEF DeleteUser, RestoreUser, Active
<1> QED
  BY <1>2, <1>3, <1>4, <1>7, <1>8, <1>9, <1>10
     DEF Start, AssignPermission, RemovePermission, Goal

\* GORM's save only adds a row, with a code that no row has.
LEMMA SaveRoleRows ==
  ASSUME TypeOK, NEW r \in RoleIds, NEW c \in Codes \cup {None}
  PROVE  LET s == SaveRole(r, c) IN
         /\ s \in [RoleIds -> Codes \cup {None}]
         /\ \A x \in RoleIds : roles[x] # None => s[x] = roles[x]
         /\ \A x \in RoleIds : s[x] # roles[x] => x = r /\ s[x] = c /\ FindByCode(c) = {}
BY DEF SaveRole, FindByCode, TypeOK

\* One column of a user's row.
LEMMA RoleColumn ==
  ASSUME NEW x \in UserRow, NEW r \in RoleIds
  PROVE  LET y == [x EXCEPT !.role = r] IN y \in UserRow /\ y.role = r
BY DEF UserRow

LEMMA DeletedColumn ==
  ASSUME NEW x \in UserRow, NEW b \in BOOLEAN
  PROVE  LET y == [x EXCEPT !.deleted = b] IN y \in UserRow /\ y.role = x.role
BY DEF UserRow

-----------------------------------------------------------------------------
(* Types *)

LEMMA TypeKept ==
  ASSUME TypeInv, NEW p \in Procs, Only(p), req'[p] \in Request, Proper(req'[p]),
         req'[p].pc = "restore_user" => users'[req'[p].user] # None,
         \A u \in req'[p].moved : HasRow(u)',
         roles' \in [RoleIds -> Codes \cup {None}], minted' \in SUBSET RoleIds,
         grants' \in [RoleIds -> SUBSET Permissions],
         users' \in [Users -> UserRow \cup {None}],
         \A u \in Users : HasRow(u) => HasRow(u)'
  PROVE  TypeInv'
<1>1. req' \in [Procs -> Request]
  BY DEF Only, TypeInv, TypeOK
<1>2. ASSUME NEW q \in Procs, q # p
      PROVE  /\ Proper(req'[q])
             /\ req'[q].pc = "restore_user" => users'[req'[q].user] # None
             /\ \A u \in req'[q].moved : HasRow(u)'
  <2>1. req'[q] = req[q] /\ Proper(req[q]) /\ req[q].moved \subseteq Users
    BY <1>2 DEF Only, TypeInv, TypeOK, Request
  <2>2. req[q].pc = "restore_user" => HasRow(req[q].user) /\ req[q].user \in Users
    BY <2>1 DEF TypeInv, Proper
  <2>3. \A u \in req[q].moved : HasRow(u)
    BY DEF TypeInv
  <2>4. req[q].pc = "restore_user" => users'[req[q].user] # None
    BY <2>2 DEF HasRow
  <2>5. \A u \in req[q].moved : HasRow(u)'
    BY <2>1, <2>3
  <2> QED
    BY <2>1, <2>4, <2>5
<1>3. TypeOK'
  BY <1>1 DEF TypeOK
<1>4. \A q \in Procs : /\ Proper(req'[q])
                       /\ req'[q].pc = "restore_user" => users'[req'[q].user] # None
                       /\ \A u \in req'[q].moved : HasRow(u)'
  BY <1>2
<1>5. ASSUME NEW q \in Procs PROVE Proper(req[q])'
  BY <1>4 DEF Proper
<1>6. ASSUME NEW q \in Procs
      PROVE  (req[q].pc = "restore_user" => HasRow(req[q].user))'
  BY <1>4 DEF HasRow
<1>7. ASSUME NEW q \in Procs
      PROVE  (\A u \in req[q].moved : HasRow(u))'
  BY <1>4 DEF HasRow
<1> QED
  BY <1>3, <1>5, <1>6, <1>7 DEF TypeInv

\* The request goes on, and the tables stay well formed.
LEMMA TypeGoes ==
  ASSUME TypeInv, NEW p \in Procs, NEW pc \in {"delete_role", "replace", "move", "audit"},
         GoTo(p, pc),
         req[p].pc \notin {"idle", "delete_role"}, pc # "audit" => req[p].role \in RoleIds,
         pc \in {"replace", "move"} => req[p].other \in RoleIds,
         roles' \in [RoleIds -> Codes \cup {None}], minted' = minted, grants' = grants,
         users' \in [Users -> UserRow \cup {None}],
         \A u \in Users : HasRow(u) => HasRow(u)'
  PROVE  TypeInv'
<1>1. /\ Only(p) /\ req'[p] \in Request /\ req'[p].pc = pc
      /\ req'[p].user = req[p].user /\ req'[p].role = req[p].role
      /\ req'[p].other = req[p].other /\ req'[p].moved = req[p].moved
  BY GoToFields DEF TypeInv, PC
<1>2. Proper(req[p]) /\ req[p].moved = {}
  BY DEF TypeInv, Proper
<1>3. Proper(req'[p])
  BY <1>1, <1>2 DEF Proper
<1> QED
  BY <1>1, <1>2, <1>3, TypeKept DEF TypeInv, TypeOK

LEMMA TypeEnds ==
  ASSUME TypeInv, NEW p \in Procs, End(p),
         roles' \in [RoleIds -> Codes \cup {None}], minted' \in SUBSET RoleIds,
         grants' \in [RoleIds -> SUBSET Permissions],
         users' \in [Users -> UserRow \cup {None}],
         \A u \in Users : HasRow(u) => HasRow(u)'
  PROVE  TypeInv'
<1>1. Only(p) /\ req'[p] = Idle
  BY EndFields DEF TypeInv
<1> QED
  BY <1>1, IdleType, TypeKept

\* What a commit of DeleteRole does to the rows it has moved.
LEMMA RemoveRows ==
  ASSUME TypeInv, NEW p \in Procs, RemoveRole(p)
  PROVE  /\ users' \in [Users -> UserRow \cup {None}]
         /\ \A u \in Users : HasRow(u) => HasRow(u)'
         /\ \A u \in req[p].moved : u \in Users /\ HasRow(u) /\ users'[u].role = req[p].other
         /\ \A u \in Users \ req[p].moved : users'[u] = users[u]
<1>1. users' = [u \in Users |-> IF u \in req[p].moved
                                THEN [users[u] EXCEPT !.role = req[p].other]
                                ELSE users[u]]
  BY DEF RemoveRole
<1>2. ASSUME NEW u \in req[p].moved
      PROVE  /\ u \in Users /\ HasRow(u)
             /\ users'[u] \in UserRow /\ users'[u].role = req[p].other
  <2>1. u \in Users /\ HasRow(u) /\ users[u] \in UserRow /\ req[p].other \in RoleIds
    BY DEF TypeInv, TypeOK, Request, HasRow, Proper
  <2>2. users'[u] = [users[u] EXCEPT !.role = req[p].other]
    BY <1>1, <2>1
  <2> QED
    BY <2>1, <2>2, RoleColumn
<1>3. \A u \in Users \ req[p].moved : users'[u] = users[u]
  BY <1>1
<1>4. ASSUME NEW u \in Users PROVE users'[u] \in UserRow \cup {None} /\ (HasRow(u) => HasRow(u)')
  BY <1>2, <1>3, NoRowAssumption DEF TypeInv, TypeOK, HasRow
<1> QED
  BY <1>1, <1>2, <1>3, <1>4

\* What the UPDATE of one user's row does.
LEMMA WriteRows ==
  ASSUME TypeInv, NEW u \in Users, HasRow(u)
  PROVE  /\ \A b \in BOOLEAN : users' = [users EXCEPT ![u].deleted = b] =>
              /\ users' \in [Users -> UserRow \cup {None}]
              /\ users'[u].role = users[u].role
              /\ \A x \in Users \ {u} : users'[x] = users[x]
              /\ \A x \in Users : HasRow(x) => HasRow(x)'
         /\ \A r \in RoleIds : users' = [users EXCEPT ![u].role = r] =>
              /\ users' \in [Users -> UserRow \cup {None}]
              /\ users'[u].role = r
              /\ \A x \in Users \ {u} : users'[x] = users[x]
              /\ \A x \in Users : HasRow(x) => HasRow(x)'
<1>1. users[u] \in UserRow /\ users \in [Users -> UserRow \cup {None}]
  BY DEF TypeInv, TypeOK, HasRow
<1>2. ASSUME NEW y \in UserRow, users' = [users EXCEPT ![u] = y]
      PROVE  /\ users' \in [Users -> UserRow \cup {None}]
             /\ users'[u] = y
             /\ \A x \in Users \ {u} : users'[x] = users[x]
             /\ \A x \in Users : HasRow(x) => HasRow(x)'
  BY <1>1, <1>2, NoRowAssumption DEF HasRow
<1>3. ASSUME NEW b \in BOOLEAN, users' = [users EXCEPT ![u].deleted = b]
      PROVE  /\ users' \in [Users -> UserRow \cup {None}]
             /\ users'[u].role = users[u].role
             /\ \A x \in Users \ {u} : users'[x] = users[x]
             /\ \A x \in Users : HasRow(x) => HasRow(x)'
  <2> DEFINE y == [users[u] EXCEPT !.deleted = b]
  <2>1. users' = [users EXCEPT ![u] = y]
    BY <1>1, <1>3
  <2>2. y \in UserRow /\ y.role = users[u].role
    BY <1>1, DeletedColumn
  <2> HIDE DEF y
  <2> QED
    BY <1>2, <2>1, <2>2
<1>4. ASSUME NEW r \in RoleIds, users' = [users EXCEPT ![u].role = r]
      PROVE  /\ users' \in [Users -> UserRow \cup {None}]
             /\ users'[u].role = r
             /\ \A x \in Users \ {u} : users'[x] = users[x]
             /\ \A x \in Users : HasRow(x) => HasRow(x)'
  <2> DEFINE y == [users[u] EXCEPT !.role = r]
  <2>1. users' = [users EXCEPT ![u] = y]
    BY <1>1, <1>4
  <2>2. y \in UserRow /\ y.role = r
    BY <1>1, RoleColumn
  <2> HIDE DEF y
  <2> QED
    BY <1>2, <2>1, <2>2
<1> QED
  BY <1>3, <1>4

\* What a WriteRole, WriteDeleted, WriteRestored or WriteProfile changes: the
\* row of its user, whom no open DeleteRole has moved, and perhaps a role that
\* had gone.
OneUser(p) ==
  /\ GoTo(p, "audit") /\ UNCHANGED <<minted, grants>>
  /\ req[p].pc \in {"update_role", "delete_user", "restore_user", "update_profile"}
  /\ \A q \in Procs \ {p} : req[p].user \notin req[q].moved
  /\ roles' \in [RoleIds -> Codes \cup {None}]
  /\ \A x \in RoleIds : roles[x] # None => roles'[x] = roles[x]
  /\ \A x \in RoleIds : roles'[x] # roles[x] => \A y \in RoleIds : roles[y] # roles'[x]
  /\ \A x, y \in RoleIds : roles'[x] # roles[x] /\ roles'[y] # roles[y] => x = y
  /\ users' \in [Users -> UserRow \cup {None}]
  /\ \A x \in Users : HasRow(x) => HasRow(x)'
  /\ \A x \in Users \ {req[p].user} : users'[x] = users[x]
  /\ LET u == req[p].user IN
       \/ users'[u] = users[u]
       \/ /\ HasRow(u)
          /\ users'[u].role = users[u].role \/ roles'[users'[u].role] # None

LEMMA WriteStep ==
  ASSUME TypeInv, NEW p \in Procs,
         WriteRole(p) \/ WriteDeleted(p) \/ WriteRestored(p) \/ WriteProfile(p)
  PROVE  OneUser(p)
<1> DEFINE u == req[p].user
<1>1. /\ GoTo(p, "audit") /\ UNCHANGED <<minted, grants>>
      /\ req[p].pc \in {"update_role", "delete_user", "restore_user", "update_profile"}
      /\ ~Waiting(p) /\ u \in Users
  BY DEF TypeInv, Proper, WriteRole, WriteDeleted, WriteRestored, WriteProfile
<1>2. \A q \in Procs \ {p} : u \notin req[q].moved
  BY <1>1 DEF Waiting, Waits
<1>3. roles \in [RoleIds -> Codes \cup {None}] /\ users \in [Users -> UserRow \cup {None}]
  BY DEF TypeInv, TypeOK
<1>4. CASE WriteRole(p)
  <2>1. /\ HasRow(u) /\ req[p].role \in RoleIds /\ roles[req[p].role] # None /\ roles' = roles
        /\ users' = [users EXCEPT ![u].role = req[p].role]
    BY <1>4 DEF WriteRole, Active, TypeInv, Proper
  <2>2. /\ users' \in [Users -> UserRow \cup {None}]
        /\ users'[u].role = req[p].role
        /\ \A x \in Users \ {u} : users'[x] = users[x]
        /\ \A x \in Users : HasRow(x) => HasRow(x)'
    BY <1>1, <2>1, WriteRows
  <2> QED
    BY <1>1, <1>2, <1>3, <2>1, <2>2 DEF OneUser
<1>5. CASE WriteDeleted(p) \/ WriteRestored(p)
  <2>1. /\ HasRow(u) /\ roles' = roles
        /\ \E b \in BOOLEAN : users' = [users EXCEPT ![u].deleted = b]
    BY <1>5 DEF WriteDeleted, WriteRestored, Active, TypeInv
  <2>2. /\ users' \in [Users -> UserRow \cup {None}]
        /\ users'[u].role = users[u].role
        /\ \A x \in Users \ {u} : users'[x] = users[x]
        /\ \A x \in Users : HasRow(x) => HasRow(x)'
    BY <1>1, <2>1, WriteRows
  <2> QED
    BY <1>1, <1>2, <1>3, <2>1, <2>2 DEF OneUser
<1>6. CASE WriteProfile(p)
  <2> DEFINE r == req[p].role
             c == req[p].code
  <2>1. r \in RoleIds /\ c \in Codes \cup {None}
    BY <1>6 DEF WriteProfile, TypeInv, Proper, TypeOK, Request
  <2>2. roles' = SaveRole(r, c) \/ roles' = roles
    BY <1>6 DEF WriteProfile
  <2>3. /\ roles' \in [RoleIds -> Codes \cup {None}]
        /\ \A x \in RoleIds : roles[x] # None => roles'[x] = roles[x]
        /\ \A x \in RoleIds : roles'[x] # roles[x] =>
             x = r /\ \A y \in RoleIds : roles[y] # roles'[x]
    BY <1>3, <2>1, <2>2, SaveRoleRows DEF FindByCode, TypeInv
  <2>4. CASE users' = users
    BY <1>1, <1>2, <1>3, <2>3, <2>4 DEF OneUser, HasRow
  <2>5. CASE users' # users
    <3>1. HasRow(u) /\ roles'[r] # None /\ users' = [users EXCEPT ![u].role = r]
      BY <1>6, <2>5 DEF WriteProfile, Active
    <3>2. /\ users' \in [Users -> UserRow \cup {None}]
          /\ users'[u].role = r
          /\ \A x \in Users \ {u} : users'[x] = users[x]
          /\ \A x \in Users : HasRow(x) => HasRow(x)'
      BY <1>1, <2>1, <3>1, WriteRows
    <3> QED
      BY <1>1, <1>2, <2>3, <3>1, <3>2 DEF OneUser
  <2> QED
    BY <2>4, <2>5
<1> QED
  BY <1>4, <1>5, <1>6

LEMMA TypeStep == TypeInv /\ [Next]_vars => TypeInv'
<1> SUFFICES ASSUME TypeInv, [Next]_vars PROVE TypeInv'
  OBVIOUS
<1>0. /\ roles \in [RoleIds -> Codes \cup {None}] /\ minted \in SUBSET RoleIds
      /\ grants \in [RoleIds -> SUBSET Permissions]
      /\ users \in [Users -> UserRow \cup {None}]
  BY DEF TypeInv, TypeOK
<1>1. ASSUME NEW p \in Procs, Start(p), UNCHANGED <<roles, minted, grants, users>>
      PROVE  TypeInv'
  BY <1>0, <1>1, StartFields, TypeKept DEF HasRow
<1>2. ASSUME NEW p \in Procs, End(p), users' = users,
             roles' \in [RoleIds -> Codes \cup {None}], minted' \in SUBSET RoleIds,
             grants' \in [RoleIds -> SUBSET Permissions]
      PROVE  TypeInv'
  BY <1>0, <1>2, TypeEnds DEF HasRow
<1>3. ASSUME NEW p \in Procs, InsertRole(p) PROVE TypeInv'
  <2>1. req[p].code \in Codes
    BY <1>3 DEF InsertRole, TypeInv, Proper
  <2> QED
    BY <1>0, <1>2, <1>3, <2>1 DEF InsertRole
<1>4. ASSUME NEW p \in Procs, InsertGrant(p) \/ DeleteGrant(p) PROVE TypeInv'
  <2>1. req[p].role \in RoleIds /\ req[p].perm \in Permissions
    BY <1>4 DEF InsertGrant, DeleteGrant, TypeInv, Proper
  <2>2. grants' \in [RoleIds -> SUBSET Permissions]
    BY <1>0, <1>4, <2>1 DEF InsertGrant, DeleteGrant
  <2> QED
    BY <1>0, <1>2, <1>4, <2>2 DEF InsertGrant, DeleteGrant
<1>5. ASSUME NEW p \in Procs, CheckUsed(p) \/ FindReplacement(p) PROVE TypeInv'
  <2>1. /\ req[p].pc \in {"role_used", "replace"} /\ req[p].role \in RoleIds
        /\ UNCHANGED <<roles, minted, grants, users>>
    BY <1>5 DEF CheckUsed, FindReplacement, TypeInv, Proper
  <2>2. \/ GoTo(p, "delete_role")
        \/ GoTo(p, "replace") /\ req[p].other \in RoleIds
        \/ GoTo(p, "move") /\ req[p].other \in RoleIds
    BY <1>5 DEF CheckUsed, FindReplacement, TypeInv, Proper, TypeOK, Request
  <2> QED
    BY <1>0, <2>1, <2>2, TypeGoes DEF HasRow
<1>6. ASSUME NEW p \in Procs, MoveUsers(p) PROVE TypeInv'
  <2>1. req[p].role \in RoleIds /\ req[p].other \in RoleIds
        /\ UNCHANGED <<roles, minted, grants, users>>
    BY <1>6 DEF MoveUsers, TypeInv, Proper
  <2>2. /\ Only(p) /\ req'[p] \in Request /\ req'[p].pc = "delete_role"
        /\ req'[p].role = req[p].role /\ req'[p].other = req[p].other
        /\ req'[p].moved = Holders(req[p].role)
    BY <1>6, MoveFields DEF TypeInv
  <2>3. Proper(req'[p]) /\ \A u \in req'[p].moved : HasRow(u)'
    BY <2>1, <2>2 DEF Proper, Holders, HasRow
  <2> QED
    BY <1>0, <2>1, <2>2, <2>3, TypeKept DEF HasRow
<1>7. ASSUME NEW p \in Procs, RemoveRole(p) PROVE TypeInv'
  <2>1. req[p].role \in RoleIds
    BY <1>7 DEF RemoveRole, TypeInv, Proper
  <2>2. roles' \in [RoleIds -> Codes \cup {None}] /\ grants' \in [RoleIds -> SUBSET Permissions]
    BY <1>0, <1>7, <2>1 DEF RemoveRole
  <2> QED
    BY <1>0, <1>7, <2>2, RemoveRows, TypeEnds DEF RemoveRole
<1>8. ASSUME NEW p \in Procs, InsertUser(p) PROVE TypeInv'
  <2> DEFINE y == [role |-> req[p].role, deleted |-> FALSE]
  <2>1. /\ req[p].role \in RoleIds /\ req[p].user \in Users
        /\ req[p].code \in Codes \cup {None}
    BY <1>8 DEF InsertUser, TypeInv, Proper, TypeOK, Request
  <2>2. y \in UserRow /\ users' = [users EXCEPT ![req[p].user] = y]
    BY <1>8, <2>1 DEF InsertUser, UserRow
  <2> HIDE DEF y
  <2>3. /\ users' \in [Users -> UserRow \cup {None}]
        /\ \A u \in Users : HasRow(u) => HasRow(u)'
    BY <1>0, <2>1, <2>2, NoRowAssumption DEF HasRow
  <2>4. roles' \in [RoleIds -> Codes \cup {None}]
    BY <1>8, <2>1, SaveRoleRows DEF InsertUser, TypeInv
  <2> QED
    BY <1>0, <1>8, <2>3, <2>4, TypeEnds DEF InsertUser
<1>9. ASSUME NEW p \in Procs,
             WriteRole(p) \/ WriteDeleted(p) \/ WriteRestored(p) \/ WriteProfile(p)
      PROVE  TypeInv'
  BY <1>9, WriteStep, TypeGoes DEF OneUser
<1>10. ASSUME NEW p \in Procs, Audit(p) \/ Refuse(p) \/ AbortDeadlock(p) \/ Fail(p)
       PROVE  TypeInv'
  BY <1>0, <1>2, <1>10 DEF Audit, Refuse, AbortDeadlock, Fail, Return
<1>11. ASSUME UNCHANGED vars PROVE TypeInv'
  BY <1>11 DEF vars, TypeInv, TypeOK, HasRow
<1> QED
  BY <1>1, <1>3, <1>4, <1>5, <1>6, <1>7, <1>8, <1>9, <1>10, <1>11 DEF Next, Step

\* The tables and the requests stay well formed: every user's row names the id
\* of a role, and every statement has the row or the id that it needs.
THEOREM TypeCorrect == Spec => []TypeOK
<1>1. TypeInv => TypeOK
  BY DEF TypeInv
<1> QED
  BY <1>1, TypeInit, TypeStep, PTL DEF Spec

-----------------------------------------------------------------------------
(* Roles resolve *)

\* Between its UPDATE of users and its commit a DeleteRole has the rows it
\* moves to itself: they keep the role that goes, and the replacement, which
\* is another role, stays.
MoveInv ==
  \A p \in Procs :
    /\ req[p].pc = "move" => req[p].other # req[p].role
    /\ req[p].moved # {} => req[p].other # req[p].role /\ roles[req[p].other] # None
    /\ \A u \in req[p].moved : users[u].role = req[p].role
    /\ \A q \in Procs \ {p} : req[p].moved \cap req[q].moved = {}

ResolveInv == MoveInv /\ RolesResolve

LEMMA ResolveInit == Init => ResolveInv
<1> SUFFICES ASSUME Init PROVE ResolveInv
  OBVIOUS
<1>1. \A p \in Procs : req[p] = Idle
  BY DEF Init
<1>2. MoveInv
  BY <1>1, IdleType DEF MoveInv
<1>3. \A u \in Users : HasRow(u) => users[u].role = AdminRole
  BY DEF Init, HasRow
<1>4. roles[AdminRole] # None
  BY SeedAssumption, NoneAssumption DEF Init, SystemRoles, SeedCode
<1>5. \A r \in RoleIds : roles[r] = None => grants[r] = {}
  BY SeedAssumption, NoneAssumption DEF Init, SystemRoles, SeedCode
<1> QED
  BY <1>2, <1>3, <1>4, <1>5 DEF ResolveInv, RolesResolve

\* A step that leaves the rows and the replacement of the other DeleteRoles.
LEMMA MoveKept ==
  ASSUME TypeInv, MoveInv, NEW p \in Procs, Only(p),
         req'[p].pc = "move" => req'[p].other # req'[p].role,
         req'[p].moved # {} => /\ req'[p].other # req'[p].role
                               /\ roles'[req'[p].other] # None,
         \A u \in req'[p].moved : users'[u].role = req'[p].role,
         \A q \in Procs \ {p} : req'[p].moved \cap req[q].moved = {},
         \A q \in Procs \ {p} : /\ req[q].moved # {} => roles'[req[q].other] # None
                                /\ \A u \in req[q].moved : users'[u] = users[u]
  PROVE  MoveInv'
<1>1. ASSUME NEW q \in Procs \ {p}
      PROVE  /\ req'[q] = req[q]
             /\ req[q].pc = "move" => req[q].other # req[q].role
             /\ req[q].moved # {} => req[q].other # req[q].role /\ roles'[req[q].other] # None
             /\ \A u \in req[q].moved : users'[u].role = req[q].role
  BY DEF Only, MoveInv
<1>2. \A q, x \in Procs : q # x => req'[q].moved \cap req'[x].moved = {}
  <2>1. \A q, x \in Procs \ {p} : q # x => req[q].moved \cap req[x].moved = {}
    BY DEF MoveInv
  <2> QED
    BY <1>1, <2>1
<1> QED
  BY <1>1, <1>2 DEF MoveInv

\* What MoveInv gives of a request.
LEMMA MoveUse ==
  ASSUME TypeInv, MoveInv, NEW q \in Procs
  PROVE  /\ req[q].moved # {} => req[q].pc = "delete_role" /\ req[q].other \in RoleIds
                                 /\ roles[req[q].other] # None /\ req[q].other # req[q].role
         /\ \A u \in req[q].moved : u \in Users /\ HasRow(u) /\ users[u].role = req[q].role
BY DEF TypeInv, TypeOK, Request, Proper, MoveInv

\* A request ends or goes on with nothing moved; no role goes and no row that
\* was moved changes.
LEMMA MoveQuiet ==
  ASSUME TypeInv, MoveInv, NEW p \in Procs, Only(p),
         req'[p].moved = {}, req'[p].pc = "move" => req'[p].other # req'[p].role,
         \A x \in RoleIds : roles[x] # None => roles'[x] # None,
         \A q \in Procs \ {p} : \A u \in req[q].moved : users'[u] = users[u]
  PROVE  MoveInv'
BY MoveUse, MoveKept

LEMMA ResolveStep == TypeInv /\ ResolveInv /\ [Next]_vars => ResolveInv'
<1> SUFFICES ASSUME TypeInv, ResolveInv, [Next]_vars PROVE ResolveInv'
  OBVIOUS
<1>0. /\ TypeOK /\ MoveInv /\ RolesResolve
      /\ \A u \in Users : HasRow(u) => users[u] \in UserRow /\ users[u].role \in RoleIds
      /\ \A p \in Procs : Proper(req[p])
  BY DEF TypeInv, TypeOK, HasRow, UserRow, ResolveInv
<1>1. ASSUME NEW p \in Procs, Only(p), UNCHANGED <<roles, grants, users>>, req'[p].moved = {},
             req'[p].pc = "move" => req'[p].other # req'[p].role
      PROVE  ResolveInv'
  <2>1. MoveInv'
    BY <1>0, <1>1, MoveQuiet
  <2> QED
    BY <1>0, <1>1, <2>1 DEF ResolveInv, RolesResolve, HasRow
<1>2. ASSUME NEW p \in Procs, Start(p), UNCHANGED <<roles, minted, grants, users>>
      PROVE  ResolveInv'
  BY <1>1, <1>2, StartFields
<1>3. ASSUME NEW p \in Procs, InsertRole(p) PROVE ResolveInv'
  <2>1. Only(p) /\ req'[p].moved = {} /\ req'[p].pc = "idle" /\ users' = users /\ grants' = grants
    BY <1>0, <1>3, EndFields, IdleType DEF InsertRole
  <2>2. req[p].code \in Codes
    BY <1>0, <1>3 DEF InsertRole, Proper
  <2>3. \A x \in RoleIds : roles[x] # None => roles'[x] # None
    BY <1>0, <1>3, <2>2, NoneAssumption DEF InsertRole, TypeOK
  <2>4. MoveInv'
    BY <1>0, <2>1, <2>3, MoveQuiet
  <2> QED
    BY <1>0, <2>1, <2>3, <2>4 DEF ResolveInv, RolesResolve, HasRow
<1>4. ASSUME NEW p \in Procs, InsertGrant(p) \/ DeleteGrant(p) PROVE ResolveInv'
  <2>1. Only(p) /\ req'[p].moved = {} /\ req'[p].pc = "idle" /\ users' = users /\ roles' = roles
    BY <1>0, <1>4, EndFields, IdleType DEF InsertGrant, DeleteGrant
  <2>2. MoveInv'
    BY <1>0, <2>1, MoveQuiet
  <2>3. req[p].role \in RoleIds
    BY <1>0, <1>4 DEF InsertGrant, DeleteGrant, Proper
  <2>4. \A r \in RoleIds : roles[r] = None => grants'[r] \subseteq grants[r]
    BY <1>0, <1>4, <2>3 DEF InsertGrant, DeleteGrant, TypeOK
  <2> QED
    BY <1>0, <2>1, <2>2, <2>4 DEF ResolveInv, RolesResolve, HasRow
<1>5. ASSUME NEW p \in Procs, CheckUsed(p) \/ FindReplacement(p) PROVE ResolveInv'
  <2>1. /\ req[p].moved = {} /\ UNCHANGED <<roles, grants, users>>
        /\ \E pc \in PC : GoTo(p, pc) /\ (pc = "move" => req[p].other # req[p].role)
    BY <1>0, <1>5 DEF CheckUsed, FindReplacement, Proper, PC
  <2> QED
    BY <1>0, <1>1, <2>1, GoToFields
<1>6. ASSUME NEW p \in Procs, MoveUsers(p) PROVE ResolveInv'
  <2>1. /\ Only(p) /\ req'[p].pc = "delete_role"
        /\ req'[p].role = req[p].role /\ req'[p].other = req[p].other
        /\ req'[p].moved = Holders(req[p].role)
    BY <1>0, <1>6, MoveFields
  <2>2. /\ req[p].pc = "move" /\ ~Waiting(p) /\ roles[req[p].other] # None
        /\ UNCHANGED <<roles, grants, users>>
    BY <1>6 DEF MoveUsers
  <2>3. req[p].other # req[p].role
    BY <1>0, <2>2 DEF MoveInv
  <2>4. \A q \in Procs \ {p} : Holders(req[p].role) \cap req[q].moved = {}
    BY <2>2 DEF Waiting, Waits
  <2>5. \A u \in Holders(req[p].role) : users[u].role = req[p].role
    BY DEF Holders
  <2>6. MoveInv'
    BY <1>0, <2>1, <2>2, <2>3, <2>4, <2>5, MoveKept, MoveUse
  <2> QED
    BY <1>0, <2>2, <2>6 DEF ResolveInv, RolesResolve, HasRow
<1>7. ASSUME NEW p \in Procs, RemoveRole(p) PROVE ResolveInv'
  <2> DEFINE r == req[p].role
             o == req[p].other
  <2>1. /\ req[p].pc = "delete_role" /\ ~Waiting(p) /\ ~Restricted(p) /\ r \in RoleIds
        /\ roles' = [roles EXCEPT ![r] = None] /\ grants' = [grants EXCEPT ![r] = {}]
    BY <1>0, <1>7 DEF RemoveRole, Proper
  <2>2. Only(p) /\ req'[p].moved = {} /\ req'[p].pc = "idle"
    BY <1>0, <1>7, EndFields, IdleType DEF RemoveRole
  <2>3. /\ \A u \in req[p].moved : u \in Users /\ HasRow(u) /\ users'[u].role = o
        /\ \A u \in Users \ req[p].moved : users'[u] = users[u]
    BY <1>7, RemoveRows
  <2>4. \A q \in Procs \ {p} : req[q].moved # {} => req[q].other \in RoleIds \ {r} /\ roles'[req[q].other] # None
    <3> SUFFICES ASSUME NEW q \in Procs \ {p}, req[q].moved # {}
                 PROVE  req[q].other \in RoleIds \ {r} /\ roles'[req[q].other] # None
      OBVIOUS
    <3>1. req[q].pc = "delete_role" /\ req[q].other \in RoleIds /\ roles[req[q].other] # None
      BY <1>0, MoveUse
    <3>2. req[q].other # r
      BY <2>1, <3>1 DEF Waiting, Waits, ShareLocked
    <3> QED
      BY <1>0, <2>1, <3>1, <3>2 DEF TypeOK
  <2>5. \A q \in Procs \ {p} : \A u \in req[q].moved : users'[u] = users[u]
    <3> SUFFICES ASSUME NEW q \in Procs \ {p}, NEW u \in req[q].moved PROVE users'[u] = users[u]
      OBVIOUS
    <3>1. u \in Users /\ u \notin req[p].moved
      BY <1>0, MoveUse DEF MoveInv
    <3> QED
      BY <2>3, <3>1
  <2>6. MoveInv'
    BY <1>0, <2>2, <2>4, <2>5, MoveKept
  <2>7. ASSUME NEW u \in Users, users'[u] # None PROVE roles'[users'[u].role] # None
    <3>1. CASE u \in req[p].moved
      <4>1. o \in RoleIds /\ o # r /\ roles[o] # None
        BY <1>0, <3>1, MoveUse
      <4>2. roles'[o] # None
        BY <1>0, <2>1, <4>1 DEF TypeOK
      <4> QED
        BY <2>3, <3>1, <4>2
    <3>2. CASE u \notin req[p].moved
      <4>1. users'[u] = users[u] /\ HasRow(u)
        BY <2>3, <2>7, <3>2 DEF HasRow
      <4>2. users[u].role # r
        BY <2>1, <3>2, <4>1 DEF Restricted, Holders
      <4>3. roles[users[u].role] # None /\ users[u].role \in RoleIds
        BY <1>0, <4>1 DEF RolesResolve
      <4>4. roles'[users[u].role] # None
        BY <1>0, <2>1, <4>2, <4>3 DEF TypeOK
      <4> QED
        BY <4>1, <4>4
    <3> QED
      BY <3>1, <3>2
  <2>8. \A x \in RoleIds : roles'[x] = None => grants'[x] = {}
    BY <1>0, <2>1 DEF TypeOK, RolesResolve
  <2> QED
    BY <2>6, <2>7, <2>8 DEF ResolveInv, RolesResolve, HasRow
<1>8. ASSUME NEW p \in Procs, InsertUser(p) PROVE ResolveInv'
  <2> DEFINE r == req[p].role
             n == req[p].user
             y == [role |-> r, deleted |-> FALSE]
  <2>1. r \in RoleIds /\ n \in Users /\ req[p].code \in Codes \cup {None}
    BY <1>0, <1>8 DEF InsertUser, Proper, TypeOK, Request
  <2>2. ~HasRow(n) /\ roles'[r] # None /\ grants' = grants /\ users' = [users EXCEPT ![n] = y]
    BY <1>8 DEF InsertUser
  <2>3. y.role = r
    OBVIOUS
  <2> HIDE DEF y
  <2>4. users'[n].role = r /\ \A u \in Users \ {n} : users'[u] = users[u]
    BY <1>0, <2>1, <2>2, <2>3 DEF TypeOK
  <2>5. \A x \in RoleIds : roles[x] # None => roles'[x] # None
    BY <1>0, <1>8, <2>1, SaveRoleRows DEF InsertUser
  <2>6. Only(p) /\ req'[p].moved = {} /\ req'[p].pc = "idle"
    BY <1>0, <1>8, EndFields, IdleType DEF InsertUser
  <2>7. \A q \in Procs : \A u \in req[q].moved : users'[u] = users[u]
    BY <1>0, <2>2, <2>4, MoveUse
  <2>8. MoveInv'
    BY <1>0, <2>5, <2>6, <2>7, MoveQuiet
  <2>9. ASSUME NEW u \in Users, users'[u] # None PROVE roles'[users'[u].role] # None
    <3>1. CASE u = n
      BY <2>2, <2>4, <3>1
    <3>2. CASE u # n
      BY <1>0, <2>4, <2>5, <2>9, <3>2 DEF RolesResolve, HasRow
    <3> QED
      BY <3>1, <3>2
  <2> QED
    BY <1>0, <2>2, <2>5, <2>8, <2>9 DEF ResolveInv, RolesResolve, HasRow
<1>9. ASSUME NEW p \in Procs,
             WriteRole(p) \/ WriteDeleted(p) \/ WriteRestored(p) \/ WriteProfile(p)
      PROVE  ResolveInv'
  <2> DEFINE n == req[p].user
  <2>0. OneUser(p)
    BY <1>9, WriteStep
  <2>1. /\ GoTo(p, "audit") /\ n \in Users /\ req[p].moved = {} /\ grants' = grants
        /\ \A q \in Procs \ {p} : n \notin req[q].moved
        /\ \A x \in RoleIds : roles[x] # None => roles'[x] = roles[x]
        /\ \A x \in Users \ {n} : users'[x] = users[x]
        /\ \/ users'[n] = users[n]
           \/ /\ HasRow(n)
              /\ users'[n].role = users[n].role \/ roles'[users'[n].role] # None
    BY <1>0, <2>0 DEF OneUser, Proper
  <2>2. Only(p) /\ req'[p].moved = {} /\ req'[p].pc = "audit"
    BY <1>0, <2>1, GoToFields DEF PC
  <2>3. \A q \in Procs \ {p} : \A u \in req[q].moved : users'[u] = users[u]
    BY <1>0, <2>1, MoveUse
  <2>4. MoveInv'
    BY <1>0, <2>1, <2>2, <2>3, MoveQuiet
  <2>5. ASSUME NEW u \in Users, users'[u] # None PROVE roles'[users'[u].role] # None
    <3>1. HasRow(u) => roles'[users[u].role] # None
      BY <1>0, <2>1 DEF RolesResolve
    <3> QED
      BY <2>1, <2>5, <3>1 DEF HasRow
  <2>6. \A x \in RoleIds : roles'[x] = None => grants'[x] = {}
    BY <1>0, <2>1 DEF RolesResolve
  <2> QED
    BY <2>4, <2>5, <2>6 DEF ResolveInv, RolesResolve, HasRow
<1>10. ASSUME NEW p \in Procs, Audit(p) \/ Refuse(p) \/ AbortDeadlock(p) \/ Fail(p)
       PROVE  ResolveInv'
  <2>1. End(p) /\ UNCHANGED <<roles, grants, users>>
    BY <1>10 DEF Audit, Refuse, AbortDeadlock, Fail, Return
  <2> QED
    BY <1>0, <1>1, <2>1, EndFields, IdleType
<1>11. ASSUME UNCHANGED vars PROVE ResolveInv'
  BY <1>0, <1>11 DEF vars, ResolveInv, MoveInv, RolesResolve, HasRow
<1> QED
  BY <1>2, <1>3, <1>4, <1>5, <1>6, <1>7, <1>8, <1>9, <1>10, <1>11 DEF Next, Step

\* No user and no permission is left with a role that is gone, however the
\* requests interleave: between the checks of a DeleteRole and its commit,
\* others may insert, move and restore users, grant permissions and delete the
\* replacement.
THEOREM RolesAlwaysResolve == Spec => []RolesResolve
<1>1. ResolveInv => RolesResolve
  BY DEF ResolveInv
<1> QED
  BY <1>1, TypeInit, TypeStep, ResolveInit, ResolveStep, PTL DEF Spec

-----------------------------------------------------------------------------
(* Codes *)

LEMMA CodesStep == TypeInv /\ CodesUnique /\ [Next]_vars => CodesUnique'
<1> SUFFICES ASSUME TypeInv, CodesUnique, [Next]_vars PROVE CodesUnique'
  OBVIOUS
<1>0. TypeOK /\ \A p \in Procs : Proper(req[p])
  BY DEF TypeInv
<1>1. ASSUME UNCHANGED roles PROVE CodesUnique'
  BY <1>1 DEF CodesUnique
\* One row is added, or its code replaced, with a code that no row has.
<1>2. ASSUME \A x \in RoleIds : roles'[x] # roles[x] => \A y \in RoleIds : roles[y] # roles'[x],
             \A x, y \in RoleIds : roles'[x] # roles[x] /\ roles'[y] # roles[y] => x = y
      PROVE  CodesUnique'
  <2> SUFFICES ASSUME NEW r \in RoleIds, NEW s \in RoleIds,
                      roles'[r] # None, roles'[r] = roles'[s]
               PROVE  r = s
    BY DEF CodesUnique
  <2>1. CASE roles'[r] = roles[r] /\ roles'[s] = roles[s]
    BY <2>1 DEF CodesUnique
  <2>2. CASE roles'[r] # roles[r] \/ roles'[s] # roles[s]
    BY <1>2, <2>2
  <2> QED
    BY <2>1, <2>2
<1>3. ASSUME NEW p \in Procs, InsertRole(p) PROVE CodesUnique'
  <2>1. PICK r \in RoleIds : roles' = [roles EXCEPT ![r] = req[p].code]
    BY <1>3 DEF InsertRole
  <2>2. \A y \in RoleIds : roles[y] # req[p].code
    BY <1>3 DEF InsertRole, FindByCode
  <2> QED
    BY <1>0, <1>2, <2>1, <2>2 DEF TypeOK
<1>4. ASSUME NEW p \in Procs, RemoveRole(p) PROVE CodesUnique'
  <2>1. \A x \in RoleIds : roles'[x] # None => roles'[x] = roles[x]
    BY <1>0, <1>4 DEF RemoveRole, TypeOK
  <2> QED
    BY <2>1 DEF CodesUnique
<1>5. ASSUME NEW p \in Procs, InsertUser(p) PROVE CodesUnique'
  <2>1. req[p].role \in RoleIds /\ req[p].code \in Codes \cup {None}
    BY <1>0, <1>5 DEF InsertUser, Proper, TypeOK, Request
  <2>2. roles' = SaveRole(req[p].role, req[p].code)
    BY <1>5 DEF InsertUser
  <2> QED
    BY <1>0, <1>2, <2>1, <2>2, SaveRoleRows DEF FindByCode
<1>6. ASSUME NEW p \in Procs,
             WriteRole(p) \/ WriteDeleted(p) \/ WriteRestored(p) \/ WriteProfile(p)
      PROVE  CodesUnique'
  BY <1>2, <1>6, WriteStep DEF OneUser
<1> QED
  BY <1>1, <1>3, <1>4, <1>5, <1>6
     DEF Next, Step, vars, InsertGrant, DeleteGrant, CheckUsed, FindReplacement, MoveUsers,
         Audit, Refuse, AbortDeadlock, Fail, Return

\* Two roles never have the same code, whatever the requests looked up before
\* their transactions: the unique index stops CreateRole, and a role that GORM
\* saves again with a loaded user keeps out of the way of a new one.
THEOREM CodesAreUnique == Spec => []CodesUnique
<1>1. Init => CodesUnique
  BY SeedAssumption DEF Init, SystemRoles, SeedCode, CodesUnique
<1> QED
  BY <1>1, TypeInit, TypeStep, CodesStep, PTL DEF Spec

-----------------------------------------------------------------------------
(* Replacement *)

\* What ReplacementAtomic says of one step.
Replaced ==
  \A u \in Users :
    HasRow(u) /\ users'[u].role # users[u].role =>
      \/ \E p \in Procs : req[p].user = u /\ req'[p].pc = "audit"
      \/ /\ roles'[users[u].role] = None
         /\ \E p \in Procs : req[p].pc = "delete_role" /\ req[p].other = users'[u].role

LEMMA ReplacedStep == TypeInv /\ ResolveInv /\ [Next]_vars => Replaced
<1> SUFFICES ASSUME TypeInv, ResolveInv, [Next]_vars PROVE Replaced
  OBVIOUS
<1>0. TypeOK /\ MoveInv /\ \A p \in Procs : Proper(req[p])
  BY DEF TypeInv, ResolveInv
<1>1. ASSUME UNCHANGED users PROVE Replaced
  BY <1>1 DEF Replaced
<1>2. ASSUME NEW p \in Procs, RemoveRole(p) PROVE Replaced
  <2> SUFFICES ASSUME NEW u \in Users, users'[u].role # users[u].role
               PROVE  /\ roles'[users[u].role] = None
                      /\ req[p].pc = "delete_role" /\ req[p].other = users'[u].role
    BY DEF Replaced
  <2>1. u \in req[p].moved /\ users'[u].role = req[p].other
    BY <1>2, RemoveRows
  <2>2. users[u].role = req[p].role
    BY <1>0, <2>1, MoveUse
  <2> QED
    BY <1>0, <1>2, <2>1, <2>2 DEF RemoveRole, Proper, TypeOK
<1>3. ASSUME NEW p \in Procs, InsertUser(p) PROVE Replaced
  <2>1. \A u \in Users : HasRow(u) => users'[u] = users[u]
    BY <1>0, <1>3 DEF InsertUser, TypeOK
  <2> QED
    BY <2>1 DEF Replaced
<1>4. ASSUME NEW p \in Procs,
             WriteRole(p) \/ WriteDeleted(p) \/ WriteRestored(p) \/ WriteProfile(p)
      PROVE  Replaced
  <2>1. GoTo(p, "audit") /\ \A x \in Users \ {req[p].user} : users'[x] = users[x]
    BY <1>4, WriteStep DEF OneUser
  <2>2. req'[p].pc = "audit"
    BY <1>0, <2>1, GoToFields DEF PC
  <2> QED
    BY <2>1, <2>2 DEF Replaced
<1> QED
  BY <1>1, <1>2, <1>3, <1>4
     DEF Next, Step, vars, InsertRole, InsertGrant, DeleteGrant, CheckUsed, FindReplacement,
         MoveUsers, Audit, Refuse, AbortDeadlock, Fail, Return

\* A user's role changes by a request about this user, or together with the
\* removal of the role, to the replacement that the DeleteRole names.
THEOREM ReplacementIsAtomic == Spec => ReplacementAtomic
<1>1. TypeInv /\ ResolveInv /\ [Next]_vars => [Replaced]_vars
  BY ReplacedStep
<1> QED
  BY <1>1, TypeInit, TypeStep, ResolveInit, ResolveStep, PTL DEF Spec, ReplacementAtomic, Replaced

-----------------------------------------------------------------------------
(* No standstill *)

Creating == {p \in Procs : req[p].pc = "create_role"}

\* Every CreateRole under way has an id left.
IdsInv == Cardinality(Creating) <= Cardinality(RoleIds \ minted)

LEMMA IdsFinite ==
  /\ IsFiniteSet(Creating) /\ IsFiniteSet(RoleIds \ minted)
  /\ Cardinality(Creating) \in Nat /\ Cardinality(RoleIds \ minted) \in Nat
<1>1. IsFiniteSet(Creating) /\ IsFiniteSet(RoleIds \ minted)
  BY FiniteAssumption, FS_Subset DEF Creating
<1> QED
  BY <1>1, FS_CardinalityType

LEMMA IdsKept ==
  ASSUME IdsInv, Creating' \subseteq Creating, UNCHANGED minted
  PROVE  IdsInv'
<1>1. Cardinality(Creating') <= Cardinality(Creating) /\ IsFiniteSet(Creating')
  BY IdsFinite, FS_Subset
<1>2. Cardinality(Creating') \in Nat
  BY <1>1, FS_CardinalityType
<1> QED
  BY <1>1, <1>2, IdsFinite DEF IdsInv

LEMMA IdsOthers ==
  ASSUME IdsInv, NEW p \in Procs, Only(p), req'[p].pc # "create_role", UNCHANGED minted
  PROVE  IdsInv'
BY IdsKept DEF Only, Creating

LEMMA IdsStep == TypeInv /\ IdsInv /\ [Next]_vars => IdsInv'
<1> SUFFICES ASSUME TypeInv, IdsInv, [Next]_vars PROVE IdsInv'
  OBVIOUS
<1>0. TypeOK
  BY DEF TypeInv
<1>1. ASSUME NEW p \in Procs, Start(p), UNCHANGED <<roles, minted, grants, users>>
      PROVE  IdsInv'
  <2>1. Only(p) /\ (req'[p].pc = "create_role" => IdsLeft)
    BY <1>1, StartFields
  <2>2. CASE req'[p].pc # "create_role"
    BY <1>1, <2>1, <2>2, IdsOthers
  <2>3. CASE req'[p].pc = "create_role"
    <3>1. Cardinality(Creating) < Cardinality(RoleIds \ minted)
      BY <2>1, <2>3, IdsFinite DEF IdsLeft, Creating
    <3>2. Creating' \subseteq Creating \cup {p}
      BY <2>1 DEF Only, Creating
    <3>3. IsFiniteSet(Creating \cup {p})
          /\ Cardinality(Creating \cup {p}) <= Cardinality(Creating) + 1
      <4> DEFINE k == Cardinality(Creating)
      <4>1. IsFiniteSet(Creating \cup {p}) /\ Cardinality(Creating \cup {p}) = IF p \in Creating THEN k ELSE k + 1
        BY IdsFinite, FS_AddElement
      <4>2. k \in Nat
        BY IdsFinite
      <4> HIDE DEF k
      <4>3. Cardinality(Creating \cup {p}) <= k + 1
        BY <4>1, <4>2
      <4> QED
        BY <4>1, <4>3 DEF k
    <3>4. /\ IsFiniteSet(Creating') /\ Cardinality(Creating') \in Nat
          /\ Cardinality(Creating \cup {p}) \in Nat
          /\ Cardinality(Creating') <= Cardinality(Creating \cup {p})
      BY <3>2, <3>3, FS_Subset, FS_CardinalityType
    <3>5. Cardinality(Creating') <= Cardinality(RoleIds \ minted)
      BY <3>1, <3>3, <3>4, IdsFinite
    <3> QED
      BY <1>1, <3>5 DEF IdsInv
  <2> QED
    BY <2>2, <2>3
<1>2. ASSUME NEW p \in Procs, InsertRole(p) PROVE IdsInv'
  <2>1. PICK r \in RoleIds \ minted : minted' = minted \cup {r}
    BY <1>2 DEF InsertRole
  <2>2. Only(p) /\ req'[p].pc = "idle" /\ p \in Creating
    BY <1>0, <1>2, EndFields, IdleType DEF InsertRole, Creating
  <2>3. Creating' = Creating \ {p}
    BY <2>2 DEF Only, Creating
  <2>4. RoleIds \ minted' = (RoleIds \ minted) \ {r}
    BY <2>1
  <2>5. Cardinality(Creating \ {p}) = Cardinality(Creating) - 1
    BY <2>2, IdsFinite, FS_RemoveElement
  <2>6. Cardinality((RoleIds \ minted) \ {r}) = Cardinality(RoleIds \ minted) - 1
    BY IdsFinite, FS_RemoveElement
  <2>7. Cardinality(Creating') <= Cardinality(RoleIds \ minted')
    <3> DEFINE k == Cardinality(Creating)
               m == Cardinality(RoleIds \ minted)
    <3>1. k \in Nat /\ m \in Nat /\ k <= m
      BY IdsFinite DEF IdsInv
    <3>2. Cardinality(Creating') = k - 1 /\ Cardinality(RoleIds \ minted') = m - 1
      BY <2>3, <2>4, <2>5, <2>6
    <3> HIDE DEF k, m
    <3> QED
      BY <3>1, <3>2
  <2> QED
    BY <2>7 DEF IdsInv
<1>3. ASSUME NEW p \in Procs, End(p), UNCHANGED minted PROVE IdsInv'
  BY <1>0, <1>3, EndFields, IdleType, IdsOthers
<1>4. ASSUME NEW p \in Procs, NEW pc \in PC \ {"create_role"}, GoTo(p, pc), UNCHANGED minted
      PROVE  IdsInv'
  BY <1>0, <1>4, GoToFields, IdsOthers
<1>5. ASSUME NEW p \in Procs, CheckUsed(p) \/ FindReplacement(p) PROVE IdsInv'
  BY <1>4, <1>5 DEF CheckUsed, FindReplacement, PC
<1>6. ASSUME NEW p \in Procs, MoveUsers(p) PROVE IdsInv'
  BY <1>0, <1>6, MoveFields, IdsOthers DEF MoveUsers
<1>7. ASSUME NEW p \in Procs,
             WriteRole(p) \/ WriteDeleted(p) \/ WriteRestored(p) \/ WriteProfile(p)
      PROVE  IdsInv'
  BY <1>4, <1>7, WriteStep DEF OneUser, PC
<1>8. ASSUME UNCHANGED vars PROVE IdsInv'
  BY <1>8, IdsKept DEF vars, Creating
<1> QED
  BY <1>1, <1>2, <1>3, <1>5, <1>6, <1>7, <1>8
     DEF Next, Step, InsertGrant, DeleteGrant, RemoveRole, InsertUser,
         Audit, Refuse, AbortDeadlock, Fail, Return

\* A request that waits for nobody succeeds or is refused.
LEMMA GoesOn ==
  ASSUME TypeInv, IdsInv, NEW p \in Procs, req[p].pc # "idle", ~Waiting(p)
  PROVE  Ready(p)
<1>1. req[p].pc \in PC
  BY DEF TypeInv, TypeOK, Request
<1>2. CASE req[p].pc = "create_role"
  <2>1. RoleIds \ minted # {}
    <3>1. p \in Creating /\ Creating # {}
      BY <1>2 DEF Creating
    <3>2. Cardinality(Creating) # 0
      BY <3>1, IdsFinite, FS_EmptySet
    <3>3. Cardinality(RoleIds \ minted) # 0
      BY <3>2, IdsFinite DEF IdsInv
    <3> QED
      BY <3>3, FS_EmptySet
  <2> QED
    BY <1>2, <2>1 DEF Ready, Refused
<1>3. CASE req[p].pc = "assign"
  BY <1>3 DEF Ready, Refused
<1>4. CASE req[p].pc = "role_used"
  BY <1>4 DEF Ready, Refused
<1>5. CASE req[p].pc = "replace"
  BY <1>5 DEF Ready, Refused
<1>6. CASE req[p].pc = "move"
  BY <1>6 DEF Ready, Refused
<1>7. CASE req[p].pc = "delete_role"
  BY <1>7 DEF Ready, Refused
<1>8. CASE req[p].pc = "create_user"
  BY <1>8 DEF Ready, Refused
<1>9. CASE req[p].pc = "update_role"
  BY <1>9 DEF Ready, Refused
<1>10. CASE req[p].pc = "delete_user"
  BY <1>10 DEF Ready, Refused
<1>11. CASE req[p].pc = "update_profile"
  BY <1>11, BehaviourAssumption DEF Ready, Refused
<1>12. CASE req[p].pc \in {"remove", "audit", "restore_user"}
  BY <1>12 DEF Ready
<1> QED
  BY <1>1, <1>2, <1>3, <1>4, <1>5, <1>6, <1>7, <1>8, <1>9, <1>10, <1>11, <1>12 DEF PC

\* While requests are under way, one can go on, however many there are and
\* whatever they hold: whoever is waited for is under way itself, so if all of
\* them wait they form a circle, and Postgres breaks it.
THEOREM SomebodyAlwaysReady == Spec => []SomebodyReady
<1>1. Init => IdsInv
  <2> SUFFICES ASSUME Init PROVE IdsInv
    OBVIOUS
  <2>1. Creating = {}
    BY IdleType DEF Init, Creating
  <2>2. Cardinality(Creating) = 0
    BY <2>1, FS_EmptySet
  <2> QED
    BY <2>2, IdsFinite DEF IdsInv
<1>2. TypeInv /\ IdsInv => SomebodyReady
  <2> SUFFICES ASSUME TypeInv, IdsInv, NEW p \in Procs, req[p].pc # "idle"
               PROVE  \E x \in Procs : Ready(x)
    BY DEF SomebodyReady
  <2> DEFINE busy == {x \in Procs : req[x].pc # "idle"}
  <2>1. CASE \E x \in busy : ~Waiting(x)
    BY <2>1, GoesOn
  <2>2. CASE \A x \in busy : Waiting(x)
    <3>1. ASSUME NEW x \in busy PROVE \E y \in busy : Waits(x, y)
      <4>1. PICK y \in Procs : Waits(x, y)
        BY <2>2 DEF Waiting
      <4>2. req[y].moved # {}
        BY <4>1 DEF Waits, ShareLocked
      <4>3. req[y].pc = "delete_role"
        BY <4>2 DEF TypeInv, Proper
      <4> QED
        BY <4>1, <4>3
    <3>2. p \in busy /\ busy \in SUBSET Procs
      OBVIOUS
    <3> HIDE DEF busy
    <3> QED
      BY <3>1, <3>2 DEF Ready
  <2> QED
    BY <2>1, <2>2
<1> QED
  BY <1>1, <1>2, TypeInit, TypeStep, IdsStep, PTL DEF Spec
=============================================================================
