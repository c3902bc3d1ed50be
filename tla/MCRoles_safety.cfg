SPECIFICATION Spec
CONSTANTS
  p1 = p1
  p2 = p2
  Procs = {p1, p2}
  admin = admin
  bob = bob
  Users = {admin, bob}
  AdminUser = admin
  rAdmin = rAdmin
  rUser = rUser
  r1 = r1
  r2 = r2
  RoleIds = {rAdmin, rUser, r1, r2}
  AdminRole = rAdmin
  UserRole = rUser
  cAdmin = cAdmin
  cUser = cUser
  c1 = c1
  c2 = c2
  Codes = {cAdmin, cUser, c1, c2}
  AdminCode = cAdmin
  UserCode = cUser
  m1 = m1
  Permissions = {m1}
  UserPermissions = {}
  WriteBack = {TRUE, FALSE}
  None = None
SYMMETRY Symmetry
INVARIANTS TypeOK RolesResolve CodesUnique NoStandstill
PROPERTIES ReplacementAtomic
CHECK_DEADLOCK FALSE
