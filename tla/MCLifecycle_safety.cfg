SPECIFICATION Spec
CONSTANTS
  i1 = i1
  Instances = {i1, i2}
  Calls = {c1, c2}
  p1 = p1
  p2 = p2
  admin = admin
  user = user
  AllPermissions <- MCPermissions
  Roles <- MCRoles
  AdminRole = admin
  AdminEmail = AdminEmail
  RolePermissions <- MCRolePermissions
  Deployments <- MCDeployments
  EventMaxRetries <- MCEventMaxRetries
  Millisecond = 10
  Whole = 10
  Malformed = Malformed
  NaN = NaN
  None = None
INVARIANTS TypeOK ServesSeeded LoneStartSucceeds RetriesBackOff
PROPERTIES GracefulCutsNobody ShutdownEnds
CHECK_DEADLOCK FALSE
