SPECIFICATION Spec
CONSTANTS
  Callers = {c1, c2}
  t1 = t1
  t2 = t2
  Tokens = {t1, t2}
  u1 = u1
  Users = {u1}
  custom = custom
  system = system
  Roles = {custom, system}
  SystemRoles = {system}
  UserOf <- MCUserOf
  RoleOf <- MCRoleOf
  IPs = {ip1, ip2}
  plain = plain
  shouted = shouted
  Spellings = {plain, shouted}
  Normal <- MCNormal
  Workloads <- MCWorkloads
  MaxBurst = 1
  None = None
INVARIANTS TypeOK ServedIsAuthorised LimitHolds RefusalIsNamed
PROPERTIES CallsAnswered
CHECK_DEADLOCK FALSE
