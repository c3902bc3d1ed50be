SPECIFICATION Spec
CONSTANTS
  p1 = p1
  p2 = p2
  Procs = {p1, p2}
  s1 = s1
  s2 = s2
  s3 = s3
  Sessions = {s1, s2}
  NoSession = NoSession
  t1 = t1
  t2 = t2
  t3 = t3
  Tokens = {t1, t2, t3}
  NoToken = NoToken
  Owner <- MCOwner
  Faults = {"fail", "redis"}
SYMMETRY Symmetry
INVARIANTS TypeOK OneChain RedisSound RevocationComplete RevokedIsRefused NoStandstill
PROPERTIES TokenStays
CHECK_DEADLOCK FALSE
