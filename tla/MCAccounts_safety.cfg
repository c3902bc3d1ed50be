SPECIFICATION Spec
CONSTANTS
  p1 = p1
  p2 = p2
  Procs = {p1, p2}
  u1 = u1
  Users = {u1}
  NoUser = NoUser
  t1 = t1
  t2 = t2
  t3 = t3
  Tokens = {t1, t2, t3}
  NoToken = NoToken
  w1 = w1
  w2 = w2
  Passwords = {w1, w2}
  NoPassword = NoPassword
  Faults = {"fail"}
SYMMETRY Symmetry
INVARIANTS TypeOK StatusConsistent LoginNeedsProof OldTokensWorthless
PROPERTIES DeletedIsFrozen
CHECK_DEADLOCK FALSE
