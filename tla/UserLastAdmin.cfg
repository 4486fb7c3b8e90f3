SPECIFICATION Spec
CONSTANTS
  u1 = u1
  u2 = u2
  u3 = u3
  r1 = r1
  r2 = r2
  r3 = r3
  NoUser = NoUser
  Users = {u1, u2, u3}
  Requests = {r1, r2}
SYMMETRY Symmetries
INVARIANTS AlwaysAnAdmin
CHECK_DEADLOCK FALSE
