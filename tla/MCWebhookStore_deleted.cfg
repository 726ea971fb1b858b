SPECIFICATION Spec
CONSTANTS
  w1 = w1
  w2 = w2
  u1 = u1
  u2 = u2
  c1 = c1
  c2 = c2
  k1 = k1
  k2 = k2
  Ids = {w1}
  Urls = {u1}
  Configs = {c1}
  Clients = {k1, k2}
  MaxOps = 3
INVARIANT DeletedStaysDeleted
CHECK_DEADLOCK FALSE
