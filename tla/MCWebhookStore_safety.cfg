SPECIFICATION Spec
CONSTANTS
  w1 = w1
  w2 = w2
  u1 = u1
  u2 = u2
  c1 = c1
  c2 = c2
  k1 = k1
  k2 = k2
  Ids = {w1, w2}
  Urls = {u1, u2}
  Configs = {c1, c2}
  Clients = {k1, k2}
  MaxOps = 5
SYMMETRY MCSymmetry
INVARIANT TypeOK OneWebhookPerUrl
PROPERTY ActivatedOnlyIfReadInactive ReturnsOnlyIfOvertaken PutAppliesUnlessRaced
CHECK_DEADLOCK FALSE
