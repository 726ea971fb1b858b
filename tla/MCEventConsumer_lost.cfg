SPECIFICATION Spec
CONSTANTS
  m1 = m1
  m2 = m2
  m3 = m3
  h1 = h1
  s1 = s1
  s2 = s2
  s3 = s3
  Msgs = {m1, m2}
  Malformed = {}
  Hooks = {h1}
  Prefetch = 2
  Slots = {s1, s2, s3}
  MaxDisconnects = 1
  MaxCrashes = 1
INVARIANT NeverLost
