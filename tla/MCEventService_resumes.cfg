SPECIFICATION ServiceSpec
CONSTANTS
  k1 = k1
  k2 = k2
  m1 = m1
  m2 = m2
  h1 = h1
  s1 = s1
  s2 = s2
  c1 = c1
  r1 = r1
  NoConnection = NoConnection
  Connections = {k1, k2}
  MaxOutages = 1
  Msgs = {m1}
  Malformed = {}
  Hooks = {h1}
  Prefetch = 1
  Slots = {s1, s2}
  MaxCrashes = 1
  Configs = {c1}
  Readers = {r1}
INVARIANT TypeOK SilentAfterShutdown
PROPERTY ConsumerResumes EventuallyPosted PostedBeforeGone
CHECK_DEADLOCK FALSE
