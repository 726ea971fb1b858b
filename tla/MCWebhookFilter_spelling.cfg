SPECIFICATION Spec
CONSTANTS
  u1 = u1
  n1 = n1
  n2 = n2
  a1 = a1
  Urls = {u1}
  Chains = {n1}
  Accounts = {a1}
  EventNames <- MCFewNames
INVARIANT AccountsServed
