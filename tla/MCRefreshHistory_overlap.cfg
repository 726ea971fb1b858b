SPECIFICATION HistorySpec
CONSTANTS
  w1 = w1
  w2 = w2
  c1 = c1
  e1 = e1
  r1 = r1
  r2 = r2
  Ids = {w1}
  Configs = {c1}
  Events = {e1}
  Relevant <- MCRelevant
  Refreshes = {r1, r2}
  Reliable = {}
  Dead = {}
  AutoDisable = TRUE
  FailureThreshold = 90
  MaxResults = 1
  MaxInFlight = 1
  MaxEdits = 1
  MaxFaults = 0
PROPERTY NeverGoesBack
