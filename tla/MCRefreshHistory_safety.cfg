SPECIFICATION HistorySpec
CONSTANTS
  w1 = w1
  w2 = w2
  c1 = c1
  e1 = e1
  r1 = r1
  r2 = r2
  Ids = {w1, w2}
  Configs = {c1}
  Events = {e1}
  Relevant <- MCRelevant
  Refreshes = {r1, r2}
  Reliable <- MCReliable
  Dead = {}
  AutoDisable = TRUE
  FailureThreshold = 50
  MaxResults = 2
  MaxInFlight = 1
  MaxEdits = 2
  MaxFaults = 1
SYMMETRY MCSymmetry
INVARIANT TypeOK
PROPERTY ReliableStaysActive StatsSurviveRefresh OwnDisableTakesEffect
