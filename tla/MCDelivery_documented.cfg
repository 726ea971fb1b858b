SPECIFICATION Spec
CONSTANTS
  d1 = d1
  d2 = d2
  d3 = d3
  Deliveries = {d1}
  Unparsable = {}
  Resumable = {}
  Statuses <- MCStatuses
  Errors <- MCErrors
  ChunkSizes = {1, 2}
  MaxRetries = 2
  MaxResponseBytes = 2
INVARIANT RetriesAsDocumented
CHECK_DEADLOCK FALSE
