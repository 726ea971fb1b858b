SPECIFICATION FairSpec
CONSTANTS
  d1 = d1
  d2 = d2
  d3 = d3
  Deliveries = {d1, d2, d3}
  Unparsable = {d3}
  Resumable = {d1}
  Statuses <- MCStatuses
  Errors <- MCErrors
  ChunkSizes = {1, 2}
  MaxRetries = 2
  MaxResponseBytes = 3
INVARIANT TypeOK CountedOnce RetriesExhausted
PROPERTY DeliveryEnds
CHECK_DEADLOCK FALSE
