SPECIFICATION Spec
CONSTANTS
  Readers = {r1, r2}
  MaxAttempts = 2
  NoRecord = NoRecord
  MaxRevisions = 2
  MaxFaults = 1
  Variations = {v1, v2}
  BatchLimit = 2
  ChunkSize = 1
  MaxFailures = 2
  NoMarker = NoMarker
  MaxChanges = 2
  MaxDeliveries = 2
  Nobody = Nobody
  MaxEpoch = 3
  MaxMishaps = 2
INVARIANTS ServicesTypesOK NothingForgotten ProfileExclusive OneProject PaidOnce
PROPERTIES NewestKept CancelRefunded AnnouncedSettles RequestEnds
CHECK_DEADLOCK FALSE
