SPECIFICATION WorkerSpec
CONSTANTS
  Nobody = Nobody
  MaxEpoch = 3
  MaxMishaps = 2
INVARIANT DeadClearedAway
CHECK_DEADLOCK FALSE
