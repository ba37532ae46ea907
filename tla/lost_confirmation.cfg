SPECIFICATION FairSpec
CONSTANTS
  Order = {o1}
  Variant = {v1}
  Worker = {w1}
  Reconciler = {r1}
  NoOrder = NoOrder
  Timely = TRUE
  LateLanding = FALSE
  AckLoss = TRUE
PROPERTY DecidedHoldsConverge
