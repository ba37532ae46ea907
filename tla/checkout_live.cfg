SPECIFICATION FairSpec
CONSTANTS
  Order = {o1}
  Variant = {v1, v2}
  Worker = {w1}
  Reconciler = {r1}
  NoOrder = NoOrder
  Timely = TRUE
  LateLanding = FALSE
  AckLoss = TRUE
PROPERTIES SubmissionDecided DecidedHoldsSettle
