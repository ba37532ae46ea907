SPECIFICATION Spec
CONSTANTS
  Order = {o1}
  Variant = {v1, v2}
  Worker = {w1, w2}
  Reconciler = {r1}
  NoOrder = NoOrder
  Timely = TRUE
  LateLanding = FALSE
  AckLoss = TRUE
SYMMETRY Symm
INVARIANTS TypeOK SentMeansHeld DecisionMatchesPancake
PROPERTIES LedgerSpec UnknownNeedsEvidence
