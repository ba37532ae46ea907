SPECIFICATION Spec
CONSTANTS
  Order = {o1}
  Variant = {v1, v2}
  Worker = {w1, w2}
  Reconciler = {r1}
  NoOrder = NoOrder
  Timely = TRUE
  LateLanding = FALSE
  AckLoss = FALSE
INVARIANT SubmittedHoldsItsBasket
