SPECIFICATION Spec
CONSTANTS
  Order = {o1, o2}
  Variant = {v1}
  Worker = {w1, w2}
  Reconciler = {r1}
  NoOrder = NoOrder
  Timely = FALSE
  LateLanding = TRUE
  AckLoss = TRUE
SYMMETRY Symm
INVARIANTS AtMostOnePost CommittedMeansLanded
PROPERTY LegalMoves
