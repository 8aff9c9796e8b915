SPECIFICATION Spec
CONSTANTS
  w1 = w1
  w2 = w2
  Workers = {w1, w2}
  MaxClaims = 3
SYMMETRY WorkerSymmetry
INVARIANTS
  OneCharge
  EveryClaimIsAccounted
  OneRouteFulfils
  LabelledOrderIsTold
PROPERTIES
  ImplementsPurchase
