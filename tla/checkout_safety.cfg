SPECIFICATION Spec
CONSTANTS
  a = a
  b = b
  d = d
  p = p
  v = v
  Checkouts = {a, b, d}
  Targets = {p, v}
  Cart <- MCCart
  Initial <- MCInitial
  Rail <- MCRailsMixed
  LateRails = {"opennode"}
  Members = {a}
  MaxInFlight = 2
INVARIANTS
  StockConserved
  SettledIffOrdered
  PayableIsHeld
  PaidIsSettleable
  OrderIsReachable
PROPERTIES
  LossNeedsStaleRead
  ImplementsLedger
CHECK_DEADLOCK FALSE
