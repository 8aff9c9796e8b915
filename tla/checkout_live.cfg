SPECIFICATION LiveSpec
CONSTANTS
  invoice = invoice
  charge = charge
  session = session
  p = p
  Checkouts = {invoice, charge, session}
  Targets = {p}
  Cart <- MCCart
  Initial <- MCInitial
  Rail <- MCRails
  LateRails = {}
  Members = {invoice}
  MaxInFlight = 2
CONSTRAINT TwoBuyers
PROPERTIES
  PaidBecomesOrder
  HoldEnds
CHECK_DEADLOCK FALSE
