SPECIFICATION Spec
CONSTANTS
  w1 = w1
  w2 = w2
  part = part
  full = full
  odd = odd
  NoEvent = NoEvent
  Workers = {w1, w2}
  RefundEvents = {full, odd}
  Cum <- MCCumOdd
  Total = 3
  Cash = {1, 2}
  Notes = {"cash"}
  Mismatched = {odd}
  Legacy = TRUE
  MaxDeaths = 1
SYMMETRY WorkerSymmetry
INVARIANTS
  HistoryAddsUp
  StatusFollowsTotals
  MailedAtMostOnce
PROPERTIES
  ImplementsRefundLedger
