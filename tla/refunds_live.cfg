SPECIFICATION LiveSpec
CONSTANTS
  w1 = w1
  w2 = w2
  part = part
  full = full
  odd = odd
  NoEvent = NoEvent
  Workers = {w1, w2}
  RefundEvents = {part, full}
  Cum <- MCCum
  Total = 3
  Cash = {1}
  Notes = {"cash"}
  Mismatched = {}
  Legacy = FALSE
  MaxDeaths = 1
PROPERTIES
  RefundIsCounted
  OverRefundIsReviewed
