SPECIFICATION LiveSpec
CONSTANTS
  Notices = {"shipped"}
  w1 = w1
  w2 = w2
  Workers = {w1, w2}
  MaxAttempts = 2
  MaxGeneration = 2
INVARIANTS
  CopiesAreBounded
  RetriedUntilSpent
  CurrentLinkIsQueued
PROPERTIES
  QueuedIsSettled
