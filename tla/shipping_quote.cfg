SPECIFICATION QuoteSpec
CONSTANTS
  ca = ca
  cu = cu
  us = us
  tee = tee
  large = large
  Countries = {ca, cu, us}
  RestOfWorld = RestOfWorld
  Unsupported = {cu}
  FreeShipping = "free"
  MaxOptions = 3
  BuildTime <- MCBuildTime
  LegacyEnabled = None
  None = None
  Gone = Gone
  Products = {tee}
  Variants = {large}
  VariantOf <- MCVariantOf
  Price <- MCPrice
  Shoppers = {1}
  Drafts <- MCDrafts
  Weights = {0, 1}
  MaxQty = 2
INVARIANTS
  ChoiceIsUnambiguous
  BlockedSaleIsCounted
  PickupIsNeverLabelled
PROPERTIES
  QuotesFollowTheScale
  UnshippedByChoice
CHECK_DEADLOCK FALSE
