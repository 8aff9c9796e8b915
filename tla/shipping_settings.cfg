SPECIFICATION Spec
CONSTANTS
  us = us
  tee = tee
  large = large
  t1 = t1
  t2 = t2
  e1 = e1
  e2 = e2
  Countries = {us}
  RestOfWorld = RestOfWorld
  Unsupported = {}
  FreeShipping = "free"
  MaxOptions = 3
  BuildTime <- FlatToo
  LegacyEnabled = None
  None = None
  Gone = Gone
  Products = {tee}
  Variants = {large}
  VariantOf <- MCVariantOf
  Price <- MCPrice
  Tabs = {t1, t2}
  Editors = {e1, e2}
  Drafts <- MCDrafts
  Weights = {1}
  Forms <- MCForms
  MaxRevision = 1
  MaxByHand = 1
SYMMETRY TabSymmetry
PROPERTIES
  NoLostEdit
  UnsellableNeedsStaleRead
CHECK_DEADLOCK FALSE
