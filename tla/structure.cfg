CONSTANTS
    c1 = c1  c2 = c2  c3 = c3  p1 = p1  e1 = e1  e2 = e2
    Top = Top
    Nothing = Nothing
    Category = {c1, c2, c3}
    Product = {p1}
    Editor = {e1, e2}
    Location = {"header"}
    Singleton = {"home"}
    Page = {p1}
    MaxPerMenu = 3
    Cap <- MCCap
    MaxItem = 3
SPECIFICATION MCSpec
SYMMETRY Symmetry
INVARIANTS TreeShowsAll
PROPERTIES CycleNeedsStaleWrite OrphanNeedsStaleWrite ListingFollowsLinks MenuOrderNeedsNoLuck
CHECK_DEADLOCK FALSE
