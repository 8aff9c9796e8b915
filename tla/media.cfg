CONSTANTS
    f1 = f1  f2 = f2  p1 = p1  g1 = g1  r1 = r1  r2 = r2
    w1 = w1  w2 = w2
    None = None
    Files = {f1, f2}
    Products = {p1}
    Pages = {g1}
    Rows = {r1, r2}
    Workers = {w1, w2}
SPECIFICATION Spec
SYMMETRY MediaSymmetry
INVARIANTS ReferencesAreBacked EmbeddedIsClaimed
PROPERTIES PublicationFollowsTheRead
