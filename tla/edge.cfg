CONSTANTS
  e1 = e1
  e2 = e2
  v1 = v1
  v2 = v2
  Editors <- MCEditors
  Visitors <- MCVisitors
  MaxEdits = 3
SPECIFICATION EdgeSpec
SYMMETRY MCSymmetry
INVARIANTS StaleIsExplained
