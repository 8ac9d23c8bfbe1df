SPECIFICATION Spec
CONSTANTS
  a = a
  b = b
  f = f
  Doc = {d, e}
  Expr = {a, b, f}
  Value <- Texts
  Content <- Contents
  Argument <- Asking
  Special = {9}
  Globbed <- Globbing
  Faulty = {f}
  Absent = absent
  Deleted = nil
  Name = {m, n}
  Definition <- OneOrTwo
  Process = {x, y}
  MaxCrashes = 1
  MaxRows = 2
CONSTRAINTS FewRows OneUnfinished
SYMMETRY Symmetry
INVARIANTS TypeOK QueriesFindMatching RowsAreIndexed
CHECK_DEADLOCK FALSE
