SPECIFICATION Spec
CONSTANTS
  Replica = {A, B}
  Doc = {d}
  Content = {p, q}
  Deleted = nil
  Client = {B, x, y}
  Home <- MCHome
  MaxEdits = 4
  MaxLog = 5
  MaxEmpty = 1
CONSTRAINT Bounded
SYMMETRY ClientSymmetry
INVARIANTS TypeOK ConflictsHaveDocument ConvergedIsSameDocument
PROPERTIES NothingForgotten EditsBuildOnCurrent
CHECK_DEADLOCK FALSE
