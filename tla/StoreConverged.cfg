SPECIFICATION CarefulSpec
CONSTANTS
  Replica = {A, B, C}
  Doc = {d}
  Content = {p, q}
  Deleted = nil
  Client = {A, B, C}
  Home <- MCHome
  MaxEdits = 3
  MaxLog = 3
  MaxEmpty = 3
CONSTRAINT Bounded
SYMMETRY Symmetry
INVARIANT ConvergedIsSameDocument
CHECK_DEADLOCK FALSE
