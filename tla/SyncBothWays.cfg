SPECIFICATION SyncSpec
CONSTANTS
  A = A
  B = B
  Replica = {A, B}
  Doc = {d}
  Content = {p, q}
  Deleted = nil
  Client = {}
  Home <- MCHome
  MaxEdits = 3
  Peers <- BothWays
  MaxInterrupts = 0
  MaxLog = 3
CONSTRAINT Bounded
SYMMETRY Symmetry
PROPERTY SyncForgetsNothing
CHECK_DEADLOCK FALSE
