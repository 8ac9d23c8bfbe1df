SPECIFICATION FairSyncSpec
CONSTANTS
  A = A
  B = B
  Replica = {A, B}
  Doc = {d, e}
  Content = {p}
  Deleted = nil
  Client = {}
  Home <- MCHome
  MaxEdits = 2
  Peers <- OneWay
  MaxInterrupts = 1
  MaxLog = 5
PROPERTY Convergence
CHECK_DEADLOCK FALSE
