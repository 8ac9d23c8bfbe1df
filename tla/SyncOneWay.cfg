SPECIFICATION FairSyncSpec
CONSTANTS
  A = A
  B = B
  Replica = {A, B}
  Doc = {d, e}
  Content = {p}
  Deleted = nil
  Client = {}
  Home <- MCHome
  MaxEdits = 4
  Peers <- OneWay
  MaxInterrupts = 1
  MaxLog = 7
INVARIANTS SourceMissesNothing TargetMissesNothing NothingIsRefused NothingLeftToDo NoLostEdit ClocksTellHistory ConflictsAreConcurrent CopiesConverge
PROPERTY ConvergenceUnlessStuck
CHECK_DEADLOCK FALSE
