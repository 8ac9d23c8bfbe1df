SPECIFICATION Spec
CONSTANTS
  LocalDoc = {l1, l2}
  RemoteDoc = {r1, r2}
  TRIES = 2
  MaxFailures = 4
INVARIANTS TypeOK TargetHasWhatItKnows SourceHasWhatItKnows
PROPERTIES KnownNeverFalls UploadedUnlessStuck
CHECK_DEADLOCK FALSE
