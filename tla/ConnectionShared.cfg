SPECIFICATION Spec
CONSTANTS
  user = user
  sync = sync
  Thread = {user, sync}
  MaxCalls = 5
  Uses <- MCUses
INVARIANTS ChangesAreReported SuccessIsSaved ErrorLeavesNoTrace PutsReplaceWhatWasRead TransactionsEnd
PROPERTY CallsAreAtomic
CHECK_DEADLOCK FALSE
