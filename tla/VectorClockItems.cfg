SPECIFICATION FairSpec
CONSTANTS
  Uid <- FourUids
  MaxGen = 2
  MaxFields = 4
INVARIANTS FromStrSorts IncrementAdds MaximizeJoins IsNewerCompares OnlyItemsAreRead
PROPERTY Termination
CHECK_DEADLOCK FALSE
