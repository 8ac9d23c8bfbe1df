SPECIFICATION Spec
CONSTANTS
  Input <- MCInput
  Object <- MCObject
INVARIANTS ParsesExpressions ValuesAreMeant
CHECK_DEADLOCK FALSE
