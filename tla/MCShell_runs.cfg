SPECIFICATION Spec
CONSTANTS
  Commands <- MCCommands
  INPUT_CAP = 3
  OUTPUT_CAP = 2
  LIMIT = 3
  MAX_RUNS = 5
INVARIANTS
  ResultIsComplete
  SuccessLeavesNothing
PROPERTY
  RunsEnd
CHECK_DEADLOCK FALSE
