CONSTANTS
  NamedContexts = {"ctx"}
  Outputs = {"tar", "dir"}
  Directories = {"dir"}
SPECIFICATION BuildFairSpec
CHECK_DEADLOCK FALSE
INVARIANTS BuildTypeOK SuccessIsReal BuildSeesEverything JobDeleted
PROPERTIES ReadWhileHeld DeadlineHolds BuildAnswered
