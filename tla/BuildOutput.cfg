CONSTANTS
  NamedContexts = {"ctx"}
  Outputs = {"tar", "dir"}
  Directories = {"dir"}
SPECIFICATION BuildFairSpec
CHECK_DEADLOCK FALSE
PROPERTIES RejectedOutputEnds
