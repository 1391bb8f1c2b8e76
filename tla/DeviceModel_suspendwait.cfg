\* The checkpoint's state_wait(SUSPENDED) under fair scheduling of the
\* watch, the waiter and a cooperative guest.
CONSTANTS
  SavePolls = 2
  MaxSaves = 1
  MaxCrashes = 0
  MaxPids = 1
  DevIds <- MCDevIds
  ControllerClasses <- MCControllerClasses
  MaxConflicts = 0
  MaxRemoveFailures = 0
  NoVal = NoVal
SPECIFICATION FairSpec
CHECK_DEADLOCK FALSE
PROPERTY
  CheckpointWaitEnds
