CONSTANTS
  SavePolls = 2
  MaxSaves = 1
  MaxCrashes = 1
  MaxPids = 1
  DevIds <- MCDevIds
  ControllerClasses <- MCControllerClasses
  MaxConflicts = 1
  MaxRemoveFailures = 1
  NoVal = NoVal
SPECIFICATION FairSpec
CHECK_DEADLOCK FALSE
PROPERTY DestroyFinishes
