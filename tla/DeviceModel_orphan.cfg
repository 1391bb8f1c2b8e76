CONSTANTS
  SavePolls = 2
  MaxSaves = 1
  MaxCrashes = 1
  MaxPids = 1
  DevIds <- MCDevIds
  ControllerClasses <- MCControllerClasses
  MaxConflicts = 1
  MaxRemoveFailures = 0
  NoVal = NoVal
SPECIFICATION Spec
CHECK_DEADLOCK FALSE
INVARIANT NoOrphanDeviceModel
