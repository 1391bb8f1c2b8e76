CONSTANTS
  NameVals <- MCNames
  MiBVals <- MCMiB
  KiBVals <- MCKiB
  RestartVals <- MCRestart
  PolicyVals <- MCPolicy
  VcpuVals <- MCVcpus
  BackendVals <- MCBackendPass
  DeviceVals <- MCDevice
  MaxList = 1
  NoVal = NoVal
  VmError = VmError
  TypeError = TypeError
SPECIFICATION Spec
CHECK_DEADLOCK FALSE
INVARIANTS
  TypeOK
  MemoryUnits
  MaxMemResolved
  RestartRevalidates
