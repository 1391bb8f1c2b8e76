CONSTANTS
  ArchVals <- MCArch
  ImageTypeVals <- MCImageType
  TargetVals <- MCTarget
  NoVal = NoVal
  VmError = VmError
  HVMRequired = HVMRequired
  ConfigVals <- MCConfig
  Absent = Absent
SPECIFICATION Spec
CHECK_DEADLOCK FALSE
INVARIANTS
  TypeOK
  DeviceModelVncAuthenticated
