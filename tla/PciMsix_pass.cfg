CONSTANTS
  Ptrs <- MCPtrs
  CapListVals <- MCCapLists
  MsixVals <- MCMsix
  ResourceVals <- MCResources
  PAGE_SIZE = 64
  NoVal = NoVal
  Hang = Hang
SPECIFICATION Spec
CHECK_DEADLOCK FALSE
INVARIANTS
  TypeOK
  MsixCapabilityFound
