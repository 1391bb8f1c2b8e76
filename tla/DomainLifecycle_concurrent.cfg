\* Two threads run refreshShutdown on the same shut-down domain.
CONSTANTS
  Threads = {t1, t2}
  WatchThread = t1
  MaxDoms = 3
  MaxUuids = 21
  MaxRefresh = 3
  MaxTimers = 1
  MaxCrashes = 0
  MaxRequests = 1
  Policies <- RenamePolicies
  ShutdownCodes <- AllCodes
  VMName = vmname
  NoVal = NoVal
SPECIFICATION Spec
INVARIANT AtMostOneReplacement
CHECK_DEADLOCK FALSE
