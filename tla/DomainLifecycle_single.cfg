\* One refresh thread: refreshShutdown calls never overlap.
CONSTANTS
  Threads = {t1}
  WatchThread = t1
  MaxDoms = 3
  MaxUuids = 21
  MaxRefresh = 3
  MaxTimers = 1
  MaxCrashes = 1
  MaxRequests = 2
  Policies <- PassPolicies
  ShutdownCodes <- AllCodes
  VMName = vmname
  NoVal = NoVal
SPECIFICATION Spec
INVARIANT TypeOK
 
INVARIANT NameUnique
PROPERTY AbstractLifecycle
CHECK_DEADLOCK FALSE
