\* Liveness of the shutdown timeout under FairSpec: one thread, two domain
\* ids, one xend crash, two shutdown requests (the second renews the first).
CONSTANTS
  Threads = {t1}
  WatchThread = t1
  MaxDoms = 2
  MaxUuids = 11
  MaxRefresh = 1
  MaxTimers = 1
  MaxCrashes = 1
  MaxRequests = 2
  Policies <- PassPolicies
  ShutdownCodes <- AllCodes
  VMName = vmname
  NoVal = NoVal
SPECIFICATION FairSpec
PROPERTY ShutdownTimeoutEnforced
CHECK_DEADLOCK FALSE
