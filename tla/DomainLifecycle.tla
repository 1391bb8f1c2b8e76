--------------------------- MODULE DomainLifecycle ---------------------------
(***************************************************************************)
(* The domain lifecycle manager of xend (XendDomainInfo.py): shutdown      *)
(* polling (refreshShutdown), the restart-policy dispatch (maybeRestart),  *)
(* restart with and without preservation of the dead domain, destroy and   *)
(* cleanup, shutdown requests with their timeout, and recreation of the    *)
(* manager objects after the xend process itself has crashed.              *)
(*                                                                         *)
(* The environment is the hypervisor (a guest shuts down, crashes, a dying *)
(* domain is reclaimed) and the store, which outlives a crash of xend.     *)
(* Several xend threads (the @releaseDomain watch and the shutdown-timeout *)
(* timers) run refreshShutdown on the same object: the locked part of      *)
(* refreshShutdown is one step, the restart it dispatches outside the lock *)
(* is a sequence of store transactions, each a step of its own.            *)
(***************************************************************************)
EXTENDS Naturals, Sequences, FiniteSets

CONSTANTS
  Threads,       \* xend threads that run refreshShutdown (watch, timers)
  WatchThread,   \* the one thread XendDomain's @releaseDomain watch runs on
  MaxDoms,       \* domain ids the hypervisor hands out: 1..MaxDoms
  MaxUuids,      \* uuids getUuid() hands out: 1..MaxUuids
  MaxRefresh,    \* bound on watch-triggered refreshes
  MaxTimers,     \* bound on pending shutdown-timeout timers per domain
  MaxCrashes,    \* bound on crashes of the xend process
  MaxRequests,   \* bound on shutdown requests (xm shutdown)
  Policies,      \* the restart policies the original configuration may have
  ShutdownCodes, \* shutdown codes the hypervisor may report
  VMName,        \* the configured name of the original domain
  NoVal          \* an absent store value or manager object

Events   == {"poweroff", "reboot", "crash"}
Modes    == {"destroy", "restart", "preserve", "rename-restart"}   \* restart_modes
DomIds   == 1..MaxDoms
Uuids    == 1..MaxUuids

ASSUME /\ Policies \subseteq [Events -> Modes]
       /\ ShutdownCodes \subseteq {"poweroff", "reboot", "suspend", "other"}
       /\ MaxDoms >= 1
       /\ WatchThread \in Threads
       \* enough uuids for every construction, rename and recreation
       /\ MaxUuids >= MaxDoms + 3 * (MaxRefresh + MaxDoms * MaxCrashes)

(* validateInfo's defaults for the on_xyz entries, used when a recreated  *)
(* domain's VM entries cannot be found in the store.                      *)
DefaultPolicy == [poweroff |-> "destroy", reboot |-> "restart", crash |-> "restart"]

(* A name is a sequence: its head is the configured name, or the domain   *)
(* id for the default "Domain-%d"; each later element is a "-%d" suffix   *)
(* appended by generateShutdownName.                                      *)

VARIABLES
  hv,        \* hypervisor view: hv[d].st and hv[d].code (shutdown_reason)
  dom,       \* store, /local/domain/<d>: vm (uuid), sst, xshut
  vm,        \* store, /vm/<u>: name, pol (on_xyz), rip (restart_in_progress)
  obj,       \* xend memory: the XendDomainInfo object for domain d, or NoVal
  pc,        \* per thread: where it is in refreshShutdown / maybeRestart
  tdom,      \* per thread: the domain object it is working on
  treason,   \* per thread: the restart_reason determined under the lock
  tcfg,      \* per thread: the name in the config captured by sxpr()
  trename,   \* per thread: restart(rename)
  txi,       \* per thread: the xeninfo passed to refreshShutdown, or NoVal
  timers,    \* pending scheduler.later(refreshShutdown) calls per domain
  nextDom,   \* next domain id the hypervisor hands out
  nextUuid,  \* next uuid getUuid() returns
  refreshes, \* watch-triggered refreshes so far
  crashes,   \* xend crashes so far
  requests,  \* shutdown requests so far
  parent,    \* history: the domain whose restart created domain d, or NoVal
  cfgName    \* history: the name domain d was constructed with

vars == <<hv, dom, vm, obj, pc, tdom, treason, tcfg, trename, txi, timers,
          nextDom, nextUuid, refreshes, crashes, requests, parent, cfgName>>

NoDom == [vm |-> NoVal, sst |-> "none", xshut |-> FALSE]
NoVm  == [name |-> NoVal, pol |-> NoVal, rip |-> FALSE]

(***************************************************************************)
(* Helpers                                                                 *)
(***************************************************************************)

Live(d) == obj[d] # NoVal

(* check_name: the name is not held by another non-terminated domain.     *)
check_name(name, self) ==
  ~ \E e \in DomIds : /\ e # self /\ Live(e)
                      /\ obj[e].state # "TERMINATED"
                      /\ obj[e].name = name

(* Mutant: the suffix is always "-1", whether or not the name is free.    *)
generateShutdownNameFirst(name, self) == Append(name, 1)

(* generateShutdownName: the first "name-n", n >= 1, that check_name      *)
(* accepts. At most MaxDoms objects exist, so n <= MaxDoms + 1.           *)
generateShutdownName(name, self) ==
  LET n == CHOOSE k \in 1..(MaxDoms + 1) :
             /\ check_name(Append(name, k), self)
             /\ \A j \in 1..(k - 1) : ~ check_name(Append(name, j), self)
  IN  Append(name, n)

(* xc.domain_destroy: a live domain becomes dying until Xen reclaims it.  *)
domain_destroy(d) ==
  hv' = [hv EXCEPT ![d].st = IF @ = "none" THEN "none" ELSE "dying"]

(* cleanupDomain + cleanupVm: state TERMINATED, /local/domain/<d> and     *)
(* /vm/<uuid> removed (devices, channels and image go with them).         *)
Cleanup(d) ==
  /\ obj' = [obj EXCEPT ![d].state = "TERMINATED"]
  /\ dom' = [dom EXCEPT ![d] = NoDom]
  /\ vm'  = [vm EXCEPT ![obj[d].uuid] = NoVm]

(* destroy: cleanupDomain, cleanupVm, then xc.domain_destroy.             *)
destroy(d) == Cleanup(d) /\ domain_destroy(d)

Idle(t)         == pc' = [pc EXCEPT ![t] = "idle"]
Goto(t, where)  == pc' = [pc EXCEPT ![t] = where]

ThreadVars == <<tdom, treason, tcfg, trename, txi>>
History    == <<requests, parent, cfgName>>

(***************************************************************************)
(* Initially domain 1 exists. Either xend created it (create: construct    *)
(* and a refreshShutdown that finds it running) with uuid 1, or xend is    *)
(* starting and has never seen it (domain 0, or a domain whose store       *)
(* entries are gone): no object and no store entries until recreate.       *)
(***************************************************************************)
Init ==
  \E pol \in Policies, known \in BOOLEAN :
    /\ hv  = [d \in DomIds |-> [st |-> IF d = 1 THEN "running" ELSE "none",
                                code |-> NoVal]]
    /\ dom = [d \in DomIds |-> IF d = 1 /\ known THEN [NoDom EXCEPT !.vm = 1] ELSE NoDom]
    /\ vm  = [u \in Uuids |-> IF u = 1 /\ known
                                THEN [name |-> <<VMName>>, pol |-> pol, rip |-> FALSE]
                                ELSE NoVm]
    /\ obj = [d \in DomIds |-> IF d = 1 /\ known
                                 THEN [state |-> "OK", name |-> <<VMName>>,
                                       uuid |-> 1, pol |-> pol]
                                 ELSE NoVal]
    /\ pc = [t \in Threads |-> "idle"]
    /\ tdom = [t \in Threads |-> NoVal]
    /\ treason = [t \in Threads |-> NoVal]
    /\ tcfg = [t \in Threads |-> NoVal]
    /\ trename = [t \in Threads |-> FALSE]
    /\ txi = [t \in Threads |-> NoVal]
    /\ timers = [d \in DomIds |-> 0]
    /\ nextDom = 2
    /\ nextUuid = 2
    /\ refreshes = 0
    /\ crashes = 0
    /\ requests = 0
    /\ parent = [d \in DomIds |-> NoVal]
    /\ cfgName = [d \in DomIds |-> IF d = 1 /\ known THEN <<VMName>> ELSE NoVal]

(***************************************************************************)
(* refreshShutdown, the part under refresh_shutdown_lock. The thread has   *)
(* been started by a trigger below with tdom[t] = d; xeninfo is Info(t).   *)
(* Each branch of the code is an action of its own.                        *)
(***************************************************************************)
InRefresh(t) == pc[t] = "refresh"

(* xeninfo: the caller's snapshot, taken before the lock was acquired, or  *)
(* when none was passed (a timer), dom_get(self.domid) under the lock.     *)
Info(t) == IF txi[t] = NoVal THEN hv[tdom[t]] ELSE txi[t]

(* dom_get returns None, or the domain is dying: clean up, just in case.  *)
RefreshGone(t) ==
  LET d == tdom[t] IN
  /\ InRefresh(t)
  /\ Info(t).st \in {"none", "dying"}
  /\ Cleanup(d)
  /\ Idle(t)
  /\ UNCHANGED <<hv, timers, ThreadVars, nextDom, nextUuid, refreshes, crashes, History>>

(* crashed: restart_reason = 'crash', dispatched after the lock.           *)
RefreshCrashed(t) ==
  LET d == tdom[t] IN
  /\ InRefresh(t)
  /\ Info(t).st = "crashed"
  /\ Goto(t, "dispatch")
  /\ treason' = [treason EXCEPT ![t] = "crash"]
  /\ UNCHANGED <<hv, dom, vm, obj, timers, tdom, tcfg, trename, txi,
                 nextDom, nextUuid, refreshes, crashes, History>>

(* shutdown, already seen: the domain is preserved for debugging.          *)
RefreshSeen(t) ==
  LET d == tdom[t] IN
  /\ InRefresh(t)
  /\ Info(t).st = "shutdown"
  /\ dom[d].xshut
  /\ Idle(t)
  /\ UNCHANGED <<hv, dom, vm, obj, timers, ThreadVars,
                 nextDom, nextUuid, refreshes, crashes, History>>

(* shutdown, not yet seen: clearRestart, then by reason.                   *)
NewShutdown(t) ==
  LET d == tdom[t] IN
  /\ InRefresh(t)
  /\ Info(t).st = "shutdown"
  /\ ~ dom[d].xshut

RefreshSuspend(t) ==
  LET d == tdom[t] IN
  /\ NewShutdown(t)
  /\ Info(t).code = "suspend"
  /\ dom' = [dom EXCEPT ![d].sst = "none"]
  /\ obj' = [obj EXCEPT ![d].state = "SUSPENDED"]
  /\ Idle(t)
  /\ UNCHANGED <<hv, vm, timers, ThreadVars,
                 nextDom, nextUuid, refreshes, crashes, History>>

(* Mutant: poweroff/reboot handled without the xend/shutdown check.       *)
RefreshPowerOffRebootUnseen(t) ==
  LET d == tdom[t] IN
  /\ InRefresh(t)
  /\ Info(t).st = "shutdown"
  /\ Info(t).code \in {"poweroff", "reboot"}
  /\ dom' = [dom EXCEPT ![d].sst = "none"]
  /\ Goto(t, "dispatch")
  /\ treason' = [treason EXCEPT ![t] = Info(t).code]
  /\ UNCHANGED <<hv, vm, obj, timers, tdom, tcfg, trename, txi,
                 nextDom, nextUuid, refreshes, crashes, History>>

RefreshPowerOffReboot(t) ==
  LET d == tdom[t] IN
  /\ NewShutdown(t)
  /\ Info(t).code \in {"poweroff", "reboot"}
  /\ dom' = [dom EXCEPT ![d].sst = "none"]
  /\ Goto(t, "dispatch")
  /\ treason' = [treason EXCEPT ![t] = Info(t).code]
  /\ UNCHANGED <<hv, vm, obj, timers, tdom, tcfg, trename, txi,
                 nextDom, nextUuid, refreshes, crashes, History>>

(* shutdown_reason returned "?" (or "crash"): destroy directly.            *)
RefreshOtherCode(t) ==
  LET d == tdom[t] IN
  /\ NewShutdown(t)
  /\ Info(t).code \notin {"suspend", "poweroff", "reboot"}
  /\ destroy(d)
  /\ Idle(t)
  /\ UNCHANGED <<timers, ThreadVars, nextDom, nextUuid, refreshes, crashes, History>>

(* Running, shutdown_start_time set, timeout not yet expired: schedule     *)
(* another refreshShutdown (pending timers saturate at MaxTimers).         *)
RefreshTimeoutPending(t) ==
  LET d == tdom[t] IN
  /\ InRefresh(t)
  /\ Info(t).st = "running"
  /\ dom[d].sst = "pending"
  /\ timers' = [timers EXCEPT ![d] = IF @ < MaxTimers THEN @ + 1 ELSE @]
  /\ Idle(t)
  /\ UNCHANGED <<hv, dom, vm, obj, ThreadVars,
                 nextDom, nextUuid, refreshes, crashes, History>>

(* Mutant: an expired timeout is rescheduled like a pending one.          *)
RefreshTimeoutExpiredKeep(t) ==
  LET d == tdom[t] IN
  /\ InRefresh(t)
  /\ Info(t).st = "running"
  /\ dom[d].sst = "expired"
  /\ timers' = [timers EXCEPT ![d] = IF @ < MaxTimers THEN @ + 1 ELSE @]
  /\ Idle(t)
  /\ UNCHANGED <<hv, dom, vm, obj, ThreadVars,
                 nextDom, nextUuid, refreshes, crashes, History>>

(* Running, shutdown timeout expired: destroy.                             *)
RefreshTimeoutExpired(t) ==
  LET d == tdom[t] IN
  /\ InRefresh(t)
  /\ Info(t).st = "running"
  /\ dom[d].sst = "expired"
  /\ destroy(d)
  /\ Idle(t)
  /\ UNCHANGED <<timers, ThreadVars, nextDom, nextUuid, refreshes, crashes, History>>

(* Running and not being shut down: nothing to do.                         *)
RefreshRunning(t) ==
  LET d == tdom[t] IN
  /\ InRefresh(t)
  /\ Info(t).st = "running"
  /\ dom[d].sst = "none"
  /\ Idle(t)
  /\ UNCHANGED <<hv, dom, vm, obj, timers, ThreadVars,
                 nextDom, nextUuid, refreshes, crashes, History>>

(***************************************************************************)
(* maybeRestart(reason), outside the lock: on_<reason> selects the action. *)
(***************************************************************************)
Mode(t) == obj[tdom[t]].pol[treason[t]]

DispatchDestroy(t) ==
  /\ pc[t] = "dispatch"
  /\ Mode(t) = "destroy"
  /\ destroy(tdom[t])
  /\ Idle(t)
  /\ UNCHANGED <<timers, ThreadVars, nextDom, nextUuid, refreshes, crashes, History>>

(* preserve: only logs.                                                    *)
DispatchPreserve(t) ==
  /\ pc[t] = "dispatch"
  /\ Mode(t) = "preserve"
  /\ Idle(t)
  /\ UNCHANGED <<hv, dom, vm, obj, timers, ThreadVars,
                 nextDom, nextUuid, refreshes, crashes, History>>

(* restart() or renameRestart() = restart(True).                           *)
DispatchRestart(t) ==
  /\ pc[t] = "dispatch"
  /\ Mode(t) \in {"restart", "rename-restart"}
  /\ Goto(t, "rs_check")
  /\ trename' = [trename EXCEPT ![t] = (Mode(t) = "rename-restart")]
  /\ UNCHANGED <<hv, dom, vm, obj, timers, tdom, treason, tcfg, txi,
                 nextDom, nextUuid, refreshes, crashes, History>>

(***************************************************************************)
(* restart(rename): each store transaction is a step.                      *)
(***************************************************************************)
Cur(t) == obj[tdom[t]].uuid   \* self.vmpath, as it is when the step runs

(* config = self.sxpr(); the marker is already set: xend failed during a   *)
(* restart, so refuse to restart and destroy.                              *)
RestartRefused(t) ==
  /\ pc[t] = "rs_check"
  /\ vm[Cur(t)].rip
  /\ destroy(tdom[t])
  /\ Idle(t)
  /\ tcfg' = [tcfg EXCEPT ![t] = obj[tdom[t]].name]
  /\ UNCHANGED <<timers, tdom, treason, trename, txi, nextDom, nextUuid, refreshes, crashes, History>>

RestartChecked(t) ==
  /\ pc[t] = "rs_check"
  /\ ~ vm[Cur(t)].rip
  /\ Goto(t, "rs_mark")
  /\ tcfg' = [tcfg EXCEPT ![t] = obj[tdom[t]].name]
  /\ UNCHANGED <<hv, dom, vm, obj, timers, tdom, treason, trename, txi,
                 nextDom, nextUuid, refreshes, crashes, History>>

(* writeVm('xend/restart_in_progress', 'True')                             *)
RestartMark(t) ==
  /\ pc[t] = "rs_mark"
  /\ vm' = [vm EXCEPT ![Cur(t)].rip = TRUE]
  /\ Goto(t, "rs_old")
  /\ UNCHANGED <<hv, dom, obj, timers, ThreadVars, nextDom, nextUuid, refreshes, crashes, History>>

(* not rename: cleanupDomain(); destroy().                                 *)
RestartDestroyOld(t) ==
  /\ pc[t] = "rs_old"
  /\ ~ trename[t]
  /\ destroy(tdom[t])
  /\ Goto(t, "rs_create")
  /\ UNCHANGED <<timers, ThreadVars, nextDom, nextUuid, refreshes, crashes, History>>

(* rename: preserveShutdownDomain up to storeDom('vm', ...): new name and  *)
(* uuid, VM details stored under the new uuid, the domain pointed at it.   *)
PreserveRename(t) ==
  LET d  == tdom[t]
      nu == nextUuid
      nn == generateShutdownName(obj[d].name, d)
  IN
  /\ pc[t] = "rs_old"
  /\ trename[t]
  /\ obj' = [obj EXCEPT ![d].name = nn, ![d].uuid = nu]
  /\ vm'  = [vm EXCEPT ![nu] = [name |-> nn, pol |-> obj[d].pol, rip |-> FALSE]]
  /\ dom' = [dom EXCEPT ![d].vm = nu]
  /\ nextUuid' = nu + 1
  /\ Goto(t, "rs_preserved")
  /\ UNCHANGED <<hv, timers, ThreadVars, nextDom, refreshes, crashes, History>>

(* storeDom('xend/shutdown', 'True')                                       *)
PreserveMarkSeen(t) ==
  /\ pc[t] = "rs_preserved"
  /\ dom' = [dom EXCEPT ![tdom[t]].xshut = TRUE]
  /\ Goto(t, "rs_create")
  /\ UNCHANGED <<hv, vm, obj, timers, ThreadVars, nextDom, nextUuid, refreshes, crashes, History>>

(* Mutant: domain_create assumed to succeed when no domain id is free.    *)
RestartCreateAnyDomid(t) ==
  LET d  == tdom[t]
      nd == nextDom
      nu == nextUuid
      nm == tcfg[t]
  IN
  /\ pc[t] = "rs_create"
  /\ check_name(nm, NoVal)
  /\ hv'  = [hv EXCEPT ![nd] = [st |-> "running", code |-> NoVal]]
  /\ obj' = [obj EXCEPT ![nd] = [state |-> "OK", name |-> nm, uuid |-> nu,
                                 pol |-> obj[d].pol]]
  /\ dom' = [dom EXCEPT ![nd] = [NoDom EXCEPT !.vm = nu]]
  /\ vm'  = [vm EXCEPT ![nu] = [name |-> nm, pol |-> obj[d].pol, rip |-> FALSE]]
  /\ nextDom' = nd + 1
  /\ nextUuid' = nu + 1
  /\ parent' = [parent EXCEPT ![nd] = d]
  /\ cfgName' = [cfgName EXCEPT ![nd] = nm]
  /\ Goto(t, "rs_unmark")
  /\ UNCHANGED <<timers, ThreadVars, refreshes, crashes, requests>>

(* xd.domain_create(config) and unpause: a new object with a fresh uuid,   *)
(* constructed (domain created, store entries written) and registered.     *)
RestartCreate(t) ==
  LET d  == tdom[t]
      nd == nextDom
      nu == nextUuid
      nm == tcfg[t]
  IN
  /\ pc[t] = "rs_create"
  /\ check_name(nm, NoVal)
  /\ nd <= MaxDoms
  /\ hv'  = [hv EXCEPT ![nd] = [st |-> "running", code |-> NoVal]]
  /\ obj' = [obj EXCEPT ![nd] = [state |-> "OK", name |-> nm, uuid |-> nu,
                                 pol |-> obj[d].pol]]
  /\ dom' = [dom EXCEPT ![nd] = [NoDom EXCEPT !.vm = nu]]
  /\ vm'  = [vm EXCEPT ![nu] = [name |-> nm, pol |-> obj[d].pol, rip |-> FALSE]]
  /\ nextDom' = nd + 1
  /\ nextUuid' = nu + 1
  /\ parent' = [parent EXCEPT ![nd] = d]
  /\ cfgName' = [cfgName EXCEPT ![nd] = nm]
  /\ Goto(t, "rs_unmark")
  /\ UNCHANGED <<timers, ThreadVars, refreshes, crashes, requests>>

(* domain_create raised (the name is in use, or the hypervisor has no     *)
(* domain to give): logged, and the restart goes on to its finally.        *)
RestartCreateFailed(t) ==
  /\ pc[t] = "rs_create"
  /\ ~ (check_name(tcfg[t], NoVal) /\ nextDom <= MaxDoms)
  /\ Goto(t, "rs_unmark")
  /\ UNCHANGED <<hv, dom, vm, obj, timers, ThreadVars,
                 nextDom, nextUuid, refreshes, crashes, History>>

(* finally: removeVm('xend/restart_in_progress'), at the current vmpath.   *)
RestartUnmark(t) ==
  /\ pc[t] = "rs_unmark"
  /\ vm' = [vm EXCEPT ![Cur(t)].rip = FALSE]
  /\ Idle(t)
  /\ UNCHANGED <<hv, dom, obj, timers, ThreadVars, nextDom, nextUuid, refreshes, crashes, History>>

(***************************************************************************)
(* What starts a refreshShutdown.                                          *)
(***************************************************************************)
StartRefresh(t, d, xeninfo) ==
  /\ Goto(t, "refresh")
  /\ tdom' = [tdom EXCEPT ![t] = d]
  /\ txi' = [txi EXCEPT ![t] = xeninfo]

(* XendDomain's refresh on @releaseDomain: update(info) of a domain the    *)
(* hypervisor still lists, on the watch's own thread: one at a time.       *)
WatchRefresh(t, d) ==
  /\ t = WatchThread
  /\ pc[t] = "idle"
  /\ Live(d)
  /\ hv[d].st # "none"
  /\ refreshes < MaxRefresh
  /\ refreshes' = refreshes + 1
  /\ StartRefresh(t, d, hv[d])
  /\ UNCHANGED <<hv, dom, vm, obj, timers, treason, tcfg, trename,
                 nextDom, nextUuid, crashes, History>>

(* A scheduler.later timer fires once its delay has elapsed; if a later    *)
(* request has renewed shutdown_start_time, the timeout is still pending.  *)
TimerFire(t, d) ==
  /\ pc[t] = "idle"
  /\ timers[d] > 0
  /\ timers' = [timers EXCEPT ![d] = @ - 1]
  /\ StartRefresh(t, d, NoVal)
  /\ UNCHANGED <<hv, dom, vm, obj, treason, tcfg, trename,
                 nextDom, nextUuid, refreshes, crashes, History>>

(* recreate(xeninfo) for a domain the hypervisor lists (not dying) and     *)
(* xend has no object for: uuid found through /local/domain/<d>/vm, info   *)
(* augmented from the VM entries; then refreshShutdown(xeninfo).           *)
(* If check_name raises for "Domain-%d" too, recreate fails: no object.   *)
(* XendDomain.refresh runs it, on the watch thread.                        *)
Recreatable(t, d) ==
  /\ t = WatchThread
  /\ pc[t] = "idle"
  /\ ~ Live(d)
  /\ hv[d].st \in {"running", "shutdown", "crashed"}

Found(d) == dom[d].vm # NoVal /\ vm[dom[d].vm].name # NoVal

RecreateFound(t, d) ==
  LET u == dom[d].vm IN
  /\ Recreatable(t, d)
  /\ Found(d)
  /\ check_name(vm[u].name, d)
  /\ obj' = [obj EXCEPT ![d] = [state |-> "OK", name |-> vm[u].name, uuid |-> u,
                                pol |-> vm[u].pol]]
  /\ StartRefresh(t, d, hv[d])
  /\ UNCHANGED <<hv, dom, vm, timers, treason, tcfg, trename,
                 nextDom, nextUuid, refreshes, crashes, History>>

(* The chain of lookups failed, or the object built from it raised in     *)
(* validateInfo (check_name): the same except clause takes a fresh uuid;   *)
(* name "Domain-%d" and the default policy, since nothing is stored under  *)
(* the new vmpath; storeVmDetails and storeDomDetails.                     *)
RecreateNewUuid(t, d) ==
  LET nu == nextUuid IN
  /\ Recreatable(t, d)
  /\ ~ (Found(d) /\ check_name(vm[dom[d].vm].name, d))
  /\ check_name(<<d>>, d)
  /\ obj' = [obj EXCEPT ![d] = [state |-> "OK", name |-> <<d>>, uuid |-> nu,
                                pol |-> DefaultPolicy]]
  /\ vm' = [vm EXCEPT ![nu] = [name |-> <<d>>, pol |-> DefaultPolicy, rip |-> FALSE]]
  /\ dom' = [dom EXCEPT ![d].vm = nu]
  /\ nextUuid' = nu + 1
  /\ cfgName' = [cfgName EXCEPT ![d] = IF @ = NoVal THEN <<d>> ELSE @]
  /\ StartRefresh(t, d, hv[d])
  /\ UNCHANGED <<hv, timers, treason, tcfg, trename, nextDom, refreshes, crashes,
                 requests, parent>>

(***************************************************************************)
(* Requests and the environment.                                           *)
(***************************************************************************)
EnvVars == <<vm, obj, pc, timers, ThreadVars, nextDom, nextUuid, refreshes, crashes,
             parent, cfgName>>

(* shutdown(reason), reason not 'suspend': control/shutdown written for    *)
(* the guest and xend/shutdown_start_time set to now.                      *)
RequestShutdown(d) ==
  /\ Live(d)
  /\ hv[d].st # "none"
  /\ requests < MaxRequests
  /\ requests' = requests + 1
  /\ dom' = [dom EXCEPT ![d].sst = "pending"]
  /\ UNCHANGED <<hv, EnvVars>>

(* SHUTDOWN_TIMEOUT seconds pass after shutdown_start_time.                *)
TimeoutElapses(d) ==
  /\ dom[d].sst = "pending"
  /\ dom' = [dom EXCEPT ![d].sst = "expired"]
  /\ UNCHANGED <<hv, requests, EnvVars>>

GuestShutdown(d, code) ==
  /\ hv[d].st = "running"
  /\ hv' = [hv EXCEPT ![d] = [st |-> "shutdown", code |-> code]]
  /\ UNCHANGED <<dom, requests, EnvVars>>

GuestCrash(d) ==
  /\ hv[d].st = "running"
  /\ hv' = [hv EXCEPT ![d].st = "crashed"]
  /\ UNCHANGED <<dom, requests, EnvVars>>

(* Xen finishes tearing down a dying domain.                               *)
Reclaim(d) ==
  /\ hv[d].st = "dying"
  /\ hv' = [hv EXCEPT ![d].st = "none"]
  /\ UNCHANGED <<dom, requests, EnvVars>>

(* The xend process dies and restarts: objects, threads and timers are     *)
(* gone; the hypervisor and the store keep their state.                    *)
XendCrash ==
  /\ crashes < MaxCrashes
  /\ crashes' = crashes + 1
  /\ obj' = [d \in DomIds |-> NoVal]
  /\ pc' = [t \in Threads |-> "idle"]
  /\ timers' = [d \in DomIds |-> 0]
  /\ UNCHANGED <<hv, dom, vm, ThreadVars, nextDom, nextUuid, refreshes, History>>

(***************************************************************************)
(* Specification                                                           *)
(***************************************************************************)
ThreadStep(t) ==
  \/ RefreshGone(t) \/ RefreshCrashed(t) \/ RefreshSeen(t)
  \/ RefreshSuspend(t) \/ RefreshPowerOffReboot(t) \/ RefreshOtherCode(t)
  \/ RefreshTimeoutPending(t) \/ RefreshTimeoutExpired(t) \/ RefreshRunning(t)
  \/ DispatchDestroy(t) \/ DispatchPreserve(t) \/ DispatchRestart(t)
  \/ RestartRefused(t) \/ RestartChecked(t) \/ RestartMark(t)
  \/ RestartDestroyOld(t) \/ PreserveRename(t) \/ PreserveMarkSeen(t)
  \/ RestartCreate(t) \/ RestartCreateFailed(t) \/ RestartUnmark(t)

Trigger(t, d) ==
  \/ WatchRefresh(t, d) \/ TimerFire(t, d)
  \/ RecreateFound(t, d) \/ RecreateNewUuid(t, d)

Environment ==
  \/ \E d \in DomIds :
       \/ RequestShutdown(d) \/ TimeoutElapses(d)
       \/ GuestCrash(d) \/ Reclaim(d)
       \/ \E c \in ShutdownCodes : GuestShutdown(d, c)
  \/ XendCrash

Next ==
  \/ \E t \in Threads : ThreadStep(t)
  \/ \E t \in Threads, d \in DomIds : Trigger(t, d)
  \/ Environment

Spec == Init /\ [][Next]_vars

(* Threads that have started run to completion; SHUTDOWN_TIMEOUT passes;   *)
(* a scheduled timer fires on a free thread; a restarted xend recreates    *)
(* every domain the hypervisor lists. The guests, the user and Xen owe     *)
(* nothing: they may stop acting at any point.                             *)
Fairness ==
  /\ \A t \in Threads : WF_vars(ThreadStep(t))
  /\ \A d \in DomIds : WF_vars(TimeoutElapses(d))
  /\ \A d \in DomIds : WF_vars(\E t \in Threads : TimerFire(t, d))
  /\ \A d \in DomIds : WF_vars(\E t \in Threads : RecreateFound(t, d) \/ RecreateNewUuid(t, d))

FairSpec == Spec /\ Fairness

(***************************************************************************)
(* Refinement: the hypervisor's view of each domain, whether its           *)
(* xend/shutdown_start_time is set, and which domain's restart created it  *)
(* are the abstract lifecycle's state.                                     *)
(***************************************************************************)
LifeOf(st) ==
  CASE st = "running"                  -> "running"
    [] st \in {"shutdown", "crashed"}  -> "stopped"
    [] st = "dying"                    -> "dying"
    [] st = "none"                     -> "none"

Abstract == INSTANCE DomainLifecycleAbstract WITH
  Doms   <- DomIds,
  life   <- [d \in DomIds |-> LifeOf(hv[d].st)],
  asked  <- [d \in DomIds |-> dom[d].sst # "none"],
  parent <- parent

(***************************************************************************)
(* Properties                                                              *)
(***************************************************************************)
Names == Seq({VMName} \cup DomIds \cup 1..(MaxDoms + 1))
PCs   == {"idle", "refresh", "dispatch", "rs_check", "rs_mark", "rs_old",
          "rs_preserved", "rs_create", "rs_unmark"}

HvStates == [st : {"none", "running", "shutdown", "crashed", "dying"},
             code : ShutdownCodes \cup {NoVal}]

TypeOK ==
  /\ hv \in [DomIds -> HvStates]
  /\ dom \in [DomIds -> [vm : Uuids \cup {NoVal}, sst : {"none", "pending", "expired"},
                         xshut : BOOLEAN]]
  /\ vm \in [Uuids -> [name : Names \cup {NoVal}, pol : Policies \cup {DefaultPolicy, NoVal},
                       rip : BOOLEAN]]
  /\ \A d \in DomIds : obj[d] = NoVal \/
        obj[d] \in [state : {"OK", "SUSPENDED", "TERMINATED"}, name : Names,
                    uuid : Uuids, pol : Policies \cup {DefaultPolicy}]
  /\ pc \in [Threads -> PCs]
  /\ \A t \in Threads : txi[t] = NoVal \/ txi[t] \in HvStates
  /\ timers \in [DomIds -> 0..MaxTimers]
  /\ nextDom \in 2..(MaxDoms + 1)
  /\ nextUuid \in 2..(MaxUuids + 1)
  /\ parent \in [DomIds -> DomIds \cup {NoVal}]

(* Every shutdown or crash of a domain is answered by at most one new      *)
(* domain: restart() destroys or marks the old domain before domain_create *)
(* so that no later refreshShutdown of it, by this or another trigger or   *)
(* by a recreate after an xend crash, restarts it again.                   *)
AtMostOneReplacement ==
  \A d \in DomIds : Cardinality({e \in DomIds : parent[e] = d}) <= 1

(* The replacement is created from the configuration of the domain it     *)
(* replaces: same name (only the preserved old domain gets a "-n" suffix). *)
ReplacementKeepsName ==
  \A e \in DomIds : parent[e] # NoVal => cfgName[e] = cfgName[parent[e]]

(* No two domains xend has not terminated share a name (check_name at     *)
(* creation, generateShutdownName at preservation, across restarts and     *)
(* recreation after an xend crash).                                        *)
NameUnique ==
  \A d, e \in DomIds :
    (/\ d # e /\ Live(d) /\ Live(e)
     /\ obj[d].state # "TERMINATED" /\ obj[e].state # "TERMINATED")
      => obj[d].name # obj[e].name

(* Once no restart is in flight, a restart_in_progress marker is only set  *)
(* on a VM path that some domain, or some xend object, still refers to: it *)
(* can still be read by a later restart and removed by cleanupVm, instead  *)
(* of being left in the store for good.                                    *)
MarkerReachable ==
  (\A t \in Threads : pc[t] = "idle") =>
    \A u \in Uuids :
      vm[u].rip => \E d \in DomIds : dom[d].vm = u \/ (Live(d) /\ obj[d].uuid = u)

(* A shutdown request is enforced: once xend has scheduled the timeout     *)
(* refresh for a running domain with shutdown_start_time set, the domain   *)
(* eventually stops running (the guest obeys, or refreshShutdown destroys  *)
(* it after SHUTDOWN_TIMEOUT), even across an xend crash and recreate.     *)
ShutdownTimeoutEnforced ==
  \A d \in DomIds :
    (Live(d) /\ hv[d].st = "running" /\ dom[d].sst # "none" /\ timers[d] > 0)
      ~> hv[d].st # "running"

(* The manager implements the abstract lifecycle: it destroys a running   *)
(* domain only once a shutdown was requested and its timeout expired, and  *)
(* creates a domain only as the single replacement of a stopped or         *)
(* destroyed one (refreshShutdown, maybeRestart, restart, destroy).        *)
AbstractLifecycle == Abstract!Spec

=============================================================================
