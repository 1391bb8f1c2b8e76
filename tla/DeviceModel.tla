---------------------------- MODULE DeviceModel ----------------------------
(***************************************************************************)
(* The device model (qemu-dm) of one HVM domain, as HVMImageHandler drives *)
(* it: createDeviceModel spawns it and records its pid in the store,       *)
(* saveDeviceModel and resumeDeviceModel talk to it through the store keys *)
(* command and state, and destroy kills it. The device model is a separate *)
(* process: it outlives an xend crash, while the XendDomainInfo object,    *)
(* its image handler and every xend thread die with xend. recreate builds  *)
(* a new object whose image is None.                                       *)
(***************************************************************************)
EXTENDS Naturals

CONSTANTS
  SavePolls,   \* the poll bound of saveDeviceModel (100 in the code)
  MaxSaves,    \* saveDeviceModel calls per run
  MaxCrashes,  \* xend restarts per run
  MaxPids,     \* device model processes per run
  DevIds,      \* the configured devices, as their store entries device/<class>/<id>
  ControllerClasses, \* controllerClasses.keys(): the classes release_devices lists
  MaxConflicts,       \* concurrent writes to the domain's device subtree per run
  MaxRemoveFailures,  \* t.remove calls that raise, per run
  NoVal

ASSUME SavePolls \in Nat /\ MaxSaves \in Nat /\ MaxCrashes \in Nat /\ MaxPids \in Nat
       /\ MaxConflicts \in Nat /\ MaxRemoveFailures \in Nat

VARIABLES
  hv,       \* the domain in the hypervisor: "running", "suspended", "crashed", "gone"
  obj,      \* the XendDomainInfo object: NoVal, or [image, pid] with image
            \* FALSE once self.image is None and pid the handler's self.pid
  cpc,      \* the thread in construct: "spawn", "storepid", "rest", "done",
            \* or "failed" (the domain was never handed to XendDomain)
  dpc,      \* the thread in destroy: "idle", "release", "commit", "image", "rest"
  spc,      \* the caller of saveDeviceModel: "idle", "poll", "done", "timeout"
  count,    \* saveDeviceModel's count
  state,    \* saveDeviceModel's state, the last value it read
  procs,    \* pids of the live device model processes
  dmpid,    \* /local/domain/<id>/image/device-model-pid
  command,  \* /local/domain/0/device-model/<id>/command
  dmstate,  \* /local/domain/0/device-model/<id>/state
  devs,     \* the device entries under /local/domain/<id>/device
  conflict, \* a write to that subtree since release_devices' transaction began
  vmstate,  \* the object's self.state: "ok", "suspended", "terminated"
  ctlshutdown, \* /local/domain/<id>/control/shutdown holds 'suspend'
  nextPid, saves, crashes, conflicts, failures

vars == <<vmstate, ctlshutdown, hv, obj, cpc, dpc, spc, count, state, procs, dmpid, command, dmstate,
          devs, conflict, nextPid, saves, crashes, conflicts, failures>>

Init ==
  /\ hv = "running"
  /\ obj = [image |-> TRUE, pid |-> NoVal]
  /\ cpc = "spawn"
  /\ dpc = "idle"
  /\ spc = "idle"
  /\ count = 0
  /\ state = NoVal
  /\ procs = {}
  /\ dmpid = NoVal
  /\ command = NoVal
  /\ dmstate = NoVal
  /\ nextPid = 1
  /\ saves = 0
  /\ crashes = 0
  /\ devs = {}
  /\ conflict = FALSE
  /\ conflicts = 0
  /\ failures = 0
  /\ vmstate = "ok"
  /\ ctlshutdown = FALSE

(***************************************************************************)
(* construct: create_devices writes the configured devices' entries, then *)
(* calls createDeviceModel, which returns early                           *)
(* if self.pid is set, else spawns the device model and then stores its    *)
(* pid; the rest of construct may then fail, and a failure runs destroy.  *)
(***************************************************************************)
CreateDeviceModel ==
  /\ cpc = "spawn" /\ obj # NoVal
  /\ obj.pid = NoVal                 \* if self.pid: return
  /\ nextPid <= MaxPids
  /\ procs' = procs \cup {nextPid}   \* os.spawnve(P_NOWAIT, ...)
  /\ obj' = [obj EXCEPT !.pid = nextPid]
  /\ nextPid' = nextPid + 1
  /\ cpc' = "storepid"
  /\ devs' = DevIds                  \* create_configured_devices
  /\ UNCHANGED <<vmstate, ctlshutdown, hv, dpc, spc, count, state, dmpid, command, dmstate, saves, crashes,
                 conflict, conflicts, failures>>

StoreDomPid ==
  /\ cpc = "storepid"
  /\ dmpid' = obj.pid
  /\ cpc' = "rest"
  /\ UNCHANGED <<vmstate, ctlshutdown, hv, obj, dpc, spc, count, state, procs, command, dmstate,
                 nextPid, saves, crashes,
                 devs, conflict, conflicts, failures>>

ConstructDone ==
  /\ cpc = "rest"
  /\ cpc' = "done"
  /\ UNCHANGED <<vmstate, ctlshutdown, hv, obj, dpc, spc, count, state, procs, dmpid, command, dmstate,
                 nextPid, saves, crashes,
                 devs, conflict, conflicts, failures>>

(* except Exception: self.destroy(); raise VmError *)
ConstructFailed ==
  /\ cpc = "rest" /\ dpc = "idle"
  /\ cpc' = "failed"
  /\ dpc' = "release"
  /\ vmstate' = "terminated"        \* cleanupDomain: state_set(TERMINATED)
  /\ UNCHANGED <<ctlshutdown, hv, obj, spc, count, state, procs, dmpid, command, dmstate,
                 nextPid, saves, crashes,
                 devs, conflict, conflicts, failures>>

(***************************************************************************)
(* destroy: cleanupDomain (release_devices, image.destroy(), self.image =  *)
(* None, removeDom),                                                       *)
(* cleanupVm, then xc.domain_destroy. Called by refreshShutdown, by        *)
(* shutdown's timeout or by the user once construct is over.               *)
(***************************************************************************)
Destroy ==
  /\ obj # NoVal /\ cpc = "done" /\ dpc = "idle"
  /\ dpc' = "release"
  /\ vmstate' = "terminated"
  /\ UNCHANGED <<ctlshutdown, hv, obj, cpc, spc, count, state, procs, dmpid, command, dmstate,
                 nextPid, saves, crashes,
                 devs, conflict, conflicts, failures>>

(***************************************************************************)
(* release_devices: t = xstransact(dompath + "/device"); for each class n *)
(* and each d in t.list(n): t.remove(d); retry until t.commit() succeeds. *)
(* t.list(n) gives the paths <n>/<id> under device/ (xstransact, not in  *)
(* this repository), so t.remove(d) removes every entry of the controller *)
(* classes; the removals take effect when the transaction commits. A      *)
(* raising t.remove meets 'except ex:', where ex is not defined: the      *)
(* NameError leaves release_devices, cleanupDomain and destroy at once.   *)
(***************************************************************************)
release_remove(ds) == {p \in ds : p[1] \notin ControllerClasses}

ReleaseDevicesNoReset ==
  /\ dpc = "release"
  /\ dpc' = "commit"
  /\ UNCHANGED <<vmstate, ctlshutdown, hv, obj, cpc, spc, count, state, procs, dmpid, command, dmstate,
                 devs, conflict, nextPid, saves, crashes, conflicts, failures>>

ReleaseDevices ==
  /\ dpc = "release"
  /\ conflict' = FALSE               \* the transaction starts now
  /\ dpc' = "commit"
  /\ UNCHANGED <<vmstate, ctlshutdown, hv, obj, cpc, spc, count, state, procs, dmpid, command, dmstate,
                 devs, nextPid, saves, crashes, conflicts, failures>>

ReleaseRemoveFailed ==
  /\ dpc = "release"
  /\ devs # {} /\ failures < MaxRemoveFailures
  /\ failures' = failures + 1
  /\ dpc' = "idle"
  /\ UNCHANGED <<vmstate, ctlshutdown, hv, obj, cpc, spc, count, state, procs, dmpid, command, dmstate,
                 devs, conflict, nextPid, saves, crashes, conflicts>>

(* t.commit() fails when the subtree was written since the transaction    *)
(* began; its removals are then discarded and the loop starts over.        *)
ReleaseCommit ==
  /\ dpc = "commit"
  /\ dpc' = IF conflict THEN "release" ELSE "image"
  /\ devs' = IF conflict THEN devs ELSE release_remove(devs)
  /\ UNCHANGED <<vmstate, ctlshutdown, hv, obj, cpc, spc, count, state, procs, dmpid, command, dmstate,
                 conflict, nextPid, saves, crashes, conflicts, failures>>

(* A backend or hotplug script writes in the domain's device subtree.     *)
StoreWrite ==
  /\ hv = "running" /\ devs # {}
  /\ conflicts < MaxConflicts
  /\ conflict' = TRUE
  /\ conflicts' = conflicts + 1
  /\ UNCHANGED <<vmstate, ctlshutdown, hv, obj, cpc, dpc, spc, count, state, procs, dmpid, command, dmstate,
                 devs, nextPid, saves, crashes, failures>>

(* HVMImageHandler.destroy(suspend = False): kill and reap self.pid,       *)
(* self.pid = None, remove the device-model store directory.               *)
image_destroyNoKill(o, ps) == ps

image_destroy(o, ps) == IF o.image /\ o.pid # NoVal THEN ps \ {o.pid} ELSE ps

DestroyImage ==
  /\ dpc = "image"
  /\ procs' = image_destroy(obj, procs)
  /\ IF obj.image /\ obj.pid # NoVal
       THEN command' = NoVal /\ dmstate' = NoVal
       ELSE UNCHANGED <<command, dmstate>>
  /\ obj' = [image |-> FALSE, pid |-> NoVal]
  /\ dpc' = "rest"
  /\ UNCHANGED <<vmstate, ctlshutdown, hv, cpc, spc, count, state, dmpid, nextPid, saves, crashes,
                 devs, conflict, conflicts, failures>>

(* removeDom, cleanupVm, xc.domain_destroy; XendDomain drops the object.   *)
DestroyRest ==
  /\ dpc = "rest"
  /\ dmpid' = NoVal
  /\ devs' = {}                      \* removeDom
  /\ ctlshutdown' = FALSE
  /\ hv' = "gone"
  /\ obj' = NoVal
  /\ dpc' = "idle"
  /\ UNCHANGED <<vmstate, cpc, spc, count, state, procs, command, dmstate, nextPid, saves, crashes,
                 conflict, conflicts, failures>>

(***************************************************************************)
(* The checkpoint code (XendCheckpoint.save, not in this repository) asks  *)
(* the guest to suspend with shutdown('suspend'), blocks in               *)
(* state_wait(SUSPENDED), then saves the device model; when it has        *)
(* finished it destroys the domain (or resumes the device model).         *)
(* shutdown(reason): storeDom('control/shutdown', reason); no             *)
(* shutdown_start_time for 'suspend'.                                      *)
(***************************************************************************)
CkptSuspend ==
  /\ obj # NoVal /\ obj.image /\ cpc = "done" /\ spc = "idle"
  /\ hv = "running" /\ saves < MaxSaves
  /\ ctlshutdown' = TRUE
  /\ spc' = "wait"
  /\ saves' = saves + 1
  /\ UNCHANGED <<vmstate, hv, obj, cpc, dpc, count, state, procs, dmpid, command, dmstate,
                 nextPid, crashes, devs, conflict, conflicts, failures>>

(* state_wait(state): under state_updated, while self.state != state:     *)
(* wait(). A notifyAll wakes the waiter, which returns only if the state  *)
(* is still SUSPENDED when it holds the lock again.                       *)
CkptWakeUnchecked ==
  /\ spc = "wait"
  /\ spc' = "save"
  /\ UNCHANGED <<vmstate, ctlshutdown, hv, obj, cpc, dpc, count, state, procs, dmpid,
                 command, dmstate, nextPid, saves, crashes, devs, conflict, conflicts, failures>>

CkptWake ==
  /\ spc = "wait"
  /\ vmstate = "suspended"
  /\ spc' = "save"
  /\ UNCHANGED <<vmstate, ctlshutdown, hv, obj, cpc, dpc, count, state, procs, dmpid,
                 command, dmstate, nextPid, saves, crashes, devs, conflict, conflicts, failures>>

SaveDeviceModel ==
  /\ obj # NoVal /\ obj.image /\ spc = "save"
  /\ command' = "save"
  /\ spc' = "poll" /\ count' = 0 /\ state' = NoVal
  /\ UNCHANGED <<vmstate, ctlshutdown, hv, obj, cpc, dpc, procs, dmpid, dmstate, nextPid,
                 saves, crashes, devs, conflict, conflicts, failures>>

(* The save is over: the checkpoint code destroys the domain.             *)
CkptDestroy ==
  /\ spc = "done" /\ obj # NoVal /\ dpc = "idle"
  /\ spc' = "idle"
  /\ dpc' = "release"
  /\ vmstate' = "terminated"
  /\ UNCHANGED <<ctlshutdown, hv, obj, cpc, count, state, procs, dmpid, command, dmstate,
                 nextPid, saves, crashes, devs, conflict, conflicts, failures>>

(***************************************************************************)
(* The guest answers control/shutdown by suspending, or crashes; the      *)
(* @releaseDomain watch then runs refreshShutdown. Its shutdown branch    *)
(* with reason 'suspend' calls state_set(SUSPENDED) (which sets the state *)
(* whatever it was and notifies every waiter) and leaves the domain; its  *)
(* crashed branch calls maybeRestart('crash'), whose destroy, restart and *)
(* rename-restart all start by cleaning the domain up (the last two in   *)
(* DomainLifecycle); preserve leaves it.                                   *)
(***************************************************************************)
GuestSuspend ==
  /\ hv = "running" /\ ctlshutdown
  /\ hv' = "suspended"
  /\ UNCHANGED <<vmstate, ctlshutdown, obj, cpc, dpc, spc, count, state, procs, dmpid,
                 command, dmstate, nextPid, saves, crashes, devs, conflict, conflicts, failures>>

GuestCrash ==
  /\ hv = "running"
  /\ hv' = "crashed"
  /\ UNCHANGED <<vmstate, ctlshutdown, obj, cpc, dpc, spc, count, state, procs, dmpid,
                 command, dmstate, nextPid, saves, crashes, devs, conflict, conflicts, failures>>

state_set(s) == vmstate' = s

RefreshSuspended ==
  /\ obj # NoVal /\ hv = "suspended"
  /\ state_set("suspended")
  /\ UNCHANGED <<ctlshutdown, hv, obj, cpc, dpc, spc, count, state, procs, dmpid,
                 command, dmstate, nextPid, saves, crashes, devs, conflict, conflicts, failures>>

RefreshCrashed ==
  /\ obj # NoVal /\ hv = "crashed" /\ cpc = "done" /\ dpc = "idle"
  /\ dpc' = "release"
  /\ state_set("terminated")
  /\ UNCHANGED <<ctlshutdown, hv, obj, cpc, spc, count, state, procs, dmpid,
                 command, dmstate, nextPid, saves, crashes, devs, conflict, conflicts, failures>>

(* One iteration: state = Read(state); sleep; count += 1; raise VmError if *)
(* count > 100; the loop then ends if state is 'paused'.                  *)
SavePollNoTimeout ==
  /\ spc = "poll"
  /\ state' = dmstate
  /\ count' = count + 1
  /\ spc' = IF dmstate = "paused" THEN "done" ELSE "poll"
  /\ UNCHANGED <<vmstate, ctlshutdown, hv, obj, cpc, dpc, procs, dmpid, command, dmstate, nextPid, saves, crashes,
                 devs, conflict, conflicts, failures>>

SavePoll ==
  /\ spc = "poll"
  /\ state' = dmstate
  /\ count' = count + 1
  /\ spc' = IF count + 1 > SavePolls THEN "timeout"
            ELSE IF dmstate = "paused" THEN "done" ELSE "poll"
  /\ UNCHANGED <<vmstate, ctlshutdown, hv, obj, cpc, dpc, procs, dmpid, command, dmstate, nextPid, saves, crashes,
                 devs, conflict, conflicts, failures>>

ResumeDeviceModel ==
  /\ spc \in {"done", "timeout"}
  /\ command' = "continue"
  /\ spc' = "idle"
  /\ UNCHANGED <<vmstate, ctlshutdown, hv, obj, cpc, dpc, count, state, procs, dmpid, dmstate, nextPid, saves, crashes,
                 devs, conflict, conflicts, failures>>

(***************************************************************************)
(* The device model process (not in this repository): on 'save' it saves  *)
(* its state and writes state = 'paused'; on 'continue' it resumes.       *)
(***************************************************************************)
DMSave ==
  /\ procs # {} /\ command = "save" /\ dmstate # "paused"
  /\ dmstate' = "paused"
  /\ UNCHANGED <<vmstate, ctlshutdown, hv, obj, cpc, dpc, spc, count, state, procs, dmpid, command,
                 nextPid, saves, crashes,
                 devs, conflict, conflicts, failures>>

DMContinue ==
  /\ procs # {} /\ command = "continue" /\ dmstate = "paused"
  /\ dmstate' = "running"
  /\ UNCHANGED <<vmstate, ctlshutdown, hv, obj, cpc, dpc, spc, count, state, procs, dmpid, command,
                 nextPid, saves, crashes,
                 devs, conflict, conflicts, failures>>

(***************************************************************************)
(* xend dies: the object and every thread go; the hypervisor, the store   *)
(* and the device model process stay. recreate then builds an object for  *)
(* the running domain, with self.image = None.                            *)
(***************************************************************************)
XendCrash ==
  /\ crashes < MaxCrashes
  /\ crashes' = crashes + 1
  /\ obj' = NoVal
  /\ cpc' = "done" /\ dpc' = "idle" /\ spc' = "idle"
  /\ count' = 0 /\ state' = NoVal
  /\ UNCHANGED <<vmstate, ctlshutdown, hv, procs, dmpid, command, dmstate, nextPid, saves,
                 devs, conflict, conflicts, failures>>

Recreate ==
  /\ obj = NoVal /\ hv # "gone"
  /\ obj' = [image |-> FALSE, pid |-> NoVal]
  /\ vmstate' = "ok"
  /\ UNCHANGED <<ctlshutdown, hv, cpc, dpc, spc, count, state, procs, dmpid, command, dmstate,
                 nextPid, saves, crashes,
                 devs, conflict, conflicts, failures>>

Next ==
  \/ CreateDeviceModel \/ StoreDomPid \/ ConstructDone \/ ConstructFailed
  \/ Destroy \/ ReleaseDevices \/ ReleaseRemoveFailed \/ ReleaseCommit
  \/ DestroyImage \/ DestroyRest \/ StoreWrite
  \/ CkptSuspend \/ CkptWake \/ SaveDeviceModel \/ SavePoll \/ ResumeDeviceModel
  \/ CkptDestroy \/ GuestSuspend \/ GuestCrash \/ RefreshSuspended \/ RefreshCrashed
  \/ DMSave \/ DMContinue
  \/ XendCrash \/ Recreate

Spec == Init /\ [][Next]_vars

(* The thread running destroy is not preempted for ever; the watch fires  *)
(* for a domain that suspended or crashed; a woken waiter gets the lock;  *)
(* a guest asked to suspend does so unless it crashes first. The store's  *)
(* other writers, the device model, crashes and xend's death get no       *)
(* fairness.                                                               *)
FairSpec ==
  /\ Spec
  /\ WF_vars(ReleaseDevices) /\ WF_vars(ReleaseCommit)
  /\ WF_vars(DestroyImage) /\ WF_vars(DestroyRest)
  /\ WF_vars(RefreshSuspended) /\ WF_vars(RefreshCrashed)
  /\ WF_vars(CkptWake) /\ WF_vars(GuestSuspend)

(***************************************************************************)
(* Properties                                                              *)
(***************************************************************************)
TypeOK ==
  /\ hv \in {"running", "suspended", "crashed", "gone"}
  /\ vmstate \in {"ok", "suspended", "terminated"}
  /\ obj = NoVal \/ obj \in [image : BOOLEAN, pid : (1..MaxPids) \cup {NoVal}]
  /\ count \in 0..SavePolls + 1
  /\ procs \subseteq 1..MaxPids
  /\ dmpid \in (1..MaxPids) \cup {NoVal}
  /\ devs \subseteq DevIds

(* destroy kills the device model with the domain: once a destroy has     *)
(* finished and the domain is gone, no device model process is left, as   *)
(* long as xend has not restarted in the domain's life.                   *)
NoOrphanWithoutCrash ==
  (crashes = 0 /\ hv = "gone" /\ dpc = "idle") => procs = {}

(* destroy's nothrow guarantee (spec: every step is independently fault   *)
(* tolerant, device release tolerates per-device failure and retries its  *)
(* transaction until a clean commit): once cleanupDomain has started, the *)
(* domain is eventually destroyed, unless xend itself dies first.          *)
DestroyFinishes ==
  dpc = "release" ~> (hv = "gone" \/ obj = NoVal)

(* The release loop's retries end: under contention that stops, a started *)
(* destroy removes the domain unless xend dies or a t.remove raises.      *)
ReleaseRetriesEnd ==
  dpc = "release" ~> (hv = "gone" \/ obj = NoVal \/ failures > 0)

(* Spec: destroy() terminates the emulation helper, tolerating the case   *)
(* where it is not a true child after a manager restart; no device model  *)
(* outlives its domain.                                                    *)
NoOrphanDeviceModel ==
  (hv = "gone" /\ dpc = "idle") => procs = {}

(* saveDeviceModel reports a timeout only if the device model never       *)
(* reported 'paused' (spec: exceeding the retry bound is the timeout).    *)
SaveTimeoutOnlyIfNeverPaused ==
  spc = "timeout" => state # "paused"

(* The device model is told to save only once the guest has suspended:    *)
(* the checkpoint's state_wait returns on the SUSPENDED that the watch's  *)
(* refreshShutdown set for this guest, and no step between the two lets  *)
(* the guest run again.                                                    *)
SaveOnlySuspended ==
  [][command # "save" /\ command' = "save" => hv = "suspended"]_vars

(* Spec: state transitions are broadcast to callers blocked waiting for a *)
(* target state, the checkpoint waiting for SUSPENDED before it proceeds: *)
(* a state_wait(SUSPENDED) eventually returns (or dies with xend).        *)
CheckpointWaitEnds ==
  spc = "wait" ~> spc # "wait"
=============================================================================
