# TLA+ models of the xend domain manager

This directory holds TLA+ models of the xend control-plane core in
`src/tools/python/xen/xend/XendDomainInfo.py`, of its image handlers
(`image.py`) and of the PCI descriptor reader (`src/tools/python/xen/util/pci.py`),
with the TLC configurations that check them. `PROJECT.json` lists every
component, every run, the mutants that show each property can fail, the map from
each TLA+ definition to the source lines it models, the findings and the hazards.

## 1. Inventory

### Components and how they interact

| Component | Source | State | Operations |
|---|---|---|---|
| Domain lifecycle manager | `XendDomainInfo.py` | per-domain object (`state`, `info`, `uuid`, `vmpath`, `dompath`); the store entries `/local/domain/<id>` (`vm`, `xend/shutdown`, `xend/shutdown_start_time`) and `/vm/<uuid>` (name, `on_xyz`, `xend/restart_in_progress`); the hypervisor's view of the domain | `create`, `recreate`, `refreshShutdown`, `shutdown`, `maybeRestart`, `restart`, `preserveShutdownDomain`, `destroy`, `cleanupDomain`, `cleanupVm`, `state_set`/`state_wait` |
| Restart policy engine | `XendDomainInfo.py` | `on_poweroff`, `on_reboot`, `on_crash` | `maybeRestart`: `destroy`, `restart`, `preserve`, `renameRestart` |
| Configuration parsing and validation | `XendDomainInfo.py` | the `info` dictionary | `parseConfig`, `augmentInfo`, `validateInfo` (memory unit reconciliation, defaults, validation) |
| Device controller framework | `XendDomainInfo.py`, `server/vfbif.py`, `server/ConsoleController.py` | `controllerClasses`, `backendFlags` registries; device entries in the store; the vfb backend and its password | `addControllerClass`, `getBackendFlags`, `release_devices`, `VfbifController.createDevice` |
| Image build strategy | `image.py` | handler per (architecture, image type); HVM device-model `pid` and the store handshake keys `command`, `state` | memory accounting hooks; `createDeviceModel`, `saveDeviceModel`, `resumeDeviceModel`, `recreate`, `destroy` |
| PCI descriptor reader | `util/pci.py` | the device's config space; `msix_entries`, `table_offset`, `pba_offset`, `iomem`, `msix_iomem` | `find_capability`, `remove_msix_iomem`, `get_info_from_sysfs` |
| `xm create`, `xm setpolicy`, `setup.py` | `xenmgr/lib/xm/create.py`, `xm/setpolicy.py`, `xend/setup.py` | none of their own | option parsing, running external tools, the build |

The lifecycle manager drives the others: `construct` builds the image and
attaches devices; `refreshShutdown` is called by XendDomain's watch on
`@releaseDomain` (with the `xeninfo` it has just listed) and by
`scheduler.later` timers (without it), and it hands a restart to the policy
engine outside its lock; `destroy` releases devices and destroys the image
(killing the device model). After xend itself restarts, `recreate` rebuilds the
objects from the hypervisor and the store.

### What makes it hard

- Several threads run `refreshShutdown` on the same object. Only the
  evaluation is under `refresh_shutdown_lock`; the restart runs outside it as
  a sequence of store transactions.
- xend can die between any two store writes, and the store outlives it:
  `restart_in_progress`, `xend/shutdown` and the renamed VM entries are the
  only memory a recreated object has.
- Timeouts come from rescheduled timers, and timers die with xend.
- The watch passes a snapshot of the hypervisor state taken before the lock.
- Pure computations sit at numeric edges: memory headroom, MiB/KiB
  reconciliation, MSI-X table sizes and page rounding, and the poll bound of
  `saveDeviceModel`.

### Properties per component

- Lifecycle and restart policy: at most one replacement per shutdown
  (`AtMostOneReplacement`); the replacement keeps the configured name
  (`ReplacementKeepsName`); names unique among non-terminated domains
  (`NameUnique`); the restart marker is never stranded
  (`MarkerReachable`); a requested shutdown is eventually enforced
  (`ShutdownTimeoutEnforced`).
- Configuration: `memory_KiB = 1024 * memory` when consistent, an error
  otherwise; `maxmem_KiB <= memory_KiB`; an unknown restart mode is rejected at
  validation; the configuration `restart()` writes is accepted again
  (`RestartRevalidates`) and is the one the domain had
  (`ConfigSurvivesRestart`).
- Device framework: backend flags are the OR of the classes' flags, and a class
  without a flag contributes 0; release is nothrow.
- Image: `requiredMaximumReservation >= requiredAvailableMemory(target)`;
  shadow memory `>=` the configured amount; `saveDeviceModel` times out only
  if the device model never paused; no device model outlives its domain; a
  VNC server (qemu or `xen-vncfb`) runs with a stored password unless an
  empty one was configured (`DeviceModelVncAuthenticated`,
  `VfbVncAuthenticated`).
- State cell: a `state_wait(SUSPENDED)` returns (`CheckpointWaitEnds`), and
  the device model is told to save only once the guest has suspended
  (`SaveOnlySuspended`).
- PCI: the excluded MSI-X ranges are page aligned and cover the table and the PBA.

## 2. Plan

Modules, in the order they are built. The most important behaviour comes first.

1. `DomainLifecycle` (done). Lifecycle manager plus restart policy engine,
   with threads, timers, xend crashes and recreate. `MCDomainLifecycle`
   instantiates it.
2. `ImageMemory` (done). The memory-accounting hooks of every (architecture, type)
   handler as operators, checked over bounded memory sizes.
3. `Config` (done). `valid_KiB`, the defaults and the validation of `validateInfo`,
   and `parseConfig`'s deprecated `restart` option, as operators checked
   against a reference definition.
4. `DeviceModel` (done). The HVM device-model lifecycle (spawn, store pid, save
   handshake with bounded polling, resume, destroy, recreate after an xend
   crash) as a state machine with the device model as a second process.
5. `PciMsix` (done). `find_capability` (a RECURSIVE walk of the capability list)
   and `remove_msix_iomem`, checked against reference definitions of the
   MSI-X table size and of range coverage.
6. `release_devices` (done, inside `DeviceModel`'s destroy, since it runs
   before `image.destroy` in `cleanupDomain`): a transaction retried until
   commit, with conflicting store writes and per-device failures.
7. An abstract lifecycle (done: `DomainLifecycleAbstract`), with
   `DomainLifecycle` shown to implement it by a refinement mapping.
8. `state_set`/`state_wait` with the checkpoint's suspend wait (done, in
   `DeviceModel`, whose save handshake it precedes).
9. HVM `configure` with `parseDeviceModelArgs`, and the vfb console's
   `createDevice`, in `ImageMemory` (done).
10. The configuration `restart()` rebuilds from `sxpr`, in `Config` (done).
11. Next: `restart_check` with a bounded clock; the preserve path's
   `release_devices` in `DomainLifecycle`.

## 3. Modules and how they correspond to the code

### `DomainLifecycle`

State:
- `hv`: the hypervisor's view of each domain id (`dom_get`).
- `dom`, `vm`: the store subtrees `/local/domain/<id>` and `/vm/<uuid>`.
- `obj`: the XendDomainInfo objects held by XendDomain.
- Per thread: `pc` and its locals (`tdom`, `treason`, `tcfg`, `trename`, `txi`).
- `timers`: pending `scheduler.later` calls.
- Two history variables, `parent` and `cfgName`, used by the properties.

Domain ids and uuids are handed out fresh (`nextDom`, `nextUuid`). Names are
sequences: `<<VMName>>` is the configured name, `<<d>>` is "Domain-d", and
`Append(n, k)` is the suffix "-k" that `generateShutdownName` adds.

Actions:
- The locked part of `refreshShutdown` is one action per branch of the code
  (`RefreshGone` ... `RefreshRunning`). It reads the xeninfo the caller passed
  (`Info(t)`), or `dom_get` when a timer called it.
- `maybeRestart` is `DispatchDestroy`, `DispatchPreserve` or `DispatchRestart`.
- `restart(rename)` is one action per store transaction: `RestartChecked` or
  `RestartRefused`, `RestartMark`, `RestartDestroyOld` or `PreserveRename`
  (up to `storeDom('vm')`) and `PreserveMarkSeen` (`storeDom('xend/shutdown')`),
  `RestartCreate` or `RestartCreateFailed`, then `RestartUnmark` (the
  `finally`, at the then-current vmpath).
- `domain_create` (in XendDomain, not in this repository) is modelled from the
  spec as `check_name`, `construct` and registration in one step.
- The triggers are `WatchRefresh`, `TimerFire`, `RecreateFound` and
  `RecreateNewUuid`.
- The environment is `RequestShutdown` (`shutdown()`), `TimeoutElapses`,
  `GuestShutdown`, `GuestCrash`, `Reclaim` and `XendCrash`. `XendCrash` wipes
  the objects, threads and timers but keeps the hypervisor and the store.

### `Config`

State: the `config` given to `create` (a record over small value sets, a
missing key being `NoVal`), the `info` dictionary `parseConfig` returns, the
`result` of the constructor's `validateInfo` (the validated info, or the
exception it raised, `VmError` or `TypeError`), and the `flags`
`getBackendFlags` returns or raises, and `restarted`, the validated info of
the domain `restart()` creates. The actions are `ParseConfig`,
`ValidateInfo`, `GetBackendFlags` and `RestartConfig`. A run stops after
them (`CHECK_DEADLOCK FALSE`: `create` is one call).

`RestartConfig` is the configuration path of `restart()`: `config =
self.sxpr()`, then `domain_create(config)`, whose `create` runs
`parseConfig` and `validateInfo` on it. The marker, preserve and destroy
steps of `restart()` are in `DomainLifecycle`. `sxpr` is an operator
returning a configuration record, with only what `parseConfig` reads back:

- `memory` and `maxmem` as `memory_KiB / 1024` and `maxmem_KiB / 1024`
  (integer division);
- the round-tripping entries that are set;
- the image, which carries `vcpus`;
- the devices.

It writes no `backend` and no `restart`.

- `parseConfig` sets every round-tripping key (None when absent), the memory
  keys, `vcpus` from the image, the backend and device lists, and then applies
  the deprecated `restart` option through `handle_restart`.
- `validateInfo` is the code's checks in the code's order: the name default
  (`"Domain-%d" % None` raises `TypeError` for `create`), `check_name`
  (abstracted to a good or a bad name), `valid_KiB` for memory, `valid_KiB_`
  for maxmem with its `1 << 30` default and the cap at `memory_KiB`, the
  backend names, the device classes, the restart events, and `cpumap`.
  The validated info keeps `image`, as `validateInfo` keeps every key.
- `backendFlags` and `controllerClasses` are the registry the five
  `addControllerClass` calls build.

### `ImageMemory`

State: the domain `vm` (architecture, image type, `memory_KiB`), the
`handler` class `image.create` gave it (or the exception it raised), and
what `buildDomain` passed to the builder (`built`). `Create` is
`findImageHandlerClass` plus the HVM `configure`. `configure` refuses with
`HVMRequired` when `xen_caps` has no hvm. It then runs
`parseDeviceModelArgs`, and refuses with `VmError` when there is no device
model.

`conf` is the domain's `vmConfig` together with xend-config's default VNC
password. It is abstracted to what `parseDeviceModelArgs` branches on:

- the floppy path: absolute, relative or unset;
- the disk's uname: `phy:`, an existing `file:` or a missing `file:`;
- the vifs, as a sequence of (type, has MAC);
- the `nographic`, `vnc` and `sdl` flags;
- the platform `vncpasswd`;
- the vfb console, if any, with its type, its own `vncpasswd` and whether
  its `other_config` holds more keys;
- xend's default password, which may be None.

`parseDeviceModelArgs` is an operator. It refuses a relative floppy path, a
missing disk image, and an ioemu vif without a MAC. Non-ioemu vifs are
skipped before the NIC counter is incremented. It picks the display:
`nographic` first, then VNC (the platform flag or any vfb console), then SDL,
otherwise `nographic`.

For VNC it decides the password:

- a vfb console's non-empty `other_config` replaces the platform's vnc keys;
- None and `''` fall back to xend's default;
- a default of None refuses;
- any password other than `''` is stored, with `storeVm`.

The stored password stays even when the missing-device-model check then
raises. `CreateImage` is `createImage` down to `buildDomain`.
`CreateDevices` is `create_devices`. It runs `VfbifController.createDevice`
on the vfb console:

- the vfb's own `vncpasswd` key, or else xend's default, is stored unless
  it is None or `''`;
- `xen-vncfb` or `xen-sdlfb` is spawned;
- an unknown type raises before the device model.

`CreateDevices` then spawns qemu for an HVM handler. The command-line words
(names, bridges, models, listen addresses) are left out. The hooks `getRequiredAvailableMemory`,
`getRequiredInitialReservation` and `getRequiredMaximumReservation` are
operators taking the handler class, following the class hierarchy.
`getMemoryMaximum` is not defined in this `XendDomainInfo.py`; it is taken
as `maxmem_KiB`, which `validateInfo` resolves to `memory_KiB` when `maxmem`
is unset.

### `DeviceModel`

State: the domain in the hypervisor, the `XendDomainInfo` object (whether
its `image` is set, and the handler's `pid`), the program counters of the
construct thread, the destroy thread and the caller of `saveDeviceModel`,
that loop's `count` and last read `state`, the live device-model processes,
and the store keys `device-model-pid`, `command` and `state`. The device
model itself (qemu-dm, not in this repository) is a second process with
`DMSave` and `DMContinue`. `XendCrash` drops the object and every xend
thread and keeps the hypervisor, the store and the processes; `Recreate` is
`XendDomainInfo.recreate`, whose `__init__` leaves `self.image = None`.

`destroy` is the sequence of `cleanupDomain`: `Destroy` starts it,
`ReleaseDevices` is one pass of `release_devices`' loop (a transaction is
opened on `device/` and its conflict flag cleared), `ReleaseCommit` commits
the removals or, if `StoreWrite` (a backend or hotplug script writing in the
subtree) came in between, discards them and goes round again, and
`ReleaseRemoveFailed` is a `t.remove` that raises into `except ex:`, whose
NameError ends `destroy`. Then `DestroyImage` (`image.destroy`) and
`DestroyRest` (`removeDom`, `cleanupVm`, `xc.domain_destroy`). The device
entries `devs` are written by `create_configured_devices` in
`CreateDeviceModel`'s step (`create_devices`). `release_remove` follows
`xstransact`, whose `list(n)` returns the paths `<n>/<id>`: every entry of a
class in `controllerClasses` is removed, which `validateInfo` makes every
configured device. A failed construct (`ConstructFailed`) leaves `cpc` at
`failed`: its domain was destroyed before `XendDomain` registered it, so no
later destroy, refresh or checkpoint can act on it.

The save path is the checkpoint code's (`XendCheckpoint.save`, not in this
repository, modelled from the spec): `CkptSuspend` is its
`shutdown('suspend')`, which writes `control/shutdown`; `CkptWake` is the
return from `state_wait(SUSPENDED)`, enabled only while the object's
`vmstate` is `suspended` (a woken waiter re-tests the state once it holds the
lock again); `SaveDeviceModel` and `SavePoll` are `saveDeviceModel`;
`CkptDestroy` is the checkpoint destroying the saved domain, and
`ResumeDeviceModel` its other ending. The guest answers with `GuestSuspend`
or `GuestCrash`. `RefreshSuspended` and `RefreshCrashed` are the two
branches of `refreshShutdown` the watch then runs: `state_set(SUSPENDED)`,
or `maybeRestart('crash')`, whose policies other than preserve all begin
with the old domain's `cleanupDomain`. `cleanupDomain`'s first statement,
`state_set(TERMINATED)`, is part of `Destroy`, `ConstructFailed`,
`RefreshCrashed` and `CkptDestroy`.

### `DomainLifecycleAbstract` and the refinement

The abstract lifecycle has, per domain, its life (`none`, `running`,
`stopped`, `dying`), whether a shutdown request is outstanding, and the
domain it replaced. Its actions: `Ask` and `Withdraw` a request, `Stop` (the
guest shuts down or crashes), `Kill` (only a stopped domain, or a running
one with a request), `Reclaim`, and `Replace(d, e)`: `e` starts as the only
replacement of `d`, which is no longer running. `DomainLifecycle` maps onto
it by `LifeOf(hv[d].st)`, `dom[d].sst # "none"` (a `shutdown_start_time` is
set) and its `parent` history; `AbstractLifecycle` (the abstract `Spec`) is
a property of `single`.

### `PciMsix`

State: the device's sysfs files as one input record (`dev`: the status
byte's capability bit, the capability list as a function from pointers to
`[id, next]`, the MSI-X capability body, and the resource-file lines), the
point reached in `get_info_from_sysfs` (`pc`), the resource line `i`, and
what the object accumulates (`msix`, the decoded `fields`, `iomem`,
`ioports`, `msix_iomem`). `find_capability` is a RECURSIVE walk with fuel one
more than the number of pointers: a longer walk has met a pointer twice and
is the code's endless loop (`Hang`). Devices are restricted to those whose
table and PBA lie in a memory BAR, as the PCI specification requires; the
capability list may be anything. `Control`, `TableSize`, `PbaBytes`,
`RefBIR` and `RefOffset` are the PCI definitions the properties compare with,
and `Reach` (the reflexive transitive closure, from the community module
`Relation`, of the next-pointer relation from the capability pointer) is
the reference the walk is compared with.

## 4. Runs

| Run | Checks | Result |
|---|---|---|
| `single` | `TypeOK`, `AtMostOneReplacement`, `NameUnique`, `AbstractLifecycle` with one thread, four policies covering every mode of every event except `on_crash = rename-restart`, one xend crash, two shutdown requests | passes (about 1.8 million distinct states, under 2 minutes) |
| `timeout` | `ShutdownTimeoutEnforced` under `FairSpec` | passes |
| `concurrent` | `AtMostOneReplacement` with two threads and `on_poweroff = rename-restart` | violated: two replacements |
| `config` | `TypeOK`, `MemoryUnits`, `MaxMemResolved`, `RestartRevalidates` over 629,856 configurations | passes (1,925,856 states, under 20 seconds) |
| `roundtrip` | `ConfigSurvivesRestart`, with the backends that have a flag | violated: the domain `restart()` creates has no backends |
| `imagememory` | `TypeOK`, `DeviceModelVncAuthenticated` over every architecture, image type, five targets and 5,400 HVM configurations | passes (661,120 states, seconds) |
| `devicemodel` | `TypeOK`, `NoOrphanWithoutCrash`, `ReleaseRetriesEnd`, `SaveOnlySuspended` under `FairSpec`, with construct failing, a checkpoint save racing destroy and a guest crash, a conflicting store write, a failing removal, one xend crash | passes (2,277 states) |
| `dmorphan` | `NoOrphanDeviceModel` | violated: after an xend restart destroy leaves the device model running |
| `suspendwait` | `CheckpointWaitEnds` under `FairSpec` | violated: the domain is destroyed while the checkpoint waits for SUSPENDED; `state_wait` never returns |
| `pcimsix` | `TypeOK`, `MsixCapabilityFound` | passes (143,104 states, seconds) |
| `releasefail` | `DestroyFinishes` under `FairSpec`, one failing `t.remove` | violated: `destroy` stops at the NameError, the domain and its device model stay |
| `msixbar` | `MsixWithinBar` | violated: a 2-entry table is recorded as 256 entries, past the BAR |

The findings in `PROJECT.json` explain each violation with the lines
involved.

### Further counterexamples

These configurations each check one more property that TLC finds violated.
They are kept beside the runs above and are recorded as hazards in
`PROJECT.json`, with what the code does:

| Configuration | Checks | Result |
|---|---|---|
| `DomainLifecycle_crashrename.cfg` | `AtMostOneReplacement` with `on_crash = rename-restart` | violated: a restart per refresh |
| `DomainLifecycle_crashwindow.cfg` | `ReplacementKeepsName` with one xend crash | violated: replacement named "vmname-1" |
| `DomainLifecycle_markerleak.cfg` | `MarkerReachable` | violated: marker left under the old uuid |
| `Config_backendflags.cfg` | `BackendFlagsOr` | violated: `backend = [pciif]` raises `TypeError` |
| `ImageMemory_maxres.cfg` | `MaxReservationCoversAvailable` | violated: x86 HVM's maximum is 8 MiB below the memory it requires |
| `Config_restart.cfg` | `DeprecatedRestartHonoured` | violated: `restart = always` leaves `on_poweroff = destroy` |
| `Config_rounding.cfg` | `ConfigSurvivesRestart`, with no backends | violated: `mem_kb = 1536` comes back from `sxpr` as 1024 |
| `DeviceModel_savetimeout.cfg` | `SaveTimeoutOnlyIfNeverPaused` | violated: 'paused' read on the last poll is reported as a timeout |
| `ImageMemory_vfbpasswd.cfg` | `VfbVncAuthenticated` | violated: a vnc vfb with no `vncpasswd` key, and no xend default, starts `xen-vncfb` with no password; HVM refuses the same configuration |
| `PciMsix_hang.cfg` | `FindCapabilityTerminates` | violated: a cyclic capability list hangs `find_capability` |
| `PciMsix_cover.cfg` | `MsixRangesCovered` | violated: a one-entry table (control 0) at page offset 56 is taken as 0 entries; its last 8 bytes, on the next page, are in no recorded range |

### Bounds

- `MaxDoms = 3`. This allows an original domain, its replacement and either a
  second replacement or the replacement's own replacement, which is the
  smallest number in which a double restart and a rename chain
  ("vmname-1" taken, so "vmname-2") both happen.
- `MaxRefresh = 3`: one refresh per domain, or three of one.
- `MaxTimers = 1`: pending timers per domain saturate at 1, since a second one
  only repeats a refresh.
- `MaxCrashes = 1`: one xend restart, enough to hit every crash window once.
- `MaxRequests = 2`: two requests, so a renewal is possible.
- `MaxUuids` follows from these (see the ASSUME).

Every action fires in `single` (TLC coverage).

For `Config` the value sets hold a negative, a consistent and an inconsistent
value for each MiB/KiB pair (`memory`, `maxmem` in {-1, 1, 2}, `mem_kb`,
`maxmem_kb` in {1024, 1536} or absent), so every branch of `valid_KiB_` and the
`1 << 30` default and cap are reached; a valid and an invalid value of each
of the name, restart option, policy, backend and device; lists of length 0
or 1, since the checks are per element. `mem_kb = 1536` is not a whole MiB,
which `sxpr`'s division rounds.

For `ImageMemory`: targets 1, 1536, 2048, 4096 and 131072 KiB (below a
MiB, a non-whole MiB, whole MiB, large), every architecture plus an
unknown one, and an unknown image type. `MCConfig` has one HVM
configuration that passes every early check and one that fails each check
alone. It is crossed with:

- three vif lists: none; a netfront without a MAC before an ioemu vif; an
  ioemu vif without a MAC;
- all eight display flag combinations;
- every platform and default password, None included;
- five vfb consoles: none; vnc with and without its own password; sdl
  with other keys; an unknown type.

Every branch of `parseDeviceModelArgs` and of `createDevice` is reached.

For `DeviceModel`: `SavePolls = 2` stands for the code's 100 (the loop is
the same at any bound; 2 lets a 'paused' arrive before, on and after the
last poll), one save, one xend crash and one device-model process; two
devices of two classes, one conflicting store write (enough for one retry of
the release transaction) and one failing removal.

For `PciMsix`: pages of 64 bytes, a 128-byte BAR 0 and a second line that is
missing, an I/O range or a memory BAR; two capability pointers in every
arrangement (ends, matches, cycles); message control low bytes 0, 1, 3 and
high bytes 0 and 0x80 (the enable bit); table offsets 0, 8, 56, 72 and BAR 1
offset 0, PBA offsets 64, 120 and BAR 1 offset 32. These put table ends
below, on and across page boundaries; offset 56 puts a one-entry table
across one.

### Fairness (`FairSpec`)

- Weak fairness of each thread's steps: a started refresh or restart runs to
  its end.
- `TimeoutElapses`: time passes.
- `TimerFire` of each domain on some thread: `scheduler.later` fires.
- Recreate of each domain: a restarted xend rebuilds every domain the
  hypervisor lists.

The guests, the user and Xen get no fairness.

`DeviceModel`'s `FairSpec` gives weak fairness to the destroying thread's
steps (`ReleaseDevices`, `ReleaseCommit`, `DestroyImage`, `DestroyRest`): a
thread inside `destroy` is not starved. Store writers, the device model,
failures and xend's death get none; writers are bounded, which stands for
the spec's "contention is low". It also gives weak fairness to the watch's
refresh of a suspended or crashed domain (XendDomain's `@releaseDomain`
watch fires on every such change), to the woken waiter of `state_wait`, and
to a guest asked to suspend (`GuestSuspend`), so that `suspendwait`'s
counterexample is not a guest that ignores the request: it is a domain that
is destroyed, or crashes, while the checkpoint waits.

## 5. Not modelled, and why

- Building the boot image, the bootloader, event channels, console and store
  channel set-up, `dumpCore`, `vcpu_hotplug`, `send_sysrq`, `setMemoryTarget`:
  hypervisor calls and store writes without a protocol of their own.
- `getRequiredShadowMemory`: called nowhere in this repository.
- The calls `XendDomainInfo.py` makes that this `image.py` lacks
  (`image.create` with three arguments, `getDomainMemory`): the two files
  are of different versions; `ImageMemory` follows `image.py`.
- The device model's behaviour (qemu-dm): only its answers to `save` and
  `continue` are modelled. Of `parseDeviceModelArgs`, the argument words
  and the boolean platform flags (`acpi`, `usb` ...) are left out; its
  refusals, display choice and VNC password are modelled.
- The PCI reader's irq, vendor, device and driver files and
  `find_sysfs_mnt`: reads without logic.
- `vfbif.py` beyond `createDevice`'s password and backend choice (the
  argument words, the environment, the fork), and `ConsoleController.py`:
  they return constant device descriptions or spawn processes.
- `xm create`, `xm setpolicy`, `setup.py`: command-line parsing, running external
  tools, the build.
- Domain id and uuid reuse. The hypervisor and `getUuid` are modelled as
  never reusing a value. `construct`'s `removeDom` (which guards against a
  stale `shutdown_start_time` under reuse) is therefore not exercised.
