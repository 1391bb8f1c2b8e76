---------------------------- MODULE ImageMemory ----------------------------
(***************************************************************************)
(* The image handler a domain gets from image.create and the memory it is  *)
(* built with: findImageHandlerClass picks the handler class for (arch,   *)
(* image type) from _handlers, the handler's configure may refuse (HVM    *)
(* without hvm support or without a device model), and buildDomain passes *)
(* getRequiredInitialReservation() / 1024 MiB to the builder, x86 Linux   *)
(* also setting the physical map limit from getRequiredMaximumReservation.*)
(*                                                                         *)
(* A handler class is its name; the memory hooks are operators taking the *)
(* class, dispatching as the class hierarchy does.                         *)
(***************************************************************************)
EXTENDS Integers, Sequences

CONSTANTS
  ArchVals,       \* values of arch.type
  ImageTypeVals,  \* image types a configuration may name
  TargetVals,     \* memory_KiB values (getMemoryTarget)
  NoVal,
  VmError,        \* the exceptions, as model values
  HVMRequired,
  ConfigVals,     \* vmConfig and xend-config inputs (see HVMConfig)
  Absent          \* a key missing from a dictionary

ASSUME TargetVals \subseteq Nat \ {0}

(* _handlers *)
handlers ==
  [powerpc |-> [linux |-> "PPC_Linux"],
   ia64    |-> [linux |-> "IA64_Linux", hvm |-> "IA64_HVM"],
   x86     |-> [linux |-> "X86_Linux",  hvm |-> "X86_HVM"]]

Classes == {"PPC_Linux", "IA64_Linux", "IA64_HVM", "X86_Linux", "X86_HVM"}
HVMClasses == {"IA64_HVM", "X86_HVM"}

(* findImageHandlerClass: _handlers[arch.type][image_type], KeyError ->    *)
(* VmError('unknown image type').                                          *)
findImageHandlerClassDefault(arch, type) ==
  IF arch \in DOMAIN handlers /\ type \in DOMAIN handlers[arch]
    THEN handlers[arch][type] ELSE "ImageHandler"

findImageHandlerClass(arch, type) ==
  IF arch \in DOMAIN handlers /\ type \in DOMAIN handlers[arch]
    THEN handlers[arch][type] ELSE VmError

(***************************************************************************)
(* The memory accounting hooks, in KiB.                                    *)
(***************************************************************************)
getRequiredAvailableMemory(h, mem_kb) ==
  CASE h = "IA64_HVM" -> mem_kb + (1024 + 5) * 16   \* extra_pages * page_kb
    [] h = "X86_HVM"  -> mem_kb + 8192              \* QEMU's video RAM
    [] OTHER          -> mem_kb

(* getMemoryTarget is info['memory_KiB']; getMemoryMaximum is not defined  *)
(* in this XendDomainInfo: it is taken as maxmem_KiB when maxmem is unset, *)
(* which validateInfo resolves to min(1 << 30, memory_KiB) = memory_KiB.   *)
getMemoryTarget(vm) == vm.target
getMemoryMaximum(vm) == vm.target

getRequiredInitialReservation(h, vm) ==
  IF h \in HVMClasses THEN getMemoryTarget(vm)
  ELSE getRequiredAvailableMemory(h, getMemoryTarget(vm))

getRequiredMaximumReservation(h, vm) ==
  IF h = "X86_HVM" THEN getMemoryMaximum(vm)
  ELSE getRequiredAvailableMemory(h, getMemoryMaximum(vm))

(* buildDomain: memsize in MiB (Python 2 integer division); x86 Linux     *)
(* first sets the memmap limit to the maximum reservation plus 8 MiB.     *)
buildDomain(h, vm) ==
  [memsize |-> getRequiredInitialReservation(h, vm) \div 1024,
   memmap  |-> IF h = "X86_Linux" THEN getRequiredMaximumReservation(h, vm) + 8 * 1024
               ELSE NoVal]

(***************************************************************************)
(* HVM configure and parseDeviceModelArgs.  A configuration is a record:   *)
(* xen_caps_hvm (xc.xeninfo()['xen_caps'] names hvm), device_model (set), *)
(* fda ("abs", "rel" or NoVal), vbd (the uname of the disk: "phy", "file" *)
(* or "missing", a file: uname whose file is absent), vifs (a sequence of *)
(* [type, mac]), the platform flags nographic, vnc, sdl and vncpasswd, vfb *)
(* (the vfb console device, or NoVal: [type, vncpasswd, other] where      *)
(* other says other_config holds further keys) and vncpasswd_default      *)
(* (xend-config's get_vncpasswd_default(): a value or NoVal for None).    *)
(* Command-line words, names, bridges and models are left out.            *)
(***************************************************************************)
PwVals == {"", "pw"}

HVMConfig ==
  [xen_caps_hvm : BOOLEAN, device_model : BOOLEAN, fda : {"abs", "rel", NoVal},
   vbd : {"phy", "file", "missing"},
   vifs : Seq([type : {"ioemu", "netfront"}, mac : BOOLEAN]),
   nographic : BOOLEAN, vnc : BOOLEAN, sdl : BOOLEAN,
   vncpasswd : PwVals \cup {Absent},
   vfb : {NoVal} \cup [type : {"vnc", "sdl", "bogus"},
                       vncpasswd : PwVals \cup {Absent}, other : BOOLEAN],
   vncpasswd_default : PwVals \cup {NoVal}]

(* The dmargs loop: a relative fda path raises.                            *)
floppyOK(c) == c.fda # "rel"

(* A file: disk whose image is not a file raises.                          *)
vbdOK(c) == c.vbd # "missing"

(* The vif loop: a non-ioemu vif is skipped before nics += 1; an ioemu vif *)
(* without a MAC raises; each ioemu vif gets nic and tap on vlan nics.    *)
ioemuVifs(c) == SelectSeq(c.vifs, LAMBDA v : v.type = "ioemu")

nicsOK(c) == \A i \in 1..Len(ioemuVifs(c)) : ioemuVifs(c)[i].mac

nicVlans(c) == [i \in 1..Len(ioemuVifs(c)) |-> i]

(* vnc_config: a vfb console's other_config, else (when it is empty) the   *)
(* platform's vnc keys; has_vnc is the platform flag or a vfb console.    *)
vncConfigPasswd(c) ==
  IF c.vfb # NoVal /\ (c.vfb.vncpasswd # Absent \/ c.vfb.other)
    THEN c.vfb.vncpasswd ELSE c.vncpasswd

has_vnc(c) == c.vnc \/ c.vfb # NoVal

(* "if not vncpasswd": None and '' both fall back to xend's default.       *)
vncpasswdInEffect(c) ==
  IF vncConfigPasswd(c) \in {Absent, ""} THEN c.vncpasswd_default
  ELSE vncConfigPasswd(c)

vncpasswdOKUnchecked(c) == TRUE

vncpasswdOK(c) == vncpasswdInEffect(c) # NoVal

display(c) ==
  CASE c.nographic -> "nographic"
    [] has_vnc(c)  -> "vnc"
    [] c.sdl       -> "sdl"
    [] OTHER       -> "nographic"

(* parseDeviceModelArgs: VmError, or the arguments; vncpasswd is what it   *)
(* stores with storeVm, or NoVal.                                          *)
parseDeviceModelArgs(c) ==
  IF ~floppyOK(c) \/ ~vbdOK(c) \/ ~nicsOK(c)
     \/ (display(c) = "vnc" /\ ~vncpasswdOK(c))
    THEN VmError
    ELSE [nics |-> nicVlans(c), display |-> display(c),
          vncpasswd |-> IF display(c) = "vnc" /\ vncpasswdInEffect(c) # ""
                          THEN vncpasswdInEffect(c) ELSE NoVal]

(***************************************************************************)
(* initDomain's image.create, then construct_image's createImage.          *)
(***************************************************************************)
VARIABLES
  vm,       \* the domain: arch.type, the image type and memory_KiB
  conf,     \* its vmConfig and xend-config inputs, a member of ConfigVals
  handler,  \* the handler class, the exception image.create raised, or NoVal
  dmargs,   \* the HVM handler's parsed device model arguments, or NoVal
  stored,   \* the vncpasswd written to the store with storeVm, or NoVal
  built,    \* what buildDomain passed to the builder, or NoVal
  devices,  \* create_devices: NoVal, "created" or VmError
  servers   \* the display processes spawned: qemu and the vfb backends

vars == <<vm, conf, handler, dmargs, stored, built, devices, servers>>

VMs == [arch : ArchVals, image_type : ImageTypeVals, target : TargetVals]

Init ==
  /\ vm \in VMs
  /\ conf \in ConfigVals
  /\ handler = NoVal
  /\ dmargs = NoVal
  /\ stored = NoVal
  /\ built = NoVal
  /\ devices = NoVal
  /\ servers = {}

(* image.create: the class lookup, then the constructor's configure.  HVM *)
(* configure raises HVMRequired when xen_caps lacks hvm, then parses the  *)
(* device model arguments (which may raise, and store vncpasswd), then    *)
(* raises VmError without a device model.                                  *)
Create ==
  /\ handler = NoVal
  /\ LET cls == findImageHandlerClass(vm.arch, vm.image_type)
         d   == parseDeviceModelArgs(conf) IN
     \/ cls \notin HVMClasses /\ handler' = cls /\ UNCHANGED <<dmargs, stored>>
     \/ /\ cls \in HVMClasses
        /\ ~conf.xen_caps_hvm
        /\ handler' = HVMRequired
        /\ UNCHANGED <<dmargs, stored>>
     \/ /\ cls \in HVMClasses /\ conf.xen_caps_hvm
        /\ d = VmError
        /\ handler' = VmError
        /\ UNCHANGED <<dmargs, stored>>
     \/ /\ cls \in HVMClasses /\ conf.xen_caps_hvm
        /\ d # VmError
        /\ dmargs' = d
        /\ stored' = d.vncpasswd
        /\ handler' = IF conf.device_model THEN cls ELSE VmError
  /\ UNCHANGED <<vm, conf, built, devices, servers>>

(* createImage -> createDomain -> buildDomain *)
CreateImage ==
  /\ handler \in Classes
  /\ built = NoVal
  /\ built' = buildDomain(handler, vm)
  /\ UNCHANGED <<vm, conf, handler, dmargs, stored, devices, servers>>

(* VfbifController.createDevice: the password is the device's vncpasswd  *)
(* key if present, else xend's default; None and '' store nothing.        *)
vfbPasswd(c) ==
  IF c.vfb.vncpasswd # Absent THEN c.vfb.vncpasswd ELSE c.vncpasswd_default

vfbType(c) == IF c.vfb = NoVal THEN NoVal ELSE c.vfb.type

(* create_devices: create_configured_devices (here the vfb console, whose *)
(* unknown type raises), then the image's createDeviceModel, which spawns *)
(* qemu for HVM.                                                            *)
CreateDevices ==
  /\ built # NoVal
  /\ devices = NoVal
  /\ \/ /\ vfbType(conf) = "bogus"
        /\ devices' = VmError
        /\ UNCHANGED <<stored, servers>>
     \/ /\ vfbType(conf) # "bogus"
        /\ LET fb == CASE vfbType(conf) = "vnc" -> {"xen-vncfb"}
                        [] vfbType(conf) = "sdl" -> {"xen-sdlfb"}
                        [] OTHER                 -> {}
               dm == IF handler \in HVMClasses THEN {"qemu"} ELSE {} IN
           /\ stored' = IF "xen-vncfb" \in fb /\ vfbPasswd(conf) \notin {NoVal, ""}
                          THEN vfbPasswd(conf) ELSE stored
           /\ servers' = fb \cup dm
           /\ devices' = "created"
  /\ UNCHANGED <<vm, conf, handler, dmargs, built>>

Next == Create \/ CreateImage \/ CreateDevices

Spec == Init /\ [][Next]_vars

(***************************************************************************)
(* Properties                                                              *)
(***************************************************************************)
TypeOK ==
  /\ vm \in VMs
  /\ conf \in HVMConfig
  /\ handler \in Classes \cup {NoVal, VmError, HVMRequired}
  /\ stored \in PwVals \cup {NoVal}
  /\ servers \subseteq {"qemu", "xen-vncfb", "xen-sdlfb"}
  /\ built = NoVal \/ built.memsize \in Nat

(* Spec: requiredMaximumReservation >= requiredAvailableMemory(memory      *)
(* target) for every architecture variant and every target > 0.           *)
MaxReservationCoversAvailable ==
  handler \in Classes =>
    getRequiredMaximumReservation(handler, vm)
      >= getRequiredAvailableMemory(handler, getMemoryTarget(vm))

(* A VNC server is never left open by accident: when the HVM device model *)
(* is spawned serving VNC, a password is in the store, unless the         *)
(* password in effect is the empty string, which parseDeviceModelArgs     *)
(* takes as asking for no authentication (None instead raises VmError).   *)
DeviceModelVncAuthenticated ==
  "qemu" \in servers /\ dmargs.display = "vnc" =>
    stored # NoVal \/ vncpasswdInEffect(conf) = ""

(* The same for the vfb backend: xen-vncfb serves VNC only with a stored  *)
(* password or an explicitly empty one.                                    *)
VfbVncAuthenticated ==
  "xen-vncfb" \in servers => stored # NoVal \/ vfbPasswd(conf) = ""

=============================================================================
