------------------------------- MODULE Config -------------------------------
(***************************************************************************)
(* Configuration handling of XendDomainInfo.create: parseConfig turns the  *)
(* sxp configuration into the info dictionary, validateInfo (run by the    *)
(* constructor) fills in defaults, reconciles the MiB and KiB memory       *)
(* settings and rejects invalid ones; getBackendFlags aggregates the       *)
(* backend flags of the registry built by addControllerClass.              *)
(*                                                                         *)
(* A dictionary is a record; a key that is absent or None is NoVal, as     *)
(* infoIsSet treats both alike. An exception is the string naming it.     *)
(***************************************************************************)
EXTENDS Integers, Sequences, SequencesExt, Bitwise

CONSTANTS
  NameVals,     \* names: "good" passes check_name's charset, "bad" does not
  MiBVals,      \* values of memory and maxmem (MiB), NoVal when absent
  KiBVals,      \* values of mem_kb and maxmem_kb (KiB), NoVal when absent
  RestartVals,  \* values of the deprecated restart option
  PolicyVals,   \* values of on_poweroff, on_reboot, on_crash
  VcpuVals,     \* vcpus of the image
  BackendVals,  \* backend names a configuration may list
  DeviceVals,   \* device class names a configuration may list
  MaxList,      \* longest backend or device list
  NoVal,
  VmError,      \* the exceptions, as model values
  TypeError

Errors == {VmError, TypeError}

(* restart_modes *)
Modes == {"restart", "destroy", "preserve", "rename-restart"}

(* The registry built by the addControllerClass calls at import time:      *)
(* backend name -> SIF_*_BE_DOMAIN flag or None, and the device classes.   *)
backendFlags == [blkif |-> 2^4, netif |-> 2^5, tpmif |-> 2^7,
                 pciif |-> NoVal, usbif |-> NoVal]
controllerClasses == {"vbd", "vif", "vtpm", "pci", "usb"}

Events == <<"on_poweroff", "on_reboot", "on_crash">>

(* The deprecated restart option: onreboot, always, never.                 *)
RestartTable ==
  [onreboot |-> [on_poweroff |-> "destroy", on_reboot |-> "restart", on_crash |-> "destroy"],
   always   |-> [on_poweroff |-> "restart", on_reboot |-> "restart", on_crash |-> "restart"],
   never    |-> [on_poweroff |-> "destroy", on_reboot |-> "destroy", on_crash |-> "destroy"]]

Lists(S) == UNION {[1..n -> S] : n \in 0..MaxList}

Configs ==
  [name : NameVals \cup {NoVal}, memory : MiBVals \cup {NoVal}, mem_kb : KiBVals \cup {NoVal},
   maxmem : MiBVals \cup {NoVal}, maxmem_kb : KiBVals \cup {NoVal},
   image : BOOLEAN, vcpus : VcpuVals, restart : RestartVals \cup {NoVal},
   on_poweroff : PolicyVals \cup {NoVal}, on_reboot : PolicyVals \cup {NoVal},
   on_crash : PolicyVals \cup {NoVal},
   backend : Lists(BackendVals), device : Lists(DeviceVals)]

(***************************************************************************)
(* parseConfig                                                             *)
(***************************************************************************)

(* handle_restart: only sets the event if result has no such key.         *)
handle_restart(result, event, val) ==
  IF event \in DOMAIN result THEN result
  ELSE [k \in DOMAIN result \cup {event} |-> IF k = event THEN val ELSE result[k]]

(* Every ROUNDTRIPPING_CONFIG_ENTRIES key is assigned, None when absent;   *)
(* vcpus comes from the image, 1 without one; then the restart option.    *)
parseConfig(c) ==
  LET result == [name |-> c.name, on_poweroff |-> c.on_poweroff,
                 on_reboot |-> c.on_reboot, on_crash |-> c.on_crash,
                 memory |-> c.memory, mem_kb |-> c.mem_kb,
                 maxmem |-> c.maxmem, maxmem_kb |-> c.maxmem_kb,
                 image |-> c.image, vcpus |-> IF c.image THEN c.vcpus ELSE 1,
                 backend |-> c.backend, device |-> c.device]
  IN  IF c.restart \in DOMAIN RestartTable
        THEN FoldLeft(LAMBDA r, e : handle_restart(r, e, RestartTable[c.restart][e]),
                      result, Events)
        ELSE result

(***************************************************************************)
(* validateInfo, for the object create() builds (domid None).             *)
(***************************************************************************)
IsSet(v) == v # NoVal

(* discard_negatives *)
NonNeg(v) == IF IsSet(v) /\ v < 0 THEN NoVal ELSE v

valid_KiB_NoCheck(mb0, kb0) ==
  LET mb == NonNeg(mb0)
      kb == NonNeg(kb0)
  IN  IF IsSet(kb) THEN kb ELSE IF IsSet(mb) THEN mb * 1024 ELSE NoVal

valid_KiB_(mb0, kb0) ==
  LET mb == NonNeg(mb0)
      kb == NonNeg(kb0)
  IN  IF IsSet(kb)
        THEN IF ~ IsSet(mb) THEN kb
             ELSE IF mb * 1024 = kb THEN kb ELSE VmError
        ELSE IF IsSet(mb) THEN mb * 1024 ELSE NoVal

valid_KiB(mb, kb) ==
  LET r == valid_KiB_(mb, kb) IN
  IF r = NoVal THEN VmError ELSE r

(* maxmem_KiB: unset or 0 means 1 << 30, then capped at memory_KiB.        *)
maxmem_KiBUncapped(given, mem) ==
  IF given = NoVal \/ given = 0 THEN 2^30 ELSE given

maxmem_KiB(given, mem) ==
  LET m == IF given = NoVal \/ given = 0 THEN 2^30 ELSE given IN
  IF m > mem THEN mem ELSE m

(* defaultInfo for the restart events *)
DefaultEvent == [on_poweroff |-> "destroy", on_reboot |-> "restart", on_crash |-> "restart"]
Event(info, e) == IF IsSet(info[e]) THEN info[e] ELSE DefaultEvent[e]

DeviceOK(n) == n \in controllerClasses

(* The loop over the restart events: each resolves to a restart mode.     *)
ValidEventsOnlyTwo(info) == \A i \in 1..2 : Event(info, Events[i]) \in Modes
ValidEvents(info) == \A i \in 1..3 : Event(info, Events[i]) \in Modes

(* The checks in the order the code makes them; the first that fails     *)
(* raises.                                                                 *)
validateInfo(info) ==
  LET mem == valid_KiB(info.memory, info.mem_kb)
      max == valid_KiB_(info.maxmem, info.maxmem_kb)
  IN
  IF ~ IsSet(info.name) THEN TypeError        \* "Domain-%d" % None
  ELSE IF info.name # "good" THEN VmError     \* check_name
  ELSE IF mem \in Errors THEN mem
  ELSE IF max \in Errors THEN max
  ELSE IF \E i \in DOMAIN info.backend : info.backend[i] \notin DOMAIN backendFlags
    THEN VmError
  ELSE IF \E i \in DOMAIN info.device : ~ DeviceOK(info.device[i]) THEN VmError
  ELSE IF ~ ValidEvents(info) THEN VmError
  ELSE [name |-> info.name,
        on_poweroff |-> Event(info, "on_poweroff"), on_reboot |-> Event(info, "on_reboot"),
        on_crash |-> Event(info, "on_crash"),
        memory_KiB |-> mem, maxmem_KiB |-> maxmem_KiB(max, mem),
        image |-> info.image, vcpus |-> info.vcpus,
        backend |-> info.backend, device |-> info.device,
        cpumap |-> <<1>>]                       \* [vcpus == 1] is a non-empty list

(* getBackendFlags: reduce(lambda x, y: x | backendFlags[y], backend, 0);  *)
(* a None flag makes the | raise TypeError.                                *)
getBackendFlags(info) ==
  FoldLeft(LAMBDA x, y : IF x = TypeError \/ backendFlags[y] = NoVal THEN TypeError
                         ELSE x | backendFlags[y],
           0, info.backend)

(***************************************************************************)
(* sxpr: the configuration restart() hands domain_create.  It writes      *)
(* memory and maxmem in MiB (Python 2 integer division), the              *)
(* ROUNDTRIPPING_CONFIG_ENTRIES that are set, the image (which carries    *)
(* vcpus) and the devices; no backend and no restart option.              *)
(***************************************************************************)
sxprBothUnits(r) ==
  [name |-> r.name, memory |-> r.memory_KiB \div 1024, mem_kb |-> r.memory_KiB,
   maxmem |-> r.maxmem_KiB \div 1024, maxmem_kb |-> NoVal,
   image |-> r.image, vcpus |-> r.vcpus, restart |-> NoVal,
   on_poweroff |-> r.on_poweroff, on_reboot |-> r.on_reboot, on_crash |-> r.on_crash,
   backend |-> <<>>, device |-> r.device]

sxpr(r) ==
  [name |-> r.name, memory |-> r.memory_KiB \div 1024, mem_kb |-> NoVal,
   maxmem |-> r.maxmem_KiB \div 1024, maxmem_kb |-> NoVal,
   image |-> r.image, vcpus |-> r.vcpus, restart |-> NoVal,
   on_poweroff |-> r.on_poweroff, on_reboot |-> r.on_reboot, on_crash |-> r.on_crash,
   backend |-> <<>>, device |-> r.device]

(***************************************************************************)
(* create(config): parseConfig, then the constructor's validateInfo; then  *)
(* a caller may ask the object for its backend flags.                     *)
(***************************************************************************)
VARIABLES
  config,  \* the configuration given to create
  info,    \* the dictionary parseConfig returned, or NoVal
  result,  \* the validated info, the exception validateInfo raised, or NoVal
  flags,   \* what getBackendFlags returned or raised, or NoVal
  restarted \* the validated info of the domain restart() created, or NoVal

vars == <<config, info, result, flags, restarted>>

Init ==
  /\ config \in Configs
  /\ info = NoVal
  /\ result = NoVal
  /\ flags = NoVal
  /\ restarted = NoVal

ParseConfig ==
  /\ info = NoVal
  /\ info' = parseConfig(config)
  /\ UNCHANGED <<config, result, flags, restarted>>

ValidateInfo ==
  /\ info # NoVal
  /\ result = NoVal
  /\ result' = validateInfo(info)
  /\ UNCHANGED <<config, info, flags, restarted>>

Accepted == result # NoVal /\ result \notin Errors

GetBackendFlags ==
  /\ Accepted
  /\ flags = NoVal
  /\ flags' = getBackendFlags(result)
  /\ UNCHANGED <<config, info, result, restarted>>

(* restart(): config = self.sxpr(), then domain_create(config), whose     *)
(* create() runs parseConfig and the constructor's validateInfo on it.    *)
RestartConfig ==
  /\ Accepted
  /\ restarted = NoVal
  /\ restarted' = validateInfo(parseConfig(sxpr(result)))
  /\ UNCHANGED <<config, info, result, flags>>

Next == ParseConfig \/ ValidateInfo \/ GetBackendFlags \/ RestartConfig

Spec == Init /\ [][Next]_vars

(***************************************************************************)
(* Properties, against reference definitions taken from the spec.         *)
(***************************************************************************)
Infos ==
  [name : NameVals, on_poweroff : Modes, on_reboot : Modes, on_crash : Modes,
   memory_KiB : Nat, maxmem_KiB : Nat, image : BOOLEAN, vcpus : VcpuVals \cup {1},
   backend : Lists(DOMAIN backendFlags), device : Lists(controllerClasses),
   cpumap : Seq(Nat)]

TypeOK ==
  /\ config \in Configs
  /\ info = NoVal \/ info.name = config.name
  /\ result \in Infos \cup Errors \cup {NoVal}
  /\ flags \in Nat \cup {TypeError, NoVal}
  /\ restarted \in Infos \cup Errors \cup {NoVal}

(* A MiB and a KiB setting given together (and not negative) agree.       *)
Given(v) == v # NoVal /\ v >= 0
Consistent(mb, kb) == Given(mb) /\ Given(kb) => mb * 1024 = kb
(* The KiB a consistent pair stands for, NoVal if neither is given.       *)
RefKiB(mb, kb) == IF Given(kb) THEN kb ELSE IF Given(mb) THEN mb * 1024 ELSE NoVal

(* validateInfo reconciles the memory settings: an accepted configuration  *)
(* has memory_KiB = 1024 * memory and = mem_kb for what was given, and a   *)
(* configuration with an inconsistent memory or maxmem pair, or with no    *)
(* memory at all, is rejected.                                             *)
MemoryUnits ==
  result # NoVal =>
    /\ Accepted => /\ Given(config.memory) => result.memory_KiB = 1024 * config.memory
                   /\ Given(config.mem_kb) => result.memory_KiB = config.mem_kb
    /\ (\/ ~ Consistent(config.memory, config.mem_kb)
        \/ ~ Consistent(config.maxmem, config.maxmem_kb)
        \/ RefKiB(config.memory, config.mem_kb) = NoVal) => result \in Errors

(* maxmem_KiB never exceeds memory_KiB, and resolves to                    *)
(* min(1 << 30, memory_KiB) when maxmem is not given (or 0).              *)
MaxMemResolved ==
  Accepted =>
    LET given == RefKiB(config.maxmem, config.maxmem_kb)
        want  == IF given = NoVal \/ given = 0 THEN 2^30 ELSE given
    IN  result.maxmem_KiB = Min({want, result.memory_KiB})

(* The deprecated restart option applies to every event the configuration  *)
(* does not set (parseConfig: "let on_xyz override it if they are          *)
(* present").                                                              *)
DeprecatedRestartHonoured ==
  (Accepted /\ config.restart \in DOMAIN RestartTable) =>
    \A i \in 1..3 :
      LET e == Events[i] IN
      config[e] = NoVal => result[e] = RestartTable[config.restart][e]

(* The backend flags word is the OR of the flags of the listed backends,   *)
(* a backend without a flag contributing 0 (spec, device framework).       *)
FlagOf(b) == IF backendFlags[b] = NoVal THEN 0 ELSE backendFlags[b]
BackendFlagsOr ==
  flags # NoVal => flags = SumSet({FlagOf(b) : b \in Range(result.backend)})

(* restart() never fails on the configuration it wrote itself: what sxpr  *)
(* makes of an accepted domain passes parseConfig and validateInfo again. *)
RestartRevalidates ==
  restarted # NoVal => restarted \notin Errors

(* The configuration record round-trips: the domain restart() creates has *)
(* the validated configuration of the one it replaces (spec: the record,  *)
(* memory_KiB and the backend list included, round-trips through the      *)
(* store and save/restore; restart uses the last-known configuration).    *)
ConfigSurvivesRestart ==
  restarted # NoVal /\ restarted \notin Errors => restarted = result

=============================================================================
