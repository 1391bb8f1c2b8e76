------------------------- MODULE MCDomainLifecycle -------------------------
(* Instantiation of DomainLifecycle for TLC.                               *)
EXTENDS DomainLifecycle

(* Four configurations that between them  give every event every mode    *)
(* except on_crash = rename-restart (see the crashed_rename run).          *)
PassPolicies ==
  { [poweroff |-> "rename-restart", reboot |-> "restart",        crash |-> "preserve"],
    [poweroff |-> "destroy",        reboot |-> "rename-restart", crash |-> "restart"],
    [poweroff |-> "preserve",       reboot |-> "destroy",        crash |-> "destroy"],
    [poweroff |-> "restart",        reboot |-> "preserve",       crash |-> "destroy"] }

(* Policies that preserve and restart the domain on poweroff or reboot.    *)
RenamePolicies ==
  {[poweroff |-> "rename-restart", reboot |-> "restart", crash |-> "destroy"]}

(* on_crash = rename-restart.                                              *)
CrashRenamePolicies ==
  {[poweroff |-> "destroy", reboot |-> "restart", crash |-> "rename-restart"]}

AllCodes == {"poweroff", "reboot", "suspend", "other"}
=============================================================================
