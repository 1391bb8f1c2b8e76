--------------------------- MODULE MCImageMemory ---------------------------
(* Every architecture, a known and an unknown image type, and targets that *)
(* are and are not whole MiB, from one KiB to 128 MiB.                     *)
EXTENDS ImageMemory

MCArch == {"x86", "ia64", "powerpc"}
MCImageType == {"linux", "hvm", "bogus"}
MCTarget == {1, 1536, 2048, 4096, 131072}

(* HVM configurations: one that passes every early check and one that     *)
(* fails each of them; vifs with none, a skipped netfront before an       *)
(* ioemu vif, and an ioemu vif without a MAC; every display flag, every   *)
(* platform and default password, and vfb consoles of each kind, with and *)
(* without their own password.                                             *)
MCChecks ==
  {[xen_caps_hvm |-> TRUE,  device_model |-> TRUE,  fda |-> "abs", vbd |-> "file"],
   [xen_caps_hvm |-> FALSE, device_model |-> TRUE,  fda |-> NoVal, vbd |-> "phy"],
   [xen_caps_hvm |-> TRUE,  device_model |-> FALSE, fda |-> NoVal, vbd |-> "phy"],
   [xen_caps_hvm |-> TRUE,  device_model |-> TRUE,  fda |-> "rel", vbd |-> "phy"],
   [xen_caps_hvm |-> TRUE,  device_model |-> TRUE,  fda |-> NoVal, vbd |-> "missing"]}

MCVifs ==
  {<<>>,
   <<[type |-> "netfront", mac |-> FALSE], [type |-> "ioemu", mac |-> TRUE]>>,
   <<[type |-> "ioemu", mac |-> FALSE]>>}

MCVfb ==
  {NoVal,
   [type |-> "vnc", vncpasswd |-> Absent, other |-> FALSE],
   [type |-> "vnc", vncpasswd |-> "pw", other |-> FALSE],
   [type |-> "sdl", vncpasswd |-> Absent, other |-> TRUE],
   [type |-> "bogus", vncpasswd |-> Absent, other |-> FALSE]}

MCConfig ==
  {[xen_caps_hvm |-> k.xen_caps_hvm, device_model |-> k.device_model,
    fda |-> k.fda, vbd |-> k.vbd, vifs |-> v,
    nographic |-> g[1], vnc |-> g[2], sdl |-> g[3],
    vncpasswd |-> p, vfb |-> f, vncpasswd_default |-> dp] :
     k \in MCChecks, v \in MCVifs, g \in BOOLEAN \X BOOLEAN \X BOOLEAN,
     p \in PwVals \cup {Absent}, f \in MCVfb, dp \in PwVals \cup {NoVal}}
=============================================================================
