------------------------------ MODULE PciMsix ------------------------------
(***************************************************************************)
(* PciDevice.get_info_from_sysfs (util/pci.py): find_capability(0x11)     *)
(* walks the capability list of the device's config space for MSI-X and   *)
(* reads its message control word and table and PBA offsets; then each    *)
(* line of the resource file becomes an I/O port or memory range, and for *)
(* an MSI-X device remove_msix_iomem records the page-aligned ranges of   *)
(* the table and the PBA that fall in that BAR.                           *)
(*                                                                         *)
(* Config space: a capability pointer is a member of Ptrs, 0 ends the     *)
(* list; the bytes of the MSI-X capability are the record msixcap. The    *)
(* irq, driver and id files are reads without logic and are left out.     *)
(***************************************************************************)
EXTENDS Integers, Sequences, FiniteSets, Relation

CONSTANTS
  Ptrs,             \* capability pointers of the config space
  CapListVals,      \* capability lists: [Ptrs -> [id, next]]
  MsixVals,         \* MSI-X capability bodies: [lo, hi, toff, poff]
  ResourceVals,     \* resource files: sequences of lines, NoVal for a short line
  PAGE_SIZE,        \* resource.getpagesize()
  NoVal,
  Hang              \* what a find_capability that never returns yields

PCI_CAP_ID_MSIX == 17     \* find_capability(0x11)
MSIX_BIR_MASK == 7

(* x & PAGE_MASK, PAGE_MASK = ~(PAGE_SIZE - 1), for x >= 0 *)
PageDown(x) == x - (x % PAGE_SIZE)

(* t & MSIX_BIR_MASK and t & ~MSIX_BIR_MASK *)
BIRUnmasked(t) == t
BIR(t) == t % (MSIX_BIR_MASK + 1)
Offset(t) == t - BIR(t)

(***************************************************************************)
(* find_capability: while capa_pointer: read id and next; stop on a match. *)
(* Each pointer read is one of Ptrs, so a walk longer than Ptrs has met a  *)
(* pointer twice and loops for ever: Hang.                                 *)
(***************************************************************************)
RECURSIVE Walk(_, _, _)
Walk(caps, ptr, fuel) ==
  IF ptr = 0 THEN NoVal
  ELSE IF fuel = 0 THEN Hang
  ELSE IF caps[ptr].id = PCI_CAP_ID_MSIX THEN ptr
  ELSE Walk(caps, caps[ptr].next, fuel - 1)

find_capabilitySkipFirst(dev) ==
  IF ~ dev.status \/ dev.first = 0 THEN NoVal
  ELSE Walk(dev.caps, dev.caps[dev.first].next, Cardinality(Ptrs) + 1)

find_capability(dev) ==
  IF ~ dev.status THEN NoVal     \* status & PCI_STATUS_CAP_MASK
  ELSE Walk(dev.caps, dev.first, Cardinality(Ptrs) + 1)

(* self.msix_entries = message_cont_lo + message_cont_hi << 8, which      *)
(* Python parses as (lo + hi) << 8.                                        *)
msix_entries(m) == (m.lo + m.hi) * 2^8

(***************************************************************************)
(* remove_msix_iomem(index, start, size): the ranges it appends.           *)
(***************************************************************************)
remove_msix_iomem(d, index, start) ==
  LET ts == start + d.table_offset
      te == ts + d.msix_entries * 16
      ps == start + d.pba_offset
      pe == ps + d.msix_entries \div 8
  IN  (IF index = d.table_index
         THEN << <<PageDown(ts), PageDown(te + PAGE_SIZE) - PageDown(ts)>> >> ELSE << >>)
      \o (IF index = d.pba_index
         THEN << <<PageDown(ps), PageDown(pe + PAGE_SIZE) - PageDown(ps)>> >> ELSE << >>)

(***************************************************************************)
(* Reference definitions (PCI Local Bus specification, MSI-X capability): *)
(* the table has (control & 0x7FF) + 1 entries of 16 bytes; the PBA has   *)
(* one bit per entry in whole QWORDs; the low three bits of an offset     *)
(* register are the BIR, the rest the offset.                             *)
(***************************************************************************)
RefBIR(t) == t % 8
RefOffset(t) == t - RefBIR(t)
Control(m) == m.lo + m.hi * 2^8
TableSize(m) == (Control(m) % 2^11) + 1
PbaBytes(m) == ((TableSize(m) + 63) \div 64) * 8

(***************************************************************************)
(* get_info_from_sysfs                                                     *)
(***************************************************************************)
(* A device whose MSI-X table and PBA lie in a present memory BAR, as the *)
(* PCI specification requires; its capability list may still be malformed.*)
InBar(d, t, bytes) ==
  LET b == RefBIR(t) IN
  /\ b < Len(d.resources)
  /\ d.resources[b + 1] # NoVal
  /\ ~ d.resources[b + 1].io
  /\ RefOffset(t) + bytes <= d.resources[b + 1].size

WellFormed(d) ==
  /\ InBar(d, d.msixcap.toff, 16 * TableSize(d.msixcap))
  /\ InBar(d, d.msixcap.poff, PbaBytes(d.msixcap))

Devices ==
  {d \in [status : BOOLEAN, first : Ptrs \cup {0}, caps : CapListVals,
          msixcap : MsixVals, resources : ResourceVals] : WellFormed(d)}

VARIABLES
  dev,        \* the device's sysfs files
  pc,         \* "find", "read", "done", or "hang" (find_capability never returns)
  i,          \* the resource line being read
  msix,       \* self.msix and the fields find_capability sets:
  fields,     \* msix_entries, table_offset/index, pba_offset/index
  iomem, ioports, msix_iomem

vars == <<dev, pc, i, msix, fields, iomem, ioports, msix_iomem>>

Init ==
  /\ dev \in Devices
  /\ pc = "find"
  /\ i = 0
  /\ msix = 0
  /\ fields = NoVal
  /\ iomem = << >> /\ ioports = << >> /\ msix_iomem = << >>

FindCapability ==
  /\ pc = "find"
  /\ LET p == find_capability(dev)
         m == dev.msixcap
     IN  \/ /\ p = Hang
            /\ pc' = "hang"
            /\ UNCHANGED <<msix, fields>>
         \/ /\ p = NoVal
            /\ pc' = "read"
            /\ UNCHANGED <<msix, fields>>
         \/ /\ p \in Ptrs
            /\ pc' = "read"
            /\ msix' = 1
            /\ fields' = [msix_entries |-> msix_entries(m),
                          table_offset |-> Offset(m.toff), table_index |-> BIR(m.toff),
                          pba_offset |-> Offset(m.poff), pba_index |-> BIR(m.poff)]
  /\ UNCHANGED <<dev, i, iomem, ioports, msix_iomem>>

(* One line of the resource file: start, end, flags. *)
ReadResource ==
  /\ pc = "read"
  /\ LET line == dev.resources[i + 1] IN
     IF line = NoVal \/ line.start = 0
       THEN UNCHANGED <<iomem, ioports, msix_iomem>>
       ELSE /\ IF line.io
                 THEN /\ ioports' = Append(ioports, <<line.start, line.size>>)
                      /\ UNCHANGED iomem
                 ELSE /\ iomem' = Append(iomem, <<line.start, line.size>>)
                      /\ UNCHANGED ioports
            /\ msix_iomem' = IF msix = 1
                               THEN msix_iomem \o remove_msix_iomem(fields, i, line.start)
                               ELSE msix_iomem
  /\ i' = i + 1
  /\ pc' = IF i + 1 = Len(dev.resources) THEN "done" ELSE "read"
  /\ UNCHANGED <<dev, msix, fields>>

Next == FindCapability \/ ReadResource

Spec == Init /\ [][Next]_vars

(* The BAR a BIR names, when that resource line is a present range. *)
Bar(bir) ==
  IF bir < Len(dev.resources) /\ dev.resources[bir + 1] # NoVal
       /\ dev.resources[bir + 1].start # 0
    THEN dev.resources[bir + 1] ELSE NoVal

Covered(lo, hi) ==
  \A a \in lo..(hi - 1) :
    \E k \in 1..Len(msix_iomem) :
      msix_iomem[k][1] <= a /\ a < msix_iomem[k][1] + msix_iomem[k][2]

MsixFound == pc = "done" /\ msix = 1

(***************************************************************************)
(* Properties                                                              *)
(***************************************************************************)
TypeOK ==
  /\ dev \in Devices
  /\ pc \in {"find", "read", "done", "hang"}
  /\ fields = NoVal \/ (fields.table_index \in 0..MSIX_BIR_MASK
                        /\ fields.pba_index \in 0..MSIX_BIR_MASK)
  /\ \A k \in 1..Len(msix_iomem) : msix_iomem[k][2] \in Nat

(* Spec: the MSI-X table and PBA sub-ranges are excluded, page aligned:  *)
(* the ranges remove_msix_iomem records cover the whole vector table and  *)
(* the whole pending bit array, each in the BAR its BIR names.            *)
MsixRangesCovered ==
  LET m == dev.msixcap
      Region(t, bytes) ==
        Bar(RefBIR(t)) # NoVal =>
          LET s == Bar(RefBIR(t)).start + RefOffset(t) IN Covered(s, s + bytes)
  IN  MsixFound => Region(m.toff, 16 * TableSize(m)) /\ Region(m.poff, PbaBytes(m))

(* Reference: the capabilities reachable from the capability pointer by  *)
(* following next pointers (0 ends the list).                             *)
Reach(d) ==
  LET R == [x, y \in Ptrs |-> d.caps[x].next = y]
      RT == ReflexiveTransitiveClosure(R, Ptrs)
  IN  {p \in Ptrs : d.first \in Ptrs /\ RT[d.first, p]}

(* find_capability's walk, which reads a cyclic list until it meets the  *)
(* MSI-X capability, stops with self.msix = 1 exactly when the device    *)
(* reports a capability list and an MSI-X capability is reachable in it; *)
(* and when msix is set, the fields are read from that capability.        *)
MsixCapabilityFound ==
  pc \in {"read", "done"} =>
    /\ msix = 1 <=> (dev.status /\ \E p \in Reach(dev) : dev.caps[p].id = PCI_CAP_ID_MSIX)
    /\ msix = 1 => fields.table_index = RefBIR(dev.msixcap.toff)

(* remove_msix_iomem is handed the BAR's size: every range it records    *)
(* lies within the pages of a BAR of the device (spec: sub-ranges of the   *)
(* device's memory-mapped range).                                          *)
MsixWithinBar ==
  \A k \in 1..Len(msix_iomem) :
    \E b \in 1..Len(dev.resources) :
      /\ dev.resources[b] # NoVal
      /\ PageDown(dev.resources[b].start) <= msix_iomem[k][1]
      /\ msix_iomem[k][1] + msix_iomem[k][2]
           <= PageDown(dev.resources[b].start + dev.resources[b].size + PAGE_SIZE - 1)

(* Reading a device's descriptor terminates: a malformed config space is  *)
(* surfaced as a descriptor error (spec), not a hang.                     *)
FindCapabilityTerminates == pc # "hang"

=============================================================================
