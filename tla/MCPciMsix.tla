----------------------------- MODULE MCPciMsix -----------------------------
(* Pages of 64 bytes; a 128-byte memory BAR 0 at 128 and a second line    *)
(* that is short, an I/O range or a 64-byte memory BAR; two capability    *)
(* pointers in every arrangement, cycles included; message control with   *)
(* 1, 2 or 4 table entries, with and without the MSI-X enable bit (0x80 in *)
(* the high byte); table and PBA offsets with BIR 0 or 1, a table at page *)
(* offset 0, 8 or 56 of BAR 0 (56: a one-entry table crosses into page 3). *)
EXTENDS PciMsix

MCPtrs == {1, 2}
MCCapLists == [MCPtrs -> [id : {17, 5}, next : {0, 1, 2}]]
MCBar0 == [start |-> 128, size |-> 128, io |-> FALSE]
MCResources ==
  { <<MCBar0, NoVal>>,
    <<MCBar0, [start |-> 16, size |-> 8, io |-> TRUE]>>,
    <<MCBar0, [start |-> 320, size |-> 64, io |-> FALSE]>> }
MCMsix == [lo : {0, 1, 3}, hi : {0, 128}, toff : {0, 8, 56, 72, 1}, poff : {64, 120, 33}]
MCMsixDisabled == [lo : {0, 1, 3}, hi : {0}, toff : {0, 8, 56, 72, 1}, poff : {64, 120, 33}]
=============================================================================
