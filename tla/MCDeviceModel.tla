--------------------------- MODULE MCDeviceModel ---------------------------
(* Two configured devices of different classes, so that t.list of each    *)
(* class returns an entry; the classes are those addControllerClass       *)
(* registers, which validateInfo requires of every configured device.     *)
EXTENDS DeviceModel

MCDevIds == {<<"vbd", 768>>, <<"vif", 0>>}
MCControllerClasses == {"vbd", "vif", "vtpm", "pci", "usb"}
=============================================================================
