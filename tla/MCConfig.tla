------------------------------ MODULE MCConfig ------------------------------
(* Small value sets for Config: a negative, a consistent and an            *)
(* inconsistent MiB/KiB pair, and a KiB value that is not a whole MiB;     *)
(* a valid and an invalid name, restart option, policy, backend and        *)
(* device class.                                                           *)
EXTENDS Config

MCMiB == {-1, 1, 2}
MCKiB == {1024, 1536}
MCNames == {"good", "bad"}
MCRestart == {"always", "bogus"}
MCPolicy == {"preserve", "bogus"}
MCVcpus == {2}
MCBackendPass == {"netif", "bogus"}
MCBackendFlags == {"blkif", "netif", "pciif"}
MCNoBackend == {}
MCDevice == {"vbd", "bogus"}
MCDeviceOne == {"vbd"}
MCNoRestartPolicy == {"preserve"}
=============================================================================
