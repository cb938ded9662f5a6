-------------------------- MODULE MCUsbMonitorLinux --------------------------
(***************************************************************************)
(* Disks for UsbMonitorLinux: a stick with a serial number, a stick with   *)
(* neither serial number nor WWN, a drive with a WWN only, and a built-in  *)
(* disk the monitor does not list.                                         *)
(***************************************************************************)
EXTENDS UsbMonitorLinux

CONSTANTS stick, plain, drive, internal, sn1, wwn1

Serials == [d \in Disks |-> IF d = stick THEN sn1 ELSE NoId]
Wwns == [d \in Disks |-> IF d = drive THEN wwn1 ELSE NoId]
=============================================================================
