---------------------------- MODULE MCUsbdevmon ----------------------------
(* Instances of Usbdevmon for TLC.                                         *)
EXTENDS Usbdevmon
=============================================================================
