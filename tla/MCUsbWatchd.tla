---------------------------- MODULE MCUsbWatchd ----------------------------
(* Instances of UsbWatchd for TLC.                                         *)
EXTENDS UsbWatchd

\* What the panel sends, and a command that only a program could send.
MostCmds    == {"power-on", "power-off", "mount", "unmount", "reset", "otg-peripheral"}
StorageCmds == {"mount", "unmount", "reset"}
OneWord     == {"refresh"}

OneDrive  == {"/dev/sda1"}
=============================================================================
