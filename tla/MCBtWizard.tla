---------------------------- MODULE MCBtWizard ----------------------------
(* Instances of BtWizard for TLC.                                          *)
EXTENDS BtWizard, TLC

(* At rest, Cross, d-pad UP, and the 0x81 of a centred stick.              *)
MCKeycode == 8 :> 18 @@ 40 :> 14 @@ 129 :> 37
=============================================================================
