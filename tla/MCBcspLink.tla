----------------------------- MODULE MCBcspLink -----------------------------
(* Instances of BcspLink for TLC.                                          *)
EXTENDS BcspLink
=============================================================================
