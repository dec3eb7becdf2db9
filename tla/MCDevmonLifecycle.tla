------------------------- MODULE MCDevmonLifecycle -------------------------
(* Instances of DevmonLifecycle for TLC.                                   *)
EXTENDS DevmonLifecycle
CONSTANTS p1, p2

MCPids == {p1, p2}
=============================================================================
