--------------------------- MODULE MCRdescLadder ---------------------------
(* Instances of RdescLadder for TLC: two gamepads and two keyboards, one   *)
(* of each with garbled bytes that may parse.                              *)
EXTENDS RdescLadder
CONSTANTS ds4, pad, kbd, odd

MCDevs == {ds4, pad, kbd, odd}
MCPads == {ds4, pad}
MCBuiltinDevs == {ds4}
MCDeceptive == {ds4, odd}
=============================================================================
