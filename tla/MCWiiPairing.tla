---------------------------- MODULE MCWiiPairing ----------------------------
(* Instances of WiiPairing for TLC.                                        *)
EXTENDS WiiPairing
CONSTANTS w1, w2, pad

MCWiis   == {w1, w2}
MCOthers == {pad}
MCNoOthers == {}
=============================================================================
