----------------------------- MODULE MCPadkeys -----------------------------
(* Instances of Padkeys for TLC: a pad with a stick and a button that is   *)
(* Enter, and a DualShock 4, whose Cross is Enter as well.                 *)
EXTENDS Padkeys, TLC
CONSTANTS pad, ds4

MCUsbPads   == {pad}
MCAxes      == pad :> {"X"}
MCLo        == "X" :> 0 @@ "HAT0X" :> -1
MCHi        == "X" :> 255 @@ "HAT0X" :> 1
MCPositions == "X" :> {0, 127, 255} @@ "HAT0X" :> {-1, 0, 1}
MCButtons   == pad :> {305}
MCKeyOf     == 305 :> "enter"
MCBtPads    == {ds4}
MCWeight    == "low" :> 127 @@ "high" :> 128
MCByte0s    == {{"low"}, {"low", "high"}}
MCButtonBytes == {0, 8, 50}         \* up, released, and Square and Cross held on the right
MCRoom      == pad :> 1 @@ ds4 :> 3
MCStickBytes  == {127, 129}         \* 0x81 looks like Triangle held up and right
(* 0x31 and 0x32 have one keycode, and 0x00 has none.                      *)
MCKeycode   == 0 :> 0 @@ 8 :> 18 @@ 49 :> 43 @@ 50 :> 43
               @@ 127 :> 113 @@ 129 :> 114
=============================================================================
