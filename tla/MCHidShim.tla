----------------------------- MODULE MCHidShim -----------------------------
(* HidShim for TLC: devices are model values and interchangeable.          *)
EXTENDS HidShim, TLC

DevSymmetry == Permutations(Devs)
=============================================================================
