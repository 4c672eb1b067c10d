---------------------------- MODULE MCBleClient ----------------------------
(***************************************************************************)
(* Small instances of BleClient.  Two gatt objects let a callback of the   *)
(* old one run while the new one connects; they are interchangeable, and   *)
(* so symmetric in the run that checks invariants only.                    *)
(***************************************************************************)
EXTENDS BleClient, TLC

ConnSymmetry == Permutations(Conns)
=============================================================================
