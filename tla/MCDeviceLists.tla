---------------------------- MODULE MCDeviceLists ----------------------------
(* One user whose devices change, and one kind of keys.  Exploration stops    *)
(* where data is known to be lost.                                            *)
EXTENDS DeviceLists, TLC

CONSTANTS b1, b2

BodySymmetry == Permutations({b1, b2})

UntilLoss == ~lossy
=============================================================================
