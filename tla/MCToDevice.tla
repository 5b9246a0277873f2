----------------------------- MODULE MCToDevice -----------------------------
(* Instances of ToDevice for TLC. *)
EXTENDS ToDevice
============================================================================
