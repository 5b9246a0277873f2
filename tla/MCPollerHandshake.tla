------------------------- MODULE MCPollerHandshake --------------------------
(* PollerHandshake on a small instance: see the .cfg file.                   *)
EXTENDS PollerHandshake
=============================================================================
