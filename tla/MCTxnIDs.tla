------------------------------ MODULE MCTxnIDs ------------------------------
(* Instances of TxnIDs for TLC. *)
EXTENDS TxnIDs
============================================================================
