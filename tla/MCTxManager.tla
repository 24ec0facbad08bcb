----------------------------- MODULE MCTxManager -----------------------------
(* Small instances of TxManager for TLC. *)
EXTENDS TxManager
=============================================================================
