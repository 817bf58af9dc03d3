------------------------------ MODULE MCTxState ------------------------------
(* Model-checking instance of TxState. *)
EXTENDS TxState
=============================================================================
