-------------------------- MODULE MCNonceSequencer --------------------------
(* Model-checking instance of NonceSequencer. *)
EXTENDS NonceSequencer
=============================================================================
