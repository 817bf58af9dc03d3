---------------------------- MODULE MCTokenBucket ----------------------------
(* Model-checking instance of TokenBucket. *)
EXTENDS TokenBucket
=============================================================================
