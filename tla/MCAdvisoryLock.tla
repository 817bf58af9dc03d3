--------------------------- MODULE MCAdvisoryLock ---------------------------
(* Model-checking instance of AdvisoryLock. *)
EXTENDS AdvisoryLock
=============================================================================
