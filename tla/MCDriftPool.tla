----------------------------- MODULE MCDriftPool -----------------------------
(* Model-checking instances of DriftPool.  Requests are interchangeable, and *)
(* so are meters; the liveness run uses no symmetry.                         *)
EXTENDS DriftPool, TLC

MCSymmetry == Permutations(Requests) \cup Permutations(Meters)
=============================================================================
