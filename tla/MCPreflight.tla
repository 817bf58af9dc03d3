----------------------------- MODULE MCPreflight -----------------------------
(* Model-checking instance of Preflight: simulations that need far less, and *)
(* far more, instructions than the first leeway allows for.                  *)
EXTENDS Preflight

MCResults == {[instructions |-> 31, fee |-> 50],
              [instructions |-> 15000001, fee |-> 7]}
=============================================================================
