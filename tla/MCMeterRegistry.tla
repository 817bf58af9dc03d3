--------------------------- MODULE MCMeterRegistry ---------------------------
(* Model-checking instance of MeterRegistry: any two meters share a bit of   *)
(* the filter, and together they cover the bits of the third.                *)
EXTENDS MeterRegistry

CONSTANTS m1, m2, m3

MCMeters == {m1, m2, m3}
MCIndices == [m \in MCMeters |->
                CASE m = m1 -> {1, 2} [] m = m2 -> {2, 3} [] m = m3 -> {1, 3}]
=============================================================================
