--------------------------- MODULE MCMeasurements ---------------------------
(* Instances of Measurements for TLC. *)
EXTENDS Measurements

MCFewBags == [Samples -> 0 .. 1]
=============================================================================
