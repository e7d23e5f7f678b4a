---------------------------- MODULE MCThresholds ----------------------------
(***************************************************************************)
(* Model checking of the health evaluation over bounded readings.          *)
(***************************************************************************)
EXTENDS Thresholds

\* Limits below, at and inside the range of the readings.
MCLimit == [cpu |-> 1, memory |-> 2, disk |-> 1, temperature |-> 1]
=============================================================================
