------------------------------ MODULE MCAlerts ------------------------------
(***************************************************************************)
(* Model checking of the alert manager.                                    *)
(***************************************************************************)
EXTENDS AlertsProperties, TLC

\* Nodes are interchangeable: nothing in the code or the model compares two.
Symmetry == Permutations(Nodes)
=============================================================================
