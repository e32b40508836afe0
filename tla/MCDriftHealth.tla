---------------------------- MODULE MCDriftHealth ----------------------------
(* Finite instances of DriftHealth.                                        *)
EXTENDS DriftHealth
=============================================================================
