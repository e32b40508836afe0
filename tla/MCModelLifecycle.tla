------------------------- MODULE MCModelLifecycle -------------------------
(* Finite instances of ModelLifecycle.                                     *)
EXTENDS ModelLifecycle

CONSTANTS r1, r2, s1
=============================================================================
