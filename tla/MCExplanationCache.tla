------------------------- MODULE MCExplanationCache -------------------------
(* Finite instances of ExplanationCache.                                   *)
EXTENDS ExplanationCache

CONSTANTS s1, v1, v2
=============================================================================
