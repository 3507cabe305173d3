------------------------- MODULE MCGraphPublication -------------------------
(* Instance of GraphPublication for TLC.                                    *)
EXTENDS GraphPublication

CONSTANTS c1, c2
=============================================================================
