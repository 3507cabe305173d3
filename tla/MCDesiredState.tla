--------------------------- MODULE MCDesiredState ---------------------------
(* DesiredState for TLC, with a source that moves back again. *)
EXTENDS DesiredState

Back == {<<1, 2>>, <<2, 1>>}
=============================================================================
