----------------------------- MODULE MCPolling -----------------------------
(* Polling for TLC: the configuration loses and regains two graphs, or      *)
(* cannot be read.                                                          *)
EXTENDS Polling, TLC

CONSTANTS g1, g2, g3

Changing == {{g1}, {g1, g2, g3}, Broken, Malformed}
NoJitter == [g \in Graphs |-> 0]
=============================================================================
