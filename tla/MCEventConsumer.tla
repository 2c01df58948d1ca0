-------------------------- MODULE MCEventConsumer ----------------------------
(* Two consumers and two tools; an event that may come twice, and one that  *)
(* is not an envelope.                                                      *)
EXTENDS EventConsumer, TLC

CONSTANTS e1, g1, c1, c2, t1, t2

MCEvent == {e1, g1}
MCGarbled == {g1}
MCConsumer == {c1, c2}
MCTool == {t1, t2}

Symmetry == Permutations(MCConsumer) \cup Permutations(MCTool)
=============================================================================
