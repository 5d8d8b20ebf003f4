------------------------- MODULE MCMessageEmbedding -------------------------
(* Instances of MessageEmbedding for TLC. *)
EXTENDS MessageEmbedding, TLC

CONSTANTS m1, m2, p1, p2

Symmetry == Permutations(Messages) \cup Permutations(Processes)
=============================================================================
