------------------------ MODULE MCDocumentLifecycle ------------------------
(* Instances of DocumentLifecycle for TLC. *)
EXTENDS DocumentLifecycle, TLC

CONSTANTS d1, d2, r1, r2, r3

Symmetry == Permutations(Docs) \cup Permutations(Requests)
=============================================================================
