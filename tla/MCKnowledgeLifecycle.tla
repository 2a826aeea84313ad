------------------------ MODULE MCKnowledgeLifecycle ------------------------
(* The instance of KnowledgeLifecycle for TLC.                             *)
EXTENDS KnowledgeLifecycle, TLC

CONSTANTS p1, p2, m1, m2

Symmetry == Permutations(Paths) \cup Permutations(Models)

=============================================================================
