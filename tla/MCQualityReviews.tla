-------------------------- MODULE MCQualityReviews --------------------------
(* Small instances of QualityReviews for TLC. *)
EXTENDS QualityReviews, TLC

\* Turns, root causes and requests are interchangeable, and no liveness is
\* checked.
Symmetry ==
  Permutations(Turns) \cup Permutations(Causes) \cup Permutations(Requests)
=============================================================================
