------------------------ MODULE MCRequestProtection ------------------------
(* The instance of RequestProtection for TLC.                              *)
EXTENDS RequestProtection, TLC

\* Clients differ only in their patience.
Symmetry == Permutations(Patient) \cup Permutations(Clients \ Patient) \cup Permutations(Tasks)

=============================================================================
