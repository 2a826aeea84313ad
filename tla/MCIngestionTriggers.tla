------------------------ MODULE MCIngestionTriggers ------------------------
(* Small instances of IngestionTriggers for TLC. *)
EXTENDS IngestionTriggers

\* Every push is to a repository that all the sources follow.
AllMatch == [d \in Deliveries |-> Sources]
=============================================================================
