------------------------------- MODULE MCRestore -------------------------------
(* A concrete archive: every category after the first refers to the one before. *)
EXTENDS RestoreOrchestrator

\* The first row of each category is the parent of the rows of the next one.
MCParent == [e \in Entities |-> IF e[1] = 1 THEN e ELSE <<e[1] - 1, 1>>]

=============================================================================
