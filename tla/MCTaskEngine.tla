----------------------------- MODULE MCTaskEngine -----------------------------
(* TLC instances of TaskEngine: the sets a run needs and its symmetry.     *)
EXTENDS TaskEngine, TLC

CoroutineSymmetry == Permutations(Coroutines) \cup Permutations(Rows)

=============================================================================
