--------------------------- MODULE MCRefreshTrigger ---------------------------
(* The instance of RefreshTrigger that TLC checks.                         *)
EXTENDS RefreshTrigger
=============================================================================
