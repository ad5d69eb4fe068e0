--------------------------- MODULE MCSystemPause ---------------------------
(* SystemPause needs numbers only: the configurations give them.           *)
EXTENDS SystemPause
=============================================================================
