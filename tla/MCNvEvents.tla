------------------------------ MODULE MCNvEvents ------------------------------
(* Instances of NvEvents for TLC. *)
EXTENDS NvEvents
===============================================================================
