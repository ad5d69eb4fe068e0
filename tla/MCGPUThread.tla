---------------------------- MODULE MCGPUThread ----------------------------
(* Constants for model checking GPUThread.                                 *)
EXTENDS GPUThread

BothLevels == {"Normal", "Extreme"}
=============================================================================
