--------------------------- MODULE MCComputeInstances ---------------------------
(* ComputeInstances with few calls, names and configurations.               *)
EXTENDS ComputeInstances, TLC

Symmetry == Permutations(Calls) \cup Permutations(Names)
================================================================================
