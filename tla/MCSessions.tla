------------------------------- MODULE MCSessions -------------------------------
(* Sessions with few calls.                                                 *)
EXTENDS Sessions, TLC

Symmetry == Permutations(Calls)
================================================================================
