------------------------------ MODULE MCPromoCodes ------------------------------
(* PromoCodes with a code of two uses, a single-use and an unlimited code.  *)
EXTENDS PromoCodes, TLC

CONSTANTS c1, c2, c3, k1, k2, k3

MCMaxUses == k1 :> 1 @@ k2 :> 2 @@ k3 :> Unlimited

\* A single code.
MCSingleUse == k1 :> 1
MCTwoUses == k1 :> 2

Symmetry == Permutations(Calls)
================================================================================
