----------------------------- MODULE MCMFAChallenge -----------------------------
(* MFAChallenge with few calls, tokens and recovery codes.                  *)
EXTENDS MFAChallenge, TLC

Symmetry == Permutations(Calls) \cup Permutations(Tokens)
================================================================================
