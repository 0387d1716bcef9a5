-------------------------- MODULE MCPayoutDispatch --------------------------
(* PayoutDispatch on small instances.                                      *)
EXTENDS PayoutDispatch, TLC

Symmetry == Permutations(Workers)
=============================================================================
