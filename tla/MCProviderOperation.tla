------------------------ MODULE MCProviderOperation ------------------------
(* ProviderOperation on small instances.                                   *)
EXTENDS ProviderOperationInv, TLC

WorkerSymmetry == Permutations(Workers)
Symmetry == Permutations(Workers) \cup Permutations(Keys)
=============================================================================
