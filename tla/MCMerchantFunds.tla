-------------------------- MODULE MCMerchantFunds --------------------------
(* MerchantFunds on small instances.  Sessions, captures, refunds and      *)
(* payouts are interchangeable.                                            *)
EXTENDS MerchantFunds, TLC

Symmetry ==
    Permutations(Clients) \cup Permutations(Captures) \cup Permutations(Refunds)
        \cup Permutations(Payouts)
=============================================================================
