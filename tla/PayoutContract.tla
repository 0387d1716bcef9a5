-------------------------- MODULE PayoutContract --------------------------
(***************************************************************************)
(* What a payout promises to the merchant's balance: while it is open its  *)
(* amount stays reserved; the bank pays at most once over all attempts and *)
(* only while the payout is open; a success is a transfer that happened    *)
(* and is posted with the release of the reservation; a failure is a       *)
(* transfer that did not happen and never will, unless it is retried.      *)
(***************************************************************************)
EXTENDS Naturals

VARIABLES
    status,     \* "OPEN" (PROCESSING or REQUIRES_REVIEW), "SUCCEEDED", "FAILED"
    held,       \* reservations of the amount in force
    paid,       \* transfers the bank made
    posted      \* PAYOUT journals

vars == <<status, held, paid, posted>>

Init ==
    /\ status = "OPEN"
    /\ held = 1
    /\ paid = 0
    /\ posted = 0

Pay ==
    /\ status = "OPEN"
    /\ paid = 0
    /\ paid' = 1
    /\ UNCHANGED <<status, held, posted>>

Succeed ==
    /\ status = "OPEN"
    /\ paid = 1
    /\ status' = "SUCCEEDED"
    /\ held' = 0
    /\ posted' = 1
    /\ UNCHANGED paid

Fail ==
    /\ status = "OPEN"
    /\ paid = 0
    /\ status' = "FAILED"
    /\ held' = 0
    /\ UNCHANGED <<paid, posted>>

Retry ==
    /\ status = "FAILED"
    /\ status' = "OPEN"
    /\ held' = 1
    /\ UNCHANGED <<paid, posted>>

Next == Pay \/ Succeed \/ Fail \/ Retry

Spec == Init /\ [][Next]_vars
=============================================================================
