------------------------- MODULE OperationContract -------------------------
(***************************************************************************)
(* What a provider operation promises to the rest of RelayPay: the payment *)
(* graph, the ledger and the clients.  Everything about sends, lookups,    *)
(* leases, webhooks, crashes and time is hidden.                           *)
(*                                                                         *)
(*  - the provider acts at most once, and only while nothing is decided;   *)
(*  - the decision is taken once, agrees with what the provider did, and   *)
(*    is posted in the same transaction;                                   *)
(*  - "not found" is decided only if the provider never acts;              *)
(*  - clients are told nothing but the decision.                           *)
(***************************************************************************)
EXTENDS Naturals

CONSTANT None

VARIABLES
    status,     \* ProviderOperation.status
    response,   \* the stored response, told apart by outcome
    postings,   \* journals and merchant events written for it
    effect,     \* what the provider did
    told        \* final answers given to clients

vars == <<status, response, postings, effect, told>>

Init ==
    /\ status = "ABSENT"
    /\ response = None
    /\ postings = 0
    /\ effect = None
    /\ told = {}

\* A merchant asks for the operation.
Accept ==
    /\ status = "ABSENT"
    /\ status' = "PROCESSING"
    /\ UNCHANGED <<response, postings, effect, told>>

\* The provider acts, once, on a request that is not decided yet.
Act ==
    /\ status \in {"PROCESSING", "REQUIRES_REVIEW"}
    /\ effect = None
    /\ effect' \in {"SUCCEEDED", "DECLINED", "PENDING"}
    /\ UNCHANGED <<status, response, postings, told>>

\* The operation is parked for an operator.
Park ==
    /\ status = "PROCESSING"
    /\ status' = "REQUIRES_REVIEW"
    /\ UNCHANGED <<response, postings, effect, told>>

\* The single decision, and its posting.
Decide ==
    /\ status \in {"PROCESSING", "REQUIRES_REVIEW"}
    /\ \/ effect \in {"SUCCEEDED", "DECLINED"} /\ response' = effect
       \/ effect = None /\ response' = "NOT_FOUND"
    /\ status' = IF response' = "SUCCEEDED" THEN "SUCCEEDED" ELSE "FAILED"
    /\ postings' = IF response' = "SUCCEEDED" THEN 1 ELSE 0
    /\ UNCHANGED <<effect, told>>

Tell ==
    /\ status \in {"SUCCEEDED", "FAILED"}
    /\ told' = told \cup {response}
    /\ UNCHANGED <<status, response, postings, effect>>

Next == Accept \/ Act \/ Park \/ Decide \/ Tell

Spec == Init /\ [][Next]_vars
=============================================================================
