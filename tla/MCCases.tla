------------------------------- MODULE MCCases -------------------------------
(***************************************************************************)
(* Work on records that several requests share, on small instances: the    *)
(* response to a dispute (DisputeResponse, over either network adapter),   *)
(* the recovery of a subscription invoice (two schedules of Recovery) and  *)
(* the rotation of credentials (CredentialVersions).  They share no row.   *)
(* `part` names the one that moves, so that their states add up.           *)
(***************************************************************************)
EXTENDS DisputeResponse, CredentialVersions, TLC

CONSTANTS Pollers, Requests, Failures, m1, m2, p1, p2

VARIABLES
    part,
    now, caseStatus, retries, messages, closed, action, record,
    attempts, invoice, subscription, optOut, wire, effect, recoverySends, recoveryJob

recoveryVars ==
    <<now, caseStatus, retries, messages, closed, action, record,
      attempts, invoice, subscription, optOut, wire, effect, recoverySends, recoveryJob>>

InProcess == INSTANCE DisputeResponse WITH Adapter <- "IN_PROCESS"

Retries == INSTANCE SubscriptionRecovery WITH
    Schedule <- <<p1, p2>>, Payments <- {p1, p2}, RetryLimit <- 2, MessageLimit <- 1,
    sends <- recoverySends, None <- Unset, job <- recoveryJob

Messages == INSTANCE SubscriptionRecovery WITH
    Requests <- {}, Schedule <- <<m1, p1, m2>>, Payments <- {p1}, RetryLimit <- 2,
    MessageLimit <- 1, sends <- recoverySends, None <- Unset, job <- recoveryJob

PartInit ==
    /\ part \in {"http", "in_process", "retries", "messages", "credentials"}
    /\ DisputeInit /\ CredentialInit
    /\ \/ part # "messages" /\ Retries!Init
       \/ part = "messages" /\ Messages!Init

\* Only the credentials' requests never come to rest.
Rest == part # "credentials" /\ UNCHANGED <<disputeVars, recoveryVars, credentialVars>>

PartNext ==
    /\ UNCHANGED part
    /\ \/ part = "http" /\ DisputeNext /\ UNCHANGED <<recoveryVars, credentialVars>>
       \/ part = "in_process" /\ InProcess!DisputeNext /\ UNCHANGED <<recoveryVars, credentialVars>>
       \/ part = "retries" /\ Retries!Next /\ UNCHANGED <<disputeVars, credentialVars>>
       \/ part = "messages" /\ Messages!Next /\ UNCHANGED <<disputeVars, credentialVars>>
       \/ part = "credentials" /\ CredentialNext /\ UNCHANGED <<disputeVars, recoveryVars>>
       \/ Rest

PartSpec == PartInit /\ [][PartNext]_<<part, disputeVars, recoveryVars, credentialVars>>

Symmetry == Permutations(Clients)

-----------------------------------------------------------------------------
(* Properties, besides ResponsePromise of the dispute over either adapter  *)
(* and CredentialPromise.                                                  *)

\* A recovery action is sent at most once, what is recorded of it is true and
\* counted at most once, and a terminal case leaves nothing to start
\* (_prepare_action, execute_payment_action, terminate_case).
RecoveryPromise ==
    /\ part = "retries" => Retries!RecoveryPromise
    /\ part = "messages" => Messages!RecoveryPromise
==============================================================================
