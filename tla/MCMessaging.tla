----------------------------- MODULE MCMessaging -----------------------------
(***************************************************************************)
(* The leased work queues on small instances: merchant webhooks            *)
(* (WebhookDelivery), business events (BusinessOutbox), connector events   *)
(* (Inbound) and workflow steps (Work).  They share no row.  `part` names  *)
(* the one queue that moves in a behaviour, so their states add up.        *)
(***************************************************************************)
EXTENDS WebhookDelivery, BusinessOutbox, TLC

CONSTANTS Links, l1, Steps

VARIABLES
    part,
    inbox, link, order, orderLock, linkLock, inboundPc, inboundJob, applied, inboundFaults, direct,
    run, step, deadLetters, spent, endings, contested, raced, stepPc, stepJob, stepFaults

ConnectorEvents ==
    [link : {l1}, type : {"payment.captured.v1", "refund.succeeded.v1"}]

Inbound == INSTANCE InboundEvents WITH
    Events <- ConnectorEvents, Amounts <- {1, 2}, Total <- 2,
    MaxAttempts <- 2, MaxFaults <- 1, MaxDirect <- 1,
    pc <- inboundPc, job <- inboundJob, faults <- inboundFaults

Work == INSTANCE WorkflowSteps WITH
    Costs <- {0, 1, 2}, TokenBudget <- 3,
    MaxAttempts <- 2, MaxFaults <- 2, pc <- stepPc, job <- stepJob, faults <- stepFaults

inboundVars ==
    <<inbox, link, order, orderLock, linkLock, inboundPc, inboundJob, applied, inboundFaults, direct>>
workVars ==
    <<run, step, deadLetters, spent, endings, contested, raced, stepPc, stepJob, stepFaults>>

PartInit ==
    /\ part \in {"delivery", "inbound", "outbox", "work"}
    /\ DeliveryInit /\ Inbound!Init /\ OutboxInit /\ Work!Init
    /\ part # "delivery" => \A r \in Recipients : endpoint[r] = "good"

\* Only the outbox never comes to rest.
Rest == part # "outbox" /\ UNCHANGED <<deliveryVars, inboundVars, outboxVars, workVars>>

PartNext ==
    /\ UNCHANGED part
    /\ \/ part = "delivery" /\ DeliveryNext /\ UNCHANGED <<inboundVars, outboxVars, workVars>>
       \/ part = "inbound" /\ Inbound!Next /\ UNCHANGED <<deliveryVars, outboxVars, workVars>>
       \/ part = "outbox" /\ OutboxNext /\ UNCHANGED <<deliveryVars, inboundVars, workVars>>
       \/ part = "work" /\ Work!Next /\ UNCHANGED <<deliveryVars, inboundVars, outboxVars>>
       \/ Rest

PartSpec == PartInit /\ [][PartNext]_<<part, deliveryVars, inboundVars, outboxVars, workVars>>

Symmetry == Permutations(Workers)

-----------------------------------------------------------------------------
(* Properties, besides DeliveryPromise and OutboxPromise.                  *)

\* The inbox of connector events changes the commerce orders as it says: only an
\* applied event is settled, only the holder of a lease records, and linked
\* payments stay within the order's total (process_inbound_claim, link_payment).
InboundPromise == Inbound!InboundPromise

\* A step ends once, whoever crashed, stalled or took it over, unless it was taken
\* over between the unlocked reads and the writes of complete_step or fail_step;
\* the tokens of the run stay within the budget and within what was recorded, and
\* are all of it unless two completions overlapped (claim_step, complete_step and
\* fail_step).
EndsAccounted == Work!EndsAccounted
==============================================================================
