------------------------------ MODULE MCWorkEnds ------------------------------
(***************************************************************************)
(* That work ends, on small instances: the poller's schedule               *)
(* (PollerSchedule) and, each by itself, the batches it runs: payouts,     *)
(* webhook deliveries, connector events, business events, statements and   *)
(* recovery actions; and the requests that answer settlement questions.    *)
(* They share no row.  `part` names the one that moves in a behaviour, so  *)
(* their states add up; the fairness of a part is that of its own          *)
(* specification.  Workflow steps are left out: nothing in the repository  *)
(* keeps claiming them.                                                    *)
(***************************************************************************)
EXTENDS PollerSchedule, TLC

CONSTANTS None, l1, p1, p2, d1, o1, m1, m2, w1, w2

ThreeTasks == <<"recover", "inbound", "expire">>
Cadences == [t \in {"recover", "inbound", "expire"} |->
                CASE t = "recover" -> 1 [] t = "inbound" -> 2 [] OTHER -> 5]

VARIABLES
    part,
    payout, payoutAttempts, reserved, posted, byUpdate, transfer, payoutWire, payoutSends,
    payoutPc, todo, attempt, seen, age, payoutUsed,
    endpoint, delivery, attempts, received, wire, replies, stage, held, used,
    inbox, link, order, orderLock, linkLock, inboundPc, inboundJob, applied, inboundFaults, direct,
    entry, topic, marker, inserting, effects, phase, task, outboxFaults,
    status, statement, before, reconciliation, matches, mismatches, workflow,
    statementJob, statementFaults,
    now, caseStatus, retries, messages, closed, action, record, recoveryAttempts,
    invoice, subscription, optOut, recoveryWire, effect, recoverySends, recoveryJob,
    questions, questionJob, answers, questionCrashes

payoutVars == <<payout, payoutAttempts, reserved, posted, byUpdate, transfer, payoutWire,
                payoutSends, payoutPc, todo, attempt, seen, age, payoutUsed>>
deliveryVars == <<endpoint, delivery, attempts, received, wire, replies, stage, held, used>>
inboundVars ==
    <<inbox, link, order, orderLock, linkLock, inboundPc, inboundJob, applied, inboundFaults, direct>>
outboxVars == <<entry, topic, marker, inserting, effects, phase, task, outboxFaults>>
statementVars == <<status, statement, before, reconciliation, matches, mismatches, workflow,
                   statementJob, statementFaults>>
recoveryVars == <<now, caseStatus, retries, messages, closed, action, record, recoveryAttempts,
                  invoice, subscription, optOut, recoveryWire, effect, recoverySends, recoveryJob>>
questionVars == <<questions, questionJob, answers, questionCrashes>>

allVars == <<part, vars, payoutVars, deliveryVars, inboundVars, outboxVars,
             statementVars, recoveryVars, questionVars>>

-----------------------------------------------------------------------------
\* Batches as large as the payouts, or smaller.
Payout(limit) == INSTANCE PayoutDispatch WITH
    Payouts <- {p1, p2}, Subject <- p1, Workers <- {w1},
    BankOutcomes <- {"SUCCEEDED", "DECLINED", "PENDING"}, Limit <- limit, NotFoundGrace <- 1,
    SentGrace <- 1, SentLease <- 1, Delays <- "bounded", SendDelay <- 0, LookupDelay <- 0,
    MaxAttempts <- 1, MaxCrashes <- 1, MaxFaults <- 1,
    attempts <- payoutAttempts, effect <- transfer, wire <- payoutWire, sends <- payoutSends,
    pc <- payoutPc, used <- payoutUsed

Delivery == INSTANCE WebhookDelivery WITH
    Recipients <- {"r1"}, Deliveries <- {d1}, Workers <- {w1},
    Endpoints <- {"good", "mismatch", "refused", "unreadable"},
    MaxAttempts <- 2, MaxDeaths <- 1, MaxStalls <- 1, MaxReplays <- 0

Captured == [link |-> l1, type |-> "payment.captured.v1"]
Refunded == [link |-> l1, type |-> "refund.succeeded.v1"]
ConnectorEvents == {Captured, Refunded}

Inbound == INSTANCE InboundEvents WITH
    Links <- {l1}, Events <- ConnectorEvents,
    Workers <- {w1}, Amounts <- {1}, Total <- 1, MaxAttempts <- 2, MaxFaults <- 2,
    MaxDirect <- 0, pc <- inboundPc, job <- inboundJob, faults <- inboundFaults

Outbox == INSTANCE BusinessOutbox WITH
    BusinessEvents <- {"e1"}, Publishers <- {w1, w2}, Consumers <- {"c1"},
    MaxOutboxFaults <- 2, Nothing <- None

Statement == INSTANCE StatementRun WITH
    Operations <- {o1}, InPeriod <- {o1}, Moving <- {o1}, Foreign <- "foreign", Items <- {"i1"},
    Attributes <- {"amount"}, Workers <- {w1, w2}, MaxFaults <- 1,
    run <- reconciliation, job <- statementJob, faults <- statementFaults

Recovery == INSTANCE SubscriptionRecovery WITH
    Pollers <- {w1}, Requests <- {}, Schedule <- <<m1, p1, m2>>, Payments <- {p1},
    Failures <- {"f1"}, RetryLimit <- 1, MessageLimit <- 2,
    attempts <- recoveryAttempts, wire <- recoveryWire, sends <- recoverySends,
    job <- recoveryJob

Question == INSTANCE SettlementQuestions WITH
    Requests <- {"r1", "r2"}, Texts <- {"t1", "t2"}, Keys <- {"k1", "k2"},
    Tokens <- {1, 2}, TokenBudget <- 3, Raising <- {"classify", "narrate"}, MaxCrashes <- 1,
    NULL <- None, asker <- questionJob, crashes <- questionCrashes

-----------------------------------------------------------------------------
Parts == {"poller", "payouts", "fullBatch", "delivery", "inbound", "outbox", "statement",
          "recovery", "question"}

PartInit ==
    /\ part \in Parts
    /\ Init /\ Payout(2)!Init /\ Delivery!DeliveryInit /\ Inbound!Init /\ Outbox!OutboxInit
    /\ Statement!Init /\ Recovery!Init /\ Question!QuestionInit
    /\ byUpdate = <<p1, p2>>      \* the payouts are alike: any order is this one
    /\ part # "delivery" => endpoint["r1"] = "good"

\* The variables of the other parts.
Others(p) ==
    /\ p # "poller" => UNCHANGED vars
    /\ p \notin {"payouts", "fullBatch"} => UNCHANGED payoutVars
    /\ p # "delivery" => UNCHANGED deliveryVars
    /\ p # "inbound" => UNCHANGED inboundVars
    /\ p # "outbox" => UNCHANGED outboxVars
    /\ p # "statement" => UNCHANGED statementVars
    /\ p # "recovery" => UNCHANGED recoveryVars
    /\ p # "question" => UNCHANGED questionVars

Moves(p) == part = p /\ UNCHANGED part /\ Others(p)

PartNext ==
    \/ Moves("poller") /\ Next
    \/ Moves("payouts") /\ Payout(2)!Next
    \/ Moves("fullBatch") /\ Payout(1)!Next
    \/ Moves("delivery") /\ Delivery!DeliveryNext
    \/ Moves("inbound") /\ Inbound!Next
    \/ Moves("outbox") /\ Outbox!OutboxNext
    \/ Moves("statement") /\ Statement!Next
    \/ Moves("recovery") /\ Recovery!Next
    \/ Moves("question") /\ Question!QuestionNext

\* The part that moves is fair as its own specification says.
PartFairness ==
    /\ WF_vars(part = "poller" /\ Step)
    /\ WF_payoutVars(part = "payouts" /\ Payout(2)!Proceed(w1))
    /\ WF_payoutVars(part = "fullBatch" /\ Payout(1)!Proceed(w1))
    /\ SF_payoutVars(part \in {"payouts", "fullBatch"} /\ Payout(1)!Tick)
    /\ \A p \in {p1, p2} :
          WF_payoutVars(part \in {"payouts", "fullBatch"} /\ Payout(1)!BankReceives(<<p, 1>>))
    /\ WF_deliveryVars(part = "delivery" /\ Delivery!PollerStep(w1))
    /\ WF_deliveryVars(part = "delivery" /\ Delivery!BecomesDue(d1))
    /\ WF_deliveryVars(part = "delivery" /\ Delivery!Abandoned(d1) /\ Delivery!LeaseExpires(d1))
    /\ WF_inboundVars(part = "inbound" /\ Inbound!Proceed(w1))
    /\ \A e \in ConnectorEvents :
          /\ WF_inboundVars(part = "inbound" /\ Inbound!BecomesDue(e))
          /\ WF_inboundVars(part = "inbound" /\ Inbound!LeaseExpires(e))
          /\ SF_inboundVars(part = "inbound" /\ Inbound!ClaimInboundWebhook(w1, e))
    /\ \A p \in {w1, w2} : WF_outboxVars(part = "outbox" /\ Outbox!OutboxStep(p))
    /\ WF_outboxVars(part = "outbox" /\ Outbox!DelayEnds("e1"))
    /\ WF_outboxVars(part = "outbox" /\ Outbox!PublisherExpires("e1"))
    /\ SF_outboxVars(part = "outbox" /\ \E w \in {w1, w2} : Outbox!ClaimEvent(w, "e1"))
    /\ \A w \in {w1, w2} :
          /\ WF_statementVars(part = "statement" /\ Statement!ClaimRun(w))
          /\ WF_statementVars(part = "statement" /\ Statement!Proceed(w))
    /\ WF_statementVars(part = "statement" /\ Statement!Abandoned)
    /\ WF_recoveryVars(part = "recovery" /\ Recovery!Proceed(w1))
    /\ WF_recoveryVars(part = "recovery" /\ Recovery!DeadlockAbort(w1))
    /\ WF_recoveryVars(part = "recovery" /\ Recovery!SelectAction(w1))
    /\ \A a \in {m1, p1, m2} :
          WF_recoveryVars(part = "recovery" /\ (Recovery!NetworkApplies(a) \/ Recovery!RequestLost(a)))
    /\ WF_recoveryVars(part = "recovery" /\ Recovery!OptOut)
    /\ WF_recoveryVars(part = "recovery" /\ Recovery!Tick)
    /\ \A r \in {"r1", "r2"} : WF_questionVars(part = "question" /\ Question!Proceed(r))

PartSpec == PartInit /\ [][PartNext]_allVars /\ PartFairness

-----------------------------------------------------------------------------
(* The ends of each part.                                                  *)

\* Every task of the poller, and the outbox, is run again and again, though any
\* task may fail every time (poll_once, the try and finally of its loop).
TasksRun == part = "poller" => EveryTaskRuns

\* Every open payout ends, unless the bank keeps its transfer pending, or a whole
\* batch of others: no state a worker leaves behind is one that no selector
\* matches (RCA 002, the selectors of run_payout_batch).
PayoutsEnd ==
    /\ part = "payouts" => Payout(2)!EventuallyEnds
    /\ part = "fullBatch" => Payout(1)!EventuallyEnds

\* Every recipient of a merchant webhook gets a delivery that is acknowledged or
\* dead-lettered, after finitely many crashes and stalls (claim_delivery takes
\* over an expired lease).
DeliveriesEnd == part = "delivery" => Delivery!EventuallyTerminal

\* Every accepted connector event is processed or dead-lettered, although
\* workers crash with its lease (claim_inbound_webhook).
EventsSettle == part = "inbound" => Inbound!EventuallySettled

\* An appended business event is published, after any finite number of crashes,
\* stalls and broker failures (claim_event, publish_one).
EventsArePublished == part = "outbox" => Outbox!EventuallyPublished

\* The run of an imported statement is completed or marked FAILED
\* (claim_reconciliation_run takes over an expired lease).
StatementsEnd == part = "statement" => Statement!EventuallyEnds

\* Every scheduled recovery action is executed, cancelled, or left ambiguous in
\* a terminal case (run_recovery_action_batch).
ActionsSettle == part = "recovery" => Recovery!EventuallySettled

\* A settlement question whose classification raises still ends, so that a retry
\* can replay it; one whose request died or whose narrative raised may stay open
\* (answer_question, its first try block).
QuestionsEnd == part = "question" => Question!EventuallyAnswerable

\* The poller runs every task again and again, none of them later than its Bound,
\* and the work its batches take up ends after any bounded number of crashes, with
\* the exceptions each part states (poll_once and the claims of its batches; for
\* questions, answer_question).
AllWorkEnds ==
    /\ []Punctual
    /\ TasksRun /\ PayoutsEnd /\ DeliveriesEnd /\ EventsSettle /\ EventsArePublished
    /\ StatementsEnd /\ ActionsSettle /\ QuestionsEnd
===============================================================================
