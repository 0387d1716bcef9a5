---------------------------- MODULE InboundEvents ----------------------------
(***************************************************************************)
(* Inbound webhook events of a connector                                   *)
(* (packages/relaypay/connectors/service.py) and the commerce order they   *)
(* synchronise (packages/relaypay/mock_commerce/service.py).               *)
(*                                                                         *)
(* The inbox and the commerce data are two databases: an event is claimed  *)
(* under a lease, its handler commits in the commerce database, and the    *)
(* result is recorded in the inbox.  A worker can crash, or stall past its *)
(* lease, between any two of these.  The commerce service also accepts     *)
(* events itself (POST /v1/events), so two handlers can overlap.           *)
(***************************************************************************)
EXTENDS Integers, FiniteSets, FiniteSetsExt

CONSTANTS
    Events,        \* [link : Links, type : EventTypes]
    Links,         \* payment links the merchant may add to the order
    Workers,
    None,
    Amounts,
    Total,         \* CommerceOrder.total_amount
    MaxAttempts,   \* process_inbound_claim: max_attempts
    MaxFaults,     \* bound: crashes, stalls and failing handlers
    MaxDirect      \* bound: events posted to the commerce service itself

EventTypes == {"payment.captured.v1", "refund.succeeded.v1"}

VARIABLES
    inbox,         \* InboundWebhookEvent by event, None before it is accepted
    link,          \* CommercePaymentLink by link: amount and status
    order,         \* CommerceOrder.status
    orderLock,     \* worker that holds the order row (link_payment)
    linkLock,
    pc, job,       \* the step and the local state of each worker
    applied,       \* history: events whose handler committed
    faults, direct

commerce == <<link, order, orderLock, linkLock>>
vars == <<inbox, commerce, pc, job, applied, faults, direct>>

NewEvent == [status |-> "PENDING", attempts |-> 0, holder |-> None, expired |-> FALSE, due |-> TRUE]
NoJob == [event |-> None, claimed |-> FALSE, failed |-> FALSE, seen |-> None, status |-> None,
          amount |-> 0]

Goto(w, place) == pc' = [pc EXCEPT ![w] = place]
Done(w) == Goto(w, "idle") /\ job' = [job EXCEPT ![w] = NoJob]
SumOf(S) == MapThenSumSet(LAMBDA l : link[l].amount, S)
Linked == {l \in Links : link[l] # None}

-----------------------------------------------------------------------------
(* The inbox.                                                              *)

\* accept_inbound_webhook.  A second submission, also one that loses the race
\* for the UNIQUE event identifier, finds the row and changes nothing.
AcceptInboundWebhook(e) ==
    /\ inbox[e] = None
    /\ inbox' = [inbox EXCEPT ![e] = NewEvent]
    /\ UNCHANGED <<commerce, pc, job, applied, faults, direct>>

Claimable(e) ==
    /\ \/ inbox[e].status = "PENDING"
       \/ inbox[e].status = "PROCESSING" /\ inbox[e].expired
    /\ inbox[e].due

\* A new token ends what an earlier claim may record; the holder stands for it.
ClaimInboundWebhook(w, e) ==
    /\ pc[w] = "idle"
    /\ inbox[e] # None /\ Claimable(e)
    /\ inbox' = [inbox EXCEPT ![e].status = "PROCESSING", ![e].holder = w, ![e].expired = FALSE]
    /\ job' = [job EXCEPT ![w] = [NoJob EXCEPT !.event = e, !.claimed = TRUE]]
    /\ Goto(w, "lock")
    /\ UNCHANGED <<commerce, applied, faults, direct>>

HoldsLease(w, e) == inbox[e].holder = w /\ inbox[e].status = "PROCESSING"

\* Mutant: a failure is recorded as if the handler had succeeded.
StatusAfterAlways(failed, attempts) == "PROCESSED"

StatusAfter(failed, attempts) ==
    IF ~failed THEN "PROCESSED" ELSE IF attempts >= MaxAttempts THEN "DEAD_LETTER" ELSE "PENDING"

ProcessInboundClaim(w) ==
    LET e == job[w].event
        attempts == inbox[e].attempts + 1
        status == StatusAfter(job[w].failed, attempts)
    IN  /\ pc[w] = "record"
        /\ inbox' = IF HoldsLease(w, e)
                    THEN [inbox EXCEPT ![e] = [status |-> status, attempts |-> attempts,
                                               holder |-> None, expired |-> FALSE,
                                               due |-> status # "PENDING"]]
                    ELSE inbox
        /\ Done(w)
        /\ UNCHANGED <<commerce, applied, faults, direct>>

\* next_attempt_at passes.
BecomesDue(e) ==
    /\ inbox[e] # None /\ ~inbox[e].due
    /\ inbox' = [inbox EXCEPT ![e].due = TRUE]
    /\ UNCHANGED <<commerce, pc, job, applied, faults, direct>>

\* The lease outlives a worker that is at work, unless it stalls.
LeaseExpires(e) ==
    /\ inbox[e] # None /\ inbox[e].status = "PROCESSING" /\ ~inbox[e].expired
    /\ LET working == job[inbox[e].holder].event = e
       IN  /\ working => faults < MaxFaults
           /\ faults' = IF working THEN faults + 1 ELSE faults
    /\ inbox' = [inbox EXCEPT ![e].expired = TRUE]
    /\ UNCHANGED <<commerce, pc, job, applied, direct>>

-----------------------------------------------------------------------------
(* The commerce order.                                                     *)

LockOrder(w) == orderLock = None /\ orderLock' = w

Unlocked(w) == IF orderLock = w THEN None ELSE orderLock

\* link_payment: the order row is locked, then the links are summed.
LinkBegin(w, l, amount) ==
    /\ pc[w] = "idle" /\ link[l] = None
    /\ \A v \in Workers : pc[v] = "link" => job[v].event # l
    /\ LockOrder(w)
    /\ job' = [job EXCEPT ![w] = [NoJob EXCEPT !.event = l, !.amount = amount,
                                               !.failed = SumOf(Linked) + amount > Total]]
    /\ Goto(w, "link")
    /\ UNCHANGED <<inbox, link, order, linkLock, applied, faults, direct>>

LinkPayment(w) ==
    /\ pc[w] = "link"
    /\ link' = IF job[w].failed THEN link
               ELSE [link EXCEPT ![job[w].event] = [amount |-> job[w].amount, status |-> "LINKED"]]
    /\ orderLock' = Unlocked(w)
    /\ Done(w)
    /\ UNCHANGED <<inbox, order, linkLock, applied, faults, direct>>

\* POST /v1/events/{event_id}.
PostEvent(w, e) ==
    /\ pc[w] = "idle" /\ direct < MaxDirect
    /\ direct' = direct + 1
    /\ job' = [job EXCEPT ![w] = [NoJob EXCEPT !.event = e]]
    /\ Goto(w, "lock")
    /\ UNCHANGED <<inbox, commerce, applied, faults>>

\* The handler is done: its claim is recorded, a direct request is answered.
Answer(w, failed) ==
    IF job[w].claimed
    THEN Goto(w, "record") /\ job' = [job EXCEPT ![w].failed = failed]
    ELSE Done(w)

\* synchronize_event: the link row is locked and the order is loaded.
SyncLock(w) ==
    LET l == job[w].event.link
    IN  /\ pc[w] = "lock"
        /\ IF link[l] = None
           THEN Answer(w, TRUE) /\ UNCHANGED linkLock
           ELSE /\ linkLock[l] = None
                /\ linkLock' = [linkLock EXCEPT ![l] = w]
                /\ job' = [job EXCEPT ![w].seen = order]
                /\ Goto(w, "sum")
        /\ UNCHANGED <<inbox, link, order, orderLock, applied, faults, direct>>

\* The status the order will get: the sum sees what others committed, and
\* this transaction's own link as PAID.
SyncSum(w) ==
    LET l == job[w].event.link
        paid == {m \in Linked : m = l \/ link[m].status = "PAID"}
    IN  /\ pc[w] = "sum"
        /\ job' = [job EXCEPT ![w].status =
                     IF job[w].event.type = "refund.succeeded.v1" THEN "REFUNDED"
                     ELSE IF SumOf(paid) = Total THEN "PAID" ELSE job[w].seen]
        /\ Goto(w, "commit")
        /\ UNCHANGED <<inbox, commerce, applied, faults, direct>>

\* An attribute that keeps its loaded value is not written.
SyncCommit(w) ==
    LET e == job[w].event
    IN  /\ pc[w] = "commit"
        /\ link' = [link EXCEPT ![e.link].status =
                      IF e.type = "payment.captured.v1" THEN "PAID" ELSE "REFUNDED"]
        /\ order' = IF job[w].status # job[w].seen THEN job[w].status ELSE order
        /\ linkLock' = [linkLock EXCEPT ![e.link] = None]
        /\ applied' = applied \cup {e}
        /\ Answer(w, FALSE)
        /\ UNCHANGED <<inbox, orderLock, faults, direct>>

Unlink(w) == [l \in Links |-> IF linkLock[l] = w THEN None ELSE linkLock[l]]

\* The commerce database refuses or drops the transaction: a failed handler.
SyncFails(w) ==
    /\ pc[w] \in {"lock", "sum", "commit"}
    /\ faults < MaxFaults
    /\ faults' = faults + 1
    /\ linkLock' = Unlink(w)
    /\ Answer(w, TRUE)
    /\ UNCHANGED <<inbox, link, order, orderLock, applied, direct>>

Crash(w) ==
    /\ pc[w] # "idle"
    /\ faults < MaxFaults
    /\ faults' = faults + 1
    /\ linkLock' = Unlink(w)
    /\ orderLock' = Unlocked(w)
    /\ Done(w)
    /\ UNCHANGED <<inbox, link, order, applied, direct>>

-----------------------------------------------------------------------------
(* The specification.                                                      *)

Init ==
    /\ inbox = [e \in Events |-> None]
    /\ link = [l \in Links |-> None]
    /\ order = "OPEN"
    /\ orderLock = None
    /\ linkLock = [l \in Links |-> None]
    /\ pc = [w \in Workers |-> "idle"]
    /\ job = [w \in Workers |-> NoJob]
    /\ applied = {} /\ faults = 0 /\ direct = 0

Proceed(w) == ProcessInboundClaim(w) \/ LinkPayment(w) \/ SyncLock(w) \/ SyncSum(w) \/ SyncCommit(w)

Next ==
    \/ \E e \in Events : AcceptInboundWebhook(e) \/ BecomesDue(e) \/ LeaseExpires(e)
    \/ \E w \in Workers :
          \/ Proceed(w) \/ SyncFails(w) \/ Crash(w)
          \/ \E e \in Events : ClaimInboundWebhook(w, e) \/ PostEvent(w, e)
          \/ \E l \in Links, amount \in Amounts : LinkBegin(w, l, amount)

Spec == Init /\ [][Next]_vars

\* The poller claims what is due every few seconds, oldest first, and is a
\* process of its own: linking requests cannot keep it busy, hence the strong
\* fairness.  A request that started and does not crash goes on; delays and
\* leases end.
Fairness ==
    /\ \A w \in Workers : WF_vars(Proceed(w))
    /\ \A e \in Events : /\ SF_vars(\E w \in Workers : ClaimInboundWebhook(w, e))
                         /\ WF_vars(BecomesDue(e)) /\ WF_vars(LeaseExpires(e))

FairSpec == Spec /\ Fairness

-----------------------------------------------------------------------------
(* Properties.                                                             *)

\* Payment links added at the same time never exceed the order's total
\* (link_payment sums them under the lock of the order).
LinkedWithinTotal == SumOf(Linked) <= Total

\* An event that counts as processed did change the commerce order, and one in
\* the dead letter failed MaxAttempts times: across the two databases, whatever
\* crashes in between, no event is settled unapplied.
SettledIsTrue ==
    \A e \in Events : inbox[e] # None =>
       /\ inbox[e].status = "PROCESSED" => e \in applied
       /\ inbox[e].status = "DEAD_LETTER" => inbox[e].attempts = MaxAttempts

\* A worker whose lease was taken over records nothing: attempts are counted
\* one at a time by the holder of the lease, and a settled event stays settled.
OnlyHolderRecords ==
    [][\A e \in Events : inbox[e] # None /\ inbox'[e].attempts # inbox[e].attempts =>
          /\ inbox[e].status = "PROCESSING"
          /\ inbox'[e].attempts = inbox[e].attempts + 1
          /\ \E w \in Workers : inbox[e].holder = w /\ pc[w] = "record" /\ pc'[w] = "idle"]_vars

\* Every accepted event is processed or dead-lettered in the end, although
\* workers crash with its lease.
EventuallySettled ==
    \A e \in Events : inbox[e] # None ~> (inbox[e] # None /\ inbox[e].status \in {"PROCESSED", "DEAD_LETTER"})

\* What the inbox promises the merchant's commerce orders, all together
\* (process_inbound_claim and link_payment).
InboundPromise == [](LinkedWithinTotal /\ SettledIsTrue) /\ OnlyHolderRecords
=============================================================================
