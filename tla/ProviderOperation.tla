------------------------- MODULE ProviderOperation -------------------------
(***************************************************************************)
(* The life of one provider operation: packages/relaypay/                  *)
(* provider_operations (service, recovery, finalizer, validation), the     *)
(* webhook inbox of packages/relaypay/psp, and the provider they talk to.  *)
(*                                                                         *)
(* A worker is any thread that runs one of the four jobs on the operation: *)
(*   "request"   an API request: initiate_*, dispatch_after_commit, answer *)
(*   "unsent"    the poller's first send of an operation left unsent       *)
(*   "recovery"  the poller's lookup, or an operator's retry_lookup        *)
(*   "event"     the poller applying one inbox event                       *)
(* Every database transaction is one action (rows are locked FOR UPDATE);  *)
(* between two transactions, and around each HTTP call, a worker can be    *)
(* overtaken by the others, stall, or crash.                               *)
(*                                                                         *)
(* Timestamps are kept as elapsed or remaining time, so that no clock      *)
(* value grows: sentAge is now - last_sent_at (saturating at Horizon),     *)
(* lookupIn is next_lookup_at - now, leaseLeft is lookup_lease_expires_at  *)
(* - now (0: free or lapsed).                                              *)
(***************************************************************************)
EXTENDS Integers, Sequences, FiniteSets

CONSTANTS
    Workers,             \* API threads and pollers
    Keys,                \* idempotency keys of this operation's requests
    Events,              \* provider event ids
    None,                \* SQL NULL / Python None
    Grace,               \* PROVIDER_NOT_FOUND_GRACE_SECONDS
    DispatchGrace,       \* DEFAULT_NOT_FOUND_GRACE_SECONDS
    UnsentGrace,         \* UNSENT_DISPATCH_GRACE_SECONDS
    Lease,               \* lease_seconds of an operation claim
    EventLease,          \* lease_seconds of an event claim
    MaxBackoff,          \* 60 in _next_lookup
    IndeterminateAfter,  \* indeterminate_after of record_lookup_observation
    ReviewAfter,         \* review_after of record_apply_failure
    MaxEventAttempts,    \* MAX_EVENT_ATTEMPTS
    Delays,              \* "bounded" if the next two bounds hold
    SendDelay,           \* a recorded send reaches the provider by then, or never
    LookupDelay,         \* a lookup is recorded by then, or its worker died
    MaxRequests,         \* bounds on how often the environment acts
    MaxAdmin,
    MaxCrashes,
    MaxFaults

\* The delays and limits are naturals, and None is no worker, event, number or
\* word of the rows.
ASSUME ConstantsAssumption ==
    /\ Grace \in Nat /\ DispatchGrace \in Nat /\ UnsentGrace \in Nat
    /\ Lease \in Nat /\ EventLease \in Nat /\ MaxBackoff \in Nat
    /\ IndeterminateAfter \in Nat /\ ReviewAfter \in Nat /\ MaxEventAttempts \in Nat
    /\ Delays \in {"bounded", "unbounded"}
    /\ SendDelay \in Nat /\ LookupDelay \in Nat
    /\ MaxRequests \in Nat /\ MaxAdmin \in Nat /\ MaxCrashes \in Nat /\ MaxFaults \in Nat
    /\ None \notin Workers /\ None \notin Events /\ None \notin Nat
    /\ None \notin {"SUCCEEDED", "DECLINED", "PENDING", "NOT_FOUND", "INVALID",
                    "ERROR", "OPEN", "request", "unsent", "recovery", "event"}

\* ADR-011: the grace period exceeds the longest time between a recorded send
\* and a lookup that can see its effect.
ASSUME GraceAssumption ==
    Delays = "bounded" => /\ SendDelay + LookupDelay < Grace
              /\ SendDelay + LookupDelay < DispatchGrace

VARIABLES
    \* the ProviderOperation row, its attempts and its idempotency records
    status, response, reason, sentAge, createdAge, lookupIn, leaseBy,
    leaseLeft, failures, attempts, records,
    postings,            \* journals and merchant events the finalizer wrote
    \* the provider and the network
    effect,              \* ProviderEffect.outcome for the stable key
    wire,                \* "request" while a mutation request is in flight
    sends,               \* mutation requests ever put on the wire
    \* the webhook inbox
    inbox,
    \* the workers
    pc, task, seen, age, verdict, event,
    \* the clients: terminal responses they were given
    told,
    \* how often the environment acted
    used

opVars == <<status, response, reason, sentAge, createdAge, lookupIn, leaseBy,
            leaseLeft, failures, attempts, records, postings>>
providerVars == <<effect, wire, sends>>
workerVars == <<pc, task, seen, age, verdict, event>>
vars == <<opVars, providerVars, inbox, workerVars, told, used>>

-----------------------------------------------------------------------------
(* Vocabulary of the rows.                                                 *)

Decided == {"SUCCEEDED", "FAILED"}
Status == {"ABSENT", "PROCESSING", "REQUIRES_REVIEW"} \cup Decided
\* The stored response bytes, told apart by their status and failure code.
Response == {"SUCCEEDED", "DECLINED", "NOT_FOUND"}
Outcome == {"SUCCEEDED", "DECLINED", "PENDING"}
\* What an HTTP exchange yields: a verified outcome, a signed not-found, a
\* body the validation rejects, or nothing that can be used (transport error,
\* 5xx, other 4xx).
Observation == Outcome \cup {"NOT_FOUND", "INVALID", "ERROR"}
Finalizing == {"VERIFIED_SUCCESS", "VERIFIED_DECLINE", "NOT_FOUND_FINAL"}
Class == Finalizing \cup {"SENT", "PENDING", "WITHIN_GRACE", "INVALID", "ERROR"}
Attempt == [kind : {"MUTATION", "LOOKUP", "WEBHOOK"}, class : Class,
            event : Events \cup {None}]
Reason == {"INVALID_EVIDENCE", "PROVIDER_INDETERMINATE", "APPLY_FAILURE",
           "CONTRADICTS_TERMINAL_STATE"}
EventStatus == {"ABSENT", "PENDING", "PROCESSING", "APPLIED", "IGNORED",
                "REVIEW", "DEAD_LETTER"}
InboxEvent == [status : EventStatus, says : Outcome \cup {"INVALID", None},
               by : Workers \cup {None}, left : 0..EventLease, claims : Nat]
Pc == {"idle", "dispatch", "mutate", "await", "complete", "lookup", "record",
       "apply", "applyFailed", "prepareEvent", "finishEvent", "answer"}
Task == {"request", "unsent", "recovery", "event"}
Verdict == [n : Nat, action : {"NONE", "FINALIZE", "REVIEW"}, reason : Reason \cup {None}]
Usage == [requests : Nat, admin : Nat, crashes : Nat, faults : Nat]
NoVerdict == [n |-> 0, action |-> "NONE", reason |-> None]

Timely == Delays = "bounded"
Least(a, b) == IF a < b THEN a ELSE b
Decrement(n) == IF n = 0 THEN 0 ELSE n - 1
Horizon == IF Grace < DispatchGrace THEN DispatchGrace ELSE Grace

Terminal == status \in Decided

\* Mutant: a lease whose holder died is never taken over.
LeaseNeverTakenOver == leaseBy = None

\* Unleased, or the lease has lapsed.
LeaseFree == leaseLeft = 0
Sent == sentAge # None
Lookups == Cardinality({i \in DOMAIN attempts : attempts[i].kind = "LOOKUP"})

\* _next_lookup: min(2 ^ max(attempt_count - 2, 0), 60) seconds from now.
NextLookup(attempt_count) ==
    LET delay == 2 ^ (IF attempt_count < 2 THEN 0 ELSE attempt_count - 2)
    IN  IF delay \in 0..MaxBackoff THEN delay ELSE MaxBackoff

-----------------------------------------------------------------------------
(* What a classified observation is, and what it asks for (validation.py). *)

ClassOf(o) ==
    CASE o = "SUCCEEDED" -> "VERIFIED_SUCCESS"
      [] o = "DECLINED"  -> "VERIFIED_DECLINE"
      [] o = "NOT_FOUND" -> "WITHIN_GRACE"
      [] OTHER           -> o

ActionOf(class) ==
    CASE class \in Finalizing -> "FINALIZE"
      [] class = "INVALID"    -> "REVIEW"
      [] OTHER                -> "NONE"

ResponseOf(class) ==
    CASE class = "VERIFIED_SUCCESS" -> "SUCCEEDED"
      [] class = "VERIFIED_DECLINE" -> "DECLINED"
      [] OTHER                      -> "NOT_FOUND"

-----------------------------------------------------------------------------
(* The finalizer: three transactions that any worker may run.  Each locks  *)
(* the payment, the operation, its resource and its idempotency records,   *)
(* and returns without a change when the operation is already terminal.    *)

Settle(n) ==
    LET r == ResponseOf(attempts[n].class)
    IN  /\ attempts[n].class \in Finalizing
        /\ response' = r
        /\ status' = IF r = "SUCCEEDED" THEN "SUCCEEDED" ELSE "FAILED"
        /\ postings' = IF r = "SUCCEEDED" THEN postings + 1 ELSE postings
        /\ records' = [k \in Keys |-> IF records[k] = None THEN None ELSE r]
        /\ reason' = None
        /\ lookupIn' = None
        /\ leaseBy' = None
        /\ leaseLeft' = 0
        /\ UNCHANGED <<sentAge, createdAge, failures, attempts>>

\* Mutant: decides on a row read before the lock was granted.
FinalizeWithoutRecheck(n) == Settle(n)

FinalizeVerifiedAttempt(n) ==
    IF Terminal THEN UNCHANGED opVars ELSE Settle(n)

MarkOperationForReview(why) ==
    IF Terminal THEN UNCHANGED opVars
    ELSE /\ status' = "REQUIRES_REVIEW"
         /\ reason' = why
         /\ lookupIn' = None
         /\ leaseBy' = None
         /\ leaseLeft' = 0
         /\ UNCHANGED <<response, sentAge, createdAge, failures, attempts,
                        records, postings>>

\* Mutant: clears next_lookup_at before the review limit is reached.
CountApplyFailureUnscheduled ==
    IF Terminal THEN UNCHANGED opVars
    ELSE /\ failures' = failures + 1
         /\ lookupIn' = None
         /\ IF failures + 1 >= ReviewAfter
            THEN status' = "REQUIRES_REVIEW" /\ reason' = "APPLY_FAILURE"
            ELSE UNCHANGED <<status, reason>>
         /\ UNCHANGED <<response, sentAge, createdAge, leaseBy, leaseLeft,
                        attempts, records, postings>>

CountApplyFailure ==
    IF Terminal THEN UNCHANGED opVars
    ELSE /\ failures' = failures + 1
         /\ IF failures + 1 >= ReviewAfter
            THEN /\ status' = "REQUIRES_REVIEW"
                 /\ reason' = "APPLY_FAILURE"
                 /\ lookupIn' = None
            ELSE UNCHANGED <<status, reason, lookupIn>>
         /\ UNCHANGED <<response, sentAge, createdAge, leaseBy, leaseLeft,
                        attempts, records, postings>>

-----------------------------------------------------------------------------
(* Moving a worker along its job.                                          *)

Goto(w, label) == pc' = [pc EXCEPT ![w] = label]

Forget(w) ==
    /\ seen' = [seen EXCEPT ![w] = None]
    /\ age' = [age EXCEPT ![w] = 0]
    /\ verdict' = [verdict EXCEPT ![w] = NoVerdict]
    /\ event' = [event EXCEPT ![w] = None]

\* A request goes on to answer its client; every other job is over.
Finish(w) ==
    /\ Goto(w, IF task[w] = "request" THEN "answer" ELSE "idle")
    /\ task' = [task EXCEPT ![w] = IF @ = "request" THEN @ ELSE None]
    /\ Forget(w)

Start(w, what, label) ==
    /\ pc[w] = "idle"
    /\ Goto(w, label)
    /\ task' = [task EXCEPT ![w] = what]

\* The outcome of a recorded attempt is applied in a transaction of its own.
Conclude(w, n, action, why) ==
    IF action = "NONE" THEN Finish(w)
    ELSE /\ Goto(w, "apply")
         /\ verdict' = [verdict EXCEPT
                ![w] = [n |-> n, action |-> action, reason |-> why]]
         /\ seen' = [seen EXCEPT ![w] = None]
         /\ age' = [age EXCEPT ![w] = 0]
         /\ UNCHANGED <<task, event>>

-----------------------------------------------------------------------------
(* An API request, and the first send.                                     *)

\* The stored response of a known key, or of the operation a new key joins.
AnswerFor(k) == IF records[k] \in Response THEN records[k] ELSE response

\* Mutant: joins a decided operation without copying its response.
AttachKeyOpen(k) == [records EXCEPT ![k] = IF @ # None THEN @ ELSE "OPEN"]

AttachKey(k) ==
    [records EXCEPT ![k] = IF @ # None THEN @ ELSE IF Terminal THEN response ELSE "OPEN"]

\* initiate_*: replay a known key; otherwise create the operation or attach
\* the key to it.  A stored answer goes straight back, a 202 is dispatched.
Initiate(w, k) ==
    /\ used.requests < MaxRequests
    /\ used' = [used EXCEPT !.requests = @ + 1]
    /\ status' = IF status = "ABSENT" THEN "PROCESSING" ELSE status
    /\ records' = AttachKey(k)
    /\ IF AnswerFor(k) # None
       THEN /\ pc[w] = "idle"
            /\ told' = told \cup {AnswerFor(k)}
            /\ UNCHANGED <<pc, task>>
       ELSE /\ Start(w, "request", "dispatch")
            /\ UNCHANGED told
    /\ UNCHANGED <<response, reason, sentAge, createdAge, lookupIn, leaseBy,
                   leaseLeft, failures, attempts, postings, providerVars,
                   inbox, seen, age, verdict, event>>

ClaimUnsent(w) ==
    /\ status = "PROCESSING"
    /\ ~Sent
    /\ createdAge >= UnsentGrace
    /\ LeaseFree
    /\ Start(w, "unsent", "dispatch")
    /\ leaseBy' = w
    /\ leaseLeft' = Lease
    /\ UNCHANGED <<status, response, reason, sentAge, createdAge, lookupIn,
                   failures, attempts, records, postings, providerVars, inbox,
                   seen, age, verdict, event, told, used>>

\* Mutant: sends again while the first send has no recorded answer.
LookupOnlyIfAnswered == Sent /\ attempts[1].class # "SENT"

\* A recorded send, answered or not, allows nothing but lookups.
LookupOnly == Sent

\* prepare_first_send: the send is on record before any byte leaves.
PrepareFirstSend(w) ==
    /\ pc[w] = "dispatch"
    /\ \/ Terminal /\ Finish(w) /\ UNCHANGED opVars
       \/ /\ ~Terminal /\ LookupOnly
          /\ Goto(w, "lookup")
          /\ UNCHANGED <<opVars, task, seen, age, verdict, event>>
       \/ /\ ~Terminal /\ ~LookupOnly
          /\ sentAge' = 0
          /\ lookupIn' = 0
          /\ attempts' = <<[kind |-> "MUTATION", class |-> "SENT", event |-> None]>>
          /\ Goto(w, "mutate")
          /\ UNCHANGED <<status, response, reason, createdAge, leaseBy, leaseLeft,
                         failures, records, postings, task, seen, age, verdict, event>>
    /\ UNCHANGED <<providerVars, inbox, told, used>>

SendMutation(w) ==
    /\ pc[w] = "mutate"
    /\ wire' = "request"
    /\ sends' = sends + 1
    /\ Goto(w, "await")
    /\ UNCHANGED <<opVars, effect, inbox, task, seen, age, verdict, event, told, used>>

\* The client gives up (ERROR), or reads what the provider answered.
ReceiveMutation(w) ==
    /\ pc[w] = "await"
    /\ \E o \in {"ERROR"} \cup (IF effect = None THEN {} ELSE {effect, "INVALID"}) :
          seen' = [seen EXCEPT ![w] = o]
    /\ Goto(w, "complete")
    /\ UNCHANGED <<opVars, providerVars, inbox, task, age, verdict, event, told, used>>

\* _complete_mutation.  Only the worker that prepared the send gets here, so
\* the attempt is still open; the operation itself may be terminal by now.
CompleteMutation(w) ==
    LET class == ClassOf(seen[w])
    IN  /\ pc[w] = "complete"
        /\ attempts[1].class = "SENT"
        /\ attempts' = [attempts EXCEPT ![1].class = class]
        /\ lookupIn' = IF seen[w] = "ERROR" THEN 0 ELSE NextLookup(1 + Lookups)
        /\ Conclude(w, 1, ActionOf(class),
                    IF class = "INVALID" THEN "INVALID_EVIDENCE" ELSE None)
        /\ UNCHANGED <<status, response, reason, sentAge, createdAge, leaseBy,
                       leaseLeft, failures, records, postings, providerVars,
                       inbox, told, used>>

\* read_operation, after the dispatch: the stored response, or a 202.
Answer(w) ==
    /\ pc[w] = "answer"
    /\ told' = IF Terminal THEN told \cup {response} ELSE told
    /\ Goto(w, "idle")
    /\ task' = [task EXCEPT ![w] = None]
    /\ UNCHANGED <<opVars, providerVars, inbox, seen, age, verdict, event, used>>

-----------------------------------------------------------------------------
(* Lookups.                                                                *)

Claim(w) ==
    /\ Sent
    /\ LeaseFree
    /\ Start(w, "recovery", "lookup")
    /\ leaseBy' = w
    /\ leaseLeft' = Lease
    /\ UNCHANGED <<status, response, reason, sentAge, createdAge, lookupIn,
                   failures, attempts, records, postings, providerVars, inbox,
                   seen, age, verdict, event, told>>

ClaimDue(w) ==
    /\ status = "PROCESSING"
    /\ lookupIn = 0
    /\ Claim(w)
    /\ UNCHANGED used

\* retry_lookup: claim_specific_operation(require_review=True).
ClaimForReview(w) ==
    /\ status = "REQUIRES_REVIEW"
    /\ used.admin < MaxAdmin
    /\ used' = [used EXCEPT !.admin = @ + 1]
    /\ Claim(w)

Lookup(w) ==
    /\ pc[w] = "lookup"
    /\ \E o \in {"ERROR", "INVALID", IF effect = None THEN "NOT_FOUND" ELSE effect} :
          seen' = [seen EXCEPT ![w] = o]
    /\ Goto(w, "record")
    /\ UNCHANGED <<opVars, providerVars, inbox, task, age, verdict, event, told, used>>

\* The dispatcher records without a lease and with the default grace.
Superseded(w) == task[w] = "recovery" /\ leaseBy # w
GraceFor(w) == IF task[w] = "recovery" THEN Grace ELSE DispatchGrace

\* Mutant: a not-found is final at once.
LookupClassWithoutGrace(w) ==
    IF seen[w] = "NOT_FOUND" THEN "NOT_FOUND_FINAL" ELSE ClassOf(seen[w])

LookupClass(w) ==
    IF seen[w] = "NOT_FOUND" /\ sentAge >= GraceFor(w)
    THEN "NOT_FOUND_FINAL" ELSE ClassOf(seen[w])

\* Every earlier LOOKUP attempt counts, whatever its classification.
LookupsExhausted(w) ==
    /\ seen[w] \in {"ERROR", "PENDING"}
    /\ Lookups + 1 >= IndeterminateAfter

RecordLookup(w) ==
    /\ pc[w] = "record"
    /\ IF Terminal \/ Superseded(w)
       THEN Finish(w) /\ UNCHANGED opVars
       ELSE LET class == LookupClass(w)
                next  == NextLookup(Lookups + 2)
            IN  /\ attempts' = Append(attempts,
                       [kind |-> "LOOKUP", class |-> class, event |-> None])
                /\ leaseBy' = None
                /\ leaseLeft' = 0
                /\ lookupIn' = IF class = "WITHIN_GRACE"
                               THEN Least(next, GraceFor(w) - sentAge) ELSE next
                /\ IF LookupsExhausted(w)
                   THEN Conclude(w, Len(attempts) + 1, "REVIEW", "PROVIDER_INDETERMINATE")
                   ELSE Conclude(w, Len(attempts) + 1, ActionOf(class),
                            IF class = "INVALID" THEN "INVALID_EVIDENCE" ELSE None)
                /\ UNCHANGED <<status, response, reason, sentAge, createdAge,
                               failures, records, postings>>
    /\ UNCHANGED <<providerVars, inbox, told, used>>

-----------------------------------------------------------------------------
(* apply_recorded_outcome.                                                 *)

ApplyFinalize(w) ==
    /\ pc[w] = "apply"
    /\ verdict[w].action = "FINALIZE"
    /\ FinalizeVerifiedAttempt(verdict[w].n)
    /\ IF task[w] = "event"
       THEN Goto(w, "finishEvent") /\ UNCHANGED <<task, seen, age, verdict, event>>
       ELSE Finish(w)
    /\ UNCHANGED <<providerVars, inbox, told, used>>

\* The finalizer's transaction rolls back with a RelayPayError or a
\* SQLAlchemyError.
ApplyFails(w) ==
    /\ pc[w] = "apply"
    /\ verdict[w].action = "FINALIZE"
    /\ used.faults < MaxFaults
    /\ used' = [used EXCEPT !.faults = @ + 1]
    /\ Goto(w, "applyFailed")
    /\ UNCHANGED <<opVars, providerVars, inbox, task, seen, age, verdict, event, told>>

RecordApplyFailure(w) ==
    /\ pc[w] = "applyFailed"
    /\ CountApplyFailure
    /\ Finish(w)
    /\ UNCHANGED <<providerVars, inbox, told, used>>

ApplyReview(w) ==
    /\ pc[w] = "apply"
    /\ verdict[w].action = "REVIEW"
    /\ MarkOperationForReview(verdict[w].reason)
    /\ Finish(w)
    /\ UNCHANGED <<providerVars, inbox, told, used>>

-----------------------------------------------------------------------------
(* The webhook inbox.                                                      *)

\* accept_psp_event stores the first delivery of an event id; a repeated
\* delivery changes nothing.  The provider reports its effect, or something
\* the applier's validation rejects.
AcceptEvent(e) ==
    /\ effect # None
    /\ inbox[e].status = "ABSENT"
    /\ \E says \in {effect, "INVALID"} :
          inbox' = [inbox EXCEPT ![e] = [@ EXCEPT !.status = "PENDING", !.says = says]]
    /\ UNCHANGED <<opVars, providerVars, workerVars, told, used>>

\* Mutant: an event whose claimer died stays PROCESSING.
ClaimableOnce(e) == inbox[e].status = "PENDING"

Claimable(e) ==
    \/ inbox[e].status = "PENDING"
    \/ inbox[e].status = "PROCESSING" /\ inbox[e].left = 0

Closed(e, as) == [inbox EXCEPT ![e] = [@ EXCEPT !.status = as, !.by = None, !.left = 0]]

ClaimEvent(w, e) ==
    /\ Claimable(e)
    /\ inbox[e].claims < MaxEventAttempts
    /\ inbox' = [inbox EXCEPT ![e] = [status |-> "PROCESSING", says |-> inbox[e].says,
                     by |-> w, left |-> EventLease, claims |-> inbox[e].claims + 1]]
    /\ Start(w, "event", "prepareEvent")
    /\ event' = [event EXCEPT ![w] = e]
    /\ UNCHANGED <<opVars, providerVars, seen, age, verdict, told, used>>

DeadLetter(e) ==
    /\ Claimable(e)
    /\ inbox[e].claims >= MaxEventAttempts
    /\ inbox' = Closed(e, "DEAD_LETTER")
    /\ UNCHANGED <<opVars, providerVars, workerVars, told, used>>

HoldsEvent(w) ==
    /\ inbox[event[w]].by = w
    /\ inbox[event[w]].status = "PROCESSING"

RecordedFor(e) ==
    {i \in DOMAIN attempts : attempts[i].kind = "WEBHOOK" /\ attempts[i].event = e}

\* decide(): events of an operation may come late, repeatedly, in any order.
\* (The event being decided is not APPLIED yet, so rule 1 never fires here.)
Decide(says) ==
    IF says = "INVALID" THEN "REJECT"
    ELSE IF says = "PENDING" THEN "IGNORE"
    ELSE IF ~Terminal THEN "APPLY"
    ELSE IF says = "SUCCEEDED" <=> status = "SUCCEEDED" THEN "IGNORE"
    ELSE "CONTRADICTION"

\* _prepare, one disjunct per way out of its transaction.
PrepareEvent(w) ==
    LET e == event[w]
        decision == Decide(inbox[e].says)
        fresh == HoldsEvent(w) /\ RecordedFor(e) = {}
    IN  /\ pc[w] = "prepareEvent"
        /\ \/ /\ ~HoldsEvent(w)
              /\ Finish(w)
              /\ UNCHANGED <<inbox, attempts>>
           \/ /\ HoldsEvent(w)
              /\ \E n \in RecordedFor(e) : Conclude(w, n, "FINALIZE", None)
              /\ UNCHANGED <<inbox, attempts>>
           \/ /\ fresh
              /\ decision = "IGNORE"
              /\ inbox' = Closed(e, "IGNORED")
              /\ Finish(w)
              /\ UNCHANGED attempts
           \/ /\ fresh
              /\ decision \in {"REJECT", "CONTRADICTION"}
              /\ inbox' = Closed(e, "REVIEW")
              /\ Conclude(w, 0, "REVIEW", IF decision = "REJECT"
                     THEN "INVALID_EVIDENCE" ELSE "CONTRADICTS_TERMINAL_STATE")
              /\ UNCHANGED attempts
           \/ /\ fresh
              /\ decision = "APPLY"
              /\ attempts' = Append(attempts, [kind |-> "WEBHOOK",
                     class |-> ClassOf(inbox[e].says), event |-> e])
              /\ Conclude(w, Len(attempts) + 1, "FINALIZE", None)
              /\ UNCHANGED inbox
        /\ UNCHANGED <<status, response, reason, sentAge, createdAge, lookupIn,
                       leaseBy, leaseLeft, failures, records, postings,
                       providerVars, told, used>>

FinishEvent(w) ==
    /\ pc[w] = "finishEvent"
    /\ inbox' = IF inbox[event[w]].by = w THEN Closed(event[w], "APPLIED") ELSE inbox
    /\ Finish(w)
    /\ UNCHANGED <<opVars, providerVars, told, used>>

-----------------------------------------------------------------------------
(* The provider, crashes, and time.                                        *)

\* The request in flight is applied (apply_effect: one effect per stable key,
\* whose outcome never changes), refused before any effect, or lost.
ProviderReceives ==
    /\ wire = "request"
    /\ wire' = "empty"
    /\ \E outcome \in Outcome \cup {None} : effect' = outcome
    /\ UNCHANGED <<opVars, sends, inbox, workerVars, told, used>>

Crash(w) ==
    /\ pc[w] # "idle"
    /\ used.crashes < MaxCrashes
    /\ used' = [used EXCEPT !.crashes = @ + 1]
    /\ Goto(w, "idle")
    /\ task' = [task EXCEPT ![w] = None]
    /\ Forget(w)
    /\ UNCHANGED <<opVars, providerVars, inbox, told>>

Looking(w) == pc[w] \in {"lookup", "record"}
SendPending == wire = "request" \/ \E w \in Workers : pc[w] = "mutate"

\* When Timely, no send and no lookup outlives its bound.
InTime ==
    Timely => /\ SendPending => sentAge < SendDelay
              /\ \A w \in Workers : Looking(w) => age[w] < LookupDelay

Tick ==
    /\ status # "ABSENT"
    /\ InTime
    /\ sentAge' = IF Sent THEN Least(sentAge + 1, Horizon) ELSE None
    /\ createdAge' = Least(createdAge + 1, UnsentGrace)
    /\ lookupIn' = IF lookupIn = None THEN None ELSE Decrement(lookupIn)
    /\ leaseLeft' = Decrement(leaseLeft)
    /\ inbox' = [e \in Events |-> [inbox[e] EXCEPT !.left = Decrement(@)]]
    /\ age' = [w \in Workers |-> IF Timely /\ Looking(w) THEN age[w] + 1 ELSE age[w]]
    /\ UNCHANGED <<status, response, reason, leaseBy, failures, attempts,
                   records, postings, providerVars, pc, task, seen, verdict,
                   event, told, used>>

-----------------------------------------------------------------------------
Init ==
    /\ status = "ABSENT" /\ response = None /\ reason = None
    /\ sentAge = None /\ createdAge = 0 /\ lookupIn = None
    /\ leaseBy = None /\ leaseLeft = 0
    /\ failures = 0 /\ attempts = <<>> /\ postings = 0
    /\ records = [k \in Keys |-> None]
    /\ effect = None /\ wire = "empty" /\ sends = 0
    /\ inbox = [e \in Events |-> [status |-> "ABSENT", says |-> None, by |-> None,
                                  left |-> 0, claims |-> 0]]
    /\ pc = [w \in Workers |-> "idle"]
    /\ task = [w \in Workers |-> None]
    /\ seen = [w \in Workers |-> None]
    /\ age = [w \in Workers |-> 0]
    /\ verdict = [w \in Workers |-> NoVerdict]
    /\ event = [w \in Workers |-> None]
    /\ told = {}
    /\ used = [requests |-> 0, admin |-> 0, crashes |-> 0, faults |-> 0]

\* The next step of the job a worker is in.
Proceed(w) ==
    \/ PrepareFirstSend(w) \/ SendMutation(w) \/ ReceiveMutation(w)
    \/ CompleteMutation(w) \/ Lookup(w) \/ RecordLookup(w) \/ ApplyFinalize(w)
    \/ RecordApplyFailure(w) \/ ApplyReview(w) \/ PrepareEvent(w)
    \/ FinishEvent(w) \/ Answer(w)

Next ==
    \/ \E w \in Workers :
          \/ \E k \in Keys : Initiate(w, k)
          \/ ClaimUnsent(w) \/ ClaimDue(w) \/ ClaimForReview(w)
          \/ \E e \in Events : ClaimEvent(w, e)
          \/ Proceed(w)
          \/ ApplyFails(w) \/ Crash(w)
    \/ \E e \in Events : AcceptEvent(e) \/ DeadLetter(e)
    \/ ProviderReceives
    \/ Tick

Spec == Init /\ [][Next]_vars

-----------------------------------------------------------------------------
(* Properties.                                                             *)

OpTypeOK ==
    /\ status \in Status
    /\ response \in Response \cup {None}
    /\ reason \in Reason \cup {None}
    /\ sentAge \in (0..Horizon) \cup {None}
    /\ createdAge \in 0..UnsentGrace
    /\ lookupIn \in Nat \cup {None}
    /\ leaseBy \in Workers \cup {None}
    /\ leaseLeft \in 0..Lease
    /\ failures \in Nat
    /\ attempts \in Seq(Attempt)
    /\ records \in [Keys -> Response \cup {"OPEN", None}]
    /\ postings \in Nat

ProviderTypeOK ==
    /\ effect \in Outcome \cup {None}
    /\ wire \in {"empty", "request"}
    /\ sends \in Nat

InboxTypeOK ==
    inbox \in [Events -> InboxEvent]

WorkerTypeOK ==
    /\ pc \in [Workers -> Pc]
    /\ task \in [Workers -> Task \cup {None}]
    /\ seen \in [Workers -> Observation \cup {None}]
    /\ age \in [Workers -> Nat]
    /\ verdict \in [Workers -> Verdict]
    /\ event \in [Workers -> Events \cup {None}]

\* The rows and the workers stay well formed.
TypeOK ==
    /\ OpTypeOK
    /\ ProviderTypeOK
    /\ InboxTypeOK
    /\ WorkerTypeOK
    /\ told \subseteq Response
    /\ used \in Usage

\* However many API requests, pollers and crashes race over the operation, its
\* mutation is put on the wire at most once (ADR-002: the send is recorded
\* first, and whoever finds it recorded looks up instead).
SendAtMostOnce == sends <= 1

\* Every idempotency key of the operation, attached before or after it was
\* decided, and every client that was ever given a final answer, holds the
\* operation's one stored response (_attach_key, finalize_verified_attempt).
OneAnswer ==
    /\ \A r \in told : r = response
    /\ \A k \in Keys : records[k] \in Response => records[k] = response
    /\ Terminal => \A k \in Keys : records[k] # "OPEN"

\* Money is posted and the merchant notified exactly once for a success, never
\* for a failure, though the request, the poller, an operator and a webhook
\* may all reach finalize_verified_attempt with evidence of their own.
PostedOnce == postings = IF status = "SUCCEEDED" THEN 1 ELSE 0

\* A success or a decline that was finalized is what the provider did.
AnswerMatchesEffect ==
    /\ response = "SUCCEEDED" => effect = "SUCCEEDED"
    /\ response = "DECLINED" => effect = "DECLINED"

\* ADR-011, "an effect that exists always wins": an operation failed as not
\* found has no effect at the provider and no request that could still make
\* one.  Needs the delay bounds (Timely).
AbsenceIsReal == response = "NOT_FOUND" => effect = None /\ ~SendPending

\* A not-found fails the operation only once the configured grace period has
\* passed since the recorded send (record_lookup_observation).
GraceRespected == response = "NOT_FOUND" => Sent /\ sentAge >= Grace

\* A sent operation that is still PROCESSING always has a next lookup, so the
\* poller never loses sight of it: every path that clears next_lookup_at also
\* leaves PROCESSING.
AlwaysScheduled == status = "PROCESSING" /\ Sent => lookupIn # None

\* An event is marked APPLIED only for an operation that ended the way the
\* event says, although the finalizer ignores evidence that comes too late.
\* Needs the delay bounds (Timely).
AppliedEventAgrees ==
    \A e \in Events : inbox[e].status = "APPLIED" =>
        status = IF inbox[e].says = "SUCCEEDED" THEN "SUCCEEDED" ELSE "FAILED"

\* Once decided, an operation keeps its status, its response and its postings,
\* and no client is ever told anything else: late mutation responses, lookups,
\* webhooks and review requests change nothing of it.
DecisionStands ==
    [][Terminal => /\ UNCHANGED <<status, response, postings>>
                   /\ told' \subseteq told \cup {response}]_vars

Contract == INSTANCE OperationContract

\* The whole machinery keeps the promise the rest of the system builds on: one
\* effect, one decision that agrees with it and is posted with it, and clients
\* told nothing else.  Needs the delay bounds (Timely).
ImplementsContract == Contract!Spec

-----------------------------------------------------------------------------
(* Liveness.  Pollers run for ever, a worker that is not crashed goes on,   *)
(* a request in flight arrives or is lost, and time passes.                *)

Fairness ==
    /\ WF_vars(Tick)
    /\ WF_vars(ProviderReceives)
    /\ \A w \in Workers : WF_vars(Proceed(w))
    /\ WF_vars(\E w \in Workers : ClaimUnsent(w))
    /\ WF_vars(\E w \in Workers : ClaimDue(w))
    /\ \A e \in Events : /\ WF_vars(\E w \in Workers : ClaimEvent(w, e))
                         /\ WF_vars(DeadLetter(e))

FairSpec == Spec /\ Fairness

\* Every operation the API accepted comes to rest: decided, or in front of an
\* operator, whatever crashed or got lost on the way.
EventuallyRests ==
    status = "PROCESSING" ~> status \in Decided \cup {"REQUIRES_REVIEW"}

\* Every accepted webhook is eventually closed: applied, ignored, sent to
\* review, or dead-lettered after MAX_EVENT_ATTEMPTS claims.
EventsAreClosed ==
    \A e \in Events : inbox[e].status = "PENDING" ~>
        inbox[e].status \in {"APPLIED", "IGNORED", "REVIEW", "DEAD_LETTER"}
=============================================================================
