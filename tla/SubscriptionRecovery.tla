------------------------ MODULE SubscriptionRecovery ------------------------
(***************************************************************************)
(* The recovery of one failed subscription invoice: intake of the provider's *)
(* failure events (subscriptions/intake.py), the recovery case and its     *)
(* scheduled payment retries and messages (subscriptions/service.py,       *)
(* policy.py), their execution by the poller and by administrators         *)
(* (subscriptions/execution.py), and the customer's opt-out                *)
(* (apps/api/routes/admin.py).                                             *)
(*                                                                         *)
(* An execution is three transactions' worth of steps around a network     *)
(* call: prepare (row lock on the action), the call, and the recording,    *)
(* which reads the action, the case and the invoice without a lock and     *)
(* writes back what it changed.  Time is the position in the schedule:     *)
(* Schedule[i] is due at i, the policy window closes after the last.       *)
(***************************************************************************)
EXTENDS Integers, Sequences, FiniteSets, FiniteSetsExt

CONSTANTS Pollers, Requests,   \* poller processes, administrators' requests
          Schedule,            \* the proposed actions in scheduled order
          Payments,            \* the payment retries among them
          Failures,            \* the provider's failure events
          RetryLimit, MessageLimit,  \* 3 and 3 in the code
          None

VARIABLES now, caseStatus, retries, messages, closed, action, record,
          attempts, invoice, subscription, optOut, wire, effect, sends, job

vars == <<now, caseStatus, retries, messages, closed, action, record,
          attempts, invoice, subscription, optOut, wire, effect, sends, job>>

rows == <<caseStatus, retries, messages, closed, action, record, attempts,
          invoice, subscription>>
network == <<wire, effect, sends>>

Executors == Pollers \cup Requests
Actions == {Schedule[i] : i \in DOMAIN Schedule}
Messages == Actions \ Payments
Position(a) == CHOOSE i \in DOMAIN Schedule : Schedule[i] = a

TERMINAL_CASE_STATES == {"RECOVERED", "TERMINATED", "EXPIRED"}
Due(a) == Position(a) <= now
Expired == now > Len(Schedule)
Open == {"SCHEDULED", "EXECUTING", "AMBIGUOUS"}

NoJob == [pc |-> "idle"]
Goto(c, value) == job' = [job EXCEPT ![c] = value]
Done(c) == Goto(c, NoJob)

-----------------------------------------------------------------------------
(* Row locks.  A prepare holds its action's row from SELECT FOR UPDATE to   *)
(* commit, an opt-out the case's row.                                       *)

ActionLocked(a) == \E c \in Executors : job[c].pc = "locked" /\ job[c].action = a
CaseLocked == optOut = "locked"

-----------------------------------------------------------------------------
(* Intake. *)

\* propose_actions: no retries unless the decline is soft.
Proposed(class) ==
    CASE class = "SOFT" -> Actions
      [] class = "OTHER" -> Messages
      [] OTHER -> {}

NextNumber == Cardinality(attempts) + 1

\* consume_recurring_payment_failed, once record_consumption lets the event
\* through: the attempt is recorded, the invoice marked FAILED, and a verified
\* failure opens the invoice's case unless there is one.
ConsumePaymentFailed(e, class) ==
    /\ \A r \in attempts : r.key # e
    /\ attempts' = attempts \cup {[key |-> e, number |-> NextNumber,
           outcome |-> IF class = "UNKNOWN" THEN "UNKNOWN" ELSE "FAILED"]}
    /\ invoice' = "FAILED"
    /\ IF class = "UNKNOWN" \/ caseStatus # None
       THEN UNCHANGED <<caseStatus, action, subscription>>
       ELSE /\ caseStatus' = IF Proposed(class) = {} THEN "TERMINATED" ELSE "SCHEDULED"
            /\ action' = [a \in Actions |-> IF a \in Proposed(class) THEN "SCHEDULED" ELSE None]
            /\ subscription' = "PAST_DUE"
    /\ UNCHANGED <<now, retries, messages, closed, record, optOut, network, job>>

-----------------------------------------------------------------------------
(* Termination. *)

Cancelled(status) == IF status \in Open THEN "CANCELLED" ELSE status

\* The bulk UPDATE waits for a prepare that holds one of the rows.
CanTerminate(but) == \A a \in Actions \ but : action[a] \in Open => ~ActionLocked(a)

\* terminate_case on a case the transaction has read as not terminal, with
\* the actions as the transaction has flushed them.
TerminateCase(status, flushed) ==
    /\ caseStatus' = status
    /\ action' = [a \in Actions |-> Cancelled(flushed[a])]
    /\ closed' = closed + 1
    /\ subscription' = IF status = "RECOVERED" THEN "RECOVERED" ELSE subscription

\* post_recovery_opt_out, one request: the case row is locked first ...
OptOutLock ==
    /\ optOut = "none"
    /\ caseStatus # None
    /\ optOut' = "locked"
    /\ UNCHANGED <<now, rows, network, job>>

\* ... then record_opt_out terminates the case unless it already is terminal.
OptOut ==
    /\ CaseLocked
    /\ optOut' = "done"
    /\ IF caseStatus \in TERMINAL_CASE_STATES
       THEN UNCHANGED <<caseStatus, action, closed, subscription>>
       ELSE CanTerminate({}) /\ TerminateCase("TERMINATED", action)
    /\ UNCHANGED <<now, retries, messages, record, attempts, invoice, network, job>>

-----------------------------------------------------------------------------
(* Selection. *)

\* run_recovery_action_batch, FOR UPDATE SKIP LOCKED.
Selectable(a) ==
    /\ caseStatus \notin TERMINAL_CASE_STATES \cup {None}
    /\ action[a] \in Open
    /\ Due(a)
    /\ ~ActionLocked(a)
    /\ ~CaseLocked

First(a) == \A b \in Actions : Selectable(b) => Position(a) <= Position(b)

\* Mutant: the batch leaves an expired case alone.
ExpiresNever == FALSE

Expires == Expired

SelectAction(p) ==
    /\ job[p].pc = "idle"
    /\ \E a \in Actions :
         /\ Selectable(a)
         /\ First(a)
         /\ IF Expires
            THEN /\ CanTerminate({})
                 /\ TerminateCase("EXPIRED", action)
                 /\ UNCHANGED job
            ELSE /\ Goto(p, [pc |-> "selected", action |-> a])
                 /\ UNCHANGED <<caseStatus, action, closed, subscription>>
    /\ UNCHANGED <<now, retries, messages, record, attempts, invoice, optOut, network>>

\* post_recovery_action: an administrator names the action.
RequestAction(r, a) ==
    /\ job[r].pc = "idle"
    /\ action[a] # None
    /\ Goto(r, [pc |-> "selected", action |-> a])
    /\ UNCHANGED <<now, rows, optOut, network>>

-----------------------------------------------------------------------------
(* Prepare. *)

Lookup(status) == status \in {"EXECUTING", "AMBIGUOUS"}

Refused(a) ==
    \/ caseStatus \in TERMINAL_CASE_STATES
    \/ Expired
    \/ ~Due(a)
    \/ action[a] \notin Open

\* _prepare_action up to its last read: lock the action, read the case.
PrepareLock(c) ==
    /\ job[c].pc = "selected"
    /\ LET a == job[c].action IN
         /\ ~ActionLocked(a)
         /\ IF Refused(a)
            THEN Done(c)
            ELSE Goto(c, [pc |-> "locked", action |-> a,
                          mode |-> IF Lookup(action[a]) THEN "LOOKUP" ELSE "SEND"])
    /\ UNCHANGED <<now, rows, optOut, network>>

\* The CommunicationRecord's foreign key locks the case's row FOR KEY SHARE.
InsertsRecord(c) == job[c].action \in Messages /\ record[job[c].action] = None

\* _prepare_action's writes and its commit.
Prepare(c) ==
    /\ job[c].pc = "locked"
    /\ InsertsRecord(c) => ~CaseLocked
    /\ LET a == job[c].action IN
         /\ action' = [action EXCEPT ![a] = "EXECUTING"]
         /\ record' = IF InsertsRecord(c) THEN [record EXCEPT ![a] = "SENT"] ELSE record
         /\ Goto(c, [pc |-> "prepared", action |-> a, mode |-> job[c].mode])
    /\ UNCHANGED <<now, caseStatus, retries, messages, closed, attempts, invoice,
                   subscription, optOut, network>>

\* An opt-out that waits for the action and a prepare that waits for the case.
LockCycle(c) ==
    /\ CaseLocked
    /\ job[c].pc = "locked"
    /\ InsertsRecord(c)

\* PostgreSQL ends a lock cycle by aborting one of the two transactions.
DeadlockAbort(c) ==
    /\ LockCycle(c)
    /\ \/ Done(c) /\ UNCHANGED optOut
       \/ optOut' = "aborted" /\ UNCHANGED job
    /\ UNCHANGED <<now, rows, network>>

-----------------------------------------------------------------------------
(* The network. *)

\* execute_message_action, execute_payment_action: the call.
CallNetwork(c) ==
    /\ job[c].pc = "prepared"
    /\ LET a == job[c].action
           sending == job[c].mode = "SEND" IN
         /\ wire' = IF sending THEN wire \cup {a} ELSE wire
         /\ sends' = IF sending THEN [sends EXCEPT ![a] = @ + 1] ELSE sends
         /\ Goto(c, [pc |-> "waiting", action |-> a])
    /\ UNCHANGED <<now, rows, optOut, effect>>

Results(a) == IF a \in Payments THEN {"SUCCEEDED", "SOFT", "HARD"} ELSE {"SUCCEEDED", "FAILED"}

\* The recovery network: one effect for each stable key.
NetworkApplies(a) ==
    /\ a \in wire
    /\ wire' = wire \ {a}
    /\ effect' \in {[effect EXCEPT ![a] = IF @ = None THEN x ELSE @] : x \in Results(a)}
    /\ UNCHANGED <<now, rows, optOut, sends, job>>

RequestLost(a) ==
    /\ a \in wire
    /\ wire' = wire \ {a}
    /\ UNCHANGED <<now, rows, optOut, effect, sends, job>>

\* The reply, or UNKNOWN: a lookup that finds nothing, a timeout or connection
\* error that _safe_network_call catches.
Answer(c) ==
    /\ job[c].pc = "waiting"
    /\ LET a == job[c].action IN
         \E x \in {effect[a], "UNKNOWN"} \ {None} :
             Goto(c, [pc |-> "answered", action |-> a, answer |-> x])
    /\ UNCHANGED <<now, rows, optOut, network>>

\* An httpx error, which _safe_network_call does not catch, or the process
\* stops: whatever was not committed is gone.
Crash(c) ==
    /\ job[c].pc # "idle"
    /\ Done(c)
    /\ UNCHANGED <<now, rows, optOut, network>>

-----------------------------------------------------------------------------
(* Recording. *)

\* session.get of the action, the case and the invoice: no row is locked.
RecordRead(c) ==
    /\ job[c].pc = "answered"
    /\ LET a == job[c].action IN
         Goto(c, [pc |-> "read", action |-> a, answer |-> job[c].answer,
                  saw |-> [action |-> action[a], case |-> caseStatus,
                           retries |-> retries, messages |-> messages,
                           record |-> record[a], invoice |-> invoice]])
    /\ UNCHANGED <<now, rows, optOut, network>>

Known(answer) == answer # "UNKNOWN"

\* The next attempt number is read by a later statement.
RecordReadNumber(c) ==
    /\ job[c].pc = "read"
    /\ job[c].action \in Payments
    /\ Known(job[c].answer)
    /\ Goto(c, [pc |-> "numbered", action |-> job[c].action, answer |-> job[c].answer,
                saw |-> job[c].saw, number |-> NextNumber])
    /\ UNCHANGED <<now, rows, optOut, network>>

\* The ORM writes an attribute only when it differs from the value it read.
Written(current, saw, value) == IF saw = value THEN current ELSE value

Succeeded(answer) == answer = "SUCCEEDED"

\* execute_message_action's second transaction.
RecordMessage(c) ==
    /\ job[c].pc = "read"
    /\ job[c].action \in Messages
    /\ LET a == job[c].action
           saw == job[c].saw
           known == Known(job[c].answer)
           delivered == Succeeded(job[c].answer)
           count == saw.messages + 1
       IN /\ ~ActionLocked(a)
          /\ delivered => ~CaseLocked
          /\ IF delivered /\ count > MessageLimit
             THEN UNCHANGED rows
             ELSE /\ action' = [action EXCEPT ![a] =
                        Written(@, saw.action, IF known THEN "EXECUTED" ELSE "AMBIGUOUS")]
                  /\ record' = [record EXCEPT ![a] =
                        Written(@, saw.record, IF delivered THEN "DELIVERED"
                                               ELSE IF known THEN "FAILED" ELSE "AMBIGUOUS")]
                  /\ messages' = IF delivered THEN count ELSE messages
                  /\ UNCHANGED <<caseStatus, retries, closed, attempts, invoice, subscription>>
    /\ Done(c)
    /\ UNCHANGED <<now, optOut, network>>

\* execute_payment_action's second transaction on an unknown outcome.
RecordUnknownPayment(c) ==
    /\ job[c].pc = "read"
    /\ job[c].action \in Payments
    /\ ~Known(job[c].answer)
    /\ LET a == job[c].action IN
         /\ ~ActionLocked(a)
         /\ action' = [action EXCEPT ![a] = Written(@, job[c].saw.action, "AMBIGUOUS")]
    /\ Done(c)
    /\ UNCHANGED <<now, caseStatus, retries, messages, closed, record, attempts,
                   invoice, subscription, optOut, network>>

\* Mutant: the attempt's key is not unique.
FreshNumberOnly(key, number) == \A r \in attempts : r.number # number

\* The UNIQUE constraints of recurring_payment_attempts.
Fresh(key, number) == \A r \in attempts : r.key # key /\ r.number # number

\* What the recording makes of the case, None when it leaves it open.
Ends(answer, count) ==
    CASE Succeeded(answer) -> "RECOVERED"
      [] answer = "HARD" -> "TERMINATED"
      [] count >= RetryLimit -> "TERMINATED"
      [] OTHER -> None

\* execute_payment_action's second transaction on a verified outcome; a
\* violated constraint rolls all of it back.
RecordPayment(c) ==
    /\ job[c].pc = "numbered"
    /\ LET a == job[c].action
           saw == job[c].saw
           count == saw.retries + 1
           end == IF saw.case \in TERMINAL_CASE_STATES THEN None ELSE Ends(job[c].answer, count)
           flushed == [action EXCEPT ![a] = Written(@, saw.action, "EXECUTED")]
       IN /\ ~ActionLocked(a)
          /\ ~CaseLocked
          /\ end # None => CanTerminate({a})
          /\ IF ~Fresh(a, job[c].number) \/ count > RetryLimit
             THEN UNCHANGED rows
             ELSE /\ attempts' = attempts \cup {[key |-> a, number |-> job[c].number,
                        outcome |-> IF Succeeded(job[c].answer) THEN "SUCCEEDED" ELSE "FAILED"]}
                  /\ retries' = count
                  /\ invoice' = IF Succeeded(job[c].answer)
                                THEN Written(invoice, saw.invoice, "PAID") ELSE invoice
                  /\ IF end = None
                     THEN action' = flushed /\ UNCHANGED <<caseStatus, closed, subscription>>
                     ELSE TerminateCase(end, flushed)
                  /\ UNCHANGED <<messages, record>>
    /\ Done(c)
    /\ UNCHANGED <<now, optOut, network>>

-----------------------------------------------------------------------------
Tick ==
    /\ caseStatus # None
    /\ ~Expired
    /\ now' = now + 1
    /\ UNCHANGED <<rows, optOut, network, job>>

Init ==
    /\ now = 1
    /\ caseStatus = None
    /\ retries = 0 /\ messages = 0 /\ closed = 0
    /\ action = [a \in Actions |-> None]
    /\ record = [a \in Actions |-> None]
    /\ attempts = {}
    /\ invoice = "OPEN" /\ subscription = "ACTIVE"
    /\ optOut = "none"
    /\ wire = {}
    /\ effect = [a \in Actions |-> None]
    /\ sends = [a \in Actions |-> 0]
    /\ job = [c \in Executors |-> NoJob]

Proceed(c) ==
    \/ PrepareLock(c) \/ Prepare(c) \/ CallNetwork(c) \/ Answer(c)
    \/ RecordRead(c) \/ RecordReadNumber(c)
    \/ RecordMessage(c) \/ RecordUnknownPayment(c) \/ RecordPayment(c)

Next ==
    \/ \E e \in Failures, class \in {"SOFT", "HARD", "OTHER", "UNKNOWN"} :
           ConsumePaymentFailed(e, class)
    \/ OptOutLock
    \/ OptOut
    \/ \E p \in Pollers : SelectAction(p)
    \/ \E r \in Requests, a \in Actions : RequestAction(r, a)
    \/ \E c \in Executors : Proceed(c) \/ DeadlockAbort(c) \/ Crash(c)
    \/ \E a \in Actions : NetworkApplies(a) \/ RequestLost(a)
    \/ Tick

Spec == Init /\ [][Next]_vars

\* The poller runs every second and its transactions and calls end; a request
\* or an opt-out that has begun ends; the network takes or loses a request.
Fairness ==
    /\ \A c \in Executors : WF_vars(Proceed(c)) /\ WF_vars(DeadlockAbort(c))
    /\ \A p \in Pollers : WF_vars(SelectAction(p))
    /\ \A a \in Actions : WF_vars(NetworkApplies(a) \/ RequestLost(a))
    /\ WF_vars(OptOut)
    /\ WF_vars(Tick)

FairSpec == Spec /\ Fairness

-----------------------------------------------------------------------------
(* Properties. *)

\* A scheduled action is sent to the network at most once, whoever executes,
\* crashes or repeats it: an action found EXECUTING or AMBIGUOUS is only looked
\* up (_prepare_action, the mode).
SentAtMostOnce == \A a \in Actions : sends[a] <= 1

\* A recorded retry says what the network did, and the invoice and the case
\* claim a recovered payment only on such a record (execute_payment_action).
AttemptsAreTrue ==
    /\ \A r \in attempts : r.key \in Payments =>
           /\ effect[r.key] # None
           /\ (r.outcome = "SUCCEEDED") <=> (effect[r.key] = "SUCCEEDED")
    /\ invoice = "PAID" \/ caseStatus = "RECOVERED" \/ subscription = "RECOVERED" =>
           \E r \in attempts : r.outcome = "SUCCEEDED"

\* However the recordings race, the retry counter never runs ahead of the
\* recorded retries, so a case is not given up as exhausted early
\* (execute_payment_action, payment_retry_count).
RetriesNotOvercounted ==
    retries <= Cardinality({r.key : r \in attempts} \cap Payments)

\* A terminal case has no action left that anyone would start or look up
\* (terminate_case, the bulk UPDATE).
TerminalSuppresses ==
    caseStatus \in TERMINAL_CASE_STATES =>
        \A a \in Actions : action[a] \notin {"SCHEDULED", "EXECUTING"}

\* Every scheduled action is in the end executed, cancelled, or left ambiguous
\* in a terminal case (run_recovery_action_batch).
EventuallySettled ==
    \A a \in Actions : action[a] # None ~>
        \/ action[a] \in {"EXECUTED", "CANCELLED"}
        \/ action[a] = "AMBIGUOUS" /\ caseStatus \in TERMINAL_CASE_STATES

\* What the recovery of an invoice promises, all together (_prepare_action,
\* execute_payment_action, terminate_case).
RecoveryPromise ==
    SentAtMostOnce /\ AttemptsAreTrue /\ RetriesNotOvercounted /\ TerminalSuppresses
=============================================================================
