---------------------------- MODULE WorkflowSteps ----------------------------
(***************************************************************************)
(* The leased step engine (packages/relaypay/agent_runtime/workflows.py):  *)
(* the steps of one run, claimed, completed and failed by workers under a  *)
(* lease, and the token budget of the run.                                 *)
(*                                                                         *)
(* complete_step and fail_step read without a lock and write what they     *)
(* computed from it, so reading and writing are two steps here.  Tokens    *)
(* stand for tokens or money, whichever budget is the tighter one.  No     *)
(* code sets the cancellation_requested_at that claim_step looks at.       *)
(***************************************************************************)
EXTENDS Integers, FiniteSets, FiniteSetsExt

CONSTANTS
    Steps, Workers, None,
    Costs,         \* tokens one step may use
    TokenBudget,   \* WorkflowRun.token_budget
    MaxAttempts,   \* WorkflowStep.max_attempts
    MaxFaults      \* bound: crashes and stalls

VARIABLES
    run,           \* WorkflowRun: status and tokens used
    step,          \* WorkflowStep by key
    deadLetters,   \* DeadLetter rows by step
    spent,         \* history: tokens of the completions each step recorded
    endings,       \* history: transactions that ended each step
    contested,     \* history: steps taken over from a worker about to write
    raced,         \* history: two completions overlapped
    pc, job, faults

history == <<spent, endings, contested, raced>>
vars == <<run, step, deadLetters, history, pc, job, faults>>

NoJob == [step |-> None, result |-> None, cost |-> 0, used |-> 0, attempts |-> 0]
Goto(w, place) == pc' = [pc EXCEPT ![w] = place]
Done(w) == Goto(w, "idle") /\ job' = [job EXCEPT ![w] = NoJob]
Open == {"QUEUED", "WAITING_UNTIL", "RUNNING"}

Claimable(s) ==
    /\ step[s].status \in Open
    /\ step[s].due
    /\ step[s].holder = None \/ step[s].expired

\* claim_step counts the attempt; max_attempts is looked at when one fails.
ClaimStep(w, s) ==
    /\ pc[w] = "idle"
    /\ Claimable(s)
    /\ step' = [step EXCEPT ![s].status = "RUNNING", ![s].attempts = @ + 1, ![s].holder = w,
                            ![s].expired = FALSE]
    /\ job' = [job EXCEPT ![w] = [NoJob EXCEPT !.step = s]]
    /\ Goto(w, "work")
    /\ contested' = IF \E v \in Workers : pc[v] = "write" /\ job[v].step = s
                    THEN contested \cup {s} ELSE contested
    /\ UNCHANGED <<run, deadLetters, spent, endings, raced, faults>>

\* Mutant: whoever was given the step may end it.
LeaseUnchecked(w, s) == TRUE

HasLease(w, s) == step[s].holder = w

\* The reads; LEASE_LOST if the token is no longer its own.
ReadLease(w, result, cost) ==
    LET s == job[w].step
    IN  /\ pc[w] = "work"
        /\ IF HasLease(w, s)
           THEN /\ job' = [job EXCEPT ![w] = [step |-> s, result |-> result, cost |-> cost,
                                              used |-> run.tokens, attempts |-> step[s].attempts]]
                /\ Goto(w, "write")
                /\ raced' = \/ raced
                            \/ result = "done" /\ \E v \in Workers : job[v].result = "done"
           ELSE Done(w) /\ UNCHANGED raced
        /\ UNCHANGED <<run, step, deadLetters, spent, endings, contested, faults>>

Ending(row, status) == [row EXCEPT !.status = status, !.holder = None, !.expired = FALSE]

WithinBudget(used, cost) == used + cost <= TokenBudget

\* The tokens are written as the sum that was computed, unless they did not change.
CompleteStep(w) ==
    LET s == job[w].step
        fits == WithinBudget(job[w].used, job[w].cost)
    IN  /\ pc[w] = "write" /\ job[w].result = "done"
        /\ step' = [step EXCEPT ![s] = Ending(@, IF fits THEN "SUCCEEDED" ELSE "REQUIRES_REVIEW")]
        /\ run' = CASE ~fits -> [run EXCEPT !.status = "REQUIRES_REVIEW"]
                    [] fits /\ job[w].cost > 0 -> [run EXCEPT !.tokens = job[w].used + job[w].cost]
                    [] OTHER -> run
        /\ spent' = IF fits THEN [spent EXCEPT ![s] = @ + job[w].cost] ELSE spent
        /\ Done(w)
        /\ endings' = [endings EXCEPT ![s] = @ + 1]
        /\ UNCHANGED <<deadLetters, contested, raced, faults>>

AttemptsLeft(attempts) == attempts < MaxAttempts

FailStep(w) ==
    LET s == job[w].step
        again == job[w].result = "retryable" /\ AttemptsLeft(job[w].attempts)
    IN  /\ pc[w] = "write" /\ job[w].result \in {"retryable", "terminal"}
        /\ step' = [step EXCEPT ![s] = [Ending(@, IF again THEN "WAITING_UNTIL" ELSE "DEAD_LETTER")
                                        EXCEPT !.due = @ /\ ~again]]
        /\ IF again THEN UNCHANGED <<deadLetters, endings>>
           ELSE /\ deadLetters' = [deadLetters EXCEPT ![s] = @ + 1]
                /\ endings' = [endings EXCEPT ![s] = @ + 1]
        /\ Done(w)
        /\ UNCHANGED <<run, spent, contested, raced, faults>>

BecomesDue(s) ==
    /\ ~step[s].due
    /\ step' = [step EXCEPT ![s].due = TRUE]
    /\ UNCHANGED <<run, deadLetters, history, pc, job, faults>>

\* A worker at work loses its lease only if it stalls.
LeaseExpires(s) ==
    /\ step[s].holder # None /\ ~step[s].expired
    /\ LET working == job[step[s].holder].step = s
       IN  /\ working => faults < MaxFaults
           /\ faults' = IF working THEN faults + 1 ELSE faults
    /\ step' = [step EXCEPT ![s].expired = TRUE]
    /\ UNCHANGED <<run, deadLetters, history, pc, job>>

Crash(w) ==
    /\ pc[w] # "idle"
    /\ faults < MaxFaults
    /\ faults' = faults + 1
    /\ Done(w)
    /\ UNCHANGED <<run, step, deadLetters, history>>

-----------------------------------------------------------------------------
(* The specification: start_run has queued the run and its steps.          *)

Init ==
    /\ run = [status |-> "QUEUED", tokens |-> 0]
    /\ step = [s \in Steps |-> [status |-> "QUEUED", attempts |-> 0, holder |-> None,
                                expired |-> FALSE, due |-> TRUE]]
    /\ deadLetters = [s \in Steps |-> 0]
    /\ spent = [s \in Steps |-> 0]
    /\ endings = [s \in Steps |-> 0]
    /\ contested = {} /\ raced = FALSE
    /\ pc = [w \in Workers |-> "idle"]
    /\ job = [w \in Workers |-> NoJob]
    /\ faults = 0

Finish(w) ==
    \/ CompleteStep(w) \/ FailStep(w)
    \/ \E cost \in Costs : ReadLease(w, "done", cost)
    \/ \E result \in {"retryable", "terminal"} : ReadLease(w, result, 0)

Next ==
    \/ \E w \in Workers : Finish(w) \/ Crash(w) \/ \E s \in Steps : ClaimStep(w, s)
    \/ \E s \in Steps : BecomesDue(s) \/ LeaseExpires(s)

Spec == Init /\ [][Next]_vars

-----------------------------------------------------------------------------
(* Properties.                                                             *)

Used == MapThenSumSet(LAMBDA s : spent[s], Steps)
Ended == {"SUCCEEDED", "REQUIRES_REVIEW", "DEAD_LETTER"}

\* A step ends once, whoever crashed, stalled or took it over: it has a dead
\* letter exactly if it failed for good, tokens only if it succeeded, and waits
\* only while attempts remain.  The exception is a step that was taken over
\* between the reads and the writes of complete_step or fail_step, which take no
\* lock.  The tokens of the run stay within the budget and never exceed what was
\* recorded; they are all of it unless two completions overlapped.
EndsAccounted ==
    /\ \A s \in Steps \ contested :
          /\ endings[s] = (IF step[s].status \in Ended THEN 1 ELSE 0)
          /\ deadLetters[s] = (IF step[s].status = "DEAD_LETTER" THEN 1 ELSE 0)
          /\ spent[s] > 0 => step[s].status = "SUCCEEDED"
          /\ step[s].status = "WAITING_UNTIL" => step[s].attempts < MaxAttempts
    /\ run.tokens <= TokenBudget /\ run.tokens <= Used
    /\ ~raced => run.tokens = Used
=============================================================================
