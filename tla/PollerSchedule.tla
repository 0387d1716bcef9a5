--------------------------- MODULE PollerSchedule ---------------------------
(***************************************************************************)
(* The poller, the one process that runs every background batch            *)
(* (apps/worker/poller.py): its schedule in order, each task with a        *)
(* deadline of its own, then the outbox, then a second of sleep.  Time is  *)
(* what the tasks, the outbox and the sleep take; deadlines are kept as    *)
(* the time that is left to them.                                          *)
(***************************************************************************)
EXTENDS Integers, Sequences

CONSTANTS Schedule,      \* the tasks in order
          Cadence,       \* Cadence[t]: SCHEDULE_SECONDS
          MaxDuration,   \* bound: what one task, or the outbox, takes
          MaxCrashes     \* bound

ASSUME ScheduleAssumption ==
    /\ MaxDuration \in Nat
    /\ Schedule \in Seq(DOMAIN Cadence)
    /\ \A t \in DOMAIN Cadence : Cadence[t] \in Nat \ {0}

VARIABLES at,        \* 0 asleep, i before task i, Len(Schedule) + 1 before the outbox
          due,       \* the tasks found due when the tick began
          left,      \* left[t]: seconds until t's deadline
          late,      \* late[t]: seconds since t's deadline passed
          ran,       \* what the last step ran
          crashes

vars == <<at, due, left, late, ran, crashes>>

Tasks == DOMAIN Cadence
Task == Schedule[at]

Monus(x, y) == IF x > y THEN x - y ELSE 0

\* d seconds go by.
LeftAfter(d) == [t \in Tasks |-> Monus(left[t], d)]
LateAfter(d) == [t \in Tasks |-> late[t] + Monus(d, left[t])]

-----------------------------------------------------------------------------
\* poll_once: the clock is read once for the whole tick.
BeginTick ==
    /\ at = 0
    /\ at' = 1
    /\ due' = {t \in Tasks : LeftAfter(1)[t] = 0}
    /\ left' = LeftAfter(1) /\ late' = LateAfter(1)
    /\ ran' = "sleep"
    /\ UNCHANGED crashes

Skip ==
    /\ at \in 1 .. Len(Schedule)
    /\ Task \notin due
    /\ at' = at + 1
    /\ ran' = "nothing"
    /\ UNCHANGED <<due, left, late, crashes>>

\* The finally clause: only the task's own deadline moves.
Rearmed(task, after) == [after EXCEPT ![task] = Cadence[task]]

\* An exception is logged and the next task is tried.
NextTask(failed) == at + 1

RunTask ==
    /\ at \in 1 .. Len(Schedule)
    /\ Task \in due
    /\ \E d \in 0 .. MaxDuration, failed \in BOOLEAN :
        /\ left' = Rearmed(Task, LeftAfter(d))
        /\ late' = [LateAfter(d) EXCEPT ![Task] = 0]
        /\ at' = NextTask(failed)
    /\ ran' = Task
    /\ UNCHANGED <<due, crashes>>

\* The publisher is built and drains the outbox, or fails to; main sleeps then.
Publish ==
    /\ at = Len(Schedule) + 1
    /\ \E d \in 0 .. MaxDuration : left' = LeftAfter(d) /\ late' = LateAfter(d)
    /\ at' = 0
    /\ ran' = "outbox"
    /\ UNCHANGED <<due, crashes>>

\* The process dies, at any point, and is started again with every task due:
\* the deadlines were kept in memory.
Crash ==
    /\ crashes < MaxCrashes
    /\ crashes' = crashes + 1
    /\ at' = 1
    /\ due' = Tasks
    /\ left' = [t \in Tasks |-> 0]
    /\ late' = [t \in Tasks |-> 0]
    /\ ran' = "start"

Init ==
    /\ at = 1
    /\ due = Tasks
    /\ left = [t \in Tasks |-> 0]
    /\ late = [t \in Tasks |-> 0]
    /\ ran = "start"
    /\ crashes = 0

Step == BeginTick \/ Skip \/ RunTask \/ Publish
Next == Step \/ Crash

Spec == Init /\ [][Next]_vars

\* The process goes on, and is started again when it dies.
FairSpec == Spec /\ WF_vars(Step)

-----------------------------------------------------------------------------
(* Properties. *)

\* What a task waits at most past its deadline: the rest of a tick that began
\* before it, the sleep, and the tasks ahead of it in the next tick.
Bound == 2 * (Len(Schedule) - 1) * MaxDuration + MaxDuration + 1

\* No task is later than that, however the others fail and whatever their
\* cadence (poll_once: own deadlines, failures isolated).
Punctual == \A t \in Tasks : late[t] <= Bound

\* Every task, and the outbox, is run again and again, though any task may fail
\* every time (poll_once, the try and finally of its loop).
EveryTaskRuns ==
    /\ \A i \in 1 .. Len(Schedule) : []<>(ran = Schedule[i])
    /\ []<>(ran = "outbox")
=============================================================================
