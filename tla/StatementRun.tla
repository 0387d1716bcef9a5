---------------------------- MODULE StatementRun ----------------------------
(***************************************************************************)
(* One provider statement: its import, the leased reconciliation run over  *)
(* it, and the operators' workflow on what the run finds                   *)
(* (reconciliation/service.py).  The run reads the operations in one       *)
(* statement and their payment children in later ones, while the           *)
(* finalizer goes on changing both; an operation and its child change in   *)
(* one transaction, so they are one status here, read twice.  A child is   *)
(* read once, and the verdict on an item takes one child.                  *)
(***************************************************************************)
EXTENDS Integers, FiniteSets

CONSTANTS Operations,   \* operations by stable key
          InPeriod,     \* those the statement's period contains
          Moving,       \* those of kind CAPTURE or REFUND
          Foreign,      \* a stable key no operation has
          Items,        \* provider item identifiers
          Attributes,   \* of "amount", "currency" and "kind": what an item may get wrong
          Workers,
          MaxFaults,    \* bound: crashes, exceptions and expiries
          None

VARIABLES status,      \* status[o]: the operation's and its child's, None before it exists
          statement,   \* statement[i]: the item's key, status and wrong attributes
          before,      \* the operations there were when the statement was imported
          run, matches, mismatches, workflow, job, faults

vars == <<status, statement, before, run, matches, mismatches, workflow, job, faults>>
results == <<matches, mismatches, workflow>>

NoJob == [pc |-> "idle"]
Goto(w, value) == job' = [job EXCEPT ![w] = value]
Done(w) == Goto(w, NoJob)

-----------------------------------------------------------------------------
(* Payments, elsewhere: an operation is created PENDING and finalized once. *)

CreateOperation(o) ==
    /\ status[o] = None
    /\ status' = [status EXCEPT ![o] = "PENDING"]
    /\ UNCHANGED <<statement, before, run, results, job, faults>>

Finalize(o) ==
    /\ status[o] = "PENDING"
    /\ \E outcome \in {"SUCCEEDED", "FAILED"} : status' = [status EXCEPT ![o] = outcome]
    /\ UNCHANGED <<statement, before, run, results, job, faults>>

-----------------------------------------------------------------------------
Entries == [key : Operations \cup {Foreign},
            status : {"PENDING", "SUCCEEDED", "DECLINED"},
            differs : SUBSET Attributes]

Imported == {i \in Items : statement[i] # None}

\* import_statement: the items and a PENDING run.  A second import of the same
\* reference returns the first or is refused, and changes nothing.
ImportStatement ==
    /\ run.status = None
    /\ statement' \in [Items -> Entries \cup {None}]
    /\ before' = {o \in Operations : status[o] # None}
    /\ run' = [status |-> "PENDING", holder |-> None, expired |-> FALSE]
    /\ UNCHANGED <<status, results, job, faults>>

\* The row lock of a worker between its first read and its commit.
RunLocked == \E w \in Workers : job[w].pc = "reading"

Claimable == run.status = "PENDING" \/ (run.status = "RUNNING" /\ run.expired)

\* claim_reconciliation_run, FOR UPDATE SKIP LOCKED.
ClaimRun(w) ==
    /\ job[w].pc = "idle"
    /\ ~RunLocked
    /\ Claimable
    /\ run' = [status |-> "RUNNING", holder |-> w, expired |-> FALSE]
    /\ Goto(w, [pc |-> "claimed"])
    /\ UNCHANGED <<status, statement, before, results, faults>>

HoldsLease(w) == run.status = "RUNNING" /\ run.holder = w

\* _complete_reconciliation: lock the run, then read the operations the
\* statement names and those of its period.
ReadOperations(w) ==
    /\ job[w].pc = "claimed"
    /\ ~RunLocked
    /\ IF HoldsLease(w)
       THEN Goto(w, [pc |-> "reading",
                     saw |-> [o \in {o \in Operations :
                                 status[o] # None /\ (o \in InPeriod
                                     \/ \E i \in Imported : statement[i].key = o)}
                              |-> status[o]]])
       ELSE Done(w)
    /\ UNCHANGED <<status, statement, before, run, results, faults>>

ProviderStatus(internal) ==
    CASE internal = "SUCCEEDED" -> "SUCCEEDED"
      [] internal = "FAILED" -> "DECLINED"
      [] OTHER -> "PENDING"

Count(key) == Cardinality({i \in Imported : statement[i].key = key})

\* Mutant: an operation still in progress is not compared.
StatusDiffersFinal(item, saw, child) ==
    saw # "PENDING" /\ item.status # ProviderStatus(child)

StatusDiffers(item, saw, child) ==
    \/ item.status # ProviderStatus(child)
    \/ item.status # ProviderStatus(saw)

Comparisons == {"AMOUNT_MISMATCH", "CURRENCY_MISMATCH", "STATUS_MISMATCH",
                "MISSING_INTERNAL_JOURNAL"}

\* What is wrong with an item, given the operations as read and the children now.
\* The child of one that moves money has its journal exactly when it has succeeded.
ItemMismatches(i, saw) ==
    LET item == statement[i]
        o == item.key
    IN IF Count(o) > 1 THEN {"DUPLICATE_PROVIDER_EFFECT"}
       ELSE IF o \notin DOMAIN saw \/ "kind" \in item.differs THEN {"MISSING_INTERNAL_TRANSACTION"}
       ELSE {t \in Comparisons :
               CASE t = "AMOUNT_MISMATCH" -> "amount" \in item.differs
                 [] t = "CURRENCY_MISMATCH" -> "currency" \in item.differs
                 [] t = "STATUS_MISMATCH" -> StatusDiffers(item, saw[o], status[o])
                 [] OTHER -> item.status = "SUCCEEDED" /\ o \in Moving /\ status[o] # "SUCCEEDED"}

Unstated(saw) == {o \in DOMAIN saw \cap InPeriod : Count(o) = 0}

\* The rest of _complete_reconciliation and its commit.
CompleteRun(w) ==
    /\ job[w].pc = "reading"
    /\ LET saw == job[w].saw
           found == UNION {{[subject |-> i, type |-> t] : t \in ItemMismatches(i, saw)} :
                              i \in Imported}
                    \cup {[subject |-> o, type |-> "MISSING_PROVIDER_TRANSACTION"] :
                             o \in Unstated(saw)}
       IN /\ matches' = {i \in Imported : ItemMismatches(i, saw) = {}}
          /\ mismatches' = found
          /\ workflow' = [m \in found |-> "OPEN"]
    /\ run' = [status |-> "COMPLETED", holder |-> None, expired |-> FALSE]
    /\ Done(w)
    /\ UNCHANGED <<status, statement, before, faults>>

\* process_reconciliation_claim: any exception rolls the work back ...
RunRaises(w) ==
    /\ faults < MaxFaults
    /\ faults' = faults + 1
    /\ job[w].pc = "reading"
    /\ Goto(w, [pc |-> "failing"])
    /\ UNCHANGED <<status, statement, before, run, results>>

\* ... and a second transaction marks the run FAILED if the lease still holds.
FailRun(w) ==
    /\ job[w].pc = "failing"
    /\ ~RunLocked
    /\ run' = IF HoldsLease(w) THEN [status |-> "FAILED", holder |-> None, expired |-> FALSE]
              ELSE run
    /\ Done(w)
    /\ UNCHANGED <<status, statement, before, results, faults>>

LeaseExpires ==
    /\ faults < MaxFaults
    /\ run.status = "RUNNING"
    /\ ~run.expired
    /\ faults' = faults + 1
    /\ run' = [run EXCEPT !.expired = TRUE]
    /\ UNCHANGED <<status, statement, before, results, job>>

Crash(w) ==
    /\ faults < MaxFaults
    /\ faults' = faults + 1
    /\ job[w].pc # "idle"
    /\ Done(w)
    /\ UNCHANGED <<status, statement, before, run, results>>

\* A crashed worker's lease runs out by itself.
Abandoned ==
    /\ run.status = "RUNNING"
    /\ ~run.expired
    /\ job[run.holder].pc = "idle"
    /\ run' = [run EXCEPT !.expired = TRUE]
    /\ UNCHANGED <<status, statement, before, results, job, faults>>

-----------------------------------------------------------------------------
(* acknowledge_mismatch, resolve_mismatch: each locks the mismatch's row. *)

Acknowledge(m) ==
    /\ workflow[m] = "OPEN"
    /\ workflow' = [workflow EXCEPT ![m] = "ACKNOWLEDGED"]
    /\ UNCHANGED <<status, statement, before, run, matches, mismatches, job, faults>>

Resolve(m) ==
    /\ workflow[m] = "ACKNOWLEDGED"
    /\ workflow' = [workflow EXCEPT ![m] = "RESOLVED"]
    /\ UNCHANGED <<status, statement, before, run, matches, mismatches, job, faults>>

-----------------------------------------------------------------------------
Init ==
    /\ status = [o \in Operations |-> None]
    /\ statement = [i \in Items |-> None]
    /\ before = {}
    /\ run = [status |-> None, holder |-> None, expired |-> FALSE]
    /\ matches = {} /\ mismatches = {}
    /\ workflow = <<>>
    /\ job = [w \in Workers |-> NoJob]
    /\ faults = 0

Proceed(w) == ReadOperations(w) \/ CompleteRun(w) \/ FailRun(w)

Next ==
    \/ \E o \in Operations : CreateOperation(o) \/ Finalize(o)
    \/ ImportStatement
    \/ \E w \in Workers : ClaimRun(w) \/ Proceed(w) \/ RunRaises(w) \/ Crash(w)
    \/ LeaseExpires \/ Abandoned
    \/ \E m \in mismatches : Acknowledge(m) \/ Resolve(m)

Spec == Init /\ [][Next]_vars

\* The poller claims every second, a worker that has begun goes on, time passes.
Fairness ==
    /\ \A w \in Workers : WF_vars(ClaimRun(w)) /\ WF_vars(Proceed(w))
    /\ WF_vars(Abandoned)

FairSpec == Spec /\ Fairness

-----------------------------------------------------------------------------
(* Properties. *)

\* A completed run has a verdict on everything: each item is matched or has a
\* mismatch, never both, and each operation of the period that was there before
\* the import and that the statement omits is reported (_complete_reconciliation).
Verdicts ==
    run.status = "COMPLETED" =>
        /\ \A i \in Imported : (i \in matches) # (\E m \in mismatches : m.subject = i)
        /\ \A o \in InPeriod \cap before :
               \/ \E i \in Imported : statement[i].key = o
               \/ \E m \in mismatches : m.subject = o

\* A match on a final outcome stays true: although operation and child are read
\* at different moments, the operation has that outcome and only that one item
\* claims it (_complete_reconciliation, the comparisons).
MatchStands ==
    \A i \in matches :
        /\ \A j \in Imported \ {i} : statement[j].key # statement[i].key
        /\ statement[i].differs = {}
        /\ statement[i].status # "PENDING" =>
               ProviderStatus(status[statement[i].key]) = statement[i].status

\* Only the worker that holds the lease ends a run: a worker that lost it to
\* another neither completes nor fails the run (the lease token in both
\* transactions of process_reconciliation_claim).
OnlyHolderEnds ==
    [][run.status = "RUNNING" /\ run'.status # "RUNNING" => job'[run.holder] # job[run.holder]]_vars

\* A run that is claimed is completed or marked FAILED in the end
\* (claim_reconciliation_run takes over an expired lease).
EventuallyEnds == run.status = "PENDING" ~> run.status \in {"COMPLETED", "FAILED"}

\* What the report of a statement promises, all together
\* (_complete_reconciliation under its lease).
StatementPromise == [](Verdicts /\ MatchStands) /\ OnlyHolderEnds
=============================================================================
