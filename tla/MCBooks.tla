------------------------------- MODULE MCBooks -------------------------------
(***************************************************************************)
(* What keeps the books right, on small instances: the fees of a capture   *)
(* (FeeSchedule), the reconciliation of a provider statement (two sizes of *)
(* StatementRun) and a seller's reconciliation of exports (three shapes of *)
(* SellerReconcile).  They share no row.  `part` names the one that moves  *)
(* in a behaviour, so their states add up.                                 *)
(***************************************************************************)
EXTENDS FeeSchedule, TLC

CONSTANTS Operations, o1, Items, i1, Workers, Refs

\* Terms that meet exact halves, both bounds, and amounts too small for their fee.
Chosen ==
    {[mdr |-> m, fixed |-> f, gst |-> 1800, min |-> Nothing, max |-> Nothing] :
        m \in {190, 5000}, f \in {0, 3}}
    \cup {[mdr |-> 190, fixed |-> 0, gst |-> 5000, min |-> 5, max |-> 7],
          [mdr |-> 10000, fixed |-> 0, gst |-> 0, min |-> Nothing, max |-> 40]}

VARIABLES
    part,
    status, statement, before, run, matches, mismatches, workflow, job, faults,
    settlement, orders, findings, done

statementVars == <<status, statement, before, run, matches, mismatches, workflow, job, faults>>
sellerVars == <<settlement, orders, findings, done>>

Verdict == INSTANCE StatementRun WITH
    InPeriod <- {o1}, Moving <- {o1}, Foreign <- "foreign", Workers <- {"w"}, MaxFaults <- 0,
    Attributes <- {"amount"}, None <- Nothing

Lease == INSTANCE StatementRun WITH
    InPeriod <- {o1}, Moving <- {o1}, Foreign <- "foreign", Items <- {i1}, MaxFaults <- 3,
    Attributes <- {"currency"}, None <- Nothing

\* Three rows a side; one row a side with every difference up to, at and beyond
\* the tolerance and the window; two rows a side with blanks and differences.
Book == INSTANCE SellerReconcile WITH
    Null <- Nothing, Kinds <- {"payment", "refund"}, Amounts <- {1, 3}, Fees <- {},
    Days <- {}, Tolerance <- 1, MinDays <- 0, MaxDays <- 2, MaxRows <- 3

Pair == INSTANCE SellerReconcile WITH
    Null <- Nothing, Kinds <- {"payment", "refund"}, Amounts <- {1, 2, 3}, Fees <- {0, 1, 2},
    Days <- {1, 2, 4, 5}, Tolerance <- 1, MinDays <- 1, MaxDays <- 3, MaxRows <- 1

Twice == INSTANCE SellerReconcile WITH
    Null <- Nothing, Kinds <- {"payment"}, Amounts <- {1}, Fees <- {0, 2},
    Days <- {0, 3}, Tolerance <- 1, MinDays <- 0, MaxDays <- 2, MaxRows <- 2

PartInit ==
    /\ part \in {"fees", "verdict", "lease", "book", "pair", "twice"}
    /\ FeeInit /\ Book!Init
    /\ \/ part # "lease" /\ Verdict!Init
       \/ part = "lease" /\ Lease!Init

PartNext ==
    /\ UNCHANGED part
    /\ \/ part = "fees" /\ FeeNext /\ UNCHANGED <<statementVars, sellerVars>>
       \/ part = "verdict" /\ Verdict!Next /\ UNCHANGED <<feeVars, sellerVars>>
       \/ part = "lease" /\ Lease!Next /\ UNCHANGED <<feeVars, sellerVars>>
       \/ part = "book" /\ Book!Next /\ UNCHANGED <<feeVars, statementVars>>
       \/ part = "pair" /\ Pair!Next /\ UNCHANGED <<feeVars, statementVars>>
       \/ part = "twice" /\ Twice!Next /\ UNCHANGED <<feeVars, statementVars>>

PartSpec == PartInit /\ [][PartNext]_<<part, feeVars, statementVars, sellerVars>>

Symmetry == Permutations(Workers)

-----------------------------------------------------------------------------
(* Properties, besides ChargedExactly of the fees.                         *)

\* The report on a statement leaves nothing out, its matches stay true, and only
\* the holder of the lease ends it (_complete_reconciliation).
StatementPromise ==
    /\ [](/\ part = "verdict" => Verdict!Verdicts /\ Verdict!MatchStands
          /\ part = "lease" => Lease!Verdicts /\ Lease!MatchStands)
    /\ Lease!OnlyHolderEnds

\* The findings of a seller's reconciliation are about every reference whose
\* money disagrees, a refund that failed and was settled all the same excepted;
\* and an amount, fee or timing finding is made exactly when a reference has one
\* counting row on each side and those two differ by more than the tolerance or
\* the window allows (matching.py).
ReportExact ==
    /\ part = "book" => Book!EveryDisagreementReported /\ Book!PairFindingsExact
    /\ part = "pair" => Pair!EveryDisagreementReported /\ Pair!PairFindingsExact
    /\ part = "twice" => Twice!EveryDisagreementReported /\ Twice!PairFindingsExact
==============================================================================
