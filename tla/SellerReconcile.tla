--------------------------- MODULE SellerReconcile ---------------------------
(***************************************************************************)
(* The seller's reconciliation CLI (packages/relaypay_reconcile): two       *)
(* exports are loaded row by row (ingest.py), each is reduced to one        *)
(* aggregate per reference, and the findings are computed from the          *)
(* aggregates alone (matching.py).  The properties are stated on the rows.  *)
(*                                                                         *)
(* A row is its reference, kind, amount, fee and day (Null when blank) and  *)
(* status flag.  Tax is treated exactly as the fee is, and left out.        *)
(***************************************************************************)
EXTENDS Integers, Sequences, FiniteSets, FiniteSetsExt

CONSTANTS Refs, Kinds, Amounts, Fees, Days,
          Tolerance,          \* --tolerance-paise
          MinDays, MaxDays,   \* --timing-window
          MaxRows,            \* bound: rows of one export
          Null

VARIABLES settlement, orders, findings, done

vars == <<settlement, orders, findings, done>>

Row == [kind : Kinds, ref : Refs, amount : Amounts, fee : Fees \cup {Null},
        day : Days \cup {Null}, failed : {0, 1}]

-----------------------------------------------------------------------------
(* ingest.py: the two loads. *)

LoadSettlement(row) ==
    /\ ~done
    /\ orders = <<>>
    /\ Len(settlement) < MaxRows
    /\ settlement' = Append(settlement, row)
    /\ UNCHANGED <<orders, findings, done>>

LoadOrder(row) ==
    /\ ~done
    /\ Len(orders) < MaxRows
    /\ orders' = Append(orders, row)
    /\ UNCHANGED <<settlement, findings, done>>

-----------------------------------------------------------------------------
(* matching.py: GROUP BY kind, ref. *)

Rows(side, kind, ref) == {i \in DOMAIN side : side[i].kind = kind /\ side[i].ref = ref}

\* MAX ignores NULLs and is NULL over none.
MaxOf(values) == IF values \ {Null} = {} THEN Null ELSE Max(values \ {Null})

Failed(flags) == Min(flags)

\* skeys, okeys.
Keys(side) ==
    {LET rows == Rows(side, k, r) IN
       [kind |-> k, ref |-> r, n |-> Cardinality(rows),
        failed |-> Failed({side[i].failed : i \in rows}),
        amount |-> MaxOf({side[i].amount : i \in rows}),
        fee |-> MaxOf({side[i].fee : i \in rows}),
        day |-> MaxOf({side[i].day : i \in rows})]
     : <<k, r>> \in {<<side[i].kind, side[i].ref>> : i \in DOMAIN side}}

Same(o, s) == s.kind = o.kind /\ s.ref = o.ref

Single(o, s) == o.n = 1 /\ s.n = 1

Pairs(skeys, okeys) ==
    {p \in okeys \X skeys : Same(p[1], p[2]) /\ Single(p[1], p[2]) /\ p[2].failed = 0}

Abs(x) == IF x < 0 THEN -x ELSE x

\* Two values a row may leave blank, and what is compared when neither does.
Beyond(a, b) == Null \notin {a, b} /\ Abs(a - b) > Tolerance
Untimely(from, to) == Null \notin {from, to} /\ to - from \notin MinDays..MaxDays

\* Mutant: a settlement row that failed counts as landed.
MissingIfNone(o, skeys) == o.failed = 0 /\ ~\E s \in skeys : Same(o, s)

Missing(o, skeys) == o.failed = 0 /\ ~\E s \in skeys : Same(o, s) /\ s.failed = 0

Finding(exception, key) == [exception |-> exception, kind |-> key.kind, ref |-> key.ref]

\* _FINDINGS, one disjunct a statement.
FindingsOf(skeys, okeys) ==
    LET pairs == Pairs(skeys, okeys)
        payments == {p \in pairs : p[1].kind = "payment"}
        settled == {p \in payments : p[1].failed = 0}
    IN {Finding("DUPLICATE", k) : k \in {s \in skeys : s.n > 1} \cup {o \in okeys : o.n > 1}}
       \cup {Finding(IF o.kind = "refund" THEN "REFUND_NOT_LANDED" ELSE "MISSING_IN_SETTLEMENT", o)
             : o \in {o \in okeys : Missing(o, skeys)}}
       \cup {Finding("MISSING_IN_ORDERS", s) : s \in {s \in skeys : ~\E o \in okeys : Same(o, s)}}
       \cup {Finding("AMOUNT_MISMATCH", p[1])
             : p \in {p \in pairs : p[1].failed = 0 /\ Abs(p[1].amount - p[2].amount) > Tolerance}}
       \cup {Finding("FEE_DIFFERENCE", p[1])
             : p \in {p \in settled : Beyond(p[1].fee, p[2].fee)}}
       \cup {Finding("TIMING", p[1])
             : p \in {p \in settled : Untimely(p[1].day, p[2].day)}}
       \cup {Finding("FAILED_BUT_DEBITED", p[1]) : p \in {p \in payments : p[1].failed = 1}}

Reconcile ==
    /\ ~done
    /\ findings' = FindingsOf(Keys(settlement), Keys(orders))
    /\ done' = TRUE
    /\ UNCHANGED <<settlement, orders>>

Init ==
    /\ settlement = <<>> /\ orders = <<>>
    /\ findings = {}
    /\ done = FALSE

Next ==
    \/ \E row \in Row : LoadSettlement(row) \/ LoadOrder(row)
    \/ Reconcile

Spec == Init /\ [][Next]_vars

-----------------------------------------------------------------------------
(* Properties, on the rows. *)

\* The money that moved for a reference: the rows of a side that are not failed.
Landed(side, kind, ref) == {i \in Rows(side, kind, ref) : side[i].failed = 0}

Total(side, kind, ref) == MapThenSumSet(LAMBDA i : side[i].amount, Landed(side, kind, ref))

Reported(kind, ref) == \E f \in findings : f.kind = kind /\ f.ref = ref

\* A reference on which the two exports disagree in money: what landed and what
\* was to land differ in number of rows or, beyond the tolerance, in amount.
Disagrees(kind, ref) ==
    \/ Cardinality(Landed(settlement, kind, ref)) # Cardinality(Landed(orders, kind, ref))
    \/ Abs(Total(settlement, kind, ref) - Total(orders, kind, ref)) > Tolerance

\* No statement of _FINDINGS asks about a refund that the orders show as failed.
FailedRefund(kind, ref) ==
    kind = "refund" /\ Rows(orders, kind, ref) # {} /\ Landed(orders, kind, ref) = {}

\* Every reference whose money disagrees appears in the report, although the
\* findings are computed from aggregates that keep one value for many rows
\* (matching.py, reconcile).  A refund that failed and was settled all the same
\* is the one exception.
EveryDisagreementReported ==
    done => \A k \in Kinds, r \in Refs :
        Disagrees(k, r) /\ ~FailedRefund(k, r) => Reported(k, r)

\* An amount, fee or timing finding is made exactly when the reference has one
\* row on each side, both count, and those two rows differ by more than the
\* tolerance or the window allows; a blank is never a difference, and a debit for
\* a failed order is reported as such (matching.py: "A duplicate never produces a
\* spurious amount difference").
PairFindingsExact ==
    done => \A k \in Kinds, r \in Refs :
        LET o == Rows(orders, k, r)
            s == Rows(settlement, k, r)
            a == orders[CHOOSE i \in o : TRUE]
            b == settlement[CHOOSE i \in s : TRUE]
            debited == Cardinality(o) = 1 /\ Cardinality(s) = 1 /\ b.failed = 0
            paired == debited /\ a.failed = 0
            paid == paired /\ k = "payment"
            Has(x) == [exception |-> x, kind |-> k, ref |-> r] \in findings
        IN /\ Has("AMOUNT_MISMATCH") <=> paired /\ a.amount - b.amount \notin -Tolerance..Tolerance
           /\ Has("FEE_DIFFERENCE") <=>
                  paid /\ Null \notin {a.fee, b.fee} /\ a.fee - b.fee \notin -Tolerance..Tolerance
           /\ Has("TIMING") <=>
                  paid /\ Null \notin {a.day, b.day}
                       /\ (b.day < a.day + MinDays \/ b.day > a.day + MaxDays)
           /\ Has("FAILED_BUT_DEBITED") <=> debited /\ a.failed = 1 /\ k = "payment"
=============================================================================
