--------------------------- MODULE MerchantFunds ---------------------------
(***************************************************************************)
(* The balance of one merchant account: packages/relaypay/ledger (capture  *)
(* and refund journals), merchant_balances (settlement, derived balances), *)
(* payouts (reservations, retries, bank outcomes) and the database guards  *)
(* of migrations 0009, 0010, 0020, 0029 and 0030.                          *)
(*                                                                         *)
(* A client is a database session.  The transactions that read balances    *)
(* before they write are split at each read, because PostgreSQL runs them  *)
(* READ COMMITTED: another commit may fall between two reads.  What keeps  *)
(* them apart are row locks on the merchant account:                       *)
(*   "update"         SELECT ... FOR UPDATE (refund, settlement, retry,    *)
(*                    payout creation under ROW_LOCK)                      *)
(*   "no key update"  the compare-and-swap on balance_version              *)
(*   "key share"      taken by every insert whose foreign key names the    *)
(*                    merchant account (journals, reservations, payouts)   *)
(* and the deferred coverage trigger, which runs at commit under an        *)
(* advisory lock.  What a transaction wrote is kept in its `writes` and    *)
(* joins the tables when it commits.                                       *)
(***************************************************************************)
EXTENDS Integers, FiniteSets, Functions

CONSTANTS
    Clients,
    Captures,
    Refunds,
    Payouts,       \* one idempotency key each
    None,
    Amounts,       \* amounts a request may name
    Guards         \* the ReservationGuards in use

\* Rows of captures, refunds and payouts.
CaptureRow == [gross : Amounts, net : Nat]
RefundRow == [capture : Captures, amount : Amounts, pendingUse : Nat]
PayoutRow == [status : {"OPEN", "SUCCEEDED", "FAILED"}, amount : Amounts]

\* Amounts are positive; None is no amount, no row, no kind and no client.
ASSUME ConstantsAssumption ==
    /\ IsFiniteSet(Captures) /\ IsFiniteSet(Refunds) /\ IsFiniteSet(Payouts)
    /\ Amounts \subseteq Nat \ {0}
    /\ Guards \subseteq {"ROW_LOCK", "VERSION", "CONSTRAINT"}
    /\ None \notin Clients \cup Captures \cup Nat
    /\ None \notin CaptureRow \cup RefundRow \cup PayoutRow
    /\ None \notin {"refund", "create", "retry", "observe"}

VARIABLES
    ledger,        \* credits minus debits per account
    capture,       \* captures SUCCEEDED: gross and net amount
    settlement,    \* SettlementItem.amount of a capture
    refund,        \* refunds posted, with the part taken from pending
    payout,        \* Payout.status and amount
    held,          \* sum of a payout's reservation rows
    reserved,      \* sum of all reservation rows of the merchant
    version,       \* MerchantAccount.balance_version
    paid,          \* payouts the bank paid
    lock,          \* row lock each client holds on the merchant account
    payoutLock,    \* client that holds a payout row FOR UPDATE
    advisory,      \* client inside the coverage check
    pc, job, seen, writes,
    rejected       \* kinds of transaction the coverage trigger rejected

moneyVars == <<ledger, capture, settlement, refund, payout, held, reserved, version>>
lockVars == <<lock, payoutLock, advisory>>
txVars == <<pc, job, seen, writes>>
vars == <<moneyVars, paid, lockVars, txVars, rejected>>

-----------------------------------------------------------------------------
(* Vocabulary.                                                             *)

\* PROVIDER_CLEARING, the fee accounts, PENDING_PAYABLE, AVAILABLE_PAYABLE,
\* MERCHANT_RECEIVABLE and PAYOUT_CLEARING.
Accounts == {"provider", "fees", "pending", "available", "receivable", "clearing"}
LockModes == {"none", "key share", "no key update", "update"}
PayoutStatus == {"OPEN", "SUCCEEDED", "FAILED"}
Kinds == {"refund", "create", "retry", "observe"}

Places == {"idle", "source", "lookup", "read", "reserve", "index", "row", "version",
           "retry", "insert", "check", "commit"}

\* What a session is at work on.
Jobs == [kind : Kinds \cup {None}, target : Refunds \cup Payouts \cup {None},
         capture : Captures \cup {None}, amount : Amounts \cup {0}, guard : Guards \cup {None},
         end : {"SUCCEEDED", "FAILED", None}, retried : BOOLEAN]

NoEntries == [a \in Accounts |-> 0]
NoWrites == [entries |-> NoEntries, reserved |-> 0, pendingUse |-> 0]
Job(kind, target, amount) ==
    [kind |-> kind, target |-> target, capture |-> None, amount |-> amount, guard |-> None,
     end |-> None, retried |-> FALSE]
NoJob == Job(None, None, 0)
NoRead == [available |-> 0, version |-> 0]

Smaller(a, b) == IF a < b THEN a ELSE b
Larger(a, b) == IF a > b THEN a ELSE b

\* PostgreSQL's row lock conflicts, for the modes the code takes.
Conflicts(mode) ==
    CASE mode = "update"        -> {"key share", "no key update", "update"}
      [] mode = "no key update" -> {"no key update", "update"}
      [] mode = "key share"     -> {"update"}

Grantable(c, mode) == \A d \in Clients \ {c} : lock[d] \notin Conflicts(mode)

\* The foreign key check of an inserted row.
Insertable(c) == Grantable(c, "key share")

Goto(c, place) == pc' = [pc EXCEPT ![c] = place]
Stronger(c, mode) == [lock EXCEPT ![c] = IF @ \in {"update", "no key update"} THEN @ ELSE mode]

\* The end of a transaction releases its locks.
Release(c) ==
    /\ lock' = [lock EXCEPT ![c] = "none"]
    /\ payoutLock' = [p \in Payouts |-> IF payoutLock[p] = c THEN None ELSE payoutLock[p]]
    /\ advisory' = IF advisory = c THEN None ELSE advisory

Forget(c) ==
    /\ job' = [job EXCEPT ![c] = NoJob]
    /\ seen' = [seen EXCEPT ![c] = NoRead]
    /\ writes' = [writes EXCEPT ![c] = NoWrites]

Rollback(c) == Goto(c, "idle") /\ Release(c) /\ Forget(c)

\* A debit lowers, a credit raises what an account holds on its credit side.
Posted(entries) == [a \in Accounts |-> ledger[a] + entries[a]]
Owed(account) == IF account \in {"receivable", "provider"} THEN -ledger[account] ELSE ledger[account]

-----------------------------------------------------------------------------
(* Captures and settlement: single transactions.                           *)

\* Mutant: the merchant is credited the gross amount.
GrossShare(gross, net) == gross

\* The merchant's part of a capture.
PendingShare(gross, net) == net

\* post_capture_journal, run by the finalizer: Dr provider clearing (gross);
\* Cr pending payable (net) and the fee accounts.
PostCapture(c, gross, net) ==
    /\ capture[c] = None
    /\ \A d \in Clients : lock[d] # "update"
    /\ capture' = [capture EXCEPT ![c] = [gross |-> gross, net |-> net]]
    /\ ledger' = Posted([NoEntries EXCEPT !["provider"] = -gross, !["pending"] = PendingShare(gross, net),
                                          !["fees"] = gross - PendingShare(gross, net)])
    /\ UNCHANGED <<settlement, refund, payout, held, reserved, version, paid, lockVars,
                   txVars, rejected>>

\* What the refunds of a capture took from pending, and in all.
RefundOf(r, c) == refund[r] # None /\ refund[r].capture = c
PendingRefunds(c) ==
    SumFunction([r \in Refunds |-> IF RefundOf(r, c) THEN refund[r].pendingUse ELSE 0])
Refunded(c) ==
    SumFunction([r \in Refunds |-> IF RefundOf(r, c) THEN refund[r].amount ELSE 0])
Settled(c) == IF settlement[c] = None THEN 0 ELSE settlement[c]

\* Mutant: settles the net amount, refunds or not.
UnsettledGross(c) == capture[c].net

\* What is left of a capture in pending payable.
Unsettled(c) == capture[c].net - PendingRefunds(c)

\* run_settlement: every SUCCEEDED capture without an item, but for those that
\* SKIP LOCKED passes over; each pays off the receivable before it becomes
\* available.  The running balance makes the total of the offsets the smaller
\* of the two sums.
RunSettlement(skipped) ==
    LET items == {c \in Captures : /\ capture[c] # None /\ settlement[c] = None
                                   /\ c \notin skipped /\ Unsettled(c) > 0}
        total == SumFunction([c \in Captures |-> IF c \in items THEN Unsettled(c) ELSE 0])
        offset == Smaller(Larger(Owed("receivable"), 0), total)
    IN  /\ items # {}
        /\ \A d \in Clients : lock[d] = "none"
        /\ settlement' = [c \in Captures |-> IF c \in items THEN Unsettled(c) ELSE settlement[c]]
        /\ ledger' = Posted([NoEntries EXCEPT !["pending"] = -total, !["receivable"] = offset,
                                              !["available"] = total - offset])
        /\ UNCHANGED <<capture, refund, payout, held, reserved, version, paid, lockVars,
                       txVars, rejected>>

-----------------------------------------------------------------------------
(* Refunds: post_refund_journal, inside the finalizer's transaction.       *)

\* The finalizer holds the payment, so a capture has one refund in hand at a
\* time, and initiate_refund kept the refunds of a capture within its gross.
\* Takes the merchant lock and reads the available balance.
RefundLock(c, r, cap, amount) ==
    /\ pc[c] = "idle"
    /\ refund[r] = None
    /\ capture[cap] # None
    /\ Refunded(cap) + amount <= capture[cap].gross
    /\ \A d \in Clients : job[d].target # r /\ job[d].capture # cap
    /\ Grantable(c, "update")
    /\ lock' = [lock EXCEPT ![c] = "update"]
    /\ seen' = [seen EXCEPT ![c] = [NoRead EXCEPT !.available = Owed("available")]]
    /\ job' = [job EXCEPT ![c] = [Job("refund", r, amount) EXCEPT !.capture = cap]]
    /\ Goto(c, "source")
    /\ UNCHANGED <<moneyVars, paid, payoutLock, advisory, writes, rejected>>

\* Mutant: bug F1, a refund spends what payouts have reserved.
UnreservedIgnoringPayouts(available) == Larger(available, 0)

\* What the refund may take from available payable.
Unreserved(available) == Larger(available - reserved, 0)

\* Reads the reservations and splits the amount: pending first, then what is
\* available and not reserved, the rest becomes a receivable.
RefundSources(c) ==
    /\ pc[c] = "source"
    /\ LET cap == job[c].capture
           amount == job[c].amount
           pending == Larger(capture[cap].net - Settled(cap) - PendingRefunds(cap), 0)
           pendingUse == Smaller(amount, pending)
           availableUse == Smaller(amount - pendingUse, Unreserved(seen[c].available))
       IN  /\ writes' = [writes EXCEPT ![c] =
                 [entries |-> [NoEntries EXCEPT
                        !["pending"] = -pendingUse, !["available"] = -availableUse,
                        !["receivable"] = -(amount - pendingUse - availableUse),
                        !["provider"] = amount],
                  reserved |-> 0, pendingUse |-> pendingUse]]
           /\ Goto(c, IF availableUse = 0 THEN "commit" ELSE "check")
    /\ UNCHANGED <<moneyVars, paid, lockVars, job, seen, rejected>>

-----------------------------------------------------------------------------
(* Payout creation under one of the three guards, and the explicit retry.  *)

\* The idempotency key is looked up first; a known one is replayed.
CreateBegin(c, p, amount, guard) ==
    /\ pc[c] = "idle"
    /\ payout[p] = None
    /\ job' = [job EXCEPT ![c] = [Job("create", p, amount) EXCEPT !.guard = guard]]
    /\ Goto(c, "read")
    /\ UNCHANGED <<moneyVars, paid, lockVars, seen, writes, rejected>>

\* The same lookup when the transaction starts again.
CreateLookup(c) ==
    /\ pc[c] = "lookup"
    /\ IF payout[job[c].target] # None
       THEN Rollback(c)
       ELSE Goto(c, "read") /\ UNCHANGED <<lockVars, job, seen, writes>>
    /\ UNCHANGED <<moneyVars, paid, rejected>>

\* Reads the merchant account, waiting for its lock under ROW_LOCK, and the
\* available balance.
CreateRead(c) ==
    /\ pc[c] = "read"
    /\ job[c].guard = "ROW_LOCK" => Grantable(c, "update")
    /\ lock' = IF job[c].guard = "ROW_LOCK" THEN [lock EXCEPT ![c] = "update"] ELSE lock
    /\ seen' = [seen EXCEPT ![c] = [available |-> Owed("available"), version |-> version]]
    /\ Goto(c, "reserve")
    /\ UNCHANGED <<moneyVars, paid, payoutLock, advisory, job, writes, rejected>>

\* payout_eligible, from the available balance read before and the
\* reservations read now.
Eligible(available) == Larger(available - reserved, 0)

Overdraws(c) == job[c].guard # "CONSTRAINT" /\ job[c].amount > Eligible(seen[c].available)

\* The transaction starts again with the same request.
Again(c) ==
    /\ Release(c)
    /\ Goto(c, "lookup")
    /\ seen' = [seen EXCEPT ![c] = NoRead]
    /\ writes' = [writes EXCEPT ![c] = NoWrites]

\* An IntegrityError makes create_payout try once more; elsewhere it surfaces.
Fails(c) ==
    IF job[c].kind = "create" /\ ~job[c].retried
    THEN Again(c) /\ job' = [job EXCEPT ![c].retried = TRUE]
    ELSE Rollback(c)

\* Reads the reservations and refuses.
CreateRefuse(c) ==
    /\ pc[c] = "reserve" /\ job[c].kind = "create"
    /\ Overdraws(c)
    /\ Rollback(c)
    /\ UNCHANGED <<moneyVars, paid, rejected>>

\* Reads the reservations and accepts.
CreateAccept(c) ==
    /\ pc[c] = "reserve" /\ job[c].kind = "create"
    /\ ~Overdraws(c)
    /\ Goto(c, "index")
    /\ UNCHANGED <<moneyVars, paid, lockVars, job, seen, writes, rejected>>

\* Past the unique index, before the end of the transaction.
Entered(c) == job[c].kind = "create" /\ pc[c] \in {"row", "version", "check", "commit"}

\* The INSERT of the payout enters the unique index on the idempotency key: it
\* waits for another entry to commit, which is a unique violation, or to go.
CreateIndex(c) ==
    /\ pc[c] = "index"
    /\ \A d \in Clients \ {c} : Entered(d) => job[d].target # job[c].target
    /\ IF payout[job[c].target] # None
       THEN Fails(c)
       ELSE Goto(c, "row") /\ UNCHANGED <<lockVars, job, seen, writes>>
    /\ UNCHANGED <<moneyVars, paid, rejected>>

\* The end of the INSERT, which checks the foreign key, then the attempt and the
\* reservation, whose key names the same merchant account.
CreateInsert(c) ==
    /\ pc[c] = "row"
    /\ Insertable(c)
    /\ lock' = Stronger(c, "key share")
    /\ writes' = [writes EXCEPT ![c] = [NoWrites EXCEPT !.reserved = job[c].amount]]
    /\ Goto(c, IF job[c].guard = "VERSION" THEN "version" ELSE "check")
    /\ UNCHANGED <<moneyVars, paid, payoutLock, advisory, job, seen, rejected>>

\* VERSION advances balance_version, or finds that another request did:
\* StaleBalanceVersion, and OptimisticReserver calls create_payout again.
CreateAdvance(c) ==
    /\ pc[c] = "version"
    /\ Grantable(c, "no key update")
    /\ IF version # seen[c].version
       THEN Again(c) /\ job' = [job EXCEPT ![c].retried = FALSE]
       ELSE /\ lock' = [lock EXCEPT ![c] = "no key update"]
            /\ Goto(c, "check")
            /\ UNCHANGED <<payoutLock, advisory, job, seen, writes>>
    /\ UNCHANGED <<moneyVars, paid, rejected>>

\* Mutant: the merchant lock first, then the payout row.
RetryLockMerchantFirst(c, p) ==
    /\ Grantable(c, "update")
    /\ lock' = [lock EXCEPT ![c] = "update"]
    /\ UNCHANGED payoutLock

\* The payout row is locked before the merchant account.
RetryLockPayout(c, p) ==
    /\ payoutLock[p] = None
    /\ payoutLock' = [payoutLock EXCEPT ![p] = c]
    /\ UNCHANGED lock

RetryBegin(c, p) ==
    /\ pc[c] = "idle"
    /\ payout[p] # None
    /\ RetryLockPayout(c, p)
    /\ job' = [job EXCEPT ![c] = Job("retry", p, payout[p].amount)]
    /\ Goto(c, "retry")
    /\ UNCHANGED <<moneyVars, paid, advisory, seen, writes, rejected>>

\* Only a FAILED payout goes on to the merchant lock and the balance.
RetryRead(c) ==
    /\ pc[c] = "retry"
    /\ payoutLock[job[c].target] \in {c, None}
    /\ IF payout[job[c].target].status # "FAILED"
       THEN Rollback(c)
       ELSE /\ Grantable(c, "update")
            /\ payoutLock' = [payoutLock EXCEPT ![job[c].target] = c]
            /\ lock' = [lock EXCEPT ![c] = "update"]
            /\ seen' = [seen EXCEPT ![c] = [NoRead EXCEPT !.available = Owed("available")]]
            /\ Goto(c, "reserve")
            /\ UNCHANGED <<advisory, job, writes>>
    /\ UNCHANGED <<moneyVars, paid, rejected>>

Reacquired(c) == job[c].amount

RetryReserve(c) ==
    /\ pc[c] = "reserve"
    /\ job[c].kind = "retry"
    /\ IF Eligible(seen[c].available) < job[c].amount
       THEN Rollback(c)
       ELSE /\ writes' = [writes EXCEPT ![c] = [NoWrites EXCEPT !.reserved = Reacquired(c)]]
            /\ Goto(c, "check")
            /\ UNCHANGED <<lockVars, job, seen>>
    /\ UNCHANGED <<moneyVars, paid, rejected>>

-----------------------------------------------------------------------------
(* The bank and what is recorded of it.  PayoutDispatch shows that a       *)
(* payout keeps PayoutContract; here the contract's steps are taken.       *)

BankPays(p) ==
    /\ payout[p] # None /\ payout[p].status = "OPEN"
    /\ p \notin paid
    /\ \A d \in Clients : job[d].kind # "observe" \/ job[d].target # p
    /\ paid' = paid \cup {p}
    /\ UNCHANGED <<moneyVars, lockVars, txVars, rejected>>

\* record_bank_observation locks the payout row, not the merchant account.
ObserveBegin(c, p) ==
    /\ pc[c] = "idle"
    /\ payoutLock[p] = None
    /\ payout[p] # None /\ payout[p].status = "OPEN"
    /\ payoutLock' = [payoutLock EXCEPT ![p] = c]
    /\ job' = [job EXCEPT ![c] = [Job("observe", p, payout[p].amount) EXCEPT
                                    !.end = IF p \in paid THEN "SUCCEEDED" ELSE "FAILED"]]
    /\ Goto(c, "insert")
    /\ UNCHANGED <<moneyVars, paid, lock, advisory, seen, writes, rejected>>

\* Mutant: only a failure gives the reservation back.
ReleasedOnFailure(c) == IF job[c].end = "FAILED" THEN job[c].amount ELSE 0

\* RELEASED after a failure, CONSUMED after a success.
Released(c) == job[c].amount

\* A failure releases the reservation; a success posts the payout (Dr
\* available payable, Cr payout clearing) and consumes it.
ObserveInsert(c) ==
    /\ pc[c] = "insert"
    /\ Insertable(c)
    /\ lock' = [lock EXCEPT ![c] = "key share"]
    /\ writes' = [writes EXCEPT ![c] =
            [entries |-> IF job[c].end = "FAILED" THEN NoEntries
                         ELSE [NoEntries EXCEPT !["available"] = -job[c].amount,
                                                !["clearing"] = job[c].amount],
             reserved |-> -Released(c), pendingUse |-> 0]]
    /\ Goto(c, "check")
    /\ UNCHANGED <<moneyVars, paid, payoutLock, advisory, job, seen, rejected>>

-----------------------------------------------------------------------------
(* Commit: the deferred coverage trigger, then the writes become visible.  *)

\* Mutant: the trigger of migration 0020, which took no advisory lock.
CheckUnlocked(c) == UNCHANGED advisory

\* Migration 0030: concurrent checks of one merchant run one after another.
AdvisoryLock(c) == advisory = None /\ advisory' = c

Covered(c) ==
    reserved + writes[c].reserved <= Owed("available") + writes[c].entries["available"]

\* relaypay_validate_payout_coverage.
CheckCoverage(c) ==
    /\ pc[c] = "check"
    /\ \/ Covered(c) /\ AdvisoryLock(c) /\ Goto(c, "commit")
          /\ UNCHANGED <<lock, payoutLock, job, seen, writes, rejected>>
       \/ /\ ~Covered(c) /\ advisory = None
          /\ Fails(c)
          /\ rejected' = rejected \cup
                {IF job[c].kind = "create" THEN job[c].guard ELSE job[c].kind}
    /\ UNCHANGED <<moneyVars, paid>>

\* The row changes of the transaction, besides ledger and reservations.
CommitRows(c) ==
    LET t == job[c].target
    IN  CASE job[c].kind = "refund" ->
               /\ refund' = [refund EXCEPT ![t] = [capture |-> job[c].capture,
                     amount |-> job[c].amount, pendingUse |-> writes[c].pendingUse]]
               /\ UNCHANGED <<payout, held, version>>
          [] job[c].kind = "create" ->
               /\ payout' = [payout EXCEPT ![t] = [status |-> "OPEN", amount |-> job[c].amount]]
               /\ held' = [held EXCEPT ![t] = @ + writes[c].reserved]
               /\ version' = IF job[c].guard = "VERSION" THEN version + 1 ELSE version
               /\ UNCHANGED refund
          [] OTHER ->
               /\ payout' = [payout EXCEPT ![t].status =
                               IF job[c].kind = "retry" THEN "OPEN" ELSE job[c].end]
               /\ held' = [held EXCEPT ![t] = @ + writes[c].reserved]
               /\ UNCHANGED <<refund, version>>

Commit(c) ==
    /\ pc[c] = "commit"
    /\ ledger' = Posted(writes[c].entries)
    /\ reserved' = reserved + writes[c].reserved
    /\ CommitRows(c)
    /\ Goto(c, "idle") /\ Release(c) /\ Forget(c)
    /\ UNCHANGED <<capture, settlement, paid, rejected>>

\* The session is lost before its commit.
Abort(c) ==
    /\ pc[c] # "idle"
    /\ Rollback(c)
    /\ UNCHANGED <<moneyVars, paid, rejected>>

-----------------------------------------------------------------------------
(* The specification.                                                      *)

Init ==
    /\ ledger = NoEntries
    /\ capture = [c \in Captures |-> None]
    /\ settlement = [c \in Captures |-> None]
    /\ refund = [r \in Refunds |-> None]
    /\ payout = [p \in Payouts |-> None]
    /\ held = [p \in Payouts |-> 0]
    /\ reserved = 0
    /\ version = 0
    /\ paid = {}
    /\ lock = [c \in Clients |-> "none"]
    /\ payoutLock = [p \in Payouts |-> None]
    /\ advisory = None
    /\ pc = [c \in Clients |-> "idle"]
    /\ job = [c \in Clients |-> NoJob]
    /\ seen = [c \in Clients |-> NoRead]
    /\ writes = [c \in Clients |-> NoWrites]
    /\ rejected = {}

\* A transaction under way takes its next step.
Proceed(c) ==
    \/ RefundSources(c)
    \/ CreateLookup(c) \/ CreateRead(c) \/ CreateRefuse(c) \/ CreateAccept(c)
    \/ CreateIndex(c) \/ CreateInsert(c) \/ CreateAdvance(c)
    \/ RetryRead(c) \/ RetryReserve(c)
    \/ ObserveInsert(c)
    \/ CheckCoverage(c) \/ Commit(c)

Next ==
    \/ \E cap \in Captures, gross \in Amounts : \E net \in 0..gross : PostCapture(cap, gross, net)
    \/ \E skipped \in SUBSET Captures : RunSettlement(skipped)
    \/ \E c \in Clients : Proceed(c) \/ Abort(c)
    \/ \E c \in Clients, r \in Refunds, cap \in Captures, amount \in Amounts :
          RefundLock(c, r, cap, amount)
    \/ \E c \in Clients, p \in Payouts, amount \in Amounts, guard \in Guards :
          CreateBegin(c, p, amount, guard)
    \/ \E c \in Clients, p \in Payouts : RetryBegin(c, p) \/ ObserveBegin(c, p)
    \/ \E p \in Payouts : BankPays(p)

Spec == Init /\ [][Next]_vars

-----------------------------------------------------------------------------
(* Properties.                                                             *)

Captured == {c \in Captures : capture[c] # None}

\* Every variable stays in its range.
TypeOK ==
    /\ ledger \in [Accounts -> Int]
    /\ capture \in [Captures -> CaptureRow \cup {None}]
    /\ settlement \in [Captures -> Nat \cup {None}]
    /\ refund \in [Refunds -> RefundRow \cup {None}]
    /\ payout \in [Payouts -> PayoutRow \cup {None}]
    /\ held \in [Payouts -> Nat]
    /\ reserved \in Nat /\ version \in Nat
    /\ paid \subseteq Payouts
    /\ lock \in [Clients -> LockModes]
    /\ payoutLock \in [Payouts -> Clients \cup {None}]
    /\ advisory \in Clients \cup {None}
    /\ pc \in [Clients -> Places]
    /\ job \in [Clients -> Jobs]
    /\ seen \in [Clients -> [available : Int, version : Nat]]
    /\ writes \in [Clients -> [entries : [Accounts -> Int], reserved : Int, pendingUse : Nat]]

\* Whatever refunds, retries, bank results and payout creations under any of
\* the three guards overlap, committed reservations never exceed the
\* available balance, and that balance never becomes negative (the promise of
\* PayoutReserver in payouts/locking/types.py, bug F1 of the repository).
ReservationsCovered == reserved >= 0 /\ reserved <= Owed("available")

\* A transaction that holds the merchant row lock decides on what it will
\* commit against: the coverage trigger never turns down a refund, a retry, a
\* recorded bank result or a payout created under ROW_LOCK, although none of
\* the bank results take that lock explicitly.
LockHoldersNeverRefused == rejected \subseteq {"VERSION", "CONSTRAINT"}

\* No money of the merchant appears or disappears: what the payable accounts
\* and the payout clearing hold, less what the merchant owes, is the net of
\* the captures less all refunds, however refunds were split over the sources.
MerchantIsOwed ==
    Owed("pending") + Owed("available") + Owed("clearing") - Owed("receivable")
      = SumFunction([c \in Captures |-> IF capture[c] = None THEN 0 ELSE capture[c].net])
        - SumFunction([r \in Refunds |-> IF refund[r] = None THEN 0 ELSE refund[r].amount])

\* What neither a settlement nor a refund took of a capture.
Left(c) == IF capture[c] = None THEN 0 ELSE capture[c].net - Settled(c) - PendingRefunds(c)

\* Pending payable is what the unsettled captures have left, and none of them
\* has given more to its refunds than its net: a settlement and a refund of
\* one capture never both take the same money.
PendingBacked ==
    /\ Owed("receivable") >= 0
    /\ \A c \in Captured : Settled(c) + PendingRefunds(c) <= capture[c].net
    /\ Owed("pending") = SumFunction([c \in Captures |-> Left(c)])

\* Reservations are exactly the amounts of open payouts, each held once, and
\* payout clearing holds exactly the payouts the bank paid and that were
\* recorded SUCCEEDED.
PayoutsAccounted ==
    /\ \A p \in Payouts : payout[p] # None =>
          held[p] = IF payout[p].status = "OPEN" THEN payout[p].amount ELSE 0
    /\ reserved = SumFunction([p \in Payouts |-> held[p]])
    /\ Owed("clearing") = SumFunction([p \in Payouts |->
          IF p \in paid /\ payout[p].status = "SUCCEEDED" THEN payout[p].amount ELSE 0])

\* Two row locks on the merchant account are held together only where
\* PostgreSQL grants both.
LocksExclude ==
    \A c, d \in Clients : c # d /\ lock[c] = "update" => lock[d] = "none"

\* What a session holds and works on at each place of its transaction.
HasJob(c, kinds) == job[c].kind \in kinds /\ job[c].amount \in Amounts

HoldsPayout(c, status) ==
    /\ job[c].target \in Payouts
    /\ payoutLock[job[c].target] = c
    /\ payout[job[c].target] # None
    /\ payout[job[c].target].status = status
    /\ payout[job[c].target].amount = job[c].amount

RefundInHand(c) ==
    /\ HasJob(c, {"refund"}) /\ lock[c] = "update"
    /\ job[c].target \in Refunds /\ refund[job[c].target] = None
    /\ job[c].capture \in Captures /\ capture[job[c].capture] # None

CreateInHand(c) == HasJob(c, {"create"}) /\ job[c].target \in Payouts /\ job[c].guard \in Guards

RetryInHand(c) == HasJob(c, {"retry"}) /\ lock[c] = "update" /\ HoldsPayout(c, "FAILED")

ObserveInHand(c) ==
    /\ HasJob(c, {"observe"}) /\ HoldsPayout(c, "OPEN")
    /\ job[c].end = IF job[c].target \in paid THEN "SUCCEEDED" ELSE "FAILED"

RefundWrites(c) ==
    LET w == writes[c]
        e == writes[c].entries
    IN  /\ w.reserved = 0
        /\ w.pendingUse <= Left(job[c].capture)
        /\ e["pending"] = -w.pendingUse /\ e["available"] <= 0 /\ e["receivable"] <= 0
        /\ e["clearing"] = 0
        /\ e["pending"] + e["available"] + e["receivable"] = -job[c].amount

ObserveWrites(c) ==
    LET w == writes[c]
        e == writes[c].entries
    IN  /\ w.reserved = -job[c].amount
        /\ e["pending"] = 0 /\ e["receivable"] = 0
        /\ e["clearing"] = IF job[c].end = "SUCCEEDED" THEN job[c].amount ELSE 0
        /\ e["available"] = -e["clearing"]

\* The amount read to be eligible still is.
Fits(c) == reserved + job[c].amount <= Owed("available")

PlaceInv(c) ==
    /\ pc[c] = "idle" => lock[c] = "none" /\ job[c] = NoJob
    /\ pc[c] = "source" => RefundInHand(c)
    /\ pc[c] \in {"lookup", "read"} => CreateInHand(c) /\ lock[c] = "none"
    /\ pc[c] = "retry" => HasJob(c, {"retry"}) /\ lock[c] = "none" /\ job[c].target \in Payouts
                           /\ payoutLock[job[c].target] = c /\ payout[job[c].target] # None
                           /\ payout[job[c].target].amount = job[c].amount
    /\ pc[c] = "reserve" => \/ /\ CreateInHand(c)
                                /\ lock[c] = IF job[c].guard = "ROW_LOCK" THEN "update" ELSE "none"
                            \/ RetryInHand(c)
    /\ pc[c] \in {"index", "row"} =>
          /\ CreateInHand(c)
          /\ lock[c] = IF job[c].guard = "ROW_LOCK" THEN "update" ELSE "none"
          /\ lock[c] = "update" => Fits(c)
    /\ pc[c] = "row" => payout[job[c].target] = None
    /\ pc[c] = "version" =>
          /\ CreateInHand(c) /\ job[c].guard = "VERSION" /\ lock[c] = "key share"
          /\ payout[job[c].target] = None
          /\ writes[c] = [NoWrites EXCEPT !.reserved = job[c].amount]
    /\ pc[c] = "insert" => ObserveInHand(c) /\ lock[c] = "none"
    /\ pc[c] \in {"check", "commit"} =>
          /\ lock[c] # "none"
          /\ \/ RefundInHand(c) /\ RefundWrites(c)
             \/ /\ CreateInHand(c) /\ payout[job[c].target] = None
                /\ job[c].guard = "ROW_LOCK" => lock[c] = "update"
                /\ writes[c] = [NoWrites EXCEPT !.reserved = job[c].amount]
             \/ RetryInHand(c) /\ writes[c] = [NoWrites EXCEPT !.reserved = job[c].amount]
             \/ ObserveInHand(c) /\ ObserveWrites(c)
    /\ pc[c] = "check" /\ lock[c] = "update" => Covered(c)
    /\ pc[c] \in {"source", "reserve"} /\ lock[c] = "update" => seen[c].available = Owed("available")

\* Only a session inside the coverage check, whose verdict still stands, is
\* about to change the available balance or the reservations.
AdvisoryInv ==
    /\ advisory # None => pc[advisory] = "commit" /\ Covered(advisory)
    /\ \A c \in Clients : pc[c] = "commit" /\ advisory # c =>
          writes[c].reserved = 0 /\ writes[c].entries["available"] = 0

\* One payout creation of an idempotency key has its entry in the unique index.
OneInsert ==
    \A c, d \in Clients : c # d /\ Entered(c) /\ Entered(d) => job[c].target # job[d].target

\* Settlements and refunds belong to captures; the bank pays what is open and
\* is recorded as paid, only.
RowsInv ==
    /\ \A c \in Captures : capture[c] = None => settlement[c] = None
    /\ \A r \in Refunds : refund[r] # None => capture[refund[r].capture] # None
    /\ \A p \in Payouts : payout[p] = None => held[p] = 0 /\ p \notin paid
    /\ \A p \in Payouts : payout[p] # None =>
          /\ p \in paid => payout[p].status # "FAILED"
          /\ payout[p].status = "SUCCEEDED" => p \in paid
    /\ rejected \subseteq {"VERSION", "CONSTRAINT"}

\* The inductive invariant: what the row locks, the advisory lock and the
\* order of the reads add up to.
FundsInv ==
    /\ TypeOK
    /\ LocksExclude
    /\ \A c \in Clients : PlaceInv(c)
    /\ AdvisoryInv
    /\ OneInsert
    /\ RowsInv
    /\ ReservationsCovered
    /\ PayoutsAccounted
    /\ MerchantIsOwed
    /\ PendingBacked

\* One request holds the merchant row and waits for the other's index entry; the
\* other holds the entry and waits for the foreign key.  Both have one key, but
\* only one uses ROW_LOCK.
Crossed ==
    \E c, d \in Clients :
      /\ pc[c] = "index" /\ lock[c] = "update"
      /\ pc[d] = "row" /\ job[d].target = job[c].target /\ job[d].guard # "ROW_LOCK"

\* Transactions never wait for each other in a circle: as long as one is under
\* way, one can take its next step without any being rolled back.  The orders
\* in which payout row, merchant row, unique index, foreign keys and advisory
\* lock are taken are spread over five functions and a trigger.  The exception
\* takes two strategies at once, which the service does not do: its requests
\* all use ROW_LOCK.
NoLockCycle ==
    (\E c \in Clients : pc[c] # "idle") => Crossed \/ \E c \in Clients : ENABLED Proceed(c)
=============================================================================
