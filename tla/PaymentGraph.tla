---------------------------- MODULE PaymentGraph ----------------------------
(***************************************************************************)
(* One payment and its children: the authorization, the capture, the void  *)
(* and the refunds, each with a provider operation that OperationContract  *)
(* describes.  Requests, the finalizer and the expiry worker change them   *)
(* under the payment's row lock, so each transaction is one action; the    *)
(* expiry worker's query reads the children before it holds the lock, and  *)
(* is a step of its own.                                                   *)
(*                                                                         *)
(* A resource row and its operation row change status in the same          *)
(* transactions, so one entry of op stands for both.                       *)
(***************************************************************************)
EXTENDS Integers, FiniteSets, Functions

CONSTANTS
    Refunds,    \* the refunds that may be asked for, one per idempotency key
    Amount,     \* the payment's amount
    Hold,       \* hold_seconds of the authorization, in ticks
    None

VARIABLES
    payment,    \* PaymentIntent.status
    op,         \* status of each operation and of its resource row
    amount,     \* amount of each resource row
    journal,    \* amount of the journal each operation posted, 0 for none
    hold,       \* time until Authorization.expires_at
    expiry      \* the expiry worker: idle, or about to lock what it selected

vars == <<payment, op, amount, journal, hold, expiry>>

Ops == {"auth", "capture", "void"} \cup Refunds
OpStatus == {"ABSENT", "PROCESSING", "REQUIRES_REVIEW", "SUCCEEDED", "FAILED"}

\* Mutant: the finalizer trusts a status read before it held the lock.
OpenWhenRead(o) == op[o] # "ABSENT"

Open(o) == op[o] \in {"PROCESSING", "REQUIRES_REVIEW"}

\* The largest capture asked for: one more than can be authorised.
MaxAsked == Amount + 1

PaymentStatus == {"created", "requires_action", "authorised", "captured",
                  "partially_refunded", "refunded", "failed", "expired", "cancelled"}

\* What the model takes for granted of its constants.
GraphConstants ==
    /\ IsFiniteSet(Refunds)
    /\ Amount \in Nat \ {0}
    /\ Hold \in Nat \ {0}
    /\ None \notin Nat \cup PaymentStatus
    /\ Refunds \cap {"auth", "capture", "void"} = {}

ASSUME GraphAssumption == GraphConstants

ALLOWED ==
    ({"created"} \X {"requires_action", "authorised", "failed", "cancelled"})
    \cup ({"requires_action"} \X {"authorised", "failed", "cancelled", "expired"})
    \cup ({"authorised"} \X {"captured", "cancelled", "expired", "failed"})
    \cup ({"captured", "partially_refunded"} \X {"partially_refunded", "refunded"})

\* The amounts of the refunds in one of the given states.
RefundSum(states) ==
    SumFunction([r \in Refunds |-> IF op[r] \in states THEN amount[r] ELSE 0])

-----------------------------------------------------------------------------
(* Requests.                                                               *)

Create(o, n) ==
    /\ op' = [op EXCEPT ![o] = "PROCESSING"]
    /\ amount' = [amount EXCEPT ![o] = n]
    /\ UNCHANGED <<payment, journal, hold, expiry>>

\* A request for an authorization, capture or void that exists attaches its key
\* to it and changes nothing here.
InitiateAuthorization ==
    /\ op["auth"] = "ABSENT"
    /\ Create("auth", Amount)

\* Mutant: a void still in flight does not stop a capture.
OpenVoidOnlyIfDone == op["void"] = "SUCCEEDED"

OpenVoid == op["void"] \notin {"ABSENT", "FAILED"}

\* The hold is compared with func.now(), the start of a transaction that may have
\* waited for the payment's lock since: it was what it is now or longer.
InitiateCapture(n) ==
    /\ op["auth"] = "SUCCEEDED"
    /\ n \in 1..amount["auth"]
    /\ op["capture"] = "ABSENT"
    /\ ~OpenVoid
    /\ payment \notin {"cancelled", "expired", "failed"}
    /\ \E atStart \in 1..Hold : atStart >= hold
    /\ Create("capture", n)

InitiateVoid ==
    /\ op["void"] = "ABSENT"
    /\ op["auth"] = "SUCCEEDED"
    /\ op["capture"] = "ABSENT"
    /\ payment = "authorised"
    /\ Create("void", amount["auth"])

\* Mutant: refunds still in flight reserve nothing.
ReservedWhenDone == RefundSum({"SUCCEEDED"})

Reserved == RefundSum({"PROCESSING", "REQUIRES_REVIEW", "SUCCEEDED"})

InitiateRefund(r, n) ==
    /\ op[r] = "ABSENT"
    /\ op["capture"] = "SUCCEEDED"
    /\ n + Reserved <= amount["capture"]
    /\ Create(r, n)

-----------------------------------------------------------------------------
(* The finalizer.                                                          *)

\* Mutant: the refund being finalized is not flushed before the sum is read.
RefundTargetUnflushed(r) ==
    IF RefundSum({"SUCCEEDED"}) = amount["capture"]
    THEN "refunded" ELSE "partially_refunded"

RefundTarget(r) ==
    IF RefundSum({"SUCCEEDED"}) + amount[r] = amount["capture"]
    THEN "refunded" ELSE "partially_refunded"

\* The status the payment moves to; None if it keeps the one it has.
Target(o, outcome) ==
    IF o = "auth" THEN IF outcome = "SUCCEEDED" THEN "authorised" ELSE "failed"
    ELSE IF o = "capture" THEN IF outcome = "SUCCEEDED" THEN "captured" ELSE "failed"
    ELSE IF outcome = "FAILED" THEN None
    ELSE IF o = "void" THEN "cancelled"
    ELSE RefundTarget(o)

\* transition() accepts the move; if it does not, the finalization rolls back.
Legal(o, outcome) ==
    Target(o, outcome) = None \/ <<payment, Target(o, outcome)>> \in ALLOWED

Finalize(o, outcome) ==
    /\ Open(o)
    /\ Legal(o, outcome)
    /\ op' = [op EXCEPT ![o] = outcome]
    /\ payment' = IF Target(o, outcome) = None THEN payment ELSE Target(o, outcome)
    /\ journal' = IF outcome = "SUCCEEDED" /\ o \notin {"auth", "void"}
                  THEN [journal EXCEPT ![o] = amount[o]] ELSE journal
    /\ hold' = IF o = "auth" /\ outcome = "SUCCEEDED" THEN Hold ELSE hold
    /\ UNCHANGED <<amount, expiry>>

MarkForReview(o) ==
    /\ op[o] = "PROCESSING"
    /\ op' = [op EXCEPT ![o] = "REQUIRES_REVIEW"]
    /\ UNCHANGED <<payment, amount, journal, hold, expiry>>

-----------------------------------------------------------------------------
(* The expiry worker, and time.                                            *)

\* Mutants: the children are not read again under the lock; a declined void
\* counts as one in flight.
InFlightUnchecked == FALSE
InFlightAnyVoid == op["capture"] # "ABSENT" \/ op["void"] # "ABSENT"

InFlight == op["capture"] # "ABSENT" \/ OpenVoid

Lapsed == payment = "authorised" /\ op["auth"] = "SUCCEEDED" /\ hold = 0

\* The query finds the payment; its subqueries see the children as they are now.
SelectLapsed ==
    /\ expiry = "idle"
    /\ Lapsed
    /\ op["capture"] = "ABSENT" /\ ~OpenVoid
    /\ expiry' = "selected"
    /\ UNCHANGED <<payment, op, amount, journal, hold>>

\* The row is locked, its status is still the one selected or the row is
\* dropped, and the children are read again.
ExpireSelected ==
    /\ expiry = "selected"
    /\ expiry' = "idle"
    /\ payment' = IF Lapsed /\ ~InFlight THEN "expired" ELSE payment
    /\ UNCHANGED <<op, amount, journal, hold>>

\* The row is locked by another transaction and skipped, or the worker dies.
SkipSelected ==
    /\ expiry = "selected"
    /\ expiry' = "idle"
    /\ UNCHANGED <<payment, op, amount, journal, hold>>

Tick ==
    /\ hold \in Nat \ {0}
    /\ hold' = hold - 1
    /\ UNCHANGED <<payment, op, amount, journal, expiry>>

-----------------------------------------------------------------------------

Init ==
    /\ payment = "created"
    /\ op = [o \in Ops |-> "ABSENT"]
    /\ amount = [o \in Ops |-> 0]
    /\ journal = [o \in Ops |-> 0]
    /\ hold = None
    /\ expiry = "idle"

Request ==
    \/ InitiateAuthorization
    \/ \E n \in 1..MaxAsked : InitiateCapture(n)
    \/ InitiateVoid
    \/ \E r \in Refunds, n \in 1..Amount : InitiateRefund(r, n)

Settle(o) == \E outcome \in {"SUCCEEDED", "FAILED"} : Finalize(o, outcome)

Next ==
    \/ Request
    \/ \E o \in Ops : Settle(o) \/ MarkForReview(o)
    \/ SelectLapsed \/ ExpireSelected \/ SkipSelected
    \/ Tick

Spec == Init /\ [][Next]_vars

-----------------------------------------------------------------------------
(* Properties.                                                             *)

\* Every row holds a status and an amount its table allows.
TypeOK ==
    /\ payment \in PaymentStatus
    /\ op \in [Ops -> OpStatus]
    /\ amount \in [Ops -> 0..Amount]
    /\ journal \in [Ops -> 0..Amount]
    /\ hold \in {None} \cup 0..Hold
    /\ expiry \in {"idle", "selected"}

\* Whatever the provider answers to an operation in flight, transition() accepts
\* the move the finalizer makes: money that moved is never stuck in a rollback.
FinalizationNeverRefused ==
    \A o \in Ops, outcome \in {"SUCCEEDED", "FAILED"} :
      op[o] \in {"PROCESSING", "REQUIRES_REVIEW"} => Legal(o, outcome)

\* Refunds in flight and done never exceed the capture, the capture never
\* exceeds the authorization, and the journals say the same.
RefundsCovered ==
    /\ RefundSum(OpStatus \ {"ABSENT", "FAILED"}) <= amount["capture"]
    /\ amount["capture"] <= amount["auth"]
    /\ SumFunction([r \in Refunds |-> journal[r]]) <= journal["capture"]

\* The payment's status is one its resources allow (STATUS_DRIFT of
\* proof/invariants.py).
NoStatusDrift ==
    LET refunded == RefundSum({"SUCCEEDED"}) IN
    payment \in
      IF refunded > 0
      THEN IF refunded >= amount["capture"] THEN {"refunded"} ELSE {"partially_refunded"}
      ELSE IF op["capture"] = "SUCCEEDED" THEN {"captured"}
      ELSE IF op["auth"] = "SUCCEEDED" THEN {"authorised", "failed", "expired", "cancelled"}
      ELSE IF op["auth"] = "FAILED" THEN {"failed"}
      ELSE {"created", "requires_action", "failed", "expired", "cancelled"}

\* Capture, void and expiry exclude each other: a hold is taken, released or
\* left to lapse, never two of them, also while operations are in flight.
EndsExclude ==
    /\ op["capture"] = "ABSENT" \/ op["void"] \in {"ABSENT", "FAILED"}
    /\ payment = "expired" => op["capture"] = "ABSENT" /\ op["void"] \in {"ABSENT", "FAILED"}
    /\ payment = "cancelled" => op["void"] = "SUCCEEDED"

\* A payment that ended, or whose money moved, never goes back.
NeverReopens ==
    [][/\ payment \in {"refunded", "failed", "expired", "cancelled"} => UNCHANGED payment
       /\ \A o \in Ops : op[o] \in {"SUCCEEDED", "FAILED"} => op'[o] = op[o]
       /\ \A o \in Ops : journal[o] # 0 => journal'[o] = journal[o]]_vars

\* What ties the children to the payment: how far each child has come for each
\* payment status.  Inductive together with TypeOK.
GraphInv ==
    /\ TypeOK
    /\ op["auth"] \notin {"SUCCEEDED", "FAILED"} => payment = "created"
    /\ op["auth"] = "FAILED" => payment = "failed"
    /\ op["auth"] # "SUCCEEDED" => op["capture"] = "ABSENT" /\ op["void"] = "ABSENT"
    /\ op["auth"] = "SUCCEEDED" => payment \notin {"created", "requires_action"}
    /\ op["capture"] \in {"PROCESSING", "REQUIRES_REVIEW"} => payment = "authorised"
    /\ op["void"] \in {"PROCESSING", "REQUIRES_REVIEW"} => payment = "authorised"
    /\ op["void"] = "SUCCEEDED" => payment = "cancelled"
    /\ payment \in {"captured", "partially_refunded", "refunded"} => op["capture"] = "SUCCEEDED"
    /\ payment = "authorised" => op["auth"] = "SUCCEEDED" /\ op["capture"] \notin {"SUCCEEDED", "FAILED"}
    /\ \A r \in Refunds : op[r] # "ABSENT" => op["capture"] = "SUCCEEDED"
    /\ \A o \in Ops : op[o] \notin {"SUCCEEDED"} => journal[o] = 0
    /\ EndsExclude

\* The amounts behind RefundsCovered and NoStatusDrift: a row has an amount from
\* its request on, a journal repeats it, and once captured the status of the
\* payment says how much of the capture came back.  Inductive with GraphInv.
MoneyInv ==
    LET refunded == RefundSum({"SUCCEEDED"}) IN
    /\ GraphInv
    /\ \A o \in Ops : amount[o] = 0 <=> op[o] = "ABSENT"
    /\ op["auth"] # "ABSENT" => amount["auth"] = Amount
    /\ \A o \in Refunds \cup {"capture"} : op[o] = "SUCCEEDED" => journal[o] = amount[o]
    /\ RefundSum(OpStatus \ {"ABSENT", "FAILED"}) <= amount["capture"]
    /\ op["capture"] = "SUCCEEDED" =>
          payment = IF refunded = 0 THEN "captured"
                    ELSE IF refunded = amount["capture"] THEN "refunded" ELSE "partially_refunded"

\* The poller runs the expiry task again and again, and a selected row is not
\* skipped forever; an operation in flight is decided or parked
\* (EventuallyRests of ProviderOperation); time passes.
Fairness ==
    /\ WF_vars(SelectLapsed)
    /\ SF_vars(ExpireSelected)
    /\ \A o \in Ops : WF_vars(Settle(o) \/ MarkForReview(o))
    /\ WF_vars(Tick)

FairSpec == Spec /\ Fairness

\* An authorised payment does not stay authorised: it is captured, voided, fails
\* or expires, unless an operation waits for an operator.
HoldEnds ==
    payment = "authorised" ~>
      \/ payment # "authorised"
      \/ \E o \in Ops : op[o] = "REQUIRES_REVIEW"
=============================================================================
