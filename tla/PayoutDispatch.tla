-------------------------- MODULE PayoutDispatch --------------------------
(***************************************************************************)
(* Payouts on their way to the bank: packages/relaypay/payouts/service.py  *)
(* (retry, batch, dispatch, bank observations) and the bank it talks to    *)
(* (packages/relaypay/mock_bank).  Whether the merchant's balance covers a *)
(* payout is the subject of MerchantFunds; here a payout starts as         *)
(* create_payout leaves it.                                                *)
(*                                                                         *)
(* A worker is a poller that runs run_payout_batch: it selects attempts,   *)
(* claims stale ones, and dispatches them one after another.  Each         *)
(* database transaction is one action (the payout row is locked FOR        *)
(* UPDATE); between transactions and around the bank call a worker may be  *)
(* overtaken or die.                                                       *)
(*                                                                         *)
(* Timestamps are elapsed or remaining times: an attempt's sentAge is      *)
(* now - last_sent_at (saturating at the grace), its lease is what is left *)
(* of SENT_RECOVERY_LEASE_SECONDS after updated_at.                        *)
(***************************************************************************)
EXTENDS Integers, Sequences, FiniteSets

CONSTANTS
    Payouts,
    Subject,          \* any one of them, whose contract is stated
    Workers,          \* pollers
    None,             \* SQL NULL / Python None
    BankOutcomes,     \* what the bank may decide on a transfer
    Limit,            \* limit of run_payout_batch
    NotFoundGrace,    \* not_found_grace_seconds
    SentGrace,        \* SENT_RECOVERY_GRACE_SECONDS
    SentLease,        \* SENT_RECOVERY_LEASE_SECONDS
    Delays,           \* "bounded" if the next two bounds hold
    SendDelay,        \* a recorded send reaches the bank by then, or never
    LookupDelay,      \* a lookup is recorded by then, or its worker died
    MaxAttempts,      \* bounds on how often the environment acts
    MaxCrashes,
    MaxFaults

\* The delays and limits are naturals; None is no number.
ASSUME ConstantsAssumption ==
    /\ Subject \in Payouts
    /\ BankOutcomes \subseteq {"SUCCEEDED", "DECLINED", "PENDING"}
    /\ Limit \in Nat /\ NotFoundGrace \in Nat /\ SentGrace \in Nat /\ SentLease \in Nat
    /\ Delays \in {"bounded", "unbounded"} /\ SendDelay \in Nat /\ LookupDelay \in Nat
    /\ MaxAttempts \in Nat \ {0} /\ MaxCrashes \in Nat /\ MaxFaults \in Nat
    /\ None \notin Nat /\ None \notin {"SUCCEEDED", "DECLINED", "PENDING"}

\* ADR-011, for the bank: the grace exceeds the time between a recorded send
\* and a lookup that can see its effect.
ASSUME GraceAssumption ==
    Delays = "bounded" => SendDelay + LookupDelay < NotFoundGrace

VARIABLES
    payout,           \* Payout.status
    attempts,         \* the PayoutAttempt rows, by attempt_number
    reserved,         \* sum of PayoutReservationHistory.amount_delta, in payout amounts
    posted,           \* PAYOUT journals, with their balance transaction and event
    byUpdate,         \* payouts in the order of their last attempt's updated_at
    \* the bank and the network
    effect,           \* BankEffect.outcome, by stable key (payout, attempt)
    wire,             \* transfer requests in flight
    sends,            \* transfer requests ever made
    \* the workers
    pc, todo, attempt, seen, age,
    \* how often the environment acted
    used

rowVars == <<payout, attempts, reserved, posted, byUpdate>>
bankVars == <<effect, wire, sends>>
workerVars == <<pc, todo, attempt, seen, age>>
vars == <<rowVars, bankVars, workerVars, used>>

-----------------------------------------------------------------------------
PayoutStatus == {"PROCESSING", "REQUIRES_REVIEW", "SUCCEEDED", "FAILED"}
AttemptStatus == {"PREPARED", "SENT", "AMBIGUOUS", "SUCCEEDED", "FAILED"}
Ends == {"SUCCEEDED", "FAILED"}
Outcome == {"SUCCEEDED", "DECLINED", "PENDING"}
\* NOT_FOUND is the bank's signed 404; ERROR stands for every other reply that
\* proves nothing (timeout, 5xx, bad signature, mismatched body).
Observation == Outcome \cup {"NOT_FOUND", "ERROR"}
Attempt == [status : AttemptStatus, sentAge : (0..NotFoundGrace) \cup {None},
            reason : {"NOT_FOUND", "PENDING", "ERROR", None}, lease : 0..SentLease]
Pc == {"idle", "claim", "next", "send", "await", "lookup", "record"}

Timely == Delays = "bounded"
Least(a, b) == IF a < b THEN a ELSE b
Decrement(n) == IF n = 0 THEN 0 ELSE n - 1

Latest(p) == attempts[p][Len(attempts[p])]
NewAttempt == [status |-> "PREPARED", sentAge |-> None, reason |-> None, lease |-> SentLease]

\* updated_at moves to now, for one payout or for several in turn.
Touched(p) == Append(SelectSeq(byUpdate, LAMBDA q : q # p), p)
TouchedAll(s) == SelectSeq(byUpdate, LAMBDA q : \A i \in DOMAIN s : s[i] # q) \o s

Goto(w, place) == pc' = [pc EXCEPT ![w] = place]

-----------------------------------------------------------------------------
(* The administrator's explicit retry of a payout that failed.             *)

\* Mutant: a payout under review can be retried as well.
RetryAllowedInReview(p) == payout[p] \in {"FAILED", "REQUIRES_REVIEW"}

RetryAllowed(p) == payout[p] = "FAILED"

\* Takes its reservation again and prepares an attempt under a new stable key.
CreateRetry(p) ==
    /\ RetryAllowed(p)
    /\ Len(attempts[p]) < MaxAttempts
    /\ attempts' = [attempts EXCEPT ![p] = Append(@, NewAttempt)]
    /\ payout' = [payout EXCEPT ![p] = "PROCESSING"]
    /\ reserved' = [reserved EXCEPT ![p] = @ + 1]
    /\ byUpdate' = Touched(p)
    /\ UNCHANGED <<posted, bankVars, workerVars, used>>

-----------------------------------------------------------------------------
(* run_payout_batch: select, claim, then dispatch one after another.       *)

Selectable(p) == Latest(p).status \in {"PREPARED", "AMBIGUOUS"}

Before(p, q) ==
    \E i, j \in DOMAIN byUpdate : i < j /\ byUpdate[i] = p /\ byUpdate[j] = q

\* The attempts to dispatch, least recently updated first.
IsBatch(s) ==
    /\ \A i, j \in DOMAIN s : i < j => Before(s[i], s[j])
    /\ \A i \in DOMAIN s : Selectable(s[i])
    /\ \A p \in Payouts : Selectable(p) =>
          \/ \E i \in DOMAIN s : s[i] = p
          \/ Len(s) = Limit /\ \A i \in DOMAIN s : Before(s[i], p)

SelectBatch(w) ==
    /\ pc[w] = "idle"
    /\ \E n \in 0..Limit : \E s \in [1..n -> Payouts] :
          IsBatch(s) /\ todo' = [todo EXCEPT ![w] = s]
    /\ Goto(w, "claim")
    /\ UNCHANGED <<rowVars, bankVars, attempt, seen, age, used>>

Stale(p) ==
    /\ Latest(p).status = "SENT"
    /\ Latest(p).sentAge >= SentGrace
    /\ Latest(p).lease = 0

\* The stale attempts, oldest send first.
IsClaim(s) ==
    /\ \A i \in DOMAIN s : Stale(s[i])
    /\ \A i, j \in DOMAIN s : i < j => /\ s[i] # s[j]
                                       /\ Latest(s[i]).sentAge >= Latest(s[j]).sentAge
    /\ \A p \in Payouts : Stale(p) =>
          \/ \E i \in DOMAIN s : s[i] = p
          \/ Len(s) = Limit /\ \A i \in DOMAIN s : Latest(s[i]).sentAge >= Latest(p).sentAge

\* claim_stale_sent_attempts stamps updated_at on what it returns.
ClaimStaleSent(w) ==
    /\ pc[w] = "claim"
    /\ \E n \in 0..Limit : \E s \in [1..n -> Payouts] :
          /\ IsClaim(s)
          /\ todo' = [todo EXCEPT ![w] = @ \o s]
          /\ attempts' = [p \in Payouts |->
                IF \E i \in 1..n : s[i] = p
                THEN [attempts[p] EXCEPT ![Len(attempts[p])].lease = SentLease]
                ELSE attempts[p]]
          /\ byUpdate' = TouchedAll(s)
    /\ Goto(w, "next")
    /\ UNCHANGED <<payout, reserved, posted, bankVars, attempt, seen, age, used>>

BatchDone(w) ==
    /\ pc[w] = "next"
    /\ todo[w] = <<>>
    /\ Goto(w, "idle")
    /\ UNCHANGED <<rowVars, bankVars, todo, attempt, seen, age, used>>

\* Mutant: looks up only what a bank reply was recorded for.
LookupOnlyIfAnswered(a) == a.status = "AMBIGUOUS"

\* A recorded send is never repeated.
LookupOnly(a) == a.sentAge # None

\* Commits the send before it happens.
PrepareAttemptSend(w) ==
    /\ pc[w] = "next"
    /\ todo[w] # <<>>
    /\ todo' = [todo EXCEPT ![w] = Tail(@)]
    /\ LET p == Head(todo[w])
           n == Len(attempts[p])
       IN  IF Latest(p).status \in Ends
           THEN UNCHANGED <<attempts, byUpdate, pc, attempt>>
           ELSE /\ attempt' = [attempt EXCEPT ![w] = [payout |-> p, n |-> n]]
                /\ IF LookupOnly(Latest(p))
                   THEN Goto(w, "lookup") /\ UNCHANGED <<attempts, byUpdate>>
                   ELSE /\ Goto(w, "send")
                        /\ attempts' = [attempts EXCEPT ![p][n] =
                              [@ EXCEPT !.status = "SENT", !.sentAge = 0, !.lease = SentLease]]
                        /\ byUpdate' = Touched(p)
    /\ UNCHANGED <<payout, reserved, posted, bankVars, seen, age, used>>

-----------------------------------------------------------------------------
(* The bank call.                                                          *)

Key(w) == <<attempt[w].payout, attempt[w].n>>

SendTransfer(w) ==
    /\ pc[w] = "send"
    /\ wire' = wire \cup {Key(w)}
    /\ sends' = [sends EXCEPT ![Key(w)] = @ + 1]
    /\ Goto(w, "await")
    /\ UNCHANGED <<rowVars, effect, todo, attempt, seen, age, used>>

\* apply_transfer: one effect per stable key; a repeated request changes nothing.
\* A PENDING transfer stays pending.
BankReceives(k) ==
    /\ k \in wire
    /\ wire' = wire \ {k}
    /\ IF effect[k] = None
       THEN \E o \in BankOutcomes : effect' = [effect EXCEPT ![k] = o]
       ELSE UNCHANGED effect
    /\ UNCHANGED <<rowVars, sends, workerVars, used>>

\* The request is lost on its way.
RequestLost(k) ==
    /\ k \in wire
    /\ used.faults < MaxFaults
    /\ used' = [used EXCEPT !.faults = @ + 1]
    /\ wire' = wire \ {k}
    /\ UNCHANGED <<rowVars, effect, sends, workerVars>>

Observe(w, o) ==
    /\ seen' = [seen EXCEPT ![w] = o]
    /\ age' = [age EXCEPT ![w] = 0]
    /\ Goto(w, "record")

\* The reply to the transfer, or a timeout, which may be long before the
\* request arrives.
ReceiveReply(w) ==
    /\ pc[w] = "await"
    /\ \/ effect[Key(w)] # None /\ Observe(w, effect[Key(w)]) /\ UNCHANGED used
       \/ Key(w) \notin wire /\ effect[Key(w)] = None /\ Observe(w, "ERROR") /\ UNCHANGED used
       \/ /\ used.faults < MaxFaults
          /\ used' = [used EXCEPT !.faults = @ + 1]
          /\ Observe(w, "ERROR")
    /\ UNCHANGED <<rowVars, bankVars, todo, attempt>>

\* lookup_transfer.
LookupTransfer(w) ==
    /\ pc[w] = "lookup"
    /\ \/ /\ Observe(w, IF effect[Key(w)] = None THEN "NOT_FOUND" ELSE effect[Key(w)])
          /\ UNCHANGED used
       \/ /\ used.faults < MaxFaults
          /\ used' = [used EXCEPT !.faults = @ + 1]
          /\ Observe(w, "ERROR")
    /\ UNCHANGED <<rowVars, bankVars, todo, attempt>>

-----------------------------------------------------------------------------
(* _classify and record_bank_observation: one transaction that locks the   *)
(* payout and the attempt the observation is about.                        *)

\* Mutant: a signed not-found is final at once.
ClassifyWithoutGrace(o, a) ==
    IF o = "SUCCEEDED" THEN "SUCCEEDED"
    ELSE IF o \in {"DECLINED", "NOT_FOUND"} THEN "FAILED"
    ELSE "AMBIGUOUS"

Classify(o, a) ==
    IF o = "SUCCEEDED" THEN "SUCCEEDED"
    ELSE IF o = "DECLINED" \/ (o = "NOT_FOUND" /\ a.sentAge # None /\ a.sentAge >= NotFoundGrace)
    THEN "FAILED"
    ELSE "AMBIGUOUS"

\* An UPDATE is emitted, and updated_at moves, only if a column changes.
MarkAmbiguous(p, n, o) ==
    LET a == [attempts[p][n] EXCEPT !.status = "AMBIGUOUS", !.reason = o]
        changed == attempts[p][n].status # "AMBIGUOUS" \/ attempts[p][n].reason # o
    IN  /\ payout' = [payout EXCEPT ![p] = "REQUIRES_REVIEW"]
        /\ attempts' = [attempts EXCEPT ![p][n] =
                          IF changed THEN [a EXCEPT !.lease = SentLease] ELSE a]
        /\ byUpdate' = IF changed THEN Touched(p) ELSE byUpdate
        /\ UNCHANGED <<reserved, posted>>

\* FAILED releases the reservation; SUCCEEDED posts the journal and consumes it.
Settle(p, n, end) ==
    /\ payout' = [payout EXCEPT ![p] = end]
    /\ attempts' = [attempts EXCEPT ![p][n] = [@ EXCEPT !.status = end, !.lease = SentLease]]
    /\ byUpdate' = Touched(p)
    /\ reserved' = [reserved EXCEPT ![p] = @ - 1]
    /\ posted' = [posted EXCEPT ![p] = IF end = "SUCCEEDED" THEN @ + 1 ELSE @]

\* Mutant: records on the attempt as it was before the lock was granted.
IgnoredNever(a) == FALSE

\* A terminal attempt is left alone.
Ignored(a) == a.status \in Ends

RecordBankObservation(w) ==
    /\ pc[w] = "record"
    /\ LET p == attempt[w].payout
           n == attempt[w].n
           class == Classify(seen[w], attempts[p][n])
       IN  IF Ignored(attempts[p][n]) THEN UNCHANGED rowVars
           ELSE IF class = "AMBIGUOUS" THEN MarkAmbiguous(p, n, seen[w])
           ELSE Settle(p, n, class)
    /\ Goto(w, "next")
    /\ attempt' = [attempt EXCEPT ![w] = None]
    /\ seen' = [seen EXCEPT ![w] = None]
    /\ age' = [age EXCEPT ![w] = 0]
    /\ UNCHANGED <<bankVars, todo, used>>

-----------------------------------------------------------------------------
(* Crashes and time.                                                       *)

\* The worker dies anywhere: what it had selected or seen is gone.
Crash(w) ==
    /\ pc[w] # "idle"
    /\ used.crashes < MaxCrashes
    /\ used' = [used EXCEPT !.crashes = @ + 1]
    /\ Goto(w, "idle")
    /\ todo' = [todo EXCEPT ![w] = <<>>]
    /\ attempt' = [attempt EXCEPT ![w] = None]
    /\ seen' = [seen EXCEPT ![w] = None]
    /\ age' = [age EXCEPT ![w] = 0]
    /\ UNCHANGED <<rowVars, bankVars>>

Recording(w) == pc[w] = "record"

\* A transfer that could still reach the bank.
SendPending(k) ==
    k \in wire \/ \E w \in Workers : pc[w] = "send" /\ Key(w) = k

\* When Timely, no send and no observation outlives its bound.
InTime ==
    Timely => /\ \A p \in Payouts : \A n \in 1..Len(attempts[p]) :
                    SendPending(<<p, n>>) => attempts[p][n].sentAge < SendDelay
              /\ \A w \in Workers : Recording(w) => age[w] < LookupDelay

Older(a) ==
    [a EXCEPT !.sentAge = IF @ = None THEN None ELSE Least(@ + 1, NotFoundGrace),
              !.lease = Decrement(@)]

Tick ==
    /\ InTime
    /\ attempts' = [p \in Payouts |-> [n \in DOMAIN attempts[p] |->
                      IF attempts[p][n].status \in Ends THEN attempts[p][n]
                      ELSE Older(attempts[p][n])]]
    /\ age' = [w \in Workers |-> IF Timely /\ Recording(w) THEN age[w] + 1 ELSE age[w]]
    /\ UNCHANGED <<payout, reserved, posted, byUpdate, bankVars, pc, todo, attempt, seen, used>>

-----------------------------------------------------------------------------
\* As create_payout leaves a payout: reserved, with its first attempt.
Init ==
    /\ payout = [p \in Payouts |-> "PROCESSING"]
    /\ attempts = [p \in Payouts |-> <<NewAttempt>>]
    /\ reserved = [p \in Payouts |-> 1]
    /\ posted = [p \in Payouts |-> 0]
    /\ byUpdate \in {s \in [1..Cardinality(Payouts) -> Payouts] :
                        \A i, j \in DOMAIN s : s[i] = s[j] => i = j}
    /\ effect = [k \in Payouts \X (1..MaxAttempts) |-> None]
    /\ wire = {}
    /\ sends = [k \in Payouts \X (1..MaxAttempts) |-> 0]
    /\ pc = [w \in Workers |-> "idle"]
    /\ todo = [w \in Workers |-> <<>>]
    /\ attempt = [w \in Workers |-> None]
    /\ seen = [w \in Workers |-> None]
    /\ age = [w \in Workers |-> 0]
    /\ used = [crashes |-> 0, faults |-> 0]

Proceed(w) ==
    \/ SelectBatch(w) \/ ClaimStaleSent(w) \/ BatchDone(w) \/ PrepareAttemptSend(w)
    \/ SendTransfer(w) \/ ReceiveReply(w) \/ LookupTransfer(w) \/ RecordBankObservation(w)

Next ==
    \/ \E p \in Payouts : CreateRetry(p)
    \/ \E w \in Workers : Proceed(w) \/ Crash(w)
    \/ \E k \in Payouts \X (1..MaxAttempts) : BankReceives(k) \/ RequestLost(k)
    \/ Tick

Spec == Init /\ [][Next]_vars

-----------------------------------------------------------------------------
(* Properties.                                                             *)

\* The rows, the bank and the workers stay well formed.
TypeOK ==
    /\ payout \in [Payouts -> PayoutStatus]
    /\ attempts \in [Payouts -> Seq(Attempt)]
    /\ reserved \in [Payouts -> Int]
    /\ posted \in [Payouts -> Nat]
    /\ byUpdate \in Seq(Payouts)
    /\ effect \in [Payouts \X (1..MaxAttempts) -> Outcome \cup {None}]
    /\ wire \subseteq Payouts \X (1..MaxAttempts)
    /\ sends \in [Payouts \X (1..MaxAttempts) -> Nat]
    /\ pc \in [Workers -> Pc]
    /\ todo \in [Workers -> Seq(Payouts)]
    /\ attempt \in [Workers -> [payout : Payouts, n : 1..MaxAttempts] \cup {None}]
    /\ seen \in [Workers -> Observation \cup {None}]
    /\ age \in [Workers -> Nat]
    /\ used \in [crashes : Nat, faults : Nat]

\* However many pollers select and claim the same attempt, however often they
\* die, an attempt's transfer is requested once: prepare_attempt_send commits
\* the send first, and whoever finds it committed looks up instead.
OneTransferPerAttempt == \A k \in DOMAIN sends : sends[k] <= 1

\* The bank never pays a payout twice over all its attempts, so a retry never
\* follows an attempt that paid or still could (record_bank_observation fails
\* an attempt only on a decline or on a not-found past the grace).  Needs the
\* delay bounds (Timely).
PaidAtMostOnce ==
    \A p \in Payouts :
        Cardinality({n \in 1..MaxAttempts : \/ effect[<<p, n>>] \in {"SUCCEEDED", "PENDING"}
                                            \/ SendPending(<<p, n>>)}) <= 1

\* A payout holds its amount exactly while it is open, is posted exactly when
\* it succeeded, and succeeds only if the bank paid its last attempt, although
\* several workers may record observations of the same attempt.
LedgerFollowsBank ==
    \A p \in Payouts :
        /\ reserved[p] = IF payout[p] \in Ends THEN 0 ELSE 1
        /\ posted[p] = IF payout[p] = "SUCCEEDED" THEN 1 ELSE 0
        /\ payout[p] = "SUCCEEDED" => effect[<<p, Len(attempts[p])>>] = "SUCCEEDED"

\* A payout and its latest attempt end together, and an earlier attempt is a
\* failed one (uq_payout_attempts_active), so a late observation of it is void.
EndTogether ==
    \A p \in Payouts :
        /\ \A n \in 1..Len(attempts[p]) - 1 : attempts[p][n].status = "FAILED"
        /\ \A end \in Ends : payout[p] = end <=> Latest(p).status = end

\* Once a payout succeeded nothing of it changes: no late lookup, stale claim
\* or retry touches the attempt, the reservation or the journal again.
SuccessStands ==
    [][\A p \in Payouts : payout[p] = "SUCCEEDED" =>
          /\ payout'[p] = "SUCCEEDED"
          /\ reserved'[p] = reserved[p]
          /\ posted'[p] = posted[p]
          /\ Len(attempts'[p]) = Len(attempts[p])]_vars

Contract == INSTANCE PayoutContract WITH
    status <- IF payout[Subject] \in Ends THEN payout[Subject] ELSE "OPEN",
    held <- reserved[Subject],
    paid <- Cardinality({n \in 1..MaxAttempts : effect[<<Subject, n>>] = "SUCCEEDED"}),
    posted <- posted[Subject]

\* A payout keeps its contract with the merchant's balance, whatever its
\* attempts, the pollers and the bank go through.  Needs the delay bounds.
ImplementsContract == Contract!Spec

-----------------------------------------------------------------------------
(* Liveness.  The poller loops for ever, so its batch is weakly fair; a    *)
(* request in flight arrives; time passes however busy the workers are.    *)

Fairness ==
    /\ SF_vars(Tick)
    /\ \A w \in Workers : WF_vars(Proceed(w))
    /\ \A k \in Payouts \X (1..MaxAttempts) : WF_vars(BankReceives(k))

FairSpec == Spec /\ Fairness

KeptPending == {p \in Payouts : effect[<<p, Len(attempts[p])>>] = "PENDING"}

\* RCA 002: no state a worker leaves behind is one that no selector matches.
\* Every open payout ends, unless the bank keeps its transfer, or a whole batch of
\* others, pending: those are looked up without a change of updated_at and are
\* selected first again each time (run_payout_batch, its order and limit).
EventuallyEnds ==
    \A p \in Payouts :
        payout[p] \notin Ends ~>
            payout[p] \in Ends \/ p \in KeptPending \/ Cardinality(KeptPending) >= Limit
=============================================================================
