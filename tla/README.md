# RelayPay: TLA+ models and proofs

RelayPay accepts payment requests, sends each one to a payment provider exactly
once, finds out what the provider did, posts the result to a ledger, pays
merchants out and tells them what happened. Around that core run statement
reconciliation, connectors, disputes, subscription recovery, risk reviews and
settlement forecasts. This directory models the parts that are hard to test: API
threads, pollers, webhooks, operators, crashes and time racing over the same rows.

## The system and its parts

| Part | Source (`packages/relaypay/` unless noted) | Module |
| --- | --- | --- |
| Provider operations, webhook inbox, mock provider | `provider_operations/`, `psp/`, `mock_provider/` | `ProviderOperation`, `OperationContract` |
| Payments | `payments/` | `PaymentGraph` |
| Fees | `fees/` | `FeeSchedule` |
| Ledger, balances, settlement, payout reservations | `ledger/`, `merchant_balances/`, `payouts/locking/`, migrations | `MerchantFunds` |
| Payout dispatch, mock bank | `payouts/`, `mock_bank/` | `PayoutDispatch`, `PayoutContract` |
| Event delivery and receiver | `event_delivery/`, `receiver/` | `WebhookDelivery` |
| API keys, connector versions | `identity/`, `connectors/` | `CredentialVersions` |
| Connector events, commerce orders | `connectors/`, `mock_commerce/` | `InboundEvents` |
| Statement reconciliation | `reconciliation/` | `StatementRun` |
| Seller's reconciliation tool | `packages/relaypay_reconcile/` | `SellerReconcile` |
| Agent runtime | `agent_runtime/` | `WorkflowSteps`, `BusinessOutbox` |
| Disputes | `disputes/` | `DisputeResponse` |
| Subscription recovery | `subscriptions/` | `SubscriptionRecovery` |
| Risk review | `risk_review/` | `RiskReview` |
| Settlement intelligence | `settlement_intelligence/` | `SettlementForecasts`, `SettlementQuestions` |
| Poller | `apps/worker/` | `PollerSchedule` |

`PROJECT.json` lists every part with its status and every definition with the
lines it translates. The parts meet in three ways. The finalizer of
`ProviderOperation` decides what `PaymentGraph`, `StatementRun` and
`MerchantFunds` then see as an operation's status. `MerchantFunds` reserves what
`PayoutDispatch` sends. `PollerSchedule` runs the batches that are the fair
actions of all others.

## How the modules are written

Each database transaction is one action when it locks what it reads. When it does
not, it is split at the statements between which another transaction can commit
(PostgreSQL runs READ COMMITTED), and what it read is kept in its job. Network
calls are steps of their own. Between steps a worker may be overtaken, lose its
lease, or die. Timestamps are reduced to what the code compares: due or waiting,
a lease that runs or ran out, elapsed time up to a grace. The `MC` modules add
symmetry sets and values that a configuration cannot write, and put components
that ask the same kind of question into one run: the variable `part`, fixed by
`Init`, says which component (or which instance of it) moves in a behaviour, the
others stand still, so the run explores each of them completely and none of their
products. A property of such a run is the promise of one component.

**`ProviderOperation`** follows one operation. A worker runs one of four jobs:
request, first send of an unsent operation, recovery lookup, inbox event.

| Code | Action |
| --- | --- |
| `initiate_*`, `_attach_key` | `Initiate` |
| `prepare_first_send` | `PrepareFirstSend` |
| `dispatch_operation`, `_complete_mutation` | `SendMutation`, `ReceiveMutation`, `CompleteMutation` |
| `claim_unsent_operations`, `claim_due_operations`, `retry_provider_lookup` | `ClaimUnsent`, `ClaimDue`, `ClaimForReview` |
| `record_lookup_observation` | `Lookup`, `RecordLookup` |
| `apply_recorded_outcome`, finalizer | `ApplyFinalize`, `ApplyFails`, `RecordApplyFailure`, `ApplyReview` |
| `accept_psp_event`, `claim_psp_events`, `_prepare`, `process_psp_event` | `AcceptEvent`, `ClaimEvent`, `DeadLetter`, `PrepareEvent`, `FinishEvent` |

**`OperationContract`** is what an operation promises: the provider acts at most
once and only before a decision, the one decision agrees with what it did and is
posted with it, "not found" means it never acts, clients hear nothing else.

**`PaymentGraph`** is one payment with its authorization, capture, void and
refunds. The expiry worker's query is a step of its own: it reads captures and
voids before it holds the payment lock.

**`FeeSchedule`** is the integer fee split with its rounding and caps, schedule
versions that take effect later, and the split a capture stores when it starts and
posts when it ends.

**`MerchantFunds`** is one merchant's ledger accounts, balance transactions,
settlements and reservations, with the row locks, the compare-and-swap and the
deferred coverage trigger that keep concurrent transactions apart. Creating a
payout is split wherever it may wait: for the merchant row, for another request's
entry in the unique index on the idempotency key, for the foreign key, for the
version. The three reservation strategies may meet in one state; the API uses
`ROW_LOCK`, the others are run by the integration tests.

**`PayoutDispatch`** is `run_payout_batch` with claims, transfers, lookups and
retries against the bank; **`PayoutContract`** is what a payout promises to the
balance: reserved while open, paid at most once over all attempts, posted with a
success, and failed only when no transfer happened or will.

**`WebhookDelivery`** materializes, claims, sends, records and replays deliveries
against a receiver that stores an event once. **`CredentialVersions`** rotates,
verifies, activates and revokes. **`InboundEvents`** claims connector events and
synchronizes orders in a second database. **`BusinessOutbox`** publishes to a
broker that may fail after accepting, and consumes with one effect per event.
**`WorkflowSteps`** leases, completes and fails the steps of a run with a budget.
Completing and failing read without a lock, so they are two steps each; the history
variables `contested` and `raced` tell when another transaction came in between.

**`StatementRun`** imports a statement, compares it with operations that go on
changing, and stores the verdicts under a lease. **`SellerReconcile`** computes
the tool's findings from aggregates as its queries do; its properties are stated
on the rows instead.

**`DisputeResponse`**, **`SubscriptionRecovery`**, **`RiskReview`**,
**`SettlementForecasts`** and **`SettlementQuestions`** follow one case each from
its first request to its end. The last transaction of a submission reads its rows
without a lock and writes the columns that changed, in two steps; a request for an
answer may be lost, by a crash or a model error nobody catches. **`PollerSchedule`**
is the loop that runs the background work.

## Runs

States are distinct states. The run marked ✗ is violated on purpose; see below.

| Run | States | Properties | What it shows |
| --- | --- | --- | --- |
| `requests` | 2,916,128 | `SendAtMostOnce`, `OneAnswer`, `GraceRespected`, `ImplementsContract` | Two API threads or pollers, two idempotency keys and a crash race over the first send and its lookups. |
| `webhooks` | 3,372,789 | `PostedOnce`, `AlwaysScheduled`, `AppliedEventAgrees`, `DecisionStands` | A webhook, the dispatcher, the recovery poller and an operator's retry race to the finalizer, which may roll back. |
| `operation_ends` | 44,336 | `EventuallyRests`, `EventsAreClosed` | Under fair pollers every accepted operation is decided or reaches an operator and every accepted webhook is closed, although workers die and leases are lost. |
| `payment` | 9,386 | `FinalizationNeverRefused`, `RefundsCovered`, `NoStatusDrift`, `EndsExclude`, `NeverReopens`, `HoldEnds` | Authorization, capture, void, three refunds and the expiry worker on one payment. |
| `payout` | 485,939 | `OneTransferPerAttempt`, `LedgerFollowsBank`, `EndTogether`, `ImplementsContract` | Two pollers, a retry, a crash, lost replies and a bank that may keep a transfer pending. |
| `funds` | 1,691,063 | `ReservationsCovered`, `LockHoldersNeverRefused`, `PayoutsAccounted`, `NoLockCycle`, `MerchantIsOwed`, `PendingBacked` | Payout requests under each reservation strategy, a retry, bank results, captures, settlement runs and refunds race over one merchant's balance; nobody waits in a circle, except two requests with one key under different strategies. |
| `messaging` | 601,805 | `DeliveryPromise`, `InboundPromise`, `OutboxPromise`, `EndsAccounted` | Webhook deliveries, connector events, the outbox and workflow steps of two workers, with lost answers, duplicates, lost leases and crashes. |
| `cases` | 571,001 | `ResponsePromise`, `RecoveryPromise`, `CredentialPromise` | Dispute responses over both networks, subscription recovery with retries and messages, and credential versions, each with concurrent administrators and pollers. |
| `books` | 2,128,572 | `ChargedExactly`, `StatementPromise`, `ReportExact` | Fee splits while tariffs change, statements compared with operations that go on changing, and a seller's reconciliation of small exports around its tolerance and window. |
| `insight` | 1,362,085 | `AnswerPromise`, `ReviewPromise`, `ForecastPromise` | Risk scores of every combination of defects, reviews of every list of up to three claims, concurrent reviews, settlement forecasts around their cutoffs, and questions asked at once. |
| `work_ends` | 51,821 | `AllWorkEnds` | Under fair pollers payouts, deliveries, connector events, statement runs and recovery actions end, business events are published, settlement questions end unless their request is lost, and one loop runs every task on time. |
| `long_grace` ✗ | 24,444 | `GraceRespected` | With a configured grace above the default, the dispatcher's own lookup fails an operation too early. |

Properties named `...Promise`, `ChargedExactly`, `ReportExact` and `AllWorkEnds`
are conjunctions, one conjunct for each thing the component promises; the
conjuncts are definitions with their own comments. For example `DeliveryPromise`
is that an event has one initial delivery, that `DELIVERED` means the receiver
stored it, that the attempt history is complete and within the limit, that a dead
letter has a reason, and that a closed delivery stays closed.

Bounds. Two workers suffice for one to overtake another at every step; two keys
for one to attach before and one after a decision; one or two faults for every
place a job can be cut. Graces, leases and limits are 1 to 3 ticks, so that each
deadline can fall before, at and after each step. Amounts are chosen around the
boundaries the code compares with: one unit below, at and above a balance, a cap,
a tolerance or a total. Constants named `Max...` cap the environment; each is
commented where it is declared. `CHECK_DEADLOCK FALSE` is set where the work
really ends: a delivery is closed, a case decided, a review finished, and nothing
is left to do.

Some properties have exceptions, which are what the code leaves open; each is part
of the definition. `NoLockCycle`: two requests with one key, one under `ROW_LOCK` and
one under another strategy, may wait for each other, the first with the merchant row,
the second with the index entry. `EndsAccounted`: a step taken over between the
unlocked reads and the writes of its worker, and tokens of completions that overlap.
`ReportExact`: a refund that failed and was settled. `ForecastPromise`: that a
forecast repeats nothing is asked with one recorder only. `ChargedExactly`: the
version a capture names had taken effect, which need not make it the newest.
`CredentialPromise` does not say that a connector has one active version.
`AllWorkEnds`: see fairness.

Fairness. The poller loops for ever, so claims and the steps of a live worker are
weakly fair, leases run out and waiting work becomes due. Claims that use `SKIP
LOCKED` are strongly fair: they are skipped only while another transaction holds the
row, and each row sees finitely many of those. In `PayoutDispatch` time itself is
strongly fair, it passes however busy the workers are. Requests, operators, crashes
and faults are never fair. What nobody is bound to run has no fairness and no
liveness property: consumers of business events (`AllWorkEnds` asks that an event is
published) and workflow steps, which no poller claims. A payout ends unless the bank
keeps its transfer pending, or as many others as fill a batch; a settlement question
ends unless its request is lost.

Delays. `AppliedEventAgrees` and the two `ImplementsContract` need what ADR-011
assumes: a send arrives within `SendDelay` or never, a lookup is recorded within
`LookupDelay`, and together they are shorter than the grace.

## Where code and documents differ

- `long_grace` (packages/relaypay/provider_operations/service.py:461): dispatch_operation records its lookup with DEFAULT_NOT_FOUND_GRACE_SECONDS, whatever is configured, so with a configured grace above 600 s a not-found is final before that grace has passed. docs/configuration.md:77 says of PROVIDER_NOT_FOUND_GRACE_SECONDS: "Seconds after a recorded send before a signed provider or bank \"not found\" fails the operation".

While reading the code for the models we also met these differences. They are
about wording or about corners that the models contain and no run isolates:

- `psp/applier.py`: an event is committed as `REVIEW` before its operation is
  parked in a second transaction; ADR-012 describes the two as one.
- `payouts/service.py`: a lookup that finds a transfer still pending leaves
  `updated_at` alone, so a full batch of such attempts is selected first each time.
- `event_delivery/delivery.py`: attempts are numbered by those recorded, so a send
  whose worker died before recording it is not counted in the limit of 8.
- `connectors/service.py`: two activations of different versions neither wait for
  nor see each other.
- `payouts/service.py`: two requests with one idempotency key under different
  reservation strategies can deadlock; PostgreSQL aborts one of them.
- `mock_commerce/service.py`: the sum over an order's links is read under a lock on
  one link, so two payments synchronized at once may each miss the other.
- `agent_runtime/workflows.py`: `complete_step` and `fail_step` read without a lock. Of
  two overlapping completions one loses its tokens; a step taken over in between may
  end twice.
- `disputes/service.py`: a freeze that read its draft before an edit may commit
  after it; an observation of an invalidated package is rolled back together with
  the conflict it raises; a lost HTTP answer leaves the attempt `SENT`. A package that
  is invalidated after the last transaction read it is marked `SUBMITTED` all the
  same, where the comment at lines 494-496 says it "must not be marked SUBMITTED".
- `subscriptions/execution.py`: expiry is looked at only for cases with a due action;
  an opt-out between the commit and the request does not stop the request.
- `relaypay_reconcile/matching.py`: a failed refund that was settled yields no
  exception.
- `risk_review/service.py`: a repeated request may be answered with the pending
  review; confidence looks at one source path.
- `settlement_intelligence/`: two runs may append the same forecast twice. A question
  whose calls exceed the budget is answered all the same, and its run goes to review;
  ADR-005 says that "model budgets fail closed". A question whose request died, or
  whose narrative call raised a provider error, stays `PROCESSING`.

## What is proved

TLAPS checks these for every value of the constants, under the assumptions the
modules state of them (sets of amounts summed over are finite, amounts positive,
rates at most 10000 basis points, publishers are not consumers, and the value that
stands for a missing row or holder is none of the others).

`ProviderOperationProofs`, `...Safety`: `TypeOK`, `SendAtMostOnce`, `OneAnswer`, `PostedOnce`, `AnswerMatchesEffect`, `AlwaysScheduled` and
`DecisionStands` without assumptions on delays; `AbsenceIsReal`,
`AppliedEventAgrees` and the refinement `ImplementsContract` with the delay
bounds; `GraceRespected` if the configured grace is at most the dispatcher's, the
case `long_grace` shows to be needed.

The properties are not inductive. `IInv` (in `ProviderOperationInv`) adds what the
code relies on silently: `Control` (which row states each step of a job implies),
`Sends` (a send on record is the only one), `Decision` (records, response and
postings move together), `Evidence` (attempts, answers in flight and events say
what the provider did), `Inbox` (event rows, attempts and jobs agree) and
`Absence` (an effect a lookup missed is younger than the grace). There is one
lemma per conjunct with one step per action. `...Proofs` has types, `Control`,
`Sends`, `Decision` and `Evidence`; `...Safety` has the ages, `Absence`, `Inbox` and
the theorems.

`PayoutDispatchProofs`: `OneTransferPerAttempt`, `LedgerFollowsBank`, `EndTogether` and `SuccessStands` without assumptions on
delays; `PaidAtMostOnce` and the refinement of `PayoutContract` with them. The
invariant `PInv` adds `Jobs` (what each step of a worker implies of its attempt),
`Sends` (a transfer is with one worker, on its way, or at the bank), `Seen` (an
answer in hand is one the bank gave) and `Timed` (how old an unfinished send or an
unrecorded answer can be; this is the conjunct that makes a "not found" after the
grace final).

`PaymentProofs`, first part: sums. The models add up amounts with the community
module `Functions`, whose sums are recursive functions over subsets. Induction
over data is out of the provers' reach, so the lemmas argue by a least
counterexample: a subset of a finite set for which the claim fails, none of whose
proper subsets fails, cannot exist. What follows is what the other proofs use: a
sum changes by as much as one of its terms (`SumChange`), is additive (`SumPlus`),
monotone (`SumMono`) and at least each of its terms (`SumMember`).

`PaymentProofs`, second part: `PaymentGraph` for any number of refunds.
`EndsExclude` and `NeverReopens` rest on `GraphInv` (which children each payment
status allows); `RefundsCovered`, `NoStatusDrift` and `FinalizationNeverRefused`
on `MoneyInv`, which adds the amounts: a row has an amount from its request on, a
journal repeats it, live refunds are within the capture, and once captured the
status says how much came back. The point is a refund in flight: its amount is
reserved besides all refunds that are done, so the finalizer's sum can reach the
capture only by this refund, and `transition()` accepts either status.

`PaymentProofs`, third part: `FeeSchedule`. The tax never exceeds the fee; fee, tax
and net add up to the amount for every amount and tariff; `ChargedExactly`.

`MerchantFundsSteps`, `MerchantFundsProofs`: `ReservationsCovered`,
`LockHoldersNeverRefused`, `MerchantIsOwed`, `PendingBacked` and
`PayoutsAccounted`, for any number of sessions, captures, refunds and payouts, with
the transactions split at their reads. `FundsInv` says what makes READ COMMITTED
enough. `LocksExclude`: whoever holds the merchant row for update is alone with
it. `PlaceInv`: what each place of a transaction implies, in particular that the
balance a lock holder has read is still the balance. `AdvisoryInv`: between the
coverage check and its commit nobody else commits a change of the available
balance or of the reservations, so a verdict stands until it is used. `OneInsert`:
one creation per idempotency key is past its insert. `RowsInv`: settlements and
refunds belong to captures, and the recorded end of a payout is what the bank did.
`...Steps` shows for each step short of a commit that it keeps `FundsInv`,
`...Proofs` does settlements and commits, where the sums move.

`MessagingProofs`: `DeliveryPromise` and `OutboxPromise`. A library theorem on
cardinalities would need finite sets, and what is counted here has at most one
element, so two lemmas on counting come first (`PayoutDispatchProofs` and
`PromiseProofs` have them too: extending one another would put a whole model into
the context of every step).
`DeliveryInv` is what the lease of a delivery protects: every attempt was recorded
under an earlier claim than the running one (so a late worker cannot write a second
one), a row that is not finished has an attempt left, and whoever reports a success,
a poller or a reply on the wire, does so for an event the receiver has stored.
`OutboxInv` needs less, since nothing locks the outbox row between the check of the
lease and the write: a publisher that was acknowledged has its event in the broker,
so whoever writes the mark last, it is true. For the consumers it says that the one
whose marker is uncommitted is the only one about to have the effect.

`PromiseProofs`: `AnswerPromise`, `ResponsePromise` and `CredentialPromise`.
`QuestionInv`: whoever works on a question inserted its row and nobody has touched
it since, and every answer handed out is the answer of its row; that a run is charged
no more than its budget, and all its calls unless it is in review, follows from the
only step that adds tokens. `DisputeInv`: one request has the right
to send a package and the call uses it up, one package of the case is attempted, and
only after its approval; requests that read before another's commit, the last
transaction of a submission included, carry what `Carried` says. `CredentialInv`: whoever changes a key holds its row and found it
active; the versions of a connector are those up to some number, and a creation
takes the next one unless another request created the connector first; a version
being activated is locked, verified and still pending. That a connector has one
active version is not among the promises: see the differences above.

Each proof of these two modules goes the same way. Constructors (`Task`, `Plan`,
`Entry`, ...) get a lemma with their fields, each action a lemma that it keeps the
invariant, and the action properties a lemma on one step.

Only model-checked. Liveness (`EventuallyRests`, `EventsAreClosed`, `HoldEnds`,
`AllWorkEnds`), since fairness is beyond the prover. `NoLockCycle`, which says when a
step is `ENABLED`. `ReportExact`, which compares aggregates with rows over every small
export: for all exports it would be an induction over data. `EndsAccounted`,
`InboundPromise`, `RecoveryPromise`, `StatementPromise`, `ReviewPromise` and
`ForecastPromise` are safety properties like the ones above; they have no proofs yet,
and their modules take part in the runs through `INSTANCE`. All inductive invariants
(`IInv`, `PInv`, `MoneyInv`, `FundsInv`, `DeliveryInv`, `OutboxInv`, `QuestionInv`,
`DisputeInv`, `CredentialInv`) also hold in TLC on the instances of the runs.

## Not modelled

- Operations, evidence and analytics views: reads only.
- Observability, edge, demo scenarios: metrics, request signing and scripted demonstrations; no protocol of their own.
- SDK: a generated HTTP client with a thin retry wrapper outside the service; Initiate already lets a client repeat any request.
- Migrations and scripts: schema history, whose constraints the modules that need them model, and developer tooling that changes no state of the service.
- Within modelled parts: parsing of statement files and refreshed evidence
  (`reconciliation/`), API key scopes, sessions and memberships (`identity/`),
  connector adapters, encryption and `record_connector_result` (`connectors/`),
  endpoint and secret administration (`event_delivery/`), annotations
  (`risk_review/`), taxes, column profiles and reports of the seller's tool. They
  are single-row writes, reads, or formatting.
- Not counted as parts: the generated client under `packages/relaypay_sdk`, the
  console, migrations and scripts. They are the larger half of the repository's
  lines and run no protocol of their own.
