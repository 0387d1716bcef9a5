-------------------------- MODULE WebhookDelivery --------------------------
(***************************************************************************)
(* Merchant webhooks: packages/relaypay/event_delivery (materializer.py,   *)
(* delivery.py, admin.py) and the bundled receiver (receiver/service.py,   *)
(* apps/receiver/main.py).  The finalizer has stored an event and its      *)
(* recipients; a poller materializes one delivery per recipient, claims it *)
(* under a lease token, sends it outside any transaction and records the   *)
(* attempt if its token is still the active one.                           *)
(*                                                                         *)
(* Clocks are reduced to what the code compares: a delivery is due or      *)
(* waits, a lease runs or has run out.  All recipients are versions of the *)
(* bundled endpoint and carry the same event, so they share the receiver's *)
(* row.                                                                    *)
(***************************************************************************)
EXTENDS Integers, Sequences, FiniteSets, Functions

CONSTANTS
    Recipients,    \* EventRecipient rows of one event
    Deliveries,    \* WebhookDelivery rows that can come to exist
    Workers,       \* pollers
    None,
    Endpoints,     \* kinds of endpoint version, see below
    MaxAttempts,   \* MAX_ATTEMPTS
    MaxDeaths,     \* bound: workers that die
    MaxStalls,     \* bound: leases that run out under a live worker
    MaxReplays     \* bound: replays an operator asks for

VARIABLES
    endpoint,      \* kind of each recipient's endpoint version
    delivery,      \* webhook_deliveries
    attempts,      \* webhook_delivery_attempts of a delivery, by sequence
    received,      \* ReceivedEvent.delivery_count, 0 while there is no row
    wire,          \* requests on their way: delivery and lease token
    replies,       \* answers on their way back
    stage, held,   \* per worker: where it is, what it holds
    used           \* [crashes, stalls, replays] so far

deliveryVars ==
    <<endpoint, delivery, attempts, received, wire, replies, stage, held, used>>

-----------------------------------------------------------------------------
(* Vocabulary.                                                             *)

DeliveryStatus == {"PENDING", "DELIVERING", "RETRY_WAIT", "DELIVERED", "DEAD_LETTER"}
AttemptResult == {"ACKNOWLEDGED", "RETRYABLE", "PERMANENT", "TRANSPORT_ERROR"}
Terminal == {"DELIVERED", "DEAD_LETTER"}
Statuses == {200, 401, 503}

DeliveryRow ==
    [recipient : Recipients, replayOf : Deliveries \cup {None}, status : DeliveryStatus,
     count : Nat, due : BOOLEAN, token : Nat, claims : Nat, expired : BOOLEAN]

\* "good"        the receiver knows its secret
\* "mismatch"    the receiver has another secret
\* "refused"     the URL is not the allowlisted one
\* "unreadable"  the stored secret cannot be decrypted
ASSUME DeliveryAssumption ==
    /\ Endpoints \subseteq {"good", "mismatch", "refused", "unreadable"}
    /\ MaxAttempts \in Nat \ {0}
    /\ MaxDeaths \in Nat /\ MaxStalls \in Nat /\ MaxReplays \in Nat
    /\ None \notin Recipients \cup Deliveries \cup Nat
    /\ None \notin AttemptResult \cup DeliveryRow

NewDelivery(r, original) ==
    [recipient |-> r, replayOf |-> original, status |-> "PENDING", count |-> 0,
     due |-> TRUE, token |-> 0, claims |-> 0, expired |-> FALSE]

\* A claim or a recorded attempt: nothing is due, and no lease has run out.
Became(row, status, count, token, claims) ==
    [recipient |-> row.recipient, replayOf |-> row.replayOf, status |-> status, count |-> count,
     due |-> FALSE, token |-> token, claims |-> claims, expired |-> FALSE]

\* What a poller holds: recipients to materialize, or a claim with the result
\* it is about to record.
Batch(batch) == [delivery |-> None, token |-> 0, batch |-> batch, result |-> None, force |-> FALSE]
Claim(d, token, result, force) ==
    [delivery |-> d, token |-> token, batch |-> {}, result |-> result, force |-> force]
NoWork == Batch({})

Drop(w) == stage' = [stage EXCEPT ![w] = "idle"] /\ held' = [held EXCEPT ![w] = NoWork]

Exists(d) == delivery[d] # None
Kind(d) == endpoint[delivery[d].recipient]

-----------------------------------------------------------------------------
(* Materializing deliveries.                                               *)

InitialOf(r) == {d \in Deliveries : Exists(d) /\ delivery[d].recipient = r
                                              /\ delivery[d].replayOf = None}

\* The snapshot of materialize_delivery_batch: recipients with no initial
\* delivery.
MaterializeRead(w) ==
    LET batch == {r \in Recipients : InitialOf(r) = {}}
    IN  /\ stage[w] = "idle"
        /\ batch # {}
        /\ stage' = [stage EXCEPT ![w] = "select"]
        /\ held' = [held EXCEPT ![w] = Batch(batch)]
        /\ UNCHANGED <<endpoint, delivery, attempts, received, wire, replies, used>>

\* FOR UPDATE SKIP LOCKED passes over recipients another poller holds.  One
\* that was only locked and released since the snapshot is not checked again.
MaterializeLock(w) ==
    /\ stage[w] = "select"
    /\ stage' = [stage EXCEPT ![w] = "insert"]
    /\ held' = [held EXCEPT ![w] = Batch({r \in @.batch :
                 \A v \in Workers : stage[v] = "insert" => r \notin held[v].batch})]
    /\ UNCHANGED <<endpoint, delivery, attempts, received, wire, replies, used>>

\* The partial unique index on the recipient of an initial delivery.
IndexAllows(batch) == \A r \in batch : InitialOf(r) = {}

\* The batch commits as a whole, or the unique index rejects it as a whole.
MaterializeInsert(w) ==
    LET batch == held[w].batch
    IN  /\ stage[w] = "insert"
        /\ \/ ~IndexAllows(batch) /\ UNCHANGED delivery
           \/ /\ IndexAllows(batch)
              /\ \E row \in Injection(batch, {d \in Deliveries : ~Exists(d)}) :
                    delivery' = [d \in Deliveries |->
                                   IF d \in Range(row) THEN NewDelivery(AntiFunction(row)[d], None)
                                                       ELSE delivery[d]]
        /\ Drop(w)
        /\ UNCHANGED <<endpoint, attempts, received, wire, replies, used>>

\* replay_delivery: a new delivery of a terminal one's recipient.
ReplayDelivery(original, d) ==
    /\ used.replays < MaxReplays
    /\ Exists(original) /\ delivery[original].status \in Terminal
    /\ ~Exists(d)
    /\ delivery' = [delivery EXCEPT ![d] = NewDelivery(delivery[original].recipient, original)]
    /\ used' = [used EXCEPT !.replays = @ + 1]
    /\ UNCHANGED <<endpoint, attempts, received, wire, replies, stage, held>>

-----------------------------------------------------------------------------
(* Claiming and sending.                                                   *)

Claimable(d) ==
    \/ delivery[d].status \in {"PENDING", "RETRY_WAIT"} /\ delivery[d].due
    \/ delivery[d].status = "DELIVERING" /\ delivery[d].expired

\* claim_delivery: a fresh lease token replaces an expired one.
ClaimDelivery(w, d) ==
    /\ stage[w] = "idle"
    /\ Exists(d) /\ Claimable(d)
    /\ LET token == delivery[d].claims + 1
       IN  /\ delivery' = [delivery EXCEPT ![d] =
                              Became(@, "DELIVERING", @.count, token, token)]
           /\ held' = [held EXCEPT ![w] = Claim(d, token, None, FALSE)]
    /\ stage' = [stage EXCEPT ![w] = "claimed"]
    /\ UNCHANGED <<endpoint, attempts, received, wire, replies, used>>

\* Mutant: the token of the claim is not compared.
LeaseUnchecked(w) == TRUE

HoldsLease(w) ==
    /\ delivery[held[w].delivery].status = "DELIVERING"
    /\ delivery[held[w].delivery].token = held[w].token

\* _load_request, then the request leaves: nothing is sent without the lease,
\* with an unreadable secret or to a URL that is not allowlisted.
Send(w) ==
    LET d == held[w].delivery
    IN  /\ stage[w] = "claimed"
        /\ IF ~HoldsLease(w)
           THEN Drop(w) /\ UNCHANGED wire
           ELSE IF Kind(d) \in {"unreadable", "refused"}
                THEN /\ stage' = [stage EXCEPT ![w] = "record"]
                     /\ held' = [held EXCEPT ![w] =
                           Claim(d, @.token, "TRANSPORT_ERROR", Kind(d) = "unreadable")]
                     /\ UNCHANGED wire
                ELSE /\ stage' = [stage EXCEPT ![w] = "sent"]
                     /\ wire' = wire \cup {[delivery |-> d, token |-> held[w].token]}
                     /\ UNCHANGED held
        /\ UNCHANGED <<endpoint, delivery, attempts, received, replies, used>>

Awaited(m) ==
    \E w \in Workers : stage[w] = "sent" /\ held[w].delivery = m.delivery /\ held[w].token = m.token

\* receive_event: the signature first, then one row per event, and every
\* further delivery of it counts up and is acknowledged.  The answer may get
\* lost after the row is stored, its reader may be gone, and the receiver may
\* fail before.
ReceiveEvent(m) ==
    /\ m \in wire
    /\ wire' = wire \ {m}
    /\ \E status \in Statuses, lost \in BOOLEAN :
          /\ (status = 401) <=> (Kind(m.delivery) = "mismatch" /\ status # 503)
          /\ received' = IF status = 200 THEN received + 1 ELSE received
          /\ replies' = IF lost \/ ~Awaited(m) THEN replies
                        ELSE replies \cup {[request |-> m, status |-> status]}
    /\ UNCHANGED <<endpoint, delivery, attempts, stage, held, used>>

RequestLost(m) ==
    /\ m \in wire
    /\ wire' = wire \ {m}
    /\ UNCHANGED <<endpoint, delivery, attempts, received, replies, stage, held, used>>

\* _classify.
ClassifyStatus(status) ==
    CASE status = 200 -> "ACKNOWLEDGED"
      [] status = 503 -> "RETRYABLE"
      [] status = 401 -> "PERMANENT"

Returns(w, result) ==
    held' = [held EXCEPT ![w] = Claim(@.delivery, @.token, result, FALSE)]

\* The transport raised: no status.
NoAnswer(w) == Returns(w, "TRANSPORT_ERROR")

ToMe(w) == {reply \in replies : /\ reply.request.delivery = held[w].delivery
                                 /\ reply.request.token = held[w].token}

\* The transport returns the answer to its request, or gives up after its
\* timeout while the request may still be on its way.
TransportReturns(w) ==
    /\ stage[w] = "sent"
    /\ \/ \E reply \in ToMe(w) : Returns(w, ClassifyStatus(reply.status))
       \/ NoAnswer(w)
    /\ replies' = replies \ ToMe(w)
    /\ stage' = [stage EXCEPT ![w] = "record"]
    /\ UNCHANGED <<endpoint, delivery, attempts, received, wire, used>>

-----------------------------------------------------------------------------
(* Recording the attempt.                                                  *)

StatusAfter(result, force, sequence) ==
    CASE result = "ACKNOWLEDGED" -> "DELIVERED"
      [] result # "ACKNOWLEDGED" /\ (force \/ result = "PERMANENT" \/ sequence >= MaxAttempts)
           -> "DEAD_LETTER"
      [] OTHER -> "RETRY_WAIT"

\* _record_attempt: only the active lease token writes.
RecordAttempt(w) ==
    LET d == held[w].delivery
        sequence == delivery[d].count + 1
    IN  /\ stage[w] = "record"
        /\ IF HoldsLease(w)
           THEN /\ attempts' = [attempts EXCEPT ![d] =
                      Append(@, [sequence |-> sequence, token |-> held[w].token,
                                 result |-> held[w].result])]
                /\ delivery' = [delivery EXCEPT ![d] =
                      Became(@, StatusAfter(held[w].result, held[w].force, sequence),
                             sequence, 0, @.claims)]
           ELSE UNCHANGED <<attempts, delivery>>
        /\ Drop(w)
        /\ UNCHANGED <<endpoint, received, wire, replies, used>>

-----------------------------------------------------------------------------
(* Time and failures.                                                      *)

\* next_backoff has passed.
BecomesDue(d) ==
    /\ Exists(d) /\ delivery[d].status = "RETRY_WAIT" /\ ~delivery[d].due
    /\ delivery' = [delivery EXCEPT ![d] = [@ EXCEPT !.due = TRUE]]
    /\ UNCHANGED <<endpoint, attempts, received, wire, replies, stage, held, used>>

Abandoned(d) == \A w \in Workers : held[w].delivery = d => held[w].token # delivery[d].token

\* Thirty seconds have passed since the claim: its worker is gone, or slow.
LeaseExpires(d) ==
    /\ Exists(d) /\ delivery[d].status = "DELIVERING" /\ ~delivery[d].expired
    /\ delivery' = [delivery EXCEPT ![d] = [@ EXCEPT !.expired = TRUE]]
    /\ IF Abandoned(d) THEN UNCHANGED used
       ELSE used.stalls < MaxStalls /\ used' = [used EXCEPT !.stalls = @ + 1]
    /\ UNCHANGED <<endpoint, attempts, received, wire, replies, stage, held>>

PollerDies(w) ==
    /\ stage[w] # "idle"
    /\ used.crashes < MaxDeaths
    /\ used' = [used EXCEPT !.crashes = @ + 1]
    /\ Drop(w)
    /\ replies' = replies \ ToMe(w)
    /\ UNCHANGED <<endpoint, delivery, attempts, received, wire>>

-----------------------------------------------------------------------------
(* The specification.                                                      *)

DeliveryInit ==
    /\ endpoint \in [Recipients -> Endpoints]
    /\ delivery = [d \in Deliveries |-> None]
    /\ attempts = [d \in Deliveries |-> <<>>]
    /\ received = 0
    /\ wire = {}
    /\ replies = {}
    /\ stage = [w \in Workers |-> "idle"]
    /\ held = [w \in Workers |-> NoWork]
    /\ used = [crashes |-> 0, stalls |-> 0, replays |-> 0]

\* What a live poller does in its loop.
PollerStep(w) ==
    \/ MaterializeRead(w) \/ MaterializeLock(w) \/ MaterializeInsert(w)
    \/ \E d \in Deliveries : ClaimDelivery(w, d)
    \/ Send(w) \/ TransportReturns(w) \/ RecordAttempt(w)

DeliveryNext ==
    \/ \E w \in Workers : PollerStep(w) \/ PollerDies(w)
    \/ \E m \in wire : ReceiveEvent(m) \/ RequestLost(m)
    \/ \E d \in Deliveries : BecomesDue(d) \/ LeaseExpires(d)
    \/ \E original, d \in Deliveries : ReplayDelivery(original, d)

DeliverySpec == DeliveryInit /\ [][DeliveryNext]_deliveryVars

\* The poller loops for ever, retries become due and abandoned leases run out.
DeliveryFairness ==
    /\ \A w \in Workers : WF_deliveryVars(PollerStep(w))
    /\ \A d \in Deliveries : /\ WF_deliveryVars(BecomesDue(d))
                             /\ WF_deliveryVars(Abandoned(d) /\ LeaseExpires(d))

FairDeliverySpec == DeliverySpec /\ DeliveryFairness

-----------------------------------------------------------------------------
(* Properties.                                                             *)

Rows == {d \in Deliveries : Exists(d)}
Results(d) == {attempts[d][i].result : i \in 1 .. Len(attempts[d])}
LatestResult(d) == attempts[d][Len(attempts[d])].result

\* Two pollers that read the same recipients at the same time still create
\* one initial delivery for each.
OneInitialDelivery == \A r \in Recipients : Cardinality(InitialOf(r)) <= 1

\* DELIVERED is never claimed of an event the receiver has not stored,
\* whatever answers were lost, late or read by a worker without the lease.
DeliveredIsStored ==
    \A d \in Rows : delivery[d].status = "DELIVERED" => received > 0 /\ Kind(d) = "good"

\* The attempts are a history one can trust: numbered without gaps, one per
\* claim, an acknowledgement only as the last, and no more than the limit,
\* although stalled workers answer late and claims change hands.
AttemptHistory ==
    \A d \in Rows :
      LET n == Len(attempts[d])
      IN  /\ delivery[d].count = n
          /\ n <= MaxAttempts
          /\ \A i \in 1 .. n : attempts[d][i].sequence = i
          /\ \A i \in 1 .. n - 1 : /\ attempts[d][i].token < attempts[d][i + 1].token
                                   /\ attempts[d][i].result # "ACKNOWLEDGED"

\* A dead letter has one of the reasons the runbook names: an unreadable
\* secret, a permanent answer, or the attempts used up without a success.
DeadLetterHasReason ==
    \A d \in Rows : delivery[d].status = "DEAD_LETTER" =>
        /\ "ACKNOWLEDGED" \notin Results(d)
        /\ \/ Kind(d) = "unreadable"
           \/ LatestResult(d) = "PERMANENT"
           \/ Len(attempts[d]) = MaxAttempts

\* Every recipient of the event gets a delivery that ends, and so does every
\* replay, after finitely many crashes and stalls.
EventuallyTerminal ==
    /\ \A r \in Recipients : <>(InitialOf(r) # {})
    /\ \A d \in Deliveries : Exists(d) ~> (Exists(d) /\ delivery[d].status \in Terminal)

-----------------------------------------------------------------------------
(* The inductive invariant the promise rests on.                           *)

Message == [delivery : Deliveries, token : Nat]
Attempt == [sequence : Nat, token : Nat, result : AttemptResult]
Held == [delivery : Deliveries \cup {None}, token : Nat, batch : SUBSET Recipients,
         result : AttemptResult \cup {None}, force : BOOLEAN]

DeliveryTypes ==
    /\ endpoint \in [Recipients -> Endpoints]
    /\ delivery \in [Deliveries -> DeliveryRow \cup {None}]
    /\ attempts \in [Deliveries -> Seq(Attempt)]
    /\ received \in Nat
    /\ wire \subseteq Message
    /\ replies \subseteq [request : Message, status : Statuses]
    /\ stage \in [Workers -> {"idle", "select", "insert", "claimed", "sent", "record"}]
    /\ held \in [Workers -> Held]

\* The unique index, row by row.
InitialsDiffer ==
    \A d, e \in Rows :
      delivery[d].replayOf = None /\ delivery[e].replayOf = None
        /\ delivery[d].recipient = delivery[e].recipient => d = e

\* A row and its history agree: every attempt was made under an earlier claim
\* than a running one, and a row that is not finished has an attempt left.
Agrees(row, history) ==
    /\ row.count = Len(history)
    /\ row.count <= MaxAttempts
    /\ row.status \notin Terminal => row.count < MaxAttempts
    /\ row.status = "DELIVERING" => row.token = row.claims
    /\ \A i \in 1 .. Len(history) :
          /\ history[i].sequence = i
          /\ history[i].token <= row.claims
          /\ row.status = "DELIVERING" => history[i].token < row.claims
          /\ row.status # "DELIVERED" \/ i < Len(history) => history[i].result # "ACKNOWLEDGED"
          /\ i < Len(history) => history[i].token < history[i + 1].token

\* The receiver stored the event that delivery d carries.
Stored(d) == received > 0 /\ Kind(d) = "good"

\* How a finished row came to its end.
EndsFor(d) ==
    /\ delivery[d].status = "DELIVERED" => Stored(d)
    /\ delivery[d].status = "DEAD_LETTER" =>
          \/ Kind(d) = "unreadable"
          \/ LatestResult(d) = "PERMANENT"
          \/ Len(attempts[d]) = MaxAttempts

\* What a poller knows of the delivery it holds.
Knows(w) ==
    /\ stage[w] \in {"claimed", "sent", "record"} => held[w].delivery \in Rows
    /\ stage[w] = "record" =>
          /\ held[w].result \in AttemptResult
          /\ held[w].result = "ACKNOWLEDGED" => Stored(held[w].delivery)
          /\ held[w].force => Kind(held[w].delivery) = "unreadable"

\* What is on its way to the receiver, and what is on its way back.
OnItsWay ==
    /\ \A m \in wire : m.delivery \in Rows /\ Kind(m.delivery) \in {"good", "mismatch"}
    /\ \A reply \in replies : /\ reply.request.delivery \in Rows
                              /\ reply.status = 200 => Stored(reply.request.delivery)

DeliveryInv ==
    /\ DeliveryTypes
    /\ InitialsDiffer
    /\ \A d \in Deliveries : ~Exists(d) => attempts[d] = <<>>
    /\ \A d \in Rows : Agrees(delivery[d], attempts[d]) /\ EndsFor(d)
    /\ \A w \in Workers : Knows(w)
    /\ OnItsWay

\* What the deliveries of an event promise their merchant, all together,
\* and that one that has ended stands: a late worker, an expired lease and a replay
\* all leave its row and attempts alone (materialize_delivery_batch, claim_delivery,
\* deliver_claim).
DeliveryPromise ==
    /\ [](OneInitialDelivery /\ DeliveredIsStored /\ AttemptHistory /\ DeadLetterHasReason)
    /\ [][\A d \in Rows : delivery[d].status \in Terminal =>
             delivery'[d] = delivery[d] /\ attempts'[d] = attempts[d]]_deliveryVars
=============================================================================
