--------------------------- MODULE MessagingProofs ---------------------------
(***************************************************************************)
(* Two promises about messages, for every value of the constants: the      *)
(* deliveries of a webhook event tell the truth about it, and a business   *)
(* event has one effect.  The two models share no variable.                *)
(***************************************************************************)
EXTENDS WebhookDelivery, BusinessOutbox, TLAPS

-----------------------------------------------------------------------------
(* Counting a set of at most one element.                                  *)

\* h counts the subsets of S, one chosen element at a time.
Counts(S, h) ==
    h = [T \in SUBSET S |-> IF T = {} THEN 0 ELSE 1 + h[T \ {CHOOSE x : x \in T}]]

\* The library counts by a function on the subsets of S, chosen to satisfy Counts.
LEMMA CountUnfolds ==
  ASSUME NEW S PROVE Cardinality(S) = (CHOOSE h : Counts(S, h))[S]
  BY Zenon DEF Cardinality, Counts

\* There is such a function when S has at most one element, and it counts S.
LEMMA CountSmall ==
  ASSUME NEW S, \A x, y \in S : x = y
  PROVE  Cardinality(S) = IF S = {} THEN 0 ELSE 1
  <1> DEFINE f == [T \in SUBSET S |-> IF T = {} THEN 0 ELSE 1]
             h == CHOOSE g : Counts(S, g)
  <1>1. \A T \in SUBSET S : T # {} => T \ {CHOOSE x : x \in T} = {}
    <2> SUFFICES ASSUME NEW T \in SUBSET S, T # {} PROVE T \ {CHOOSE x : x \in T} = {}
      BY Zenon
    <2>1. (CHOOSE x : x \in T) \in T
      BY Zenon
    <2> QED BY Zenon, <2>1
  <1>2. Counts(S, f)
    <2>1. {} \in SUBSET S
      BY Zenon
    <2>2. \A T \in SUBSET S : f[T] = IF T = {} THEN 0 ELSE 1 + f[T \ {CHOOSE x : x \in T}]
      BY <1>1, <2>1
    <2>3. f = [T \in SUBSET S |-> f[T]]
      BY Zenon
    <2> HIDE DEF f
    <2> QED BY Zenon, <2>2, <2>3 DEF Counts
  <1>3. Counts(S, h)
    <2> HIDE DEF f
    <2> QED BY Zenon, <1>2
  <1> HIDE DEF h
  <1>4. h[{}] = 0
    BY Zenon, <1>3 DEF Counts
  <1>5. S # {} => h[S] = 1 + h[{}]
    BY Zenon, <1>1, <1>3 DEF Counts
  <1>6. Cardinality(S) = h[S]
    BY Zenon, CountUnfolds DEF h
  <1> QED BY <1>4, <1>5, <1>6

-----------------------------------------------------------------------------
(* Webhook deliveries.                                                     *)

\* What the model assumes of its constants.
LEMMA DeliveryFacts ==
  /\ MaxAttempts \in Nat \ {0}
  /\ None \notin Recipients /\ None \notin Deliveries
  /\ None \notin AttemptResult
  /\ None \notin DeliveryRow
  BY Zenon, DeliveryAssumption

\* The rows and what they say of each other.
RowSide ==
    /\ endpoint \in [Recipients -> Endpoints]
    /\ delivery \in [Deliveries -> DeliveryRow \cup {None}]
    /\ attempts \in [Deliveries -> Seq(Attempt)]
    /\ received \in Nat
    /\ InitialsDiffer
    /\ \A d \in Deliveries : ~Exists(d) => attempts[d] = <<>>
    /\ \A d \in Rows : Agrees(delivery[d], attempts[d]) /\ EndsFor(d)

\* The pollers and the messages, and what they say of the rows.
WorkSide ==
    /\ wire \subseteq Message
    /\ replies \subseteq [request : Message, status : Statuses]
    /\ stage \in [Workers -> {"idle", "select", "insert", "claimed", "sent", "record"}]
    /\ held \in [Workers -> Held]
    /\ \A w \in Workers : Knows(w)
    /\ OnItsWay

\* The invariant has two sides.
LEMMA TwoSides == DeliveryInv <=> RowSide /\ WorkSide
  BY Zenon DEF DeliveryInv, DeliveryTypes, RowSide, WorkSide

\* The same after a step.
LEMMA TwoSidesNext == DeliveryInv' <=> RowSide' /\ WorkSide'
  BY Zenon DEF DeliveryInv, DeliveryTypes, RowSide, WorkSide

\* Rows stay, with their recipient, and what the receiver stored stays stored.
RowsGrow ==
    /\ endpoint' = endpoint
    /\ received' \in Nat /\ received' >= received
    /\ \A d \in Rows : d \in Rows' /\ delivery'[d].recipient = delivery[d].recipient

\* What is known of a delivery stays true of it.
LEMMA KnowledgeStays ==
  ASSUME RowSide, RowsGrow, NEW d \in Rows
  PROVE  d \in Rows' /\ Kind(d)' = Kind(d) /\ (Stored(d) => Stored(d)')
  <1>1. d \in Rows' /\ Kind(d)' = Kind(d)
    BY Zenon DEF RowsGrow, Kind
  <1>2. received \in Nat /\ received' \in Nat /\ received' >= received
    BY Zenon DEF RowsGrow, RowSide
  <1> QED BY <1>1, <1>2 DEF Stored

\* Messages that were on their way, or fewer, are as they were.
LEMMA WayKept ==
  ASSUME RowSide, WorkSide, RowsGrow, wire' \subseteq wire, replies' \subseteq replies
  PROVE  /\ wire' \subseteq Message
         /\ replies' \subseteq [request : Message, status : Statuses]
         /\ OnItsWay'
  <1>1. ASSUME NEW m \in wire'
        PROVE  m.delivery \in Rows' /\ Kind(m.delivery)' \in {"good", "mismatch"}
    <2>1. m.delivery \in Rows /\ Kind(m.delivery) \in {"good", "mismatch"}
      BY Zenon, <1>1 DEF WorkSide, OnItsWay
    <2> QED BY Zenon, <2>1, KnowledgeStays
  <1>2. ASSUME NEW reply \in replies'
        PROVE  /\ reply.request.delivery \in Rows'
               /\ reply.status = 200 => Stored(reply.request.delivery)'
    <2>1. /\ reply.request.delivery \in Rows
          /\ reply.status = 200 => Stored(reply.request.delivery)
      BY <1>2 DEF WorkSide, OnItsWay
    <2> QED BY <2>1, KnowledgeStays
  <1>3. OnItsWay'
    BY Zenon, <1>1, <1>2 DEF OnItsWay
  <1> QED BY Zenon, <1>3 DEF WorkSide

\* A poller that does not move knows what it knew.
LEMMA KnowsKept ==
  ASSUME RowSide, WorkSide, RowsGrow, NEW v \in Workers, stage'[v] = stage[v], held'[v] = held[v]
  PROVE  Knows(v)'
  <1>1. Knows(v)
    BY Zenon DEF WorkSide
  <1>2. ASSUME NEW e \in Rows, e = held[v].delivery
        PROVE  /\ held'[v].delivery \in Rows'
               /\ Kind(held[v].delivery)' = Kind(e)
               /\ Stored(e) => Stored(held[v].delivery)'
    <2>1. e \in Rows' /\ Kind(e)' = Kind(e) /\ (Stored(e) => Stored(e)')
      BY Zenon, KnowledgeStays
    <2>2. held'[v].delivery = e
      BY Zenon, <1>2
    <2> QED BY Zenon, <2>1, <2>2 DEF Kind, Stored
  <1> QED BY Zenon, <1>1, <1>2 DEF Knows

\* A poller moves to another place, with what it may hold there.
LEMMA PollerMoves ==
  ASSUME RowSide, WorkSide, RowsGrow, NEW w \in Workers,
         NEW place \in {"idle", "select", "insert", "claimed", "sent", "record"}, NEW value \in Held,
         stage' = [stage EXCEPT ![w] = place], held' = [held EXCEPT ![w] = value],
         place \in {"claimed", "sent", "record"} => value.delivery \in Rows,
         place = "record" =>
            /\ value.result \in AttemptResult
            /\ value.result = "ACKNOWLEDGED" => Stored(value.delivery)
            /\ value.force => Kind(value.delivery) = "unreadable",
         wire' \subseteq Message, replies' \subseteq [request : Message, status : Statuses], OnItsWay'
  PROVE  WorkSide'
  <1>1. /\ stage' \in [Workers -> {"idle", "select", "insert", "claimed", "sent", "record"}]
        /\ held' \in [Workers -> Held]
    BY Zenon DEF WorkSide
  <1>2. ASSUME NEW v \in Workers PROVE Knows(v)'
    <2>1. CASE v = w
      <3>1. stage'[v] = place /\ held'[v] = value
        BY Zenon, <2>1 DEF WorkSide
      <3>2. place \in {"claimed", "sent", "record"} =>
              /\ value.delivery \in Rows' /\ Kind(value.delivery)' = Kind(value.delivery)
              /\ Stored(value.delivery) => Stored(value.delivery)'
        BY Zenon, KnowledgeStays
      <3>3. Kind(held[v].delivery)' = Kind(value.delivery)'
        BY Zenon, <3>1 DEF Kind
      <3>4. Stored(held[v].delivery)' = Stored(value.delivery)'
        BY Zenon, <3>1 DEF Kind, Stored
      <3> QED BY Zenon, <3>1, <3>2, <3>3, <3>4 DEF Knows
    <2>2. CASE v # w
      <3>1. stage'[v] = stage[v] /\ held'[v] = held[v]
        BY Zenon, <2>2 DEF WorkSide
      <3> QED BY Zenon, <3>1, KnowsKept
    <2> QED BY Zenon, <2>1, <2>2
  <1> QED BY Zenon, <1>1, <1>2 DEF WorkSide

\* No poller moves.
LEMMA PollersStay ==
  ASSUME RowSide, WorkSide, RowsGrow, UNCHANGED <<stage, held>>,
         wire' \subseteq Message, replies' \subseteq [request : Message, status : Statuses], OnItsWay'
  PROVE  WorkSide'
  <1>1. ASSUME NEW v \in Workers PROVE Knows(v)'
    BY Zenon, KnowsKept
  <1> QED BY Zenon, <1>1 DEF WorkSide

\* A row nobody touched agrees with its attempts, and its end stays explained.
LEMMA RowKept ==
  ASSUME RowSide, RowsGrow, NEW d \in Rows, delivery'[d] = delivery[d], attempts'[d] = attempts[d]
  PROVE  Agrees(delivery[d], attempts[d])' /\ EndsFor(d)'
  <1>1. Agrees(delivery[d], attempts[d]) /\ EndsFor(d)
    BY Zenon DEF RowSide
  <1>2. Kind(d)' = Kind(d) /\ (Stored(d) => Stored(d)')
    BY Zenon, KnowledgeStays
  <1>3. LatestResult(d)' = LatestResult(d)
    BY Zenon DEF LatestResult
  <1>4. EndsFor(d)'
    BY Zenon, <1>1, <1>2, <1>3 DEF EndsFor
  <1> QED BY Zenon, <1>1, <1>4 DEF Agrees

\* No row changes, and the receiver may store the event.
LEMMA RowsStay ==
  ASSUME RowSide, UNCHANGED <<endpoint, delivery, attempts>>,
         received' \in Nat, received' >= received
  PROVE  RowSide' /\ RowsGrow
  <1>1. Rows' = Rows
    BY Zenon DEF Rows, Exists
  <1>2. RowsGrow
    BY Zenon, <1>1 DEF RowsGrow
  <1>3. InitialsDiffer'
    BY Zenon, <1>1 DEF RowSide, InitialsDiffer
  <1>4. ASSUME NEW d \in Rows' PROVE Agrees(delivery[d], attempts[d])' /\ EndsFor(d)'
    BY Zenon, <1>1, <1>2, RowKept
  <1>5. \A d \in Deliveries : ~Exists(d)' => attempts'[d] = <<>>
    BY Zenon DEF RowSide, Exists
  <1> QED BY Zenon, <1>2, <1>3, <1>4, <1>5 DEF RowSide

\* One row changes, and its attempts with it.
LEMMA RowTouched ==
  ASSUME RowSide, UNCHANGED <<endpoint, received>>, NEW d \in Rows,
         NEW row \in DeliveryRow, NEW history \in Seq(Attempt),
         row.recipient = delivery[d].recipient, row.replayOf = delivery[d].replayOf,
         delivery' = [delivery EXCEPT ![d] = row], attempts' = [attempts EXCEPT ![d] = history],
         Agrees(row, history),
         row.status = "DELIVERED" => Stored(d),
         row.status = "DEAD_LETTER" =>
            \/ Kind(d) = "unreadable"
            \/ history[Len(history)].result = "PERMANENT"
            \/ Len(history) = MaxAttempts
  PROVE  RowSide' /\ RowsGrow
  <1>0. /\ d \in Deliveries
        /\ delivery \in [Deliveries -> DeliveryRow \cup {None}]
        /\ attempts \in [Deliveries -> Seq(Attempt)]
        /\ row # None
    BY Zenon, DeliveryFacts DEF RowSide, Rows
  <1>1. delivery'[d] = row /\ attempts'[d] = history
    BY Zenon, <1>0
  <1>2. \A e \in Deliveries : e # d => delivery'[e] = delivery[e] /\ attempts'[e] = attempts[e]
    BY Zenon, <1>0
  <1>3. /\ delivery' \in [Deliveries -> DeliveryRow \cup {None}]
        /\ attempts' \in [Deliveries -> Seq(Attempt)]
    BY Zenon, <1>0
  <1>4. Rows' = Rows
    BY Zenon, <1>0, <1>1, <1>2 DEF Rows, Exists
  <1>5. \A e \in Rows : delivery'[e].recipient = delivery[e].recipient
                        /\ delivery'[e].replayOf = delivery[e].replayOf
    BY Zenon, <1>1, <1>2 DEF Rows
  <1>6. RowsGrow
    BY <1>4, <1>5 DEF RowsGrow, RowSide
  <1>7. InitialsDiffer'
    BY <1>4, <1>5 DEF InitialsDiffer, RowSide
  <1>8. \A e \in Deliveries : ~Exists(e)' => attempts'[e] = <<>>
    BY Zenon, <1>0, <1>1, <1>2 DEF RowSide, Exists
  <1>9. ASSUME NEW e \in Rows' PROVE Agrees(delivery[e], attempts[e])' /\ EndsFor(e)'
    <2>1. CASE e = d
      <3>1. Kind(d)' = Kind(d) /\ (Stored(d) => Stored(d)')
        BY Zenon, <1>6, KnowledgeStays
      <3>2. EndsFor(d)'
        BY Zenon, <1>1, <3>1 DEF EndsFor, LatestResult
      <3> QED BY <1>1, <2>1, <3>2 DEF Agrees
    <2>2. CASE e # d
      BY Zenon, <1>2, <1>4, <1>6, <2>2, RowKept DEF Rows
    <2> QED BY Zenon, <2>1, <2>2
  <1> QED BY Zenon, <1>3, <1>6, <1>7, <1>8, <1>9 DEF RowSide

\* A new row has no attempts and agrees with them.
LEMMA NewRow ==
  ASSUME NEW r \in Recipients, NEW original \in Deliveries \cup {None}
  PROVE  /\ NewDelivery(r, original) \in DeliveryRow
         /\ NewDelivery(r, original) # None
         /\ NewDelivery(r, original).recipient = r
         /\ NewDelivery(r, original).replayOf = original
         /\ NewDelivery(r, original).status = "PENDING"
         /\ Agrees(NewDelivery(r, original), <<>>)
  <1>1. NewDelivery(r, original) \in DeliveryRow
    BY Zenon DEF NewDelivery, DeliveryRow, DeliveryStatus
  <1>2. Agrees(NewDelivery(r, original), <<>>)
    BY DeliveryFacts DEF NewDelivery, Agrees, Terminal
  <1> QED BY Zenon, <1>1, <1>2, DeliveryFacts DEF NewDelivery

\* New rows appear beside those that are there.
LEMMA RowsAppear ==
  ASSUME RowSide, UNCHANGED <<endpoint, attempts, received>>,
         DOMAIN delivery' = Deliveries, delivery' = [d \in Deliveries |-> delivery'[d]],
         \A d \in Rows : delivery'[d] = delivery[d],
         \A d \in Deliveries \ Rows :
            \/ delivery'[d] = None
            \/ \E r \in Recipients, original \in Deliveries \cup {None} :
                  delivery'[d] = NewDelivery(r, original),
         InitialsDiffer'
  PROVE  RowSide' /\ RowsGrow
  <1>0. /\ delivery \in [Deliveries -> DeliveryRow \cup {None}]
        /\ attempts \in [Deliveries -> Seq(Attempt)]
        /\ received \in Nat
    BY Zenon DEF RowSide
  <1>1. \A d \in Deliveries : delivery'[d] \in DeliveryRow \cup {None}
    BY <1>0, NewRow DEF Rows
  <1>2. delivery' \in [Deliveries -> DeliveryRow \cup {None}]
    BY Zenon, <1>1
  <1>3. \A d \in Rows : d \in Rows'
    BY Zenon DEF Rows, Exists
  <1>4. RowsGrow
    BY <1>0, <1>3 DEF RowsGrow
  <1>5. \A d \in Deliveries : ~Exists(d)' => attempts'[d] = <<>>
    BY Zenon DEF RowSide, Exists, Rows
  <1>6. ASSUME NEW d \in Rows' PROVE Agrees(delivery[d], attempts[d])' /\ EndsFor(d)'
    <2>1. CASE d \in Rows
      BY Zenon, <1>4, <2>1, RowKept
    <2>2. CASE d \notin Rows
      <3>1. d \in Deliveries /\ attempts'[d] = <<>>
        BY Zenon, <2>2 DEF Rows, RowSide
      <3>2. PICK r \in Recipients, original \in Deliveries \cup {None} :
              delivery'[d] = NewDelivery(r, original)
        BY <2>2, <3>1 DEF Rows, Exists
      <3>3. Agrees(delivery'[d], <<>>) /\ delivery'[d].status = "PENDING"
        BY <3>2, NewRow
      <3>4. EndsFor(d)'
        BY Zenon, <3>3 DEF EndsFor
      <3> QED BY <3>1, <3>3, <3>4 DEF Agrees
    <2> QED BY Zenon, <2>1, <2>2
  <1> QED BY Zenon, <1>2, <1>4, <1>5, <1>6 DEF RowSide

-----------------------------------------------------------------------------
(* Webhook deliveries, action by action.                                   *)

\* A poller that materializes holds the batch it selected and nothing else.
LEMMA BatchHeld ==
  ASSUME NEW batch \in SUBSET Recipients
  PROVE  Batch(batch) \in Held
  BY Zenon DEF Batch, Held

\* A poller without a result has a value of the right type in its place.
LEMMA NoResult == None \in AttemptResult \cup {None} /\ FALSE \in BOOLEAN
  BY Zenon

\* A poller that delivers holds one delivery and the token of its claim.
LEMMA ClaimHeld ==
  ASSUME NEW d \in Deliveries, NEW token \in Nat, NEW result \in AttemptResult \cup {None},
         NEW force \in BOOLEAN
  PROVE  /\ Claim(d, token, result, force) \in Held
         /\ Claim(d, token, result, force).delivery = d
         /\ Claim(d, token, result, force).token = token
         /\ Claim(d, token, result, force).result = result
         /\ Claim(d, token, result, force).force = force
  BY Zenon DEF Claim, Held

\* A poller drops its work.
LEMMA PollerDrops ==
  ASSUME RowSide, WorkSide, RowsGrow, NEW w \in Workers, Drop(w), wire' \subseteq wire,
         replies' \subseteq replies
  PROVE  WorkSide'
  <1>1. NoWork \in Held
    BY Zenon, BatchHeld DEF NoWork
  <1>2. stage' = [stage EXCEPT ![w] = "idle"] /\ held' = [held EXCEPT ![w] = NoWork]
    BY Zenon DEF Drop
  <1>3. /\ wire' \subseteq Message /\ replies' \subseteq [request : Message, status : Statuses]
        /\ OnItsWay'
    BY Zenon, WayKept
  <1> QED BY Zenon, <1>1, <1>2, <1>3, PollerMoves

\* Attempts carry the token of their claim.
LEMMA AttemptTypes ==
  ASSUME NEW history \in Seq(Attempt), NEW i \in 1 .. Len(history)
  PROVE  history[i].token \in Nat
  <1>1. history[i] \in Attempt
    OBVIOUS
  <1> QED BY Zenon, <1>1 DEF Attempt

\* The row of a claim.
LEMMA ClaimedRow ==
  ASSUME NEW row \in DeliveryRow, NEW history \in Seq(Attempt), Agrees(row, history),
         row.status \notin Terminal, NEW new,
         new = Became(row, "DELIVERING", row.count, row.claims + 1, row.claims + 1)
  PROVE  /\ new \in DeliveryRow /\ Agrees(new, history) /\ new.status = "DELIVERING"
         /\ new.recipient = row.recipient /\ new.replayOf = row.replayOf
  <1>1. /\ new \in DeliveryRow /\ new.status = "DELIVERING"
        /\ new.recipient = row.recipient /\ new.replayOf = row.replayOf
        /\ new.count = row.count /\ new.token = row.claims + 1 /\ new.claims = row.claims + 1
    BY DEF Became, DeliveryRow, DeliveryStatus
  <1>2. row.count \in Nat /\ row.claims \in Nat /\ row.status # "DELIVERED"
    BY Zenon DEF DeliveryRow, Terminal
  <1>3. \A i \in 1 .. Len(history) : history[i].token \in Nat
    BY Zenon, AttemptTypes
  <1>4. Agrees(new, history)
    BY <1>1, <1>2, <1>3 DEF Agrees, Terminal
  <1> QED BY Zenon, <1>1, <1>4

\* A change of the clocks of a row.
LEMMA TimedRow ==
  ASSUME NEW row \in DeliveryRow, NEW history \in Seq(Attempt), Agrees(row, history), NEW new,
         \/ new = [row EXCEPT !.due = TRUE]
         \/ new = [row EXCEPT !.expired = TRUE]
  PROVE  /\ new \in DeliveryRow /\ Agrees(new, history) /\ new.status = row.status
         /\ new.recipient = row.recipient /\ new.replayOf = row.replayOf
  <1>1. /\ new \in DeliveryRow /\ new.status = row.status
        /\ new.recipient = row.recipient /\ new.replayOf = row.replayOf
        /\ new.count = row.count /\ new.token = row.token /\ new.claims = row.claims
    BY Zenon DEF DeliveryRow
  <1> QED BY Zenon, <1>1 DEF Agrees

\* The attempt recorded under the active lease of a row.
NewAttempt(row, result) == [sequence |-> row.count + 1, token |-> row.token, result |-> result]

\* A row and a history that show the result and agree with each other.
RecordedAs(row, result, status, new, longer) ==
    /\ new \in DeliveryRow /\ Agrees(new, longer) /\ new.status = status
    /\ new.recipient = row.recipient /\ new.replayOf = row.replayOf
    /\ longer \in Seq(Attempt) /\ Len(longer) = row.count + 1
    /\ longer[Len(longer)].result = result

\* The row of a recorded attempt: one more in the history, under the claim that
\* is newer than all before.
LEMMA RecordedRow ==
  ASSUME NEW row \in DeliveryRow, NEW history \in Seq(Attempt), Agrees(row, history),
         row.status = "DELIVERING", NEW result \in AttemptResult,
         NEW status \in {"DELIVERED", "DEAD_LETTER", "RETRY_WAIT"},
         status = "DELIVERED" => result = "ACKNOWLEDGED",
         result = "ACKNOWLEDGED" => status = "DELIVERED",
         status = "RETRY_WAIT" => row.count + 1 < MaxAttempts,
         NEW new, new = Became(row, status, row.count + 1, 0, row.claims),
         NEW longer, longer = Append(history, NewAttempt(row, result))
  PROVE  RecordedAs(row, result, status, new, longer)
  <1>1. /\ new \in DeliveryRow /\ new.status = status
        /\ new.recipient = row.recipient /\ new.replayOf = row.replayOf
        /\ new.count = row.count + 1 /\ new.claims = row.claims
    BY DEF Became, DeliveryRow, DeliveryStatus
  <1>2. row.count \in Nat /\ row.claims \in Nat /\ row.token = row.claims
    BY Zenon DEF DeliveryRow, Agrees
  <1> DEFINE a == NewAttempt(row, result)
  <1>3. a \in Attempt /\ a.sequence = row.count + 1 /\ a.token = row.claims /\ a.result = result
    BY <1>2 DEF Attempt, NewAttempt
  <1>4. longer = Append(history, a)
    BY Zenon
  <1> HIDE DEF a
  <1>5. row.count = Len(history) /\ row.count < MaxAttempts
    BY Zenon DEF Agrees, Terminal
  <1>6. /\ longer \in Seq(Attempt) /\ Len(longer) = row.count + 1
        /\ longer[row.count + 1] = a
        /\ \A i \in 1 .. row.count : longer[i] = history[i]
    BY <1>3, <1>4, <1>5
  <1>7. \A i \in 1 .. row.count :
          /\ history[i].sequence = i /\ history[i].token < row.claims
          /\ history[i].result # "ACKNOWLEDGED" /\ history[i].token \in Nat
          /\ i < row.count => history[i].token < history[i + 1].token
    BY Zenon, <1>5, AttemptTypes DEF Agrees
  <1>8. ASSUME NEW i \in 1 .. Len(longer)
        PROVE  /\ longer[i].sequence = i
               /\ longer[i].token <= new.claims
               /\ new.status = "DELIVERING" => longer[i].token < new.claims
               /\ new.status # "DELIVERED" \/ i < Len(longer) => longer[i].result # "ACKNOWLEDGED"
               /\ i < Len(longer) => longer[i].token < longer[i + 1].token
    <2>1. CASE i = row.count + 1
      BY <1>1, <1>2, <1>3, <1>6, <2>1
    <2>2. CASE i \in 1 .. row.count
      <3>1. longer[i] = history[i] /\ (i < row.count => longer[i + 1] = history[i + 1])
        BY <1>2, <1>6, <2>2
      <3>2. i = row.count => longer[i + 1] = a
        BY Zenon, <1>6
      <3> QED BY <1>1, <1>2, <1>3, <1>7, <2>2, <3>1, <3>2
    <2> QED BY <1>2, <1>6, <2>1, <2>2
  <1>9. Agrees(new, longer)
    <2>1. new.count <= MaxAttempts /\ (new.status \notin Terminal => new.count < MaxAttempts)
      BY <1>1, <1>2, <1>5, DeliveryFacts DEF Terminal
    <2> QED BY Zenon, <1>1, <1>6, <1>8, <2>1 DEF Agrees
  <1> QED BY Zenon, <1>1, <1>3, <1>6, <1>9 DEF RecordedAs

\* The steps of a batch of recipients up to its insert leave the rows alone.
LEMMA BatchSteps ==
  ASSUME RowSide, WorkSide, NEW w \in Workers, MaterializeRead(w) \/ MaterializeLock(w)
  PROVE  RowSide' /\ WorkSide'
  <1>1. RowSide' /\ RowsGrow
    BY RowsStay DEF MaterializeRead, MaterializeLock, RowSide
  <1>2. /\ wire' \subseteq Message /\ replies' \subseteq [request : Message, status : Statuses]
        /\ OnItsWay'
    BY Zenon, <1>1, WayKept DEF MaterializeRead, MaterializeLock
  <1>3. CASE MaterializeRead(w)
    <2>1. PICK batch \in SUBSET Recipients :
            /\ stage' = [stage EXCEPT ![w] = "select"]
            /\ held' = [held EXCEPT ![w] = Batch(batch)]
      BY Zenon, <1>3 DEF MaterializeRead
    <2>2. Batch(batch) \in Held
      BY Zenon, BatchHeld
    <2> QED BY Zenon, <1>1, <1>2, <2>1, <2>2, PollerMoves
  <1>4. CASE MaterializeLock(w)
    <2> DEFINE batch == {r \in held[w].batch :
                           \A v \in Workers : stage[v] = "insert" => r \notin held[v].batch}
    <2>1. batch \in SUBSET Recipients
      BY Zenon DEF WorkSide, Held
    <2>2. /\ stage' = [stage EXCEPT ![w] = "insert"]
          /\ held' = [held EXCEPT ![w] = Batch(batch)]
      BY Zenon, <1>4 DEF MaterializeLock
    <2> HIDE DEF batch
    <2>3. Batch(batch) \in Held
      BY Zenon, <2>1, BatchHeld
    <2> QED BY Zenon, <1>1, <1>2, <2>2, <2>3, PollerMoves
  <1> QED BY Zenon, <1>3, <1>4

\* A function gives each of its values to an argument.
LEMMA Argument ==
  ASSUME NEW S, NEW T, NEW f \in Injection(S, T), NEW t \in Range(f)
  PROVE  AntiFunction(f)[t] \in S /\ f[AntiFunction(f)[t]] = t /\ t \in T
  <1>1. f \in [S -> T]
    BY Zenon DEF Injection
  <1>2. PICK s \in S : f[s] = t
    BY Zenon, <1>1 DEF Range
  <1>3. AntiFunction(f)[t] = CHOOSE x \in S : t \in Range(f) => f[x] = t
    BY Zenon, <1>1 DEF AntiFunction, Inverse
  <1>4. AntiFunction(f)[t] \in S /\ f[AntiFunction(f)[t]] = t
    BY Zenon, <1>2, <1>3
  <1> QED BY Zenon, <1>1, <1>4

\* The batch commits as a whole: each of its recipients had no initial delivery
\* and gets one.
LEMMA BatchInsertKeeps ==
  ASSUME RowSide, WorkSide, NEW w \in Workers, MaterializeInsert(w)
  PROVE  RowSide' /\ WorkSide'
  <1> DEFINE batch == held[w].batch
             free == {d \in Deliveries : ~Exists(d)}
  <1>0. batch \subseteq Recipients
    BY Zenon DEF WorkSide, Held
  <1>1. RowSide' /\ RowsGrow
    <2>1. CASE UNCHANGED delivery
      BY <2>1, RowsStay DEF MaterializeInsert, RowSide
    <2>2. CASE IndexAllows(batch) /\ delivery' # delivery
      <3>1. PICK f \in Injection(batch, free) :
              delivery' = [d \in Deliveries |->
                             IF d \in Range(f) THEN NewDelivery(AntiFunction(f)[d], None)
                                               ELSE delivery[d]]
        BY Zenon, <2>2 DEF MaterializeInsert
      <3>2. ASSUME NEW d \in Range(f)
            PROVE  /\ AntiFunction(f)[d] \in batch /\ f[AntiFunction(f)[d]] = d
                   /\ d \in Deliveries /\ ~Exists(d)
        BY Argument, <3>2
      <3>3. \A d \in Rows : d \notin Range(f) /\ delivery'[d] = delivery[d]
        BY Zenon, <3>1, <3>2 DEF Rows
      <3>4. \A d \in Deliveries \ Rows :
              \/ delivery'[d] = None
              \/ \E r \in Recipients, original \in Deliveries \cup {None} :
                    delivery'[d] = NewDelivery(r, original)
        BY Zenon, <1>0, <3>1, <3>2 DEF Rows, Exists
      <3>5. \A d \in Range(f) : /\ delivery'[d].recipient = AntiFunction(f)[d]
                                /\ delivery'[d].replayOf = None
        BY Zenon, <1>0, <3>1, <3>2, NewRow
      <3>6. \A d \in Rows' : d \in Rows \/ d \in Range(f)
        BY Zenon, <3>1 DEF Rows, Exists
      <3>7. \A d \in Rows, e \in Range(f) :
              ~(delivery[d].replayOf = None /\ delivery[d].recipient = AntiFunction(f)[e])
        BY Zenon, <2>2, <3>2 DEF IndexAllows, InitialOf, Rows
      <3>8. ASSUME NEW d \in Rows', NEW e \in Rows',
                   delivery'[d].replayOf = None, delivery'[e].replayOf = None,
                   delivery'[d].recipient = delivery'[e].recipient
            PROVE  d = e
        <4>1. CASE d \in Rows /\ e \in Rows
          BY Zenon, <3>3, <3>8, <4>1 DEF RowSide, InitialsDiffer
        <4>2. CASE d \in Range(f) /\ e \in Range(f)
          BY Zenon, <3>2, <3>5, <3>8, <4>2
        <4>3. CASE d \in Rows /\ e \in Range(f)
          BY Zenon, <3>3, <3>5, <3>7, <3>8, <4>3
        <4>4. CASE d \in Range(f) /\ e \in Rows
          BY Zenon, <3>3, <3>5, <3>7, <3>8, <4>4
        <4> QED BY Zenon, <3>6, <4>1, <4>2, <4>3, <4>4
      <3>9. InitialsDiffer'
        BY Zenon, <3>8 DEF InitialsDiffer
      <3>10. DOMAIN delivery' = Deliveries /\ delivery' = [d \in Deliveries |-> delivery'[d]]
        BY Zenon, <3>1
      <3>11. UNCHANGED <<endpoint, attempts, received>>
        BY Zenon DEF MaterializeInsert
      <3> QED BY Zenon, <3>3, <3>4, <3>9, <3>10, <3>11, RowsAppear
    <2> QED BY Zenon, <2>1, <2>2 DEF MaterializeInsert
  <1> QED BY Zenon, <1>1, PollerDrops DEF MaterializeInsert

\* A replay is a new row of the same recipient that says what it replays.
LEMMA ReplayKeeps ==
  ASSUME RowSide, WorkSide, NEW original \in Deliveries, NEW d \in Deliveries,
         ReplayDelivery(original, d)
  PROVE  RowSide' /\ WorkSide'
  <1> DEFINE r == delivery[original].recipient
  <1>0. /\ delivery \in [Deliveries -> DeliveryRow \cup {None}]
        /\ original \in Rows /\ original # None
    BY Zenon, DeliveryFacts DEF RowSide, ReplayDelivery, Rows
  <1>1. r \in Recipients
    BY Zenon, <1>0 DEF Rows, Exists, DeliveryRow
  <1>2. delivery' = [delivery EXCEPT ![d] = NewDelivery(r, original)] /\ d \notin Rows
    BY Zenon DEF ReplayDelivery, Rows
  <1>3. \A e \in Deliveries : delivery'[e] = IF e = d THEN NewDelivery(r, original) ELSE delivery[e]
    BY Zenon, <1>0, <1>2
  <1>4. DOMAIN delivery' = Deliveries /\ delivery' = [e \in Deliveries |-> delivery'[e]]
    BY Zenon, <1>0, <1>2
  <1>5. \A e \in Rows : delivery'[e] = delivery[e]
    BY Zenon, <1>2, <1>3 DEF Rows
  <1>6. delivery'[d].replayOf # None
    BY <1>0, <1>1, <1>3, NewRow
  <1>7. \A e \in Rows' : delivery'[e].replayOf = None => e \in Rows
    BY Zenon, <1>3, <1>6 DEF Rows, Exists
  <1>8. InitialsDiffer'
    BY Zenon, <1>5, <1>7 DEF InitialsDiffer, RowSide
  <1>9. \A e \in Deliveries \ Rows :
          \/ delivery'[e] = None
          \/ \E s \in Recipients, o \in Deliveries \cup {None} : delivery'[e] = NewDelivery(s, o)
    BY Zenon, <1>1, <1>3 DEF Rows, Exists
  <1>10. UNCHANGED <<endpoint, attempts, received>> /\ UNCHANGED <<stage, held>>
         /\ UNCHANGED <<wire, replies>>
    BY Zenon DEF ReplayDelivery
  <1>11. RowSide' /\ RowsGrow
    BY Zenon, <1>4, <1>5, <1>8, <1>9, <1>10, RowsAppear
  <1> QED BY Zenon, <1>10, <1>11, PollersStay, WayKept

\* claim_delivery takes a row that is not finished, under a newer token.
LEMMA ClaimKeeps ==
  ASSUME RowSide, WorkSide, NEW w \in Workers, NEW d \in Deliveries, ClaimDelivery(w, d)
  PROVE  RowSide' /\ WorkSide'
  <1> DEFINE row == delivery[d]
             token == row.claims + 1
             new == Became(row, "DELIVERING", row.count, token, token)
  <1>1. /\ d \in Rows /\ row \in DeliveryRow /\ attempts[d] \in Seq(Attempt)
        /\ Agrees(row, attempts[d])
    BY Zenon DEF RowSide, ClaimDelivery, Rows, Exists
  <1>2. row.status \notin Terminal
    BY Zenon DEF ClaimDelivery, Claimable, Terminal
  <1>3. /\ new \in DeliveryRow /\ Agrees(new, attempts[d]) /\ new.status = "DELIVERING"
        /\ new.recipient = row.recipient /\ new.replayOf = row.replayOf
    BY Zenon, <1>1, <1>2, ClaimedRow
  <1>4. /\ delivery' = [delivery EXCEPT ![d] = new]
        /\ held' = [held EXCEPT ![w] = Claim(d, token, None, FALSE)]
        /\ stage' = [stage EXCEPT ![w] = "claimed"]
        /\ UNCHANGED <<endpoint, received>>
        /\ UNCHANGED attempts /\ UNCHANGED <<wire, replies>>
    BY Zenon DEF ClaimDelivery
  <1>5. attempts' = [attempts EXCEPT ![d] = attempts[d]]
    BY Zenon, <1>4 DEF RowSide
  <1>6. token \in Nat
    BY <1>1 DEF DeliveryRow
  <1> HIDE DEF new, token
  <1>7. RowSide' /\ RowsGrow
    BY Zenon, <1>1, <1>3, <1>4, <1>5, RowTouched
  <1>8. /\ wire' \subseteq Message /\ replies' \subseteq [request : Message, status : Statuses]
        /\ OnItsWay'
    BY Zenon, <1>4, <1>7, WayKept
  <1>9. Claim(d, token, None, FALSE) \in Held /\ Claim(d, token, None, FALSE).delivery = d
    BY Zenon, <1>6, NoResult, ClaimHeld
  <1> QED BY Zenon, <1>1, <1>4, <1>7, <1>8, <1>9, PollerMoves

\* A request leaves for a receiver that can be addressed, or nothing does and
\* the attempt is recorded as failed.
LEMMA SendKeeps ==
  ASSUME RowSide, WorkSide, NEW w \in Workers, Send(w)
  PROVE  RowSide' /\ WorkSide'
  <1> DEFINE d == held[w].delivery
             token == held[w].token
  <1>1. d \in Rows /\ d \in Deliveries /\ token \in Nat
    <2>1. Knows(w) /\ held[w] \in Held
      BY Zenon DEF WorkSide
    <2> QED BY Zenon, <2>1 DEF Knows, Held, Send, Rows
  <1>2. RowSide' /\ RowsGrow
    BY RowsStay DEF Send, RowSide
  <1> HIDE DEF d, token
  <1>3. CASE Drop(w) /\ UNCHANGED <<wire, replies>>
    BY Zenon, <1>2, <1>3, PollerDrops
  <1>4. CASE /\ stage' = [stage EXCEPT ![w] = "record"]
             /\ held' = [held EXCEPT ![w] =
                   Claim(d, token, "TRANSPORT_ERROR", Kind(d) = "unreadable")]
             /\ UNCHANGED <<wire, replies>>
    <2> DEFINE force == Kind(d) = "unreadable"
               value == Claim(d, token, "TRANSPORT_ERROR", force)
    <2>1. /\ value \in Held /\ value.delivery = d /\ value.result = "TRANSPORT_ERROR"
          /\ value.force = force
      <3>1. force \in BOOLEAN
        BY Zenon
      <3> HIDE DEF force
      <3>2. "TRANSPORT_ERROR" \in AttemptResult \cup {None}
        BY Zenon DEF AttemptResult
      <3> QED BY Zenon, <1>1, <3>1, <3>2 DEF Claim, Held
    <2>2. /\ wire' \subseteq Message /\ replies' \subseteq [request : Message, status : Statuses]
          /\ OnItsWay'
      BY Zenon, <1>2, <1>4, WayKept
    <2>3. held' = [held EXCEPT ![w] = value]
      BY Zenon, <1>4
    <2>4. /\ value.result \in AttemptResult /\ value.result # "ACKNOWLEDGED"
          /\ value.force => Kind(value.delivery) = "unreadable"
      <3> HIDE DEF value
      <3> QED BY Zenon, <2>1 DEF AttemptResult
    <2> HIDE DEF value
    <2> QED BY Zenon, <1>1, <1>2, <1>4, <2>1, <2>2, <2>3, <2>4, PollerMoves
  <1>5. CASE /\ Kind(d) \notin {"unreadable", "refused"}
             /\ stage' = [stage EXCEPT ![w] = "sent"]
             /\ wire' = wire \cup {[delivery |-> d, token |-> token]}
             /\ UNCHANGED held /\ UNCHANGED replies
    <2> DEFINE m == [delivery |-> d, token |-> token]
    <2>1. m \in Message /\ m.delivery = d
      BY Zenon, <1>1 DEF Message
    <2>2. wire' \subseteq Message /\ replies' \subseteq [request : Message, status : Statuses]
      BY Zenon, <1>5, <2>1 DEF WorkSide
    <2>3. Kind(d) \in {"good", "mismatch"}
      <3>1. delivery[d].recipient \in Recipients
        BY Zenon, <1>1 DEF Rows, Exists, RowSide, DeliveryRow
      <3>2. Kind(d) \in Endpoints
        BY Zenon, <3>1 DEF Kind, RowSide
      <3> QED BY Zenon, <1>5, <3>2, DeliveryAssumption
    <2>4. wire' = wire \cup {m}
      BY Zenon, <1>5
    <2>5. Rows' = Rows /\ UNCHANGED <<endpoint, delivery, received>>
      BY Zenon DEF Send, Rows, Exists
    <2> HIDE DEF m
    <2>6. \A n \in wire' : n.delivery \in Rows' /\ Kind(n.delivery)' \in {"good", "mismatch"}
      BY Zenon, <1>1, <2>1, <2>3, <2>4, <2>5 DEF WorkSide, OnItsWay, Kind
    <2>7. OnItsWay'
      BY <1>5, <2>5, <2>6 DEF WorkSide, OnItsWay, Stored, Kind
    <2>8. held[w] \in Held /\ held' = [held EXCEPT ![w] = held[w]] /\ held[w].delivery = d
      BY Zenon, <1>5 DEF WorkSide, d
    <2> QED BY Zenon, <1>1, <1>2, <1>5, <2>2, <2>7, <2>8, PollerMoves
  <1> QED BY Zenon, <1>2, <1>3, <1>4, <1>5 DEF Send, d, token

\* The receiver stores an event before it answers 200.
LEMMA ReceiveKeeps ==
  ASSUME RowSide, WorkSide, NEW m \in wire, ReceiveEvent(m)
  PROVE  RowSide' /\ WorkSide'
  <1>1. PICK status \in Statuses :
          /\ (status = 401) <=> (Kind(m.delivery) = "mismatch" /\ status # 503)
          /\ received' = IF status = 200 THEN received + 1 ELSE received
          /\ replies' \subseteq replies \cup {[request |-> m, status |-> status]}
    BY DEF ReceiveEvent
  <1>2. received \in Nat /\ received' \in Nat /\ received' >= received
    BY <1>1 DEF RowSide
  <1>3. RowSide' /\ RowsGrow
    BY Zenon, <1>2, RowsStay DEF ReceiveEvent
  <1>4. m \in Message /\ m.delivery \in Rows /\ Kind(m.delivery) \in {"good", "mismatch"}
    BY Zenon DEF WorkSide, OnItsWay
  <1>5. UNCHANGED <<endpoint, delivery>> /\ UNCHANGED <<stage, held>> /\ wire' \subseteq wire
    BY Zenon DEF ReceiveEvent
  <1> DEFINE answer == [request |-> m, status |-> status]
  <1>6. /\ answer \in [request : Message, status : Statuses]
        /\ answer.request = m /\ answer.status = status
    BY Zenon, <1>4
  <1>7. replies' \subseteq replies \cup {answer}
    BY Zenon, <1>1
  <1> HIDE DEF answer
  <1>8. status = 200 => received' > 0 /\ Kind(m.delivery) = "good"
    BY <1>1, <1>2, <1>4
  <1>9. Rows' = Rows
    BY Zenon, <1>5 DEF Rows, Exists
  <1>10. \A reply \in replies' : /\ reply.request.delivery \in Rows'
                                 /\ reply.status = 200 => Stored(reply.request.delivery)'
    <2> SUFFICES ASSUME NEW reply \in replies'
                 PROVE  /\ reply.request.delivery \in Rows'
                        /\ reply.status = 200 => Stored(reply.request.delivery)'
      BY Zenon
    <2>1. CASE reply = answer
      BY Zenon, <1>4, <1>5, <1>6, <1>8, <1>9, <2>1 DEF Stored, Kind
    <2>2. CASE reply \in replies
      <3>1. /\ reply.request.delivery \in Rows
            /\ reply.status = 200 => Stored(reply.request.delivery)
        BY Zenon, <2>2 DEF WorkSide, OnItsWay
      <3> QED BY <1>3, <3>1, KnowledgeStays
    <2> QED BY Zenon, <1>7, <2>1, <2>2
  <1>11. \A n \in wire' : n.delivery \in Rows' /\ Kind(n.delivery)' \in {"good", "mismatch"}
    BY Zenon, <1>5, <1>9 DEF WorkSide, OnItsWay, Kind
  <1>12. OnItsWay'
    BY Zenon, <1>10, <1>11 DEF OnItsWay
  <1>13. wire' \subseteq Message /\ replies' \subseteq [request : Message, status : Statuses]
    BY Zenon, <1>5, <1>6, <1>7 DEF WorkSide
  <1> QED BY Zenon, <1>3, <1>5, <1>12, <1>13, PollersStay

\* A lost request, and the death of a poller, change no row.
LEMMA LossKeeps ==
  ASSUME RowSide, WorkSide,
         \/ \E m \in wire : RequestLost(m)
         \/ \E w \in Workers : PollerDies(w)
  PROVE  RowSide' /\ WorkSide'
  <1>1. RowSide' /\ RowsGrow
    BY RowsStay DEF RequestLost, PollerDies, RowSide
  <1>2. wire' \subseteq wire /\ replies' \subseteq replies
    BY Zenon DEF RequestLost, PollerDies
  <1>3. CASE \E m \in wire : RequestLost(m)
    <2>1. UNCHANGED <<stage, held>>
      BY Zenon, <1>3 DEF RequestLost
    <2> QED BY Zenon, <1>1, <1>2, <2>1, PollersStay, WayKept
  <1>4. CASE \E w \in Workers : PollerDies(w)
    <2>1. PICK w \in Workers : Drop(w)
      BY Zenon, <1>4 DEF PollerDies
    <2> QED BY Zenon, <1>1, <1>2, <2>1, PollerDrops
  <1> QED BY Zenon, <1>3, <1>4

\* The transport returns an acknowledgement only of an event that is stored.
LEMMA ReturnKeeps ==
  ASSUME RowSide, WorkSide, NEW w \in Workers, TransportReturns(w)
  PROVE  RowSide' /\ WorkSide'
  <1> DEFINE d == held[w].delivery
             token == held[w].token
  <1>1. d \in Rows /\ d \in Deliveries /\ token \in Nat
    <2>1. Knows(w) /\ held[w] \in Held
      BY Zenon DEF WorkSide
    <2> QED BY Zenon, <2>1 DEF Knows, Held, TransportReturns, Rows
  <1>2. RowSide' /\ RowsGrow
    BY RowsStay DEF TransportReturns, RowSide
  <1>3. /\ wire' \subseteq Message /\ replies' \subseteq [request : Message, status : Statuses]
        /\ OnItsWay'
    BY Zenon, <1>2, WayKept DEF TransportReturns
  <1>4. PICK result \in AttemptResult :
          /\ held' = [held EXCEPT ![w] = Claim(d, token, result, FALSE)]
          /\ result = "ACKNOWLEDGED" => Stored(d)
    <2>1. CASE NoAnswer(w)
      BY Zenon, <2>1 DEF NoAnswer, Returns, AttemptResult
    <2>2. CASE \E reply \in ToMe(w) : Returns(w, ClassifyStatus(reply.status))
      <3>1. PICK reply \in ToMe(w) : Returns(w, ClassifyStatus(reply.status))
        BY Zenon, <2>2
      <3>2. reply.status \in Statuses /\ (reply.status = 200 => Stored(d))
        BY Zenon DEF ToMe, WorkSide, OnItsWay
      <3>3. /\ ClassifyStatus(reply.status) \in AttemptResult
            /\ ClassifyStatus(reply.status) = "ACKNOWLEDGED" => reply.status = 200
        BY <3>2 DEF ClassifyStatus, AttemptResult, Statuses
      <3>4. held' = [held EXCEPT ![w] = Claim(d, token, ClassifyStatus(reply.status), FALSE)]
        BY Zenon, <3>1 DEF Returns
      <3> QED BY Zenon, <3>2, <3>3, <3>4
    <2> QED BY Zenon, <2>1, <2>2 DEF TransportReturns
  <1> DEFINE value == Claim(d, token, result, FALSE)
  <1>5. stage' = [stage EXCEPT ![w] = "record"] /\ held' = [held EXCEPT ![w] = value]
    BY Zenon, <1>4 DEF TransportReturns
  <1> HIDE DEF d, token
  <1>6. /\ value \in Held /\ value.delivery = d /\ value.result = result
        /\ value.force = FALSE
    BY Zenon, <1>1 DEF Claim, Held
  <1> HIDE DEF value
  <1> QED BY Zenon, <1>1, <1>2, <1>3, <1>4, <1>5, <1>6, PollerMoves

\* What a result makes of a row.
LEMMA StatusMeaning ==
  ASSUME NEW result \in AttemptResult, NEW force \in BOOLEAN, NEW sequence \in Nat
  PROVE  /\ StatusAfter(result, force, sequence) \in {"DELIVERED", "DEAD_LETTER", "RETRY_WAIT"}
         /\ StatusAfter(result, force, sequence) = "DELIVERED" <=> result = "ACKNOWLEDGED"
         /\ StatusAfter(result, force, sequence) = "RETRY_WAIT" => sequence < MaxAttempts
         /\ StatusAfter(result, force, sequence) = "DEAD_LETTER" =>
              force \/ result = "PERMANENT" \/ sequence >= MaxAttempts
  BY DeliveryFacts DEF StatusAfter, AttemptResult

\* _record_attempt, case by case.
LEMMA RecordCases ==
  ASSUME NEW w \in Workers, RecordAttempt(w), NEW d, d = held[w].delivery
  PROVE  /\ stage[w] = "record"
         /\ Drop(w) /\ UNCHANGED <<endpoint, received>> /\ UNCHANGED <<wire, replies>>
         /\ \/ UNCHANGED <<attempts, delivery>>
            \/ /\ delivery[d].status = "DELIVERING" /\ delivery[d].token = held[w].token
               /\ attempts' = [attempts EXCEPT ![d] =
                     Append(@, NewAttempt(delivery[d], held[w].result))]
               /\ delivery' = [delivery EXCEPT ![d] =
                     Became(@, StatusAfter(held[w].result, held[w].force, delivery[d].count + 1),
                            delivery[d].count + 1, 0, @.claims)]
  BY Zenon DEF RecordAttempt, HoldsLease, NewAttempt

\* Only the active lease records, and what it records it knows.
LEMMA AttemptKeeps ==
  ASSUME RowSide, WorkSide, NEW w \in Workers, RecordAttempt(w)
  PROVE  RowSide' /\ WorkSide'
  <1>1. PICK d, result, force :
          d = held[w].delivery /\ result = held[w].result /\ force = held[w].force
    BY Zenon
  <1>2. stage[w] = "record" /\ Drop(w)
        /\ UNCHANGED <<endpoint, received>> /\ UNCHANGED <<wire, replies>>
    BY Zenon, RecordCases
  <1>3. /\ d \in Rows /\ result \in AttemptResult /\ force \in BOOLEAN
        /\ result = "ACKNOWLEDGED" => Stored(d)
        /\ force => Kind(d) = "unreadable"
    <2>1. held[w] \in Held /\ Knows(w)
      BY Zenon DEF WorkSide
    <2> QED BY Zenon, <1>1, <1>2, <2>1 DEF Knows, Held
  <1>4. PICK row \in DeliveryRow, history \in Seq(Attempt) :
          row = delivery[d] /\ history = attempts[d]
    BY Zenon, <1>3 DEF RowSide, Rows, Exists
  <1>5. Agrees(row, history)
    BY Zenon, <1>3, <1>4 DEF RowSide
  <1>6. CASE UNCHANGED <<attempts, delivery>>
    <2>1. RowSide' /\ RowsGrow
      BY <1>2, <1>6, RowsStay DEF RowSide
    <2> QED BY Zenon, <1>2, <2>1, PollerDrops
  <1>7. ASSUME NEW status, status = StatusAfter(result, force, row.count + 1),
               NEW new, new = Became(row, status, row.count + 1, 0, row.claims),
               NEW longer, longer = Append(history, NewAttempt(row, result)),
               row.status = "DELIVERING",
               delivery' = [delivery EXCEPT ![d] = new], attempts' = [attempts EXCEPT ![d] = longer]
        PROVE  RowSide' /\ WorkSide'
    <2>1. row.count \in Nat /\ row.count + 1 \in Nat /\ row.count < MaxAttempts
      BY <1>5, <1>7 DEF DeliveryRow, Agrees, Terminal
    <2>2. /\ status \in {"DELIVERED", "DEAD_LETTER", "RETRY_WAIT"}
          /\ status = "DELIVERED" <=> result = "ACKNOWLEDGED"
          /\ status = "RETRY_WAIT" => row.count + 1 < MaxAttempts
          /\ status = "DEAD_LETTER" => force \/ result = "PERMANENT" \/ row.count + 1 >= MaxAttempts
      BY Zenon, <1>3, <1>7, <2>1, StatusMeaning
    <2>3. /\ new \in DeliveryRow /\ Agrees(new, longer) /\ new.status = status
          /\ new.recipient = row.recipient /\ new.replayOf = row.replayOf
          /\ longer \in Seq(Attempt) /\ Len(longer) = row.count + 1
          /\ longer[Len(longer)].result = result
      <3>1. /\ status = "DELIVERED" => result = "ACKNOWLEDGED"
            /\ result = "ACKNOWLEDGED" => status = "DELIVERED"
            /\ status = "RETRY_WAIT" => row.count + 1 < MaxAttempts
            /\ status \in {"DELIVERED", "DEAD_LETTER", "RETRY_WAIT"}
        BY Zenon, <2>2
      <3>2. result \in AttemptResult /\ row.status = "DELIVERING"
        BY Zenon, <1>3, <1>7
      <3>3. new = Became(row, status, row.count + 1, 0, row.claims)
        BY Zenon, <1>7
      <3>4. longer = Append(history, NewAttempt(row, result))
        BY Zenon, <1>7
      <3>5. RecordedAs(row, result, status, new, longer)
        BY Zenon, <1>5, <3>1, <3>2, <3>3, <3>4, RecordedRow
      <3> QED BY Zenon, <3>5 DEF RecordedAs
    <2>4. /\ new.status = "DELIVERED" => Stored(d)
          /\ new.status = "DEAD_LETTER" =>
                \/ Kind(d) = "unreadable"
                \/ longer[Len(longer)].result = "PERMANENT"
                \/ Len(longer) = MaxAttempts
      BY <1>3, <2>1, <2>2, <2>3, DeliveryFacts
    <2>5. RowSide' /\ RowsGrow
      BY Zenon, <1>2, <1>3, <1>4, <1>7, <2>3, <2>4, RowTouched
    <2> QED BY Zenon, <1>2, <2>5, PollerDrops
  <1>8. \/ UNCHANGED <<attempts, delivery>>
        \/ /\ row.status = "DELIVERING"
           /\ attempts' = [attempts EXCEPT ![d] = Append(history, NewAttempt(row, result))]
           /\ delivery' = [delivery EXCEPT ![d] =
                 Became(row, StatusAfter(result, force, row.count + 1), row.count + 1, 0, row.claims)]
    BY <1>1, <1>4, RecordCases
  <1> QED BY Zenon, <1>6, <1>7, <1>8

\* Time changes the clocks of a row and nothing else.
LEMMA TimeKeeps ==
  ASSUME RowSide, WorkSide, NEW d \in Deliveries, BecomesDue(d) \/ LeaseExpires(d)
  PROVE  RowSide' /\ WorkSide'
  <1> DEFINE row == delivery[d]
  <1>1. /\ d \in Rows /\ row \in DeliveryRow /\ attempts[d] \in Seq(Attempt)
        /\ Agrees(row, attempts[d])
        /\ row.status \in {"RETRY_WAIT", "DELIVERING"}
    BY Zenon DEF RowSide, BecomesDue, LeaseExpires, Rows, Exists
  <1>2. PICK new : /\ delivery' = [delivery EXCEPT ![d] = new]
                   /\ new = [row EXCEPT !.due = TRUE] \/ new = [row EXCEPT !.expired = TRUE]
    BY Zenon DEF BecomesDue, LeaseExpires
  <1>3. /\ UNCHANGED <<endpoint, received>> /\ UNCHANGED <<stage, held>>
        /\ UNCHANGED attempts /\ UNCHANGED <<wire, replies>>
    BY Zenon DEF BecomesDue, LeaseExpires
  <1>4. /\ new \in DeliveryRow /\ Agrees(new, attempts[d]) /\ new.status = row.status
        /\ new.recipient = row.recipient /\ new.replayOf = row.replayOf
    BY Zenon, <1>1, <1>2, TimedRow
  <1>5. attempts' = [attempts EXCEPT ![d] = attempts[d]]
    BY Zenon, <1>3 DEF RowSide
  <1>6. new.status # "DELIVERED" /\ new.status # "DEAD_LETTER"
    BY Zenon, <1>1, <1>4
  <1>7. RowSide' /\ RowsGrow
    BY Zenon, <1>1, <1>2, <1>3, <1>4, <1>5, <1>6, RowTouched
  <1> QED BY Zenon, <1>3, <1>7, PollersStay, WayKept

\* DeliveryInv holds throughout.
THEOREM DeliveryInvariance == DeliverySpec => []DeliveryInv
<1>1. DeliveryInit => DeliveryInv
  <2> SUFFICES ASSUME DeliveryInit PROVE DeliveryInv
    BY Zenon
  <2>1. Rows = {}
    BY Zenon DEF DeliveryInit, Rows, Exists
  <2>2. RowSide
    BY <2>1 DEF RowSide, DeliveryInit, InitialsDiffer
  <2>3. NoWork \in Held
    BY Zenon, BatchHeld DEF NoWork
  <2>4. WorkSide
    BY Zenon, <2>3 DEF WorkSide, DeliveryInit, Knows, OnItsWay
  <2> QED BY Zenon, <2>2, <2>4, TwoSides
<1>2. DeliveryInv /\ [DeliveryNext]_deliveryVars => DeliveryInv'
  <2> SUFFICES ASSUME RowSide, WorkSide, [DeliveryNext]_deliveryVars
               PROVE  RowSide' /\ WorkSide'
    BY Zenon, TwoSides, TwoSidesNext
  <2>1. ASSUME NEW w \in Workers, PollerStep(w) PROVE RowSide' /\ WorkSide'
    BY Zenon, <2>1, BatchSteps, BatchInsertKeeps, ClaimKeeps, SendKeeps, ReturnKeeps, AttemptKeeps DEF PollerStep
  <2>2. ASSUME NEW m \in wire, ReceiveEvent(m) PROVE RowSide' /\ WorkSide'
    BY Zenon, <2>2, ReceiveKeeps
  <2>3. CASE (\E m \in wire : RequestLost(m)) \/ (\E w \in Workers : PollerDies(w))
    BY Zenon, <2>3, LossKeeps
  <2>4. ASSUME NEW d \in Deliveries, BecomesDue(d) \/ LeaseExpires(d) PROVE RowSide' /\ WorkSide'
    BY Zenon, <2>4, TimeKeeps
  <2>5. ASSUME NEW original \in Deliveries, NEW d \in Deliveries, ReplayDelivery(original, d)
        PROVE  RowSide' /\ WorkSide'
    BY Zenon, <2>5, ReplayKeeps
  <2>6. CASE UNCHANGED deliveryVars
    <3>1. UNCHANGED <<endpoint, delivery, attempts>> /\ UNCHANGED received
          /\ UNCHANGED <<stage, held>> /\ UNCHANGED <<wire, replies>>
      BY Zenon, <2>6 DEF deliveryVars
    <3>2. RowSide' /\ RowsGrow
      BY <3>1, RowsStay DEF RowSide
    <3> QED BY Zenon, <3>1, <3>2, PollersStay, WayKept
  <2> QED BY Zenon, <2>1, <2>2, <2>3, <2>4, <2>5, <2>6 DEF DeliveryNext
<1> QED BY <1>1, <1>2, PTL DEF DeliverySpec

\* What a step does to a finished delivery: nothing.
LEMMA FinishedStands ==
  ASSUME RowSide, WorkSide, [DeliveryNext]_deliveryVars, NEW d \in Rows,
         delivery[d].status \in Terminal
  PROVE  delivery'[d] = delivery[d] /\ attempts'[d] = attempts[d]
  <1>0. /\ delivery \in [Deliveries -> DeliveryRow \cup {None}]
        /\ attempts \in [Deliveries -> Seq(Attempt)]
        /\ d \in Deliveries /\ Exists(d)
        /\ delivery[d].status # "PENDING" /\ delivery[d].status # "RETRY_WAIT"
        /\ delivery[d].status # "DELIVERING"
    BY Zenon DEF RowSide, Rows, Terminal
  <1>1. CASE UNCHANGED <<delivery, attempts>>
    BY Zenon, <1>1
  <1>2. ASSUME NEW w \in Workers, MaterializeInsert(w)
        PROVE  delivery'[d] = delivery[d] /\ attempts'[d] = attempts[d]
    <2> DEFINE batch == held[w].batch
               free == {e \in Deliveries : ~Exists(e)}
    <2>1. CASE UNCHANGED delivery
      BY <1>2, <2>1 DEF MaterializeInsert
    <2>2. ASSUME NEW f \in Injection(batch, free),
                 delivery' = [e \in Deliveries |->
                                IF e \in Range(f) THEN NewDelivery(AntiFunction(f)[e], None)
                                                  ELSE delivery[e]]
          PROVE  delivery'[d] = delivery[d]
      <3>1. d \notin Range(f)
        BY <1>0, Argument
      <3> QED BY Zenon, <1>0, <2>2, <3>1
    <2> QED BY Zenon, <1>2, <2>1, <2>2 DEF MaterializeInsert
  <1>3. ASSUME NEW w \in Workers, NEW e \in Deliveries, ClaimDelivery(w, e)
        PROVE  delivery'[d] = delivery[d] /\ attempts'[d] = attempts[d]
    <2>1. e # d
      BY Zenon, <1>0, <1>3 DEF ClaimDelivery, Claimable
    <2> QED BY Zenon, <1>0, <1>3, <2>1 DEF ClaimDelivery
  <1>4. ASSUME NEW w \in Workers, RecordAttempt(w)
        PROVE  delivery'[d] = delivery[d] /\ attempts'[d] = attempts[d]
    <2>1. PICK e, row, history :
            /\ e = held[w].delivery
            /\ \/ UNCHANGED <<attempts, delivery>>
               \/ /\ delivery[e].status = "DELIVERING"
                  /\ delivery' = [delivery EXCEPT ![e] = row]
                  /\ attempts' = [attempts EXCEPT ![e] = history]
      BY <1>4, RecordCases
    <2> QED BY Zenon, <1>0, <2>1
  <1>5. ASSUME NEW e \in Deliveries, BecomesDue(e) \/ LeaseExpires(e)
        PROVE  delivery'[d] = delivery[d] /\ attempts'[d] = attempts[d]
    <2>1. e # d
      BY Zenon, <1>0, <1>5 DEF BecomesDue, LeaseExpires
    <2> QED BY Zenon, <1>0, <1>5, <2>1 DEF BecomesDue, LeaseExpires
  <1>6. ASSUME NEW original \in Deliveries, NEW e \in Deliveries, ReplayDelivery(original, e)
        PROVE  delivery'[d] = delivery[d] /\ attempts'[d] = attempts[d]
    BY Zenon, <1>0, <1>6 DEF ReplayDelivery
  <1>7. ASSUME NEW w \in Workers,
               MaterializeRead(w) \/ MaterializeLock(w) \/ Send(w) \/ TransportReturns(w) \/ PollerDies(w)
        PROVE  UNCHANGED <<delivery, attempts>>
    BY Zenon, <1>7 DEF MaterializeRead, MaterializeLock, Send, TransportReturns, PollerDies
  <1>8. ASSUME NEW m \in wire, ReceiveEvent(m) \/ RequestLost(m)
        PROVE  UNCHANGED <<delivery, attempts>>
    BY Zenon, <1>8 DEF ReceiveEvent, RequestLost
  <1>9. CASE UNCHANGED deliveryVars
    BY Zenon, <1>1, <1>9 DEF deliveryVars
  <1> QED
    BY Zenon, <1>1, <1>2, <1>3, <1>4, <1>5, <1>6, <1>7, <1>8, <1>9 DEF DeliveryNext, PollerStep

\* The rows' side of the invariant is what the promise says of every state.
LEMMA PromiseOfState ==
  ASSUME RowSide
  PROVE  OneInitialDelivery /\ DeliveredIsStored /\ AttemptHistory /\ DeadLetterHasReason
  <1>1. OneInitialDelivery
    <2> SUFFICES ASSUME NEW r \in Recipients PROVE Cardinality(InitialOf(r)) <= 1
      BY Zenon DEF OneInitialDelivery
    <2>1. \A d, e \in InitialOf(r) : d = e
      BY Zenon DEF InitialOf, RowSide, InitialsDiffer, Rows
    <2>2. Cardinality(InitialOf(r)) = IF InitialOf(r) = {} THEN 0 ELSE 1
      BY Zenon, <2>1, CountSmall
    <2> QED BY <2>2
  <1>2. DeliveredIsStored
    BY Zenon DEF DeliveredIsStored, RowSide, EndsFor, Stored
  <1>3. ASSUME NEW d \in Rows
        PROVE  /\ Agrees(delivery[d], attempts[d]) /\ EndsFor(d)
               /\ attempts[d] \in Seq(Attempt) /\ Len(attempts[d]) \in Nat
    BY DEF RowSide, Rows
  <1>4. AttemptHistory
    <2> SUFFICES ASSUME NEW d \in Rows
                 PROVE  LET n == Len(attempts[d])
                        IN  /\ delivery[d].count = n
                            /\ n <= MaxAttempts
                            /\ \A i \in 1 .. n : attempts[d][i].sequence = i
                            /\ \A i \in 1 .. n - 1 :
                                  /\ attempts[d][i].token < attempts[d][i + 1].token
                                  /\ attempts[d][i].result # "ACKNOWLEDGED"
      BY Zenon DEF AttemptHistory
    <2>1. \A i \in 1 .. Len(attempts[d]) - 1 : i \in 1 .. Len(attempts[d]) /\ i < Len(attempts[d])
      BY <1>3
    <2> QED BY Zenon, <1>3, <2>1 DEF Agrees
  <1>5. DeadLetterHasReason
    <2>1. ASSUME NEW d \in Rows, delivery[d].status = "DEAD_LETTER"
          PROVE  "ACKNOWLEDGED" \notin Results(d)
      BY Zenon, <1>3, <2>1 DEF Agrees, Results
    <2> QED BY Zenon, <1>3, <2>1 DEF DeadLetterHasReason, EndsFor
  <1> QED BY Zenon, <1>1, <1>2, <1>4, <1>5

\* What the deliveries of an event promise their merchant, for every number of
\* recipients, pollers, deaths, stalls and replays (materialize_delivery_batch,
\* claim_delivery, deliver_claim).
THEOREM DeliveryPromiseTheorem == DeliverySpec => DeliveryPromise
<1>1. DeliveryInv => OneInitialDelivery /\ DeliveredIsStored /\ AttemptHistory /\ DeadLetterHasReason
  BY Zenon, PromiseOfState, TwoSides
<1>2. DeliveryInv /\ [DeliveryNext]_deliveryVars =>
        [\A d \in Rows : delivery[d].status \in Terminal =>
            delivery'[d] = delivery[d] /\ attempts'[d] = attempts[d]]_deliveryVars
  BY Zenon, FinishedStands, TwoSides
<1> QED BY <1>1, <1>2, DeliveryInvariance, PTL DEF DeliverySpec, DeliveryPromise

-----------------------------------------------------------------------------
(* Business events.                                                        *)

\* The fields of a row.
LEMMA EntryIs ==
    ASSUME NEW a \in BOOLEAN, NEW h \in Publishers \cup {Nothing}, NEW x \in BOOLEAN, NEW d \in BOOLEAN
    PROVE  /\ Entry(a, h, x, d) \in Entries
           /\ Entry(a, h, x, d) # Nothing
           /\ Entry(a, h, x, d).published = a
  <1>1. Entry(a, h, x, d) \in Entries
    BY Zenon DEF Entry, Entries
  <1>2. Entry(a, h, x, d).published = a
    BY Zenon DEF Entry
  <1> QED
    BY Zenon, <1>1, <1>2, OutboxAssumption

\* The fields of a task.
LEMMA TaskIs ==
    ASSUME NEW e \in BusinessEvents \cup {Nothing}, NEW a \in BOOLEAN, NEW m \in BOOLEAN
    PROVE  /\ Task(e, a, m) \in Tasks
           /\ Task(e, a, m).event = e
           /\ Task(e, a, m).acked = a
  BY Zenon DEF Task, Tasks

\* A process and its task.
LEMMA TaskOf ==
    ASSUME OutboxTypes, NEW p \in Processes
    PROVE  /\ task[p] \in Tasks
           /\ task[p].event \in BusinessEvents \cup {Nothing}
           /\ task[p].acked \in BOOLEAN
           /\ task[p].mine \in BOOLEAN
           /\ phase[p] \in Phases
  <1>1. task[p] \in Tasks /\ phase[p] \in Phases
    BY Zenon DEF OutboxTypes
  <1> QED
    BY Zenon, <1>1 DEF Tasks

\* An appended event and its row.
LEMMA RowOf ==
    ASSUME OutboxTypes, NEW e \in BusinessEvents, entry[e] # Nothing
    PROVE  /\ entry[e] \in Entries
           /\ entry[e].published \in BOOLEAN
           /\ entry[e].holder \in Publishers \cup {Nothing}
           /\ entry[e].expired \in BOOLEAN
           /\ entry[e].due \in BOOLEAN
  <1>1. entry[e] \in Entries
    BY Zenon DEF OutboxTypes
  <1> QED
    BY Zenon, <1>1 DEF Entries

\* Writing one row, to one that is published only if the broker has the event,
\* keeps what holds of the others (append_business_event, claim_event and
\* publish_one).
LEMMA RowWritten ==
    ASSUME OutboxInv, NEW e \in BusinessEvents, NEW r \in Entries,
           r.published => e \in topic,
           entry' = [entry EXCEPT ![e] = r],
           UNCHANGED <<topic, consumption>>
    PROVE  /\ entry' \in [BusinessEvents -> {Nothing} \cup Entries]
           /\ EffectOnce'
           /\ MarkedIsSent'
           /\ \A f \in BusinessEvents : entry[f] # Nothing => entry'[f] # Nothing
           /\ entry'[e] # Nothing
  <1>1. entry' \in [BusinessEvents -> {Nothing} \cup Entries]
    BY Zenon DEF OutboxInv, OutboxTypes
  <1>2. EffectOnce'
    BY Zenon DEF OutboxInv, EffectOnce, consumption
  <1>3. entry'[e] = r /\ r # Nothing
    BY Zenon, OutboxAssumption DEF OutboxInv, OutboxTypes
  <1>4. \A f \in BusinessEvents : f # e => entry'[f] = entry[f]
    BY Zenon DEF OutboxInv, OutboxTypes
  <1>5. MarkedIsSent'
    BY Zenon, <1>3, <1>4 DEF OutboxInv, MarkedIsSent
  <1> QED
    BY Zenon, <1>1, <1>2, <1>3, <1>4, <1>5

\* A process that changes nothing but its own place and task, in a step that
\* takes no row, message or marker away, leaves what the others know.
LEMMA OthersKeep ==
    ASSUME OutboxInv, NEW p \in Processes, NEW q \in Processes, q # p,
           phase'[q] = phase[q], task'[q] = task[q],
           \A f \in BusinessEvents : entry[f] # Nothing => entry'[f] # Nothing,
           topic \subseteq topic',
           phase[q] = "effect" => /\ inserting'[task[q].event] = q
                                  /\ task[q].event \notin marker'
    PROVE  Carries(q)' /\ Excludes(q)'
  <1>1. Carries(q) /\ Excludes(q)
    BY Zenon DEF OutboxInv
  <1>2. Carries(q)'
    BY Zenon, <1>1 DEF Carries
  <1>3. Excludes(q)'
    BY Zenon, <1>1 DEF Excludes
  <1> QED
    BY Zenon, <1>2, <1>3

\* The initial state satisfies the invariant.
LEMMA OutboxStarts == OutboxInit => OutboxInv
  <1> SUFFICES ASSUME OutboxInit PROVE OutboxInv
    BY Zenon
  <1>1. NoTask \in Tasks
    BY Zenon, TaskIs DEF NoTask
  <1>2. OutboxTypes
    BY Zenon, <1>1 DEF OutboxInit, OutboxTypes, Phases
  <1>3. EffectOnce /\ MarkedIsSent
    BY Zenon DEF OutboxInit, EffectOnce, MarkedIsSent
  <1>4. \A p \in Processes : Carries(p) /\ Excludes(p)
    BY Zenon DEF OutboxInit, Carries, Excludes
  <1> QED
    BY Zenon, <1>2, <1>3, <1>4 DEF OutboxInv

\* Appending an event, the end of a delay and the end of a lease.
LEMMA OutboxTimeKeeps ==
    ASSUME OutboxInv, NEW e \in BusinessEvents,
           AppendBusinessEvent(e) \/ DelayEnds(e) \/ PublisherExpires(e)
    PROVE  OutboxInv'
  <1> DEFINE Kept(r) == /\ r \in Entries
                        /\ r.published => e \in topic
                        /\ entry' = [entry EXCEPT ![e] = r]
                        /\ UNCHANGED <<topic, consumption, phase, task>>
  <1> HIDE DEF Kept
  <1>2. ASSUME NEW r \in Entries, Kept(r) PROVE OutboxInv'
    <2>1. /\ entry' \in [BusinessEvents -> {Nothing} \cup Entries]
          /\ EffectOnce' /\ MarkedIsSent'
          /\ \A f \in BusinessEvents : entry[f] # Nothing => entry'[f] # Nothing
      BY Zenon, <1>2, RowWritten DEF Kept
    <2>2. OutboxTypes'
      BY Zenon, <1>2, <2>1 DEF OutboxInv, OutboxTypes, Kept, consumption
    <2>3. ASSUME NEW q \in Processes PROVE Carries(q)' /\ Excludes(q)'
      <3>1. Carries(q) /\ Excludes(q)
        BY Zenon DEF OutboxInv
      <3>2. Carries(q)'
        BY Zenon, <3>1, <2>1, <1>2 DEF Carries, Kept
      <3>3. Excludes(q)'
        BY Zenon, <3>1, <1>2 DEF Excludes, Kept, consumption
      <3> QED
        BY Zenon, <3>2, <3>3
    <2> QED
      BY Zenon, <2>1, <2>2, <2>3 DEF OutboxInv
  <1>3. \E r \in Entries : Kept(r)
    <2>1. CASE AppendBusinessEvent(e)
      <3>1. Kept(Entry(FALSE, Nothing, FALSE, TRUE))
        BY Zenon, <2>1, EntryIs DEF AppendBusinessEvent, Kept
      <3> QED
        BY Zenon, <3>1, EntryIs
    <2>2. CASE DelayEnds(e)
      <3>1. entry[e] # Nothing /\ entry[e].published \in BOOLEAN /\ entry[e].expired \in BOOLEAN
            /\ entry[e].holder \in Publishers \cup {Nothing}
        BY Zenon, <2>2, RowOf DEF DelayEnds, OutboxInv
      <3>2. entry[e].published => e \in topic
        BY Zenon, <3>1 DEF OutboxInv, MarkedIsSent
      <3>3. Kept(Entry(entry[e].published, entry[e].holder, entry[e].expired, TRUE))
        BY Zenon, <2>2, <3>1, <3>2, EntryIs DEF DelayEnds, Kept
      <3> QED
        BY Zenon, <3>1, <3>3, EntryIs
    <2>3. CASE PublisherExpires(e)
      <3>1. entry[e] # Nothing /\ entry[e].published \in BOOLEAN /\ entry[e].due \in BOOLEAN
            /\ entry[e].holder \in Publishers \cup {Nothing}
        BY Zenon, <2>3, RowOf DEF PublisherExpires, OutboxInv
      <3>2. entry[e].published => e \in topic
        BY Zenon, <3>1 DEF OutboxInv, MarkedIsSent
      <3>3. Kept(Entry(entry[e].published, entry[e].holder, TRUE, entry[e].due))
        BY Zenon, <2>3, <3>1, <3>2, EntryIs DEF PublisherExpires, Kept
      <3> QED
        BY Zenon, <3>1, <3>3, EntryIs
    <2> QED
      BY Zenon, <2>1, <2>2, <2>3
  <1> QED
    BY Zenon, <1>2, <1>3

\* The step of one process: it takes a new place and task, which are typed.
LEMMA MoveTyped ==
    ASSUME OutboxInv, NEW p \in Processes, NEW next \in Phases, NEW t \in Tasks,
           Enter(p, next), task' = [task EXCEPT ![p] = t]
    PROVE  /\ phase' \in [Processes -> Phases]
           /\ task' \in [Processes -> Tasks]
           /\ phase'[p] = next /\ task'[p] = t
           /\ \A q \in Processes : q # p => phase'[q] = phase[q] /\ task'[q] = task[q]
  BY Zenon DEF Enter, OutboxInv, OutboxTypes

\* Claiming an event.
LEMMA ClaimEventKeeps ==
    ASSUME OutboxInv, NEW p \in Publishers, NEW e \in BusinessEvents, ClaimEvent(p, e)
    PROVE  OutboxInv'
  <1>0. p \in Processes
    BY Zenon DEF Processes
  <1>1. entry[e] # Nothing /\ entry[e].published \in BOOLEAN /\ entry[e].due \in BOOLEAN
    BY Zenon, RowOf DEF ClaimEvent, OutboxInv
  <1>2. PICK r \in Entries : /\ r.published => e \in topic
                             /\ entry' = [entry EXCEPT ![e] = r]
    <2>1. entry' = [entry EXCEPT ![e] = Entry(entry[e].published, p, FALSE, entry[e].due)]
      BY Zenon DEF ClaimEvent
    <2>2. entry[e].published => e \in topic
      BY Zenon, <1>1 DEF OutboxInv, MarkedIsSent
    <2> QED
      BY Zenon, <1>1, <2>1, <2>2, EntryIs
  <1>3. UNCHANGED <<topic, consumption>>
    BY Zenon DEF ClaimEvent
  <1>4. /\ entry' \in [BusinessEvents -> {Nothing} \cup Entries]
        /\ EffectOnce' /\ MarkedIsSent'
        /\ \A f \in BusinessEvents : entry[f] # Nothing => entry'[f] # Nothing
        /\ entry'[e] # Nothing
    BY Zenon, <1>2, <1>3, RowWritten
  <1>5. PICK t \in Tasks : t.event = e /\ t.acked = FALSE /\ task' = [task EXCEPT ![p] = t]
    BY Zenon, TaskIs DEF ClaimEvent
  <1>6. Enter(p, "publish") /\ "publish" \in Phases
    BY Zenon DEF ClaimEvent, Phases
  <1>7. /\ phase' \in [Processes -> Phases]
        /\ task' \in [Processes -> Tasks]
        /\ phase'[p] = "publish" /\ task'[p] = t
        /\ \A q \in Processes : q # p => phase'[q] = phase[q] /\ task'[q] = task[q]
    BY Zenon, <1>0, <1>5, <1>6, MoveTyped
  <1>8. OutboxTypes'
    BY Zenon, <1>3, <1>4, <1>7 DEF OutboxInv, OutboxTypes, consumption
  <1>9. Carries(p)' /\ Excludes(p)'
    BY Zenon, <1>4, <1>5, <1>7 DEF Carries, Excludes
  <1>10. ASSUME NEW q \in Processes, q # p PROVE Carries(q)' /\ Excludes(q)'
    <2>1. Excludes(q)
      BY Zenon, <1>10 DEF OutboxInv
    <2>2. phase[q] = "effect" => inserting'[task[q].event] = q /\ task[q].event \notin marker'
      BY Zenon, <2>1, <1>3 DEF Excludes, consumption
    <2>3. phase'[q] = phase[q] /\ task'[q] = task[q] /\ topic \subseteq topic'
      BY Zenon, <1>3, <1>7, <1>10
    <2> QED
      BY Zenon, <1>0, <1>4, <1>10, <2>2, <2>3, OthersKeep
  <1> QED
    BY Zenon, <1>4, <1>8, <1>9, <1>10 DEF OutboxInv

\* Sending an event, and reading its lease back.
LEMMA PublishKeeps ==
    ASSUME OutboxInv, NEW p \in Processes, Publish(p) \/ CheckLease(p)
    PROVE  OutboxInv'
  <1> DEFINE e == task[p].event
  <1>1. /\ e \in BusinessEvents /\ entry[e] # Nothing /\ p \in Publishers
        /\ phase[p] \in {"publish", "check"}
        /\ phase[p] = "check" /\ task[p].acked => e \in topic
    <2>1. Carries(p)
      BY Zenon DEF OutboxInv
    <2> QED
      BY Zenon, <2>1 DEF Publish, CheckLease, Carries
  <1>2. task[p].acked \in BOOLEAN /\ task[p].mine \in BOOLEAN
    BY Zenon, TaskOf DEF OutboxInv
  <1>3. UNCHANGED <<entry, consumption>> /\ topic \subseteq topic'
    BY Zenon DEF Publish, CheckLease, outbox
  <1> HIDE DEF e
  <1> DEFINE Takes(t, next) == /\ t.event = e
                               /\ t.acked => e \in topic'
                               /\ task' = [task EXCEPT ![p] = t]
                               /\ Enter(p, next)
  <1> HIDE DEF Takes
  <1>4. PICK t \in Tasks, next \in {"check", "record"} : Takes(t, next)
    <2>1. CASE Publish(p)
      <3>1. PICK acked \in BOOLEAN, accepted \in BOOLEAN :
               /\ acked => accepted
               /\ topic' = IF accepted THEN topic \cup {task[p].event} ELSE topic
               /\ task' = [task EXCEPT ![p] = Task(task[p].event, acked, task[p].mine)]
        BY Zenon, <2>1 DEF Publish
      <3>2. acked => e \in topic'
        BY Zenon, <3>1 DEF e
      <3>3. Enter(p, "check")
        BY Zenon, <2>1 DEF Publish
      <3>4. task' = [task EXCEPT ![p] = Task(e, acked, task[p].mine)]
        BY Zenon, <3>1 DEF e
      <3>5. /\ Task(e, acked, task[p].mine) \in Tasks
            /\ Task(e, acked, task[p].mine).event = e
            /\ Task(e, acked, task[p].mine).acked = acked
        <4>1. e \in BusinessEvents \cup {Nothing}
          BY Zenon, <1>1
        <4>2. task[p].mine \in BOOLEAN
          BY Zenon, <1>2
        <4> QED
          BY Zenon, <4>1, <4>2, TaskIs
      <3>6. Takes(Task(e, acked, task[p].mine), "check")
        BY Zenon, <3>2, <3>3, <3>4, <3>5 DEF Takes
      <3> QED
        BY Zenon, <3>5, <3>6
    <2>2. CASE CheckLease(p)
      <3>1. task' = [task EXCEPT ![p] = Task(e, task[p].acked, SameLease(p, e))]
        BY Zenon, <2>2 DEF CheckLease, e
      <3>2. SameLease(p, e) \in BOOLEAN
        BY Zenon DEF SameLease
      <3>3. task[p].acked => e \in topic'
        BY Zenon, <2>2, <1>1, <1>3 DEF CheckLease
      <3>4. Enter(p, "record")
        BY Zenon, <2>2 DEF CheckLease
      <3>5. /\ Task(e, task[p].acked, SameLease(p, e)) \in Tasks
            /\ Task(e, task[p].acked, SameLease(p, e)).event = e
            /\ Task(e, task[p].acked, SameLease(p, e)).acked = task[p].acked
        <4>1. e \in BusinessEvents \cup {Nothing}
          BY Zenon, <1>1
        <4>2. task[p].acked \in BOOLEAN
          BY Zenon, <1>2
        <4> QED
          BY Zenon, <4>1, <4>2, <3>2, TaskIs
      <3>6. Takes(Task(e, task[p].acked, SameLease(p, e)), "record")
        BY Zenon, <3>1, <3>3, <3>4, <3>5 DEF Takes
      <3> QED
        BY Zenon, <3>5, <3>6
    <2> QED
      BY Zenon, <2>1, <2>2
  <1>5. /\ phase' \in [Processes -> Phases]
        /\ task' \in [Processes -> Tasks]
        /\ phase'[p] = next /\ task'[p] = t
        /\ \A q \in Processes : q # p => phase'[q] = phase[q] /\ task'[q] = task[q]
    <2>1. next \in Phases
      BY Zenon DEF Phases
    <2> QED
      BY Zenon, <1>4, <2>1, MoveTyped DEF Takes
  <1>6. OutboxTypes'
    BY Zenon, <1>3, <1>5 DEF OutboxInv, OutboxTypes, consumption
  <1>7. EffectOnce' /\ MarkedIsSent'
    BY Zenon, <1>3 DEF OutboxInv, EffectOnce, MarkedIsSent, consumption
  <1>8. Carries(p)' /\ Excludes(p)'
    BY Zenon, <1>1, <1>3, <1>4, <1>5 DEF Carries, Excludes, Takes
  <1>9. ASSUME NEW q \in Processes, q # p PROVE Carries(q)' /\ Excludes(q)'
    <2>1. Excludes(q)
      BY Zenon, <1>9 DEF OutboxInv
    <2>2. phase[q] = "effect" => inserting'[task[q].event] = q /\ task[q].event \notin marker'
      BY Zenon, <2>1, <1>3 DEF Excludes, consumption
    <2>3. phase'[q] = phase[q] /\ task'[q] = task[q]
      BY Zenon, <1>5, <1>9
    <2>4. \A f \in BusinessEvents : entry[f] # Nothing => entry'[f] # Nothing
      BY Zenon, <1>3
    <2> QED
      BY Zenon, <1>3, <1>9, <2>2, <2>3, <2>4, OthersKeep
  <1> QED
    BY Zenon, <1>6, <1>7, <1>8, <1>9 DEF OutboxInv

\* A process that is done is idle and holds nothing.
LEMMA FinishTyped ==
    ASSUME OutboxInv, NEW p \in Processes, Finish(p)
    PROVE  /\ phase' \in [Processes -> Phases]
           /\ task' \in [Processes -> Tasks]
           /\ Carries(p)' /\ Excludes(p)'
           /\ \A q \in Processes : q # p => phase'[q] = phase[q] /\ task'[q] = task[q]
  <1>1. NoTask \in Tasks /\ "idle" \in Phases
    BY Zenon, TaskIs DEF NoTask, Phases
  <1>2. Enter(p, "idle") /\ task' = [task EXCEPT ![p] = NoTask]
    BY Zenon DEF Finish
  <1>3. /\ phase' \in [Processes -> Phases]
        /\ task' \in [Processes -> Tasks]
        /\ phase'[p] = "idle"
        /\ \A q \in Processes : q # p => phase'[q] = phase[q] /\ task'[q] = task[q]
    BY Zenon, <1>1, <1>2, MoveTyped
  <1>4. Carries(p)' /\ Excludes(p)'
    BY Zenon, <1>3 DEF Carries, Excludes
  <1> QED
    BY Zenon, <1>3, <1>4

\* Recording what came of a send: the row is written only to say published when
\* the broker has the event, though its lease may be another's by then.
LEMMA RecordPublishKeeps ==
    ASSUME OutboxInv, NEW p \in Processes, RecordPublish(p)
    PROVE  OutboxInv'
  <1> DEFINE e == task[p].event
  <1>1. /\ e \in BusinessEvents /\ entry[e] # Nothing
        /\ task[p].acked => e \in topic
    <2>1. Carries(p)
      BY Zenon DEF OutboxInv
    <2> QED
      BY Zenon, <2>1 DEF RecordPublish, Carries
  <1>2. task[p].acked \in BOOLEAN /\ task[p].mine \in BOOLEAN
    BY Zenon, TaskOf DEF OutboxInv
  <1>3. UNCHANGED <<topic, consumption>> /\ Finish(p)
    BY Zenon DEF RecordPublish
  <1>4. entry' = IF task[p].mine THEN [entry EXCEPT ![e] = Recorded(entry[e], task[p].acked)] ELSE entry
    BY Zenon DEF RecordPublish
  <1> HIDE DEF e
  <1>5. /\ entry' \in [BusinessEvents -> {Nothing} \cup Entries]
        /\ EffectOnce' /\ MarkedIsSent'
        /\ \A f \in BusinessEvents : entry[f] # Nothing => entry'[f] # Nothing
    <2>1. CASE task[p].mine
      <3>1. entry[e].published \in BOOLEAN /\ entry[e].due \in BOOLEAN
        BY Zenon, <1>1, RowOf DEF OutboxInv
      <3>2. entry[e].published => e \in topic
        BY Zenon, <1>1 DEF OutboxInv, MarkedIsSent
      <3>3. PICK a \in BOOLEAN, d \in BOOLEAN : /\ a => e \in topic
                                                /\ Recorded(entry[e], task[p].acked) = Entry(a, Nothing, FALSE, d)
        BY Zenon, <1>1, <1>2, <3>1, <3>2 DEF Recorded
      <3>4. Entry(a, Nothing, FALSE, d) \in Entries /\ Entry(a, Nothing, FALSE, d).published = a
        BY Zenon, EntryIs
      <3>5. entry' = [entry EXCEPT ![e] = Entry(a, Nothing, FALSE, d)]
        BY Zenon, <1>4, <2>1, <3>3
      <3> QED
        BY Zenon, <1>1, <1>3, <3>3, <3>4, <3>5, RowWritten
    <2>2. CASE ~task[p].mine
      <3>1. entry' = entry
        BY Zenon, <1>4, <2>2
      <3> QED
        BY Zenon, <1>3, <3>1 DEF OutboxInv, OutboxTypes, EffectOnce, MarkedIsSent, consumption
    <2> QED
      BY Zenon, <1>2, <2>1, <2>2
  <1>6. /\ phase' \in [Processes -> Phases]
        /\ task' \in [Processes -> Tasks]
        /\ Carries(p)' /\ Excludes(p)'
        /\ \A q \in Processes : q # p => phase'[q] = phase[q] /\ task'[q] = task[q]
    BY Zenon, <1>3, FinishTyped
  <1>7. OutboxTypes'
    BY Zenon, <1>3, <1>5, <1>6 DEF OutboxInv, OutboxTypes, consumption
  <1>8. ASSUME NEW q \in Processes, q # p PROVE Carries(q)' /\ Excludes(q)'
    <2>1. Excludes(q)
      BY Zenon, <1>8 DEF OutboxInv
    <2>2. phase[q] = "effect" => inserting'[task[q].event] = q /\ task[q].event \notin marker'
      BY Zenon, <2>1, <1>3 DEF Excludes, consumption
    <2>3. phase'[q] = phase[q] /\ task'[q] = task[q] /\ topic \subseteq topic'
      BY Zenon, <1>3, <1>6, <1>8
    <2> QED
      BY Zenon, <1>5, <1>8, <2>2, <2>3, OthersKeep
  <1> QED
    BY Zenon, <1>5, <1>6, <1>7, <1>8 DEF OutboxInv

\* Reading whether an event was consumed.
LEMMA ReadKeeps ==
    ASSUME OutboxInv, NEW p \in Consumers, NEW e \in BusinessEvents, ConsumeRead(p, e)
    PROVE  OutboxInv'
  <1>0. p \in Processes
    BY Zenon DEF Processes
  <1>1. UNCHANGED <<outbox, consumption>>
    BY Zenon DEF ConsumeRead
  <1>2. /\ entry' = entry /\ topic' = topic /\ marker' = marker
        /\ inserting' = inserting /\ effects' = effects
    BY Zenon, <1>1 DEF outbox, consumption
  <1>3. EffectOnce' /\ MarkedIsSent'
    BY Zenon, <1>2 DEF OutboxInv, EffectOnce, MarkedIsSent
  <1>4. CASE UNCHANGED <<phase, task>>
    <2>1. OutboxTypes'
      BY Zenon, <1>2, <1>4 DEF OutboxInv, OutboxTypes
    <2>2. ASSUME NEW q \in Processes PROVE Carries(q)' /\ Excludes(q)'
      <3>1. Carries(q) /\ Excludes(q)
        BY Zenon DEF OutboxInv
      <3> QED
        BY Zenon, <3>1, <1>2, <1>4 DEF Carries, Excludes
    <2> QED
      BY Zenon, <1>3, <2>1, <2>2 DEF OutboxInv
  <1>5. CASE task' = [task EXCEPT ![p] = Task(e, FALSE, FALSE)] /\ Enter(p, "insert")
    <2>1. PICK t \in Tasks : t.event = e /\ task' = [task EXCEPT ![p] = t]
      BY Zenon, <1>5, TaskIs
    <2>2. "insert" \in Phases
      BY Zenon DEF Phases
    <2>3. /\ phase' \in [Processes -> Phases]
          /\ task' \in [Processes -> Tasks]
          /\ phase'[p] = "insert" /\ task'[p] = t
          /\ \A q \in Processes : q # p => phase'[q] = phase[q] /\ task'[q] = task[q]
      BY Zenon, <1>0, <1>5, <2>1, <2>2, MoveTyped
    <2>4. OutboxTypes'
      BY Zenon, <1>2, <2>3 DEF OutboxInv, OutboxTypes
    <2>5. Carries(p)' /\ Excludes(p)'
      BY Zenon, <2>1, <2>3 DEF Carries, Excludes
    <2>6. ASSUME NEW q \in Processes, q # p PROVE Carries(q)' /\ Excludes(q)'
      <3>1. Excludes(q)
        BY Zenon, <2>6 DEF OutboxInv
      <3>2. phase[q] = "effect" => inserting'[task[q].event] = q /\ task[q].event \notin marker'
        BY Zenon, <3>1, <1>2 DEF Excludes
      <3>3. phase'[q] = phase[q] /\ task'[q] = task[q] /\ topic \subseteq topic'
        BY Zenon, <1>2, <2>3, <2>6
      <3>4. \A f \in BusinessEvents : entry[f] # Nothing => entry'[f] # Nothing
        BY Zenon, <1>2
      <3> QED
        BY Zenon, <1>0, <2>6, <3>2, <3>3, <3>4, OthersKeep
    <2> QED
      BY Zenon, <1>3, <2>4, <2>5, <2>6 DEF OutboxInv
  <1> QED
    BY Zenon, <1>4, <1>5 DEF ConsumeRead

\* Inserting the marker of an event.
LEMMA InsertMarkerKeeps ==
    ASSUME OutboxInv, NEW p \in Processes, RecordConsumption(p)
    PROVE  OutboxInv'
  <1> DEFINE e == task[p].event
  <1>1. e \in BusinessEvents /\ p \in Consumers
    <2>1. Carries(p)
      BY Zenon DEF OutboxInv
    <2> QED
      BY Zenon, <2>1 DEF RecordConsumption, Carries
  <1>2. entry' = entry /\ topic' = topic /\ marker' = marker /\ effects' = effects
    BY Zenon DEF RecordConsumption, outbox
  <1>3. EffectOnce' /\ MarkedIsSent'
    BY Zenon, <1>2 DEF OutboxInv, EffectOnce, MarkedIsSent
  <1>4. inserting[e] = Nothing
    BY Zenon DEF RecordConsumption
  <1>5. \A f \in BusinessEvents : entry[f] # Nothing => entry'[f] # Nothing
    BY Zenon, <1>2
  <1>6. CASE Unconsumed(e) /\ inserting' = [inserting EXCEPT ![e] = p]
             /\ Enter(p, "effect") /\ UNCHANGED task
    <2> HIDE DEF e
    <2>1. /\ phase' \in [Processes -> Phases] /\ phase'[p] = "effect"
          /\ \A q \in Processes : q # p => phase'[q] = phase[q]
      BY Zenon, <1>6 DEF Enter, OutboxInv, OutboxTypes, Phases
    <2>2. /\ inserting' \in [BusinessEvents -> Consumers \cup {Nothing}] /\ inserting'[e] = p
          /\ \A f \in BusinessEvents : f # e => inserting'[f] = inserting[f]
      BY Zenon, <1>1, <1>6 DEF OutboxInv, OutboxTypes
    <2>3. OutboxTypes'
      BY Zenon, <1>2, <1>6, <2>1, <2>2 DEF OutboxInv, OutboxTypes
    <2>4. task'[p].event = e
      BY Zenon, <1>6 DEF e
    <2>5. Carries(p)' /\ Excludes(p)'
      BY Zenon, <1>1, <1>2, <1>6, <2>1, <2>2, <2>4 DEF Carries, Excludes, Unconsumed
    <2>6. ASSUME NEW q \in Processes, q # p PROVE Carries(q)' /\ Excludes(q)'
      <3>1. Carries(q) /\ Excludes(q)
        BY Zenon, <2>6 DEF OutboxInv
      <3>2. ASSUME phase[q] = "effect"
            PROVE  inserting'[task[q].event] = q /\ task[q].event \notin marker'
        <4>1. /\ inserting[task[q].event] = q /\ task[q].event \notin marker
              /\ q \in Consumers /\ task[q].event \in BusinessEvents
          BY Zenon, <3>1, <3>2 DEF Carries, Excludes
        <4>2. q # Nothing
          BY Zenon, <4>1, OutboxAssumption
        <4>3. task[q].event # e
          BY Zenon, <4>1, <4>2, <1>4
        <4> QED
          BY Zenon, <4>1, <4>3, <2>2, <1>2
      <3>3. phase'[q] = phase[q] /\ task'[q] = task[q] /\ topic \subseteq topic'
        BY Zenon, <1>2, <1>6, <2>1, <2>6
      <3> QED
        BY Zenon, <1>5, <2>6, <3>2, <3>3, OthersKeep
    <2> QED
      BY Zenon, <1>3, <2>3, <2>5, <2>6 DEF OutboxInv
  <1>7. CASE Finish(p) /\ UNCHANGED inserting
    <2>1. /\ phase' \in [Processes -> Phases]
          /\ task' \in [Processes -> Tasks]
          /\ Carries(p)' /\ Excludes(p)'
          /\ \A q \in Processes : q # p => phase'[q] = phase[q] /\ task'[q] = task[q]
      BY Zenon, <1>7, FinishTyped
    <2>2. OutboxTypes'
      BY Zenon, <1>2, <1>7, <2>1 DEF OutboxInv, OutboxTypes
    <2>3. ASSUME NEW q \in Processes, q # p PROVE Carries(q)' /\ Excludes(q)'
      <3>1. Excludes(q)
        BY Zenon, <2>3 DEF OutboxInv
      <3>2. phase[q] = "effect" => inserting'[task[q].event] = q /\ task[q].event \notin marker'
        BY Zenon, <3>1, <1>2, <1>7 DEF Excludes
      <3>3. phase'[q] = phase[q] /\ task'[q] = task[q] /\ topic \subseteq topic'
        BY Zenon, <1>2, <2>1, <2>3
      <3> QED
        BY Zenon, <1>5, <2>3, <3>2, <3>3, OthersKeep
    <2> QED
      BY Zenon, <1>3, <2>1, <2>2, <2>3 DEF OutboxInv
  <1> QED
    BY Zenon, <1>6, <1>7 DEF RecordConsumption

\* Committing the effect with its marker: no other consumer is about to have it.
LEMMA CommitKeeps ==
    ASSUME OutboxInv, NEW p \in Processes, CommitEffect(p)
    PROVE  OutboxInv'
  <1> DEFINE e == task[p].event
  <1>1. /\ e \in BusinessEvents /\ inserting[e] = p /\ e \notin marker
    <2>1. Carries(p) /\ Excludes(p)
      BY Zenon DEF OutboxInv
    <2> QED
      BY Zenon, <2>1 DEF CommitEffect, Carries, Excludes
  <1>2. entry' = entry /\ topic' = topic
    BY Zenon DEF CommitEffect, outbox
  <1>3. /\ inserting' = [inserting EXCEPT ![e] = Nothing]
        /\ marker' = marker \cup {e}
        /\ effects' = [effects EXCEPT ![e] = effects[e] + 1]
        /\ Finish(p)
    BY Zenon DEF CommitEffect
  <1> HIDE DEF e
  <1>4. EffectOnce'
    <2>1. \A f \in BusinessEvents : f # e => effects'[f] = effects[f] /\ (f \in marker' <=> f \in marker)
      BY Zenon, <1>1, <1>3 DEF OutboxInv, OutboxTypes
    <2>2. effects[e] = 0
      BY Zenon, <1>1 DEF OutboxInv, EffectOnce
    <2>3. effects'[e] = 1 /\ e \in marker'
      BY <1>1, <1>3, <2>2 DEF OutboxInv, OutboxTypes
    <2> QED
      BY Zenon, <2>1, <2>3 DEF OutboxInv, EffectOnce
  <1>5. MarkedIsSent'
    BY Zenon, <1>2 DEF OutboxInv, MarkedIsSent
  <1>6. /\ phase' \in [Processes -> Phases]
        /\ task' \in [Processes -> Tasks]
        /\ Carries(p)' /\ Excludes(p)'
        /\ \A q \in Processes : q # p => phase'[q] = phase[q] /\ task'[q] = task[q]
    BY Zenon, <1>3, FinishTyped
  <1>7. OutboxTypes'
    BY <1>1, <1>2, <1>3, <1>6 DEF OutboxInv, OutboxTypes
  <1>8. ASSUME NEW q \in Processes, q # p PROVE Carries(q)' /\ Excludes(q)'
    <2>1. Carries(q) /\ Excludes(q)
      BY Zenon, <1>8 DEF OutboxInv
    <2>2. ASSUME phase[q] = "effect"
          PROVE  inserting'[task[q].event] = q /\ task[q].event \notin marker'
      <3>1. /\ inserting[task[q].event] = q /\ task[q].event \notin marker
            /\ task[q].event \in BusinessEvents
        BY Zenon, <2>1, <2>2 DEF Carries, Excludes
      <3>2. task[q].event # e
        BY Zenon, <1>1, <1>8, <3>1
      <3> QED
        BY Zenon, <1>3, <3>1, <3>2 DEF OutboxInv, OutboxTypes
    <2>3. phase'[q] = phase[q] /\ task'[q] = task[q] /\ topic \subseteq topic'
      BY Zenon, <1>2, <1>6, <1>8
    <2>4. \A f \in BusinessEvents : entry[f] # Nothing => entry'[f] # Nothing
      BY Zenon, <1>2
    <2> QED
      BY Zenon, <1>8, <2>2, <2>3, <2>4, OthersKeep
  <1> QED
    BY Zenon, <1>4, <1>5, <1>6, <1>7, <1>8 DEF OutboxInv

\* A process dies: what it inserted and did not commit is gone.
LEMMA DeathKeeps ==
    ASSUME OutboxInv, NEW p \in Processes, ProcessDies(p)
    PROVE  OutboxInv'
  <1>1. entry' = entry /\ topic' = topic /\ marker' = marker /\ effects' = effects /\ Finish(p)
    BY Zenon DEF ProcessDies, outbox
  <1>2. inserting' = [e \in BusinessEvents |-> IF inserting[e] = p THEN Nothing ELSE inserting[e]]
    BY Zenon DEF ProcessDies
  <1>3. EffectOnce' /\ MarkedIsSent'
    BY Zenon, <1>1 DEF OutboxInv, EffectOnce, MarkedIsSent
  <1>4. /\ phase' \in [Processes -> Phases]
        /\ task' \in [Processes -> Tasks]
        /\ Carries(p)' /\ Excludes(p)'
        /\ \A q \in Processes : q # p => phase'[q] = phase[q] /\ task'[q] = task[q]
    BY Zenon, <1>1, FinishTyped
  <1>5. OutboxTypes'
    BY Zenon, <1>1, <1>2, <1>4 DEF OutboxInv, OutboxTypes
  <1>6. ASSUME NEW q \in Processes, q # p PROVE Carries(q)' /\ Excludes(q)'
    <2>1. Carries(q) /\ Excludes(q)
      BY Zenon, <1>6 DEF OutboxInv
    <2>2. ASSUME phase[q] = "effect"
          PROVE  inserting'[task[q].event] = q /\ task[q].event \notin marker'
      <3>1. /\ inserting[task[q].event] = q /\ task[q].event \notin marker
            /\ task[q].event \in BusinessEvents
        BY Zenon, <2>1, <2>2 DEF Carries, Excludes
      <3> QED
        BY Zenon, <1>1, <1>2, <1>6, <3>1
    <2>3. phase'[q] = phase[q] /\ task'[q] = task[q] /\ topic \subseteq topic'
      BY Zenon, <1>1, <1>4, <1>6
    <2>4. \A f \in BusinessEvents : entry[f] # Nothing => entry'[f] # Nothing
      BY Zenon, <1>1
    <2> QED
      BY Zenon, <1>6, <2>2, <2>3, <2>4, OthersKeep
  <1> QED
    BY Zenon, <1>3, <1>4, <1>5, <1>6 DEF OutboxInv

\* A step that changes nothing.
LEMMA OutboxStutter ==
    ASSUME OutboxInv, UNCHANGED outboxVars
    PROVE  OutboxInv'
  <1>1. /\ entry' = entry /\ topic' = topic /\ marker' = marker /\ effects' = effects
        /\ inserting' = inserting /\ phase' = phase /\ task' = task
    BY Zenon DEF outboxVars, outbox, consumption
  <1>2. OutboxTypes' /\ EffectOnce' /\ MarkedIsSent'
    BY Zenon, <1>1 DEF OutboxInv, OutboxTypes, EffectOnce, MarkedIsSent
  <1>3. ASSUME NEW q \in Processes PROVE Carries(q)' /\ Excludes(q)'
    <2>1. Carries(q) /\ Excludes(q)
      BY Zenon DEF OutboxInv
    <2> QED
      BY Zenon, <1>1, <2>1 DEF Carries, Excludes
  <1> QED
    BY Zenon, <1>2, <1>3 DEF OutboxInv

\* Every step keeps the invariant.
LEMMA OutboxStepKeeps ==
    ASSUME OutboxInv, [OutboxNext]_outboxVars
    PROVE  OutboxInv'
  <1>1. ASSUME NEW e \in BusinessEvents,
               AppendBusinessEvent(e) \/ DelayEnds(e) \/ PublisherExpires(e)
        PROVE  OutboxInv'
    BY Zenon, <1>1, OutboxTimeKeeps
  <1>2. ASSUME NEW e \in BusinessEvents, NEW p \in Publishers, ClaimEvent(p, e) PROVE OutboxInv'
    BY Zenon, <1>2, ClaimEventKeeps
  <1>3. ASSUME NEW e \in BusinessEvents, NEW c \in Consumers, ConsumeRead(c, e) PROVE OutboxInv'
    BY Zenon, <1>3, ReadKeeps
  <1>4. ASSUME NEW p \in Processes, OutboxStep(p) \/ ProcessDies(p) PROVE OutboxInv'
    BY Zenon, <1>4, PublishKeeps, RecordPublishKeeps, InsertMarkerKeeps, CommitKeeps, DeathKeeps
       DEF OutboxStep
  <1>5. CASE UNCHANGED outboxVars
    BY Zenon, <1>5, OutboxStutter
  <1> QED
    BY Zenon, <1>1, <1>2, <1>3, <1>4, <1>5 DEF OutboxNext

\* For any number of events, publishers and consumers the invariant of the
\* outbox always holds: a row says published only if the broker has the event,
\* an acknowledged publisher knows that it has, and one consumer at a time holds
\* the marker of an event that was not consumed (publish_one, record_consumption).
THEOREM OutboxInvariance == OutboxSpec => []OutboxInv
  BY OutboxStarts, OutboxStepKeeps, PTL DEF OutboxSpec

\* A mark of publication stands, and is only set on an event the broker has.
LEMMA MarkStands ==
    ASSUME OutboxInv, [OutboxNext]_outboxVars, NEW e \in BusinessEvents, entry[e] # Nothing
    PROVE  /\ entry[e].published => entry'[e].published
           /\ entry'[e].published => e \in topic
  <1>1. CASE entry' = entry
    BY Zenon, <1>1 DEF OutboxInv, MarkedIsSent
  <1>2. ASSUME NEW f \in BusinessEvents, NEW a \in BOOLEAN, NEW h \in Publishers \cup {Nothing},
               NEW x \in BOOLEAN, NEW d \in BOOLEAN,
               entry' = [entry EXCEPT ![f] = Entry(a, h, x, d)],
               f = e => (entry[e].published => a) /\ (a => e \in topic)
        PROVE  /\ entry[e].published => entry'[e].published
               /\ entry'[e].published => e \in topic
    <2>1. CASE f = e
      <3>1. entry'[e] = Entry(a, h, x, d)
        BY Zenon, <1>2, <2>1 DEF OutboxInv, OutboxTypes
      <3>2. entry'[e].published = a
        BY <3>1, EntryIs
      <3> QED
        BY Zenon, <1>2, <2>1, <3>2
    <2>2. CASE f # e
      <3>1. entry'[e] = entry[e]
        BY Zenon, <1>2, <2>2 DEF OutboxInv, OutboxTypes
      <3> QED
        BY Zenon, <3>1 DEF OutboxInv, MarkedIsSent
    <2> QED
      BY Zenon, <2>1, <2>2
  <1>3. ASSUME NEW f \in BusinessEvents, entry[f] # Nothing
        PROVE  /\ entry[f].published \in BOOLEAN /\ entry[f].holder \in Publishers \cup {Nothing}
               /\ entry[f].expired \in BOOLEAN /\ entry[f].due \in BOOLEAN
               /\ entry[f].published => f \in topic
    BY Zenon, <1>3, RowOf DEF OutboxInv, MarkedIsSent
  <1>4. ASSUME NEW f \in BusinessEvents, AppendBusinessEvent(f)
        PROVE  /\ entry[e].published => entry'[e].published
               /\ entry'[e].published => e \in topic
    <2>1. f # e /\ entry' = [entry EXCEPT ![f] = Entry(FALSE, Nothing, FALSE, TRUE)]
      BY Zenon, <1>4 DEF AppendBusinessEvent
    <2> QED
      BY Zenon, <1>2, <2>1
  <1>5. ASSUME NEW f \in BusinessEvents, DelayEnds(f)
        PROVE  /\ entry[e].published => entry'[e].published
               /\ entry'[e].published => e \in topic
    <2>1. /\ entry[f] # Nothing
          /\ entry' = [entry EXCEPT ![f] = Entry(entry[f].published, entry[f].holder, entry[f].expired, TRUE)]
      BY Zenon, <1>5 DEF DelayEnds
    <2> QED
      BY Zenon, <1>2, <1>3, <2>1
  <1>6. ASSUME NEW f \in BusinessEvents, PublisherExpires(f)
        PROVE  /\ entry[e].published => entry'[e].published
               /\ entry'[e].published => e \in topic
    <2>1. /\ entry[f] # Nothing
          /\ entry' = [entry EXCEPT ![f] = Entry(entry[f].published, entry[f].holder, TRUE, entry[f].due)]
      BY Zenon, <1>6 DEF PublisherExpires
    <2> QED
      BY Zenon, <1>2, <1>3, <2>1
  <1>7. ASSUME NEW f \in BusinessEvents, NEW p \in Publishers, ClaimEvent(p, f)
        PROVE  /\ entry[e].published => entry'[e].published
               /\ entry'[e].published => e \in topic
    <2>1. /\ entry[f] # Nothing
          /\ entry' = [entry EXCEPT ![f] = Entry(entry[f].published, p, FALSE, entry[f].due)]
      BY Zenon, <1>7 DEF ClaimEvent
    <2> QED
      BY Zenon, <1>2, <1>3, <2>1
  <1>8. ASSUME NEW p \in Processes, RecordPublish(p)
        PROVE  /\ entry[e].published => entry'[e].published
               /\ entry'[e].published => e \in topic
    <2>1. Carries(p) /\ task[p].acked \in BOOLEAN
      BY Zenon, TaskOf DEF OutboxInv
    <2>2. PICK f \in BusinessEvents : f = task[p].event
      BY Zenon, <1>8, <2>1 DEF RecordPublish, Carries
    <2>3. entry[f] # Nothing /\ (task[p].acked => f \in topic)
      BY Zenon, <1>8, <2>1, <2>2 DEF RecordPublish, Carries
    <2>4. CASE entry' = [entry EXCEPT ![f] = Recorded(entry[f], task[p].acked)]
      <3>1. PICK a \in BOOLEAN, d \in BOOLEAN :
               /\ entry[f].published => a
               /\ a => f \in topic
               /\ Recorded(entry[f], task[p].acked) = Entry(a, Nothing, FALSE, d)
        BY Zenon, <1>3, <2>1, <2>3 DEF Recorded
      <3>2. entry' = [entry EXCEPT ![f] = Entry(a, Nothing, FALSE, d)]
        BY Zenon, <2>4, <3>1
      <3> QED
        BY Zenon, <1>2, <3>1, <3>2
    <2> QED
      BY Zenon, <1>1, <1>8, <2>2, <2>4 DEF RecordPublish
  <1>9. CASE UNCHANGED outboxVars
    BY Zenon, <1>1, <1>9 DEF outboxVars, outbox
  <1>10. ASSUME NEW p \in Processes, OutboxStep(p) \/ ProcessDies(p)
         PROVE  entry' = entry \/ RecordPublish(p)
    BY Zenon, <1>10 DEF OutboxStep, Publish, CheckLease, RecordConsumption, CommitEffect, ProcessDies, outbox
  <1>11. ASSUME NEW f \in BusinessEvents, NEW p \in Consumers, ConsumeRead(p, f) PROVE entry' = entry
    BY Zenon, <1>11 DEF ConsumeRead, outbox
  <1> QED
    BY Zenon, <1>1, <1>4, <1>5, <1>6, <1>7, <1>8, <1>9, <1>10, <1>11 DEF OutboxNext

\* OutboxPromise for any number of events, publishers and consumers, and any
\* number of crashes, stalls and broker failures: an event counts as published
\* only once the broker has it and that mark stands, and its effect happens once
\* however often it is delivered (publish_one, record_consumption).
THEOREM OutboxPromiseTheorem == OutboxSpec => OutboxPromise
  <1>1. OutboxInv => EffectOnce /\ MarkedIsSent
    BY Zenon DEF OutboxInv
  <1>2. OutboxInv /\ [OutboxNext]_outboxVars =>
           [\A e \in BusinessEvents : entry[e] # Nothing =>
               /\ entry[e].published => entry'[e].published
               /\ entry'[e].published => e \in topic]_outboxVars
    BY Zenon, MarkStands
  <1> QED
    BY <1>1, <1>2, OutboxInvariance, PTL DEF OutboxSpec, OutboxPromise, PublishedWasSent

==============================================================================
