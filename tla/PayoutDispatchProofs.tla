------------------------ MODULE PayoutDispatchProofs ------------------------
(***************************************************************************)
(* For every set of payouts and workers and every bound: an attempt is     *)
(* sent once, the reservation and the journal follow the bank, success     *)
(* stands; and, under the delay bounds, a payout is paid at most once and  *)
(* keeps PayoutContract.  First come the inductive invariant and what each *)
(* action does to a payout, then that every step keeps each conjunct, then *)
(* the theorems.                                                           *)
(***************************************************************************)
EXTENDS PayoutDispatch, TLAPS

-----------------------------------------------------------------------------
(* Counting a set of at most one element.                                  *)

\* h counts the subsets of S, one chosen element at a time.
Counts(S, h) ==
    h = [T \in SUBSET S |-> IF T = {} THEN 0 ELSE 1 + h[T \ {CHOOSE x : x \in T}]]

\* The library counts by a function on the subsets of S, chosen to satisfy Counts.
LEMMA CountUnfolds ==
  ASSUME NEW S PROVE Cardinality(S) = (CHOOSE h : Counts(S, h))[S]
  BY Zenon DEF Cardinality, Counts

\* There is such a function when S has at most one element, and it counts S.
LEMMA CountSmall ==
  ASSUME NEW S, \A x, y \in S : x = y
  PROVE  Cardinality(S) = IF S = {} THEN 0 ELSE 1
  <1> DEFINE f == [T \in SUBSET S |-> IF T = {} THEN 0 ELSE 1]
             h == CHOOSE g : Counts(S, g)
  <1>1. \A T \in SUBSET S : T # {} => T \ {CHOOSE x : x \in T} = {}
    <2> SUFFICES ASSUME NEW T \in SUBSET S, T # {} PROVE T \ {CHOOSE x : x \in T} = {}
      BY Zenon
    <2>1. (CHOOSE x : x \in T) \in T
      BY Zenon
    <2> QED BY Zenon, <2>1
  <1>2. Counts(S, f)
    <2>1. {} \in SUBSET S
      BY Zenon
    <2>2. \A T \in SUBSET S : f[T] = IF T = {} THEN 0 ELSE 1 + f[T \ {CHOOSE x : x \in T}]
      BY <1>1, <2>1
    <2>3. f = [T \in SUBSET S |-> f[T]]
      BY Zenon
    <2> HIDE DEF f
    <2> QED BY Zenon, <2>2, <2>3 DEF Counts
  <1>3. Counts(S, h)
    <2> HIDE DEF f
    <2> QED BY Zenon, <1>2
  <1> HIDE DEF h
  <1>4. h[{}] = 0
    BY Zenon, <1>3 DEF Counts
  <1>5. S # {} => h[S] = 1 + h[{}]
    BY Zenon, <1>1, <1>3 DEF Counts
  <1>6. Cardinality(S) = h[S]
    BY Zenon, CountUnfolds DEF h
  <1> QED BY <1>4, <1>5, <1>6

-----------------------------------------------------------------------------
(* Names for the invariant.                                                *)

Numbers == 1..MaxAttempts
AttemptKeys == Payouts \X Numbers
Working == {"send", "await", "lookup", "record"}

-----------------------------------------------------------------------------
(* The inductive invariant.                                                *)

Types ==
    /\ payout \in [Payouts -> PayoutStatus]
    /\ attempts \in [Payouts -> Seq(Attempt)]
    /\ \A p \in Payouts : Len(attempts[p]) \in Numbers
    /\ reserved \in [Payouts -> Int]
    /\ posted \in [Payouts -> Nat]
    /\ effect \in [AttemptKeys -> Outcome \cup {None}]
    /\ sends \in [AttemptKeys -> Nat]
    /\ wire \subseteq AttemptKeys
    /\ pc \in [Workers -> Pc]
    /\ todo \in [Workers -> Seq(Payouts)]
    /\ attempt \in [Workers -> [payout : Payouts, n : Numbers] \cup {None}]
    /\ seen \in [Workers -> Observation \cup {None}]
    /\ age \in [Workers -> Nat]

\* A worker at the bank works on an attempt whose send is recorded.
Jobs ==
    \A w \in Workers : pc[w] \in Working =>
        /\ attempt[w] \in [payout : Payouts, n : Numbers]
        /\ attempt[w].n <= Len(attempts[attempt[w].payout])
        /\ attempts[attempt[w].payout][attempt[w].n].sentAge # None
        /\ pc[w] = "record" => seen[w] \in Observation

\* One worker sends an attempt, once, and the bank has an effect for what was
\* sent only.
Sends ==
    /\ \A p \in Payouts, n \in Numbers :
          /\ sends[<<p, n>>] <= 1
          /\ sends[<<p, n>>] = 1 =>
                n <= Len(attempts[p]) /\ attempts[p][n].sentAge # None
          /\ sends[<<p, n>>] = 0 => effect[<<p, n>>] = None /\ <<p, n>> \notin wire
          /\ <<p, n>> \in wire => effect[<<p, n>>] = None
    /\ \A w \in Workers : pc[w] = "send" => sends[Key(w)] = 0
    /\ \A v, w \in Workers : pc[v] = "send" /\ pc[w] = "send" /\ Key(v) = Key(w) => v = w

\* What a worker saw of the bank is still so.
Seen ==
    \A w \in Workers : pc[w] = "record" /\ seen[w] \in Outcome => effect[Key(w)] = seen[w]

\* Under the delay bounds: a send that may still arrive is recent; a not-found
\* that a worker is about to record was seen when any later effect was still on
\* its way; and what failed has not paid and never will.
Timed ==
    Timely =>
        /\ \A p \in Payouts, n \in Numbers : SendPending(<<p, n>>) =>
              attempts[p][n].sentAge <= SendDelay
        /\ \A w \in Workers : pc[w] = "record" => age[w] <= LookupDelay
        /\ \A w \in Workers :
              pc[w] = "record" /\ seen[w] = "NOT_FOUND"
                /\ (effect[Key(w)] # None \/ SendPending(Key(w))) =>
              attempts[attempt[w].payout][attempt[w].n].sentAge <= SendDelay + age[w]
        /\ \A p \in Payouts : \A n \in 1..Len(attempts[p]) : attempts[p][n].status = "FAILED" =>
              effect[<<p, n>>] \in {None, "DECLINED"} /\ ~SendPending(<<p, n>>)

PInv == Types /\ Jobs /\ Sends /\ Seen /\ LedgerFollowsBank /\ EndTogether /\ Timed

-----------------------------------------------------------------------------
(* What the transactions do to the rows.                                   *)

\* A count that is at most one and not zero is one.
LEMMA CountOne == \A c \in Nat : c <= 1 /\ c # 0 => c = 1
OBVIOUS

\* A number that is at most another and not smaller is the other.
LEMMA Squeezed == \A m, n \in Nat : n <= m /\ ~(n < m) => n = m
OBVIOUS

\* An attempt is known by its payout and its number.
LEMMA KeyParts ==
    ASSUME NEW k \in AttemptKeys
    PROVE  \E p \in Payouts, n \in Numbers : k = <<p, n>>
BY DEF AttemptKeys

\* A payout has a natural number of attempts.
LEMMA LengthIsNat ==
    ASSUME Types, NEW p \in Payouts
    PROVE  Len(attempts[p]) \in Nat
BY ConstantsAssumption DEF Types, Numbers

\* A row written into the attempts of a payout replaces the one row.
LEMMA WriteRow ==
    ASSUME NEW s \in Seq(Attempt), NEW n \in 1..Len(s), NEW a \in Attempt
    PROVE  /\ [s EXCEPT ![n] = a] \in Seq(Attempt)
           /\ Len([s EXCEPT ![n] = a]) = Len(s)
           /\ [s EXCEPT ![n] = a][n] = a
           /\ \A m \in 1..Len(s) : m # n => [s EXCEPT ![n] = a][m] = s[m]
OBVIOUS

\* An attempt starts without a recorded send.
LEMMA NewAttemptRow ==
    /\ NewAttempt \in Attempt
    /\ NewAttempt.status = "PREPARED"
    /\ NewAttempt.sentAge = None
BY ConstantsAssumption DEF NewAttempt, Attempt, AttemptStatus

\* A row of a payout.
LEMMA RowType ==
    ASSUME Types, NEW p \in Payouts, NEW n \in 1..Len(attempts[p])
    PROVE  /\ attempts[p] \in Seq(Attempt) /\ Len(attempts[p]) \in Nat /\ n \in Numbers
           /\ attempts[p][n] \in Attempt
           /\ attempts[p][n].status \in AttemptStatus
           /\ attempts[p][n].sentAge \in (0..NotFoundGrace) \cup {None}
           /\ attempts[p][n].lease \in 0..SentLease
<1>1. attempts[p] \in Seq(Attempt) /\ Len(attempts[p]) \in Numbers
  BY Zenon DEF Types
<1>2. MaxAttempts \in Nat
  BY Zenon, ConstantsAssumption
<1>3. attempts[p][n] \in Attempt
  BY <1>1
<1>4. Len(attempts[p]) \in Nat /\ n \in Numbers
  BY <1>1, <1>2 DEF Numbers
<1> QED
  BY Zenon, <1>1, <1>3, <1>4 DEF Attempt

\* What CreateRetry does: one more attempt for a payout that failed.
LEMMA CreateRetryEffect ==
    ASSUME Types, NEW p \in Payouts, CreateRetry(p)
    PROVE  /\ payout[p] = "FAILED"
           /\ attempts' \in [Payouts -> Seq(Attempt)]
           /\ Len(attempts'[p]) = Len(attempts[p]) + 1
           /\ Len(attempts'[p]) \in Numbers
           /\ \A n \in 1..Len(attempts[p]) : attempts'[p][n] = attempts[p][n]
           /\ attempts'[p][Len(attempts[p]) + 1].status = "PREPARED"
           /\ attempts'[p][Len(attempts[p]) + 1].sentAge = None
           /\ \A q \in Payouts : q # p => /\ attempts'[q] = attempts[q]
                                        /\ payout'[q] = payout[q]
                                        /\ reserved'[q] = reserved[q]
           /\ payout' = [payout EXCEPT ![p] = "PROCESSING"]
           /\ reserved' = [reserved EXCEPT ![p] = @ + 1]
           /\ UNCHANGED <<posted, effect, wire, sends, pc, todo, attempt, seen, age>>
<1>1. attempts \in [Payouts -> Seq(Attempt)] /\ Len(attempts[p]) \in Numbers
  BY Zenon DEF Types
<1>2. /\ attempts' = [attempts EXCEPT ![p] = Append(attempts[p], NewAttempt)]
      /\ Len(attempts[p]) < MaxAttempts
      /\ payout[p] = "FAILED"
      /\ payout' = [payout EXCEPT ![p] = "PROCESSING"]
      /\ reserved' = [reserved EXCEPT ![p] = @ + 1]
      /\ UNCHANGED <<posted, effect, wire, sends, pc, todo, attempt, seen, age>>
  BY Zenon DEF CreateRetry, RetryAllowed, bankVars, workerVars
<1>3. MaxAttempts \in Nat
  BY Zenon, ConstantsAssumption
<1>4. attempts[p] \in Seq(Attempt) /\ Append(attempts[p], NewAttempt) \in Seq(Attempt)
  BY <1>1, NewAttemptRow
<1>5. attempts'[p] = Append(attempts[p], NewAttempt) /\ attempts' \in [Payouts -> Seq(Attempt)]
  BY Zenon, <1>1, <1>2, <1>4
<1>6. /\ Len(attempts'[p]) = Len(attempts[p]) + 1
      /\ \A n \in 1..Len(attempts[p]) : attempts'[p][n] = attempts[p][n]
      /\ attempts'[p][Len(attempts[p]) + 1] = NewAttempt
  BY <1>4, <1>5
<1>7. Len(attempts'[p]) \in Numbers
  BY <1>1, <1>2, <1>3, <1>6 DEF Numbers
<1>8. \A q \in Payouts : q # p => payout'[q] = payout[q] /\ reserved'[q] = reserved[q]
  BY Zenon, <1>2 DEF Types
<1> QED
  BY Zenon, <1>1, <1>2, <1>5, <1>6, <1>7, <1>8, NewAttemptRow

\* What a claim does: it moves leases, nothing else of the rows.
LEMMA ClaimEffect ==
    ASSUME Types, NEW w \in Workers, ClaimStaleSent(w)
    PROVE  /\ attempts' \in [Payouts -> Seq(Attempt)]
           /\ todo' \in [Workers -> Seq(Payouts)]
           /\ \A p \in Payouts :
                 /\ Len(attempts'[p]) = Len(attempts[p])
                 /\ \A n \in 1..Len(attempts[p]) :
                       /\ attempts'[p][n].status = attempts[p][n].status
                       /\ attempts'[p][n].sentAge = attempts[p][n].sentAge
           /\ pc[w] = "claim" /\ pc' = [pc EXCEPT ![w] = "next"]
           /\ UNCHANGED <<payout, reserved, posted, effect, wire, sends, attempt, seen, age>>
<1>0. PICK n \in 0..Limit : \E s \in [1..n -> Payouts] :
          /\ todo' = [todo EXCEPT ![w] = @ \o s]
          /\ attempts' = [p \in Payouts |->
                IF \E i \in 1..n : s[i] = p
                THEN [attempts[p] EXCEPT ![Len(attempts[p])].lease = SentLease]
                ELSE attempts[p]]
  BY Zenon DEF ClaimStaleSent
<1>1. PICK s \in [1..n -> Payouts] :
          /\ todo' = [todo EXCEPT ![w] = @ \o s]
          /\ attempts' = [p \in Payouts |->
                IF \E i \in 1..n : s[i] = p
                THEN [attempts[p] EXCEPT ![Len(attempts[p])].lease = SentLease]
                ELSE attempts[p]]
  BY Zenon, <1>0
<1>2. ASSUME NEW p \in Payouts
      PROVE  /\ attempts'[p] \in Seq(Attempt)
             /\ Len(attempts'[p]) = Len(attempts[p])
             /\ \A m \in 1..Len(attempts[p]) :
                   /\ attempts'[p][m].status = attempts[p][m].status
                   /\ attempts'[p][m].sentAge = attempts[p][m].sentAge
  <2>1. Len(attempts[p]) \in 1..Len(attempts[p])
    BY DEF Types, Numbers
  <2> DEFINE l == Len(attempts[p])
             a == [attempts[p][l] EXCEPT !.lease = SentLease]
  <2>2. attempts[p] \in Seq(Attempt) /\ attempts[p][l] \in Attempt
    BY Zenon, <2>1, RowType
  <2>3. a \in Attempt /\ a.status = attempts[p][l].status /\ a.sentAge = attempts[p][l].sentAge
    <3>1. SentLease \in 0..SentLease
      BY ConstantsAssumption
    <3> QED
      BY Zenon, <2>2, <3>1 DEF Attempt
  <2>4. attempts'[p] \in {attempts[p], [attempts[p] EXCEPT ![l] = a]}
    BY Zenon, <1>1
  <2> HIDE DEF a
  <2>5. CASE attempts'[p] = [attempts[p] EXCEPT ![l] = a]
    BY <2>1, <2>2, <2>3, <2>5, WriteRow
  <2> QED
    BY Zenon, <2>2, <2>4, <2>5
<1>3. attempts' \in [Payouts -> Seq(Attempt)]
  BY Zenon, <1>1, <1>2
<1>4. todo' \in [Workers -> Seq(Payouts)]
  <2>1. s \in Seq(Payouts)
    BY ConstantsAssumption
  <2>2. todo[w] \in Seq(Payouts) /\ todo \in [Workers -> Seq(Payouts)]
    BY Zenon DEF Types
  <2>3. todo[w] \o s \in Seq(Payouts)
    BY <2>1, <2>2
  <2> QED
    BY Zenon, <1>1, <2>2, <2>3
<1> QED
  BY Zenon, <1>2, <1>3, <1>4 DEF ClaimStaleSent, Goto, bankVars

\* What PrepareAttemptSend does to the latest attempt of a payout: it is to be
\* looked up, or its send is recorded.
ToLookUp(w, p) ==
    /\ attempts[p][Len(attempts[p])].sentAge # None
    /\ attempt' = [attempt EXCEPT ![w] = [payout |-> p, n |-> Len(attempts[p])]]
    /\ pc' = [pc EXCEPT ![w] = "lookup"]
    /\ UNCHANGED attempts

ToSend(w, p) ==
    /\ attempts[p][Len(attempts[p])].status \notin Ends
    /\ attempts[p][Len(attempts[p])].sentAge = None
    /\ attempt' = [attempt EXCEPT ![w] = [payout |-> p, n |-> Len(attempts[p])]]
    /\ pc' = [pc EXCEPT ![w] = "send"]
    /\ attempts' \in [Payouts -> Seq(Attempt)]
    /\ \A q \in Payouts : q # p => attempts'[q] = attempts[q]
    /\ Len(attempts'[p]) = Len(attempts[p])
    /\ attempts'[p][Len(attempts[p])].status = "SENT"
    /\ attempts'[p][Len(attempts[p])].sentAge = 0
    /\ \A n \in 1..Len(attempts[p]) : n # Len(attempts[p]) => attempts'[p][n] = attempts[p][n]

\* PrepareAttemptSend does one of these, or passes over a finished attempt.
LEMMA PrepareEffect ==
    ASSUME Types, NEW w \in Workers, PrepareAttemptSend(w)
    PROVE  /\ pc[w] = "next"
           /\ todo' \in [Workers -> Seq(Payouts)]
           /\ UNCHANGED <<payout, reserved, posted, effect, wire, sends, seen, age>>
           /\ \/ UNCHANGED <<attempts, pc, attempt>>
              \/ \E p \in Payouts : ToLookUp(w, p)
              \/ \E p \in Payouts : ToSend(w, p)
<1> DEFINE p == Head(todo[w])
           l == Len(attempts[p])
           a == attempts[p][l]
<1>1. todo[w] \in Seq(Payouts) /\ todo[w] # <<>> /\ todo \in [Workers -> Seq(Payouts)]
  BY Zenon DEF Types, PrepareAttemptSend
<1>2. p \in Payouts /\ Tail(todo[w]) \in Seq(Payouts)
  BY <1>1
<1>3. /\ pc[w] = "next"
      /\ todo' \in [Workers -> Seq(Payouts)]
      /\ UNCHANGED <<payout, reserved, posted, effect, wire, sends, seen, age>>
  BY Zenon, <1>1, <1>2 DEF PrepareAttemptSend, bankVars
<1>4. \/ UNCHANGED <<attempts, pc, attempt>>
      \/ /\ a.sentAge # None
         /\ attempt' = [attempt EXCEPT ![w] = [payout |-> p, n |-> l]]
         /\ pc' = [pc EXCEPT ![w] = "lookup"]
         /\ UNCHANGED attempts
      \/ /\ a.status \notin Ends
         /\ a.sentAge = None
         /\ attempt' = [attempt EXCEPT ![w] = [payout |-> p, n |-> l]]
         /\ pc' = [pc EXCEPT ![w] = "send"]
         /\ attempts' = [attempts EXCEPT ![p][l] =
                [@ EXCEPT !.status = "SENT", !.sentAge = 0, !.lease = SentLease]]
  BY Zenon DEF PrepareAttemptSend, LookupOnly, Latest, Goto
<1> HIDE DEF p
<1>5. l \in 1..l /\ attempts[p] \in Seq(Attempt) /\ a \in Attempt /\ attempts \in [Payouts -> Seq(Attempt)]
  <2>1. l \in 1..l
    BY <1>2 DEF Types, Numbers
  <2> QED
    BY Zenon, <1>2, <2>1, RowType DEF Types
<1> DEFINE b == [a EXCEPT !.status = "SENT", !.sentAge = 0, !.lease = SentLease]
<1>6. b \in Attempt /\ b.status = "SENT" /\ b.sentAge = 0
  <2>1. SentLease \in 0..SentLease /\ 0 \in 0..NotFoundGrace
    BY ConstantsAssumption
  <2> QED
    BY Zenon, <1>5, <2>1 DEF Attempt, AttemptStatus
<1>7. ASSUME attempts' = [attempts EXCEPT ![p][l] =
                [@ EXCEPT !.status = "SENT", !.sentAge = 0, !.lease = SentLease]]
      PROVE  /\ attempts' \in [Payouts -> Seq(Attempt)]
             /\ \A q \in Payouts : q # p => attempts'[q] = attempts[q]
             /\ Len(attempts'[p]) = l
             /\ attempts'[p][l] = b
             /\ \A n \in 1..l : n # l => attempts'[p][n] = attempts[p][n]
  <2>1. attempts' = [attempts EXCEPT ![p] = [attempts[p] EXCEPT ![l] = b]]
    BY Zenon, <1>7
  <2> HIDE DEF b
  <2>2. attempts'[p] = [attempts[p] EXCEPT ![l] = b]
    BY Zenon, <1>2, <1>5, <2>1
  <2>3. \A q \in Payouts : q # p => attempts'[q] = attempts[q]
    BY Zenon, <1>2, <1>5, <2>1
  <2>4. [attempts[p] EXCEPT ![l] = b] \in Seq(Attempt)
    BY Zenon, <1>5, <1>6, WriteRow
  <2> QED
    BY <1>2, <1>5, <1>6, <2>1, <2>2, <2>3, <2>4, WriteRow
<1> QED
  BY Zenon, <1>2, <1>3, <1>4, <1>6, <1>7 DEF ToLookUp, ToSend

\* The attempt a worker at the bank works on.
LEMMA JobType ==
    ASSUME Types, Jobs, NEW w \in Workers, pc[w] \in Working
    PROVE  /\ attempt[w].payout \in Payouts
           /\ attempt[w].n \in 1..Len(attempts[attempt[w].payout])
           /\ attempt[w].n \in Numbers
           /\ Key(w) = <<attempt[w].payout, attempt[w].n>>
           /\ attempts[attempt[w].payout][attempt[w].n].sentAge \in 0..NotFoundGrace
<1>1. attempt[w] \in [payout : Payouts, n : Numbers]
  BY Zenon DEF Types, Jobs
<1>2. attempt[w].payout \in Payouts /\ attempt[w].n \in Numbers
  BY Zenon, <1>1
<1>3. attempt[w].n <= Len(attempts[attempt[w].payout])
  BY Zenon DEF Jobs
<1>4. Len(attempts[attempt[w].payout]) \in Numbers /\ MaxAttempts \in Nat
  BY Zenon, <1>2, ConstantsAssumption DEF Types
<1>5. attempt[w].n \in 1..Len(attempts[attempt[w].payout])
  BY <1>2, <1>3, <1>4 DEF Numbers
<1>6. attempts[attempt[w].payout][attempt[w].n].sentAge \in 0..NotFoundGrace
  BY Zenon, <1>2, <1>5, RowType DEF Jobs
<1> QED
  BY Zenon, <1>2, <1>5, <1>6 DEF Key

\* What recording an observation of attempt n of payout p does: nothing to a
\* terminal attempt; else the attempt becomes ambiguous, or ends with its payout.
Recorded(w, p, n) ==
    /\ pc[w] = "record" /\ pc' = [pc EXCEPT ![w] = "next"]
    /\ attempt' = [attempt EXCEPT ![w] = None]
    /\ seen' = [seen EXCEPT ![w] = None]
    /\ age' = [age EXCEPT ![w] = 0]
    /\ UNCHANGED <<effect, wire, sends, todo>>
    /\ \/ UNCHANGED <<payout, attempts, reserved, posted>>
       \/ \E status \in {"AMBIGUOUS", "SUCCEEDED", "FAILED"} :
            /\ attempts[p][n].status \notin Ends
            /\ attempts' \in [Payouts -> Seq(Attempt)]
            /\ \A q \in Payouts : q # p => attempts'[q] = attempts[q]
            /\ Len(attempts'[p]) = Len(attempts[p])
            /\ attempts'[p][n].status = status
            /\ attempts'[p][n].sentAge = attempts[p][n].sentAge
            /\ \A m \in 1..Len(attempts[p]) : m # n => attempts'[p][m] = attempts[p][m]
            /\ IF status = "AMBIGUOUS"
               THEN /\ payout' = [payout EXCEPT ![p] = "REQUIRES_REVIEW"]
                    /\ UNCHANGED <<reserved, posted>>
               ELSE /\ payout' = [payout EXCEPT ![p] = status]
                    /\ reserved' = [reserved EXCEPT ![p] = @ - 1]
                    /\ posted' = [posted EXCEPT ![p] =
                                    IF status = "SUCCEEDED" THEN @ + 1 ELSE @]
            /\ status = "SUCCEEDED" => seen[w] = "SUCCEEDED"
            /\ status = "FAILED" =>
                 \/ seen[w] = "DECLINED"
                 \/ seen[w] = "NOT_FOUND" /\ attempts[p][n].sentAge >= NotFoundGrace

\* RecordBankObservation does that to the attempt of its worker.
LEMMA RecordEffect ==
    ASSUME Types, Jobs, NEW w \in Workers, RecordBankObservation(w)
    PROVE  Recorded(w, attempt[w].payout, attempt[w].n)
<1> SUFFICES ASSUME NEW p, NEW n, p = attempt[w].payout, n = attempt[w].n
             PROVE  Recorded(w, p, n)
  BY Zenon
<1> DEFINE a == attempts[p][n]
           class == Classify(seen[w], a)
<1>1. /\ pc[w] = "record" /\ pc' = [pc EXCEPT ![w] = "next"]
      /\ attempt' = [attempt EXCEPT ![w] = None]
      /\ seen' = [seen EXCEPT ![w] = None]
      /\ age' = [age EXCEPT ![w] = 0]
      /\ UNCHANGED <<effect, wire, sends, todo>>
  BY Zenon DEF RecordBankObservation, Goto, bankVars
<1>2. \/ UNCHANGED rowVars
      \/ a.status \notin Ends /\ class = "AMBIGUOUS" /\ MarkAmbiguous(p, n, seen[w])
      \/ a.status \notin Ends /\ class # "AMBIGUOUS" /\ Settle(p, n, class)
  BY Zenon DEF RecordBankObservation, Ignored
<1>3. p \in Payouts /\ n \in 1..Len(attempts[p]) /\ seen[w] \in Observation
  BY Zenon, <1>1, JobType DEF Working, Types, Jobs
<1>4. a \in Attempt /\ attempts[p] \in Seq(Attempt) /\ attempts \in [Payouts -> Seq(Attempt)]
  BY Zenon, <1>3, RowType DEF Types
<1>5. SentLease \in 0..SentLease
  BY ConstantsAssumption
<1>6. ASSUME NEW b \in Attempt, attempts' = [attempts EXCEPT ![p] = [attempts[p] EXCEPT ![n] = b]]
      PROVE  /\ attempts' \in [Payouts -> Seq(Attempt)]
             /\ \A q \in Payouts : q # p => attempts'[q] = attempts[q]
             /\ Len(attempts'[p]) = Len(attempts[p])
             /\ attempts'[p][n] = b
             /\ \A m \in 1..Len(attempts[p]) : m # n => attempts'[p][m] = attempts[p][m]
  <2>1. attempts'[p] = [attempts[p] EXCEPT ![n] = b]
    BY Zenon, <1>3, <1>4, <1>6
  <2>2. \A q \in Payouts : q # p => attempts'[q] = attempts[q]
    BY Zenon, <1>3, <1>4, <1>6
  <2>3. [attempts[p] EXCEPT ![n] = b] \in Seq(Attempt)
    BY Zenon, <1>3, <1>4, WriteRow
  <2> QED
    BY <1>3, <1>4, <1>6, <2>1, <2>2, <2>3, WriteRow
<1>7. CASE a.status \notin Ends /\ class = "AMBIGUOUS" /\ MarkAmbiguous(p, n, seen[w])
  <2>1. seen[w] \in {"NOT_FOUND", "PENDING", "ERROR"}
    BY Zenon, <1>3, <1>7 DEF Classify, Observation, Outcome
  <2> DEFINE c == [a EXCEPT !.status = "AMBIGUOUS", !.reason = seen[w]]
             d == [c EXCEPT !.lease = SentLease]
  <2>2. c \in Attempt /\ c.status = "AMBIGUOUS" /\ c.sentAge = a.sentAge
    BY Zenon, <1>4, <2>1 DEF Attempt, AttemptStatus
  <2>3. d \in Attempt /\ d.status = "AMBIGUOUS" /\ d.sentAge = a.sentAge
    <3> HIDE DEF c
    <3> QED
      BY Zenon, <1>5, <2>2 DEF Attempt
  <2>4. \E b \in {c, d} : attempts' = [attempts EXCEPT ![p] = [attempts[p] EXCEPT ![n] = b]]
    BY Zenon, <1>7 DEF MarkAmbiguous
  <2>5. /\ payout' = [payout EXCEPT ![p] = "REQUIRES_REVIEW"]
        /\ UNCHANGED <<reserved, posted>>
    BY Zenon, <1>7 DEF MarkAmbiguous
  <2> HIDE DEF c, d
  <2>6. PICK b \in {c, d} : attempts' = [attempts EXCEPT ![p] = [attempts[p] EXCEPT ![n] = b]]
    BY Zenon, <2>4
  <2>7. b \in Attempt /\ b.status = "AMBIGUOUS" /\ b.sentAge = a.sentAge
    BY Zenon, <2>2, <2>3
  <2>8. /\ attempts' \in [Payouts -> Seq(Attempt)]
        /\ \A q \in Payouts : q # p => attempts'[q] = attempts[q]
        /\ Len(attempts'[p]) = Len(attempts[p])
        /\ attempts'[p][n] = b
        /\ \A m \in 1..Len(attempts[p]) : m # n => attempts'[p][m] = attempts[p][m]
    BY Zenon, <1>6, <2>6, <2>7
  <2> QED
    BY Zenon, <1>1, <1>7, <2>5, <2>7, <2>8 DEF Recorded
<1>8. CASE a.status \notin Ends /\ class # "AMBIGUOUS" /\ Settle(p, n, class)
  <2>1. /\ class \in {"SUCCEEDED", "FAILED"}
        /\ class = "SUCCEEDED" => seen[w] = "SUCCEEDED"
        /\ class = "FAILED" => \/ seen[w] = "DECLINED"
                               \/ seen[w] = "NOT_FOUND" /\ a.sentAge >= NotFoundGrace
    BY Zenon, <1>8 DEF Classify
  <2> DEFINE b == [a EXCEPT !.status = class, !.lease = SentLease]
  <2>2. /\ payout' = [payout EXCEPT ![p] = class]
        /\ reserved' = [reserved EXCEPT ![p] = @ - 1]
        /\ posted' = [posted EXCEPT ![p] = IF class = "SUCCEEDED" THEN @ + 1 ELSE @]
        /\ attempts' = [attempts EXCEPT ![p] = [attempts[p] EXCEPT ![n] = b]]
    BY Zenon, <1>8 DEF Settle
  <2> HIDE DEF class
  <2>3. b \in Attempt /\ b.status = class /\ b.sentAge = a.sentAge
    BY Zenon, <1>4, <1>5, <2>1 DEF Attempt, AttemptStatus
  <2> HIDE DEF b
  <2>4. /\ attempts' \in [Payouts -> Seq(Attempt)]
        /\ \A q \in Payouts : q # p => attempts'[q] = attempts[q]
        /\ Len(attempts'[p]) = Len(attempts[p])
        /\ attempts'[p][n] = b
        /\ \A m \in 1..Len(attempts[p]) : m # n => attempts'[p][m] = attempts[p][m]
    BY Zenon, <1>6, <2>2, <2>3
  <2> QED
    BY Zenon, <1>1, <1>8, <2>1, <2>2, <2>3, <2>4 DEF Recorded
<1> QED
  BY Zenon, <1>1, <1>2, <1>7, <1>8 DEF rowVars, Recorded

\* What the passing of time does: it ages the recorded sends of open attempts,
\* by one at most, and under the delay bounds only while they are kept.
LEMMA TickEffect ==
    ASSUME Types, Tick
    PROVE  /\ InTime
           /\ attempts' \in [Payouts -> Seq(Attempt)]
           /\ \A p \in Payouts :
                 /\ Len(attempts'[p]) = Len(attempts[p])
                 /\ \A n \in 1..Len(attempts[p]) :
                       /\ attempts'[p][n].status = attempts[p][n].status
                       /\ attempts[p][n].sentAge = None => attempts'[p][n].sentAge = None
                       /\ attempts[p][n].sentAge # None =>
                             /\ attempts'[p][n].sentAge \in Nat
                             /\ attempts'[p][n].sentAge <= attempts[p][n].sentAge + 1
           /\ age' = [w \in Workers |-> IF Timely /\ Recording(w) THEN age[w] + 1 ELSE age[w]]
           /\ UNCHANGED <<payout, reserved, posted, effect, wire, sends, pc, todo, attempt, seen>>
<1>1. ASSUME NEW a \in Attempt
      PROVE  /\ Older(a) \in Attempt
             /\ Older(a).status = a.status
             /\ a.sentAge = None => Older(a).sentAge = None
             /\ a.sentAge # None =>
                   Older(a).sentAge \in Nat /\ Older(a).sentAge <= a.sentAge + 1
  <2> DEFINE s == IF a.sentAge = None THEN None ELSE Least(a.sentAge + 1, NotFoundGrace)
             l == Decrement(a.lease)
  <2>1. Older(a) = [a EXCEPT !.sentAge = s, !.lease = l]
    BY Zenon DEF Older
  <2>2. a.sentAge \in (0..NotFoundGrace) \cup {None} /\ a.lease \in 0..SentLease
    BY Zenon DEF Attempt
  <2>3. l \in 0..SentLease
    BY <2>2, ConstantsAssumption DEF Decrement
  <2>4. CASE a.sentAge = None
    <3>1. s = None
      BY Zenon, <2>4
    <3> HIDE DEF s, l
    <3> QED
      BY Zenon, <2>1, <2>3, <2>4, <3>1 DEF Attempt
  <2>5. CASE a.sentAge # None
    <3>1. s \in 0..NotFoundGrace /\ s <= a.sentAge + 1
      BY <2>2, <2>5, ConstantsAssumption DEF Least
    <3>2. s \in Nat
      BY <3>1, ConstantsAssumption
    <3> HIDE DEF s, l
    <3> QED
      BY Zenon, <2>1, <2>3, <2>5, <3>1, <3>2 DEF Attempt
  <2> QED
    BY Zenon, <2>4, <2>5
<1>2. attempts' = [p \in Payouts |-> [n \in DOMAIN attempts[p] |->
                      IF attempts[p][n].status \in Ends THEN attempts[p][n]
                      ELSE Older(attempts[p][n])]]
  BY Zenon DEF Tick
<1>3. ASSUME NEW p \in Payouts
      PROVE  /\ attempts'[p] \in Seq(Attempt)
             /\ Len(attempts'[p]) = Len(attempts[p])
             /\ \A n \in 1..Len(attempts[p]) :
                   attempts'[p][n] \in {attempts[p][n], Older(attempts[p][n])}
  <2>1. attempts[p] \in Seq(Attempt)
    BY Zenon DEF Types
  <2> DEFINE f(n) == IF attempts[p][n].status \in Ends THEN attempts[p][n]
                     ELSE Older(attempts[p][n])
  <2>2. attempts'[p] = [n \in 1..Len(attempts[p]) |-> f(n)]
    BY <1>2, <2>1
  <2>3. \A n \in 1..Len(attempts[p]) : f(n) \in Attempt /\ f(n) \in {attempts[p][n], Older(attempts[p][n])}
    BY <1>1, <2>1
  <2> HIDE DEF f
  <2> QED
    BY <2>1, <2>2, <2>3
<1>4. ASSUME NEW p \in Payouts, NEW n \in 1..Len(attempts[p])
      PROVE  /\ attempts'[p][n].status = attempts[p][n].status
             /\ attempts[p][n].sentAge = None => attempts'[p][n].sentAge = None
             /\ attempts[p][n].sentAge # None =>
                   /\ attempts'[p][n].sentAge \in Nat
                   /\ attempts'[p][n].sentAge <= attempts[p][n].sentAge + 1
  <2>1. attempts'[p][n] \in {attempts[p][n], Older(attempts[p][n])}
    BY Zenon, <1>3
  <2>2. attempts[p][n] \in Attempt /\ attempts[p][n].sentAge \in (0..NotFoundGrace) \cup {None}
    BY Zenon, RowType
  <2>3. CASE attempts'[p][n] = attempts[p][n]
    <3>1. attempts[p][n].sentAge # None =>
             attempts[p][n].sentAge \in Nat /\ attempts[p][n].sentAge <= attempts[p][n].sentAge + 1
      BY <2>2, ConstantsAssumption
    <3> QED
      BY Zenon, <2>3, <3>1
  <2>4. CASE attempts'[p][n] = Older(attempts[p][n])
    BY Zenon, <1>1, <2>2, <2>4
  <2> QED
    BY Zenon, <2>1, <2>3, <2>4
<1>5. attempts' \in [Payouts -> Seq(Attempt)]
  BY Zenon, <1>2, <1>3
<1> QED
  BY Zenon, <1>3, <1>4, <1>5 DEF Tick, bankVars

-----------------------------------------------------------------------------
(* Every step keeps the types.                                             *)

\* A selection of payouts is a sequence of payouts.
LEMMA SelectEffect ==
    ASSUME Types, NEW w \in Workers, SelectBatch(w)
    PROVE  /\ todo' \in [Workers -> Seq(Payouts)]
           /\ pc[w] = "idle" /\ pc' = [pc EXCEPT ![w] = "claim"]
           /\ UNCHANGED <<payout, attempts, reserved, posted, effect, wire, sends, attempt, seen, age>>
<1>1. PICK n \in 0..Limit : \E s \in [1..n -> Payouts] : todo' = [todo EXCEPT ![w] = s]
  BY Zenon DEF SelectBatch
<1>2. PICK s \in [1..n -> Payouts] : todo' = [todo EXCEPT ![w] = s]
  BY Zenon, <1>1
<1>3. s \in Seq(Payouts)
  BY ConstantsAssumption
<1>4. todo' \in [Workers -> Seq(Payouts)]
  BY Zenon, <1>2, <1>3 DEF Types
<1> QED
  BY Zenon, <1>4 DEF SelectBatch, Goto, rowVars, bankVars

\* What the end of a bank call does: the worker has an observation to record,
\* the bank's own word if it is an outcome.
LEMMA ObservationEffect ==
    ASSUME Types, Jobs, NEW w \in Workers, ReceiveReply(w) \/ LookupTransfer(w)
    PROVE  \E o \in Observation :
              /\ pc[w] \in {"await", "lookup"}
              /\ pc' = [pc EXCEPT ![w] = "record"]
              /\ seen' = [seen EXCEPT ![w] = o]
              /\ age' = [age EXCEPT ![w] = 0]
              /\ o \in Outcome => effect[Key(w)] = o
              /\ o = "NOT_FOUND" => effect[Key(w)] = None
              /\ UNCHANGED <<payout, attempts, reserved, posted, effect, wire, sends, todo, attempt>>
<1>1. pc[w] \in {"await", "lookup"}
  BY Zenon DEF ReceiveReply, LookupTransfer
<1>2. Key(w) \in AttemptKeys
  BY <1>1, JobType DEF Working, AttemptKeys
<1>3. effect[Key(w)] \in Outcome \cup {None}
  BY Zenon, <1>2 DEF Types
<1>4. UNCHANGED <<payout, attempts, reserved, posted, effect, wire, sends, todo, attempt>>
  BY Zenon DEF ReceiveReply, LookupTransfer, rowVars, bankVars
<1>5. \/ Observe(w, "ERROR")
      \/ effect[Key(w)] = None /\ Observe(w, "NOT_FOUND")
      \/ effect[Key(w)] # None /\ Observe(w, effect[Key(w)])
  BY Zenon DEF ReceiveReply, LookupTransfer
<1>6. "ERROR" \in Observation /\ "NOT_FOUND" \in Observation /\ Outcome \subseteq Observation
      /\ "ERROR" \notin Outcome /\ "NOT_FOUND" \notin Outcome
  BY Zenon DEF Observation, Outcome
<1>7. CASE Observe(w, "ERROR")
  BY Zenon, <1>1, <1>4, <1>6, <1>7 DEF Observe, Goto
<1>8. CASE effect[Key(w)] = None /\ Observe(w, "NOT_FOUND")
  BY Zenon, <1>1, <1>4, <1>6, <1>8 DEF Observe, Goto
<1>9. CASE effect[Key(w)] # None /\ Observe(w, effect[Key(w)])
  <2>1. effect[Key(w)] \in Outcome
    BY Zenon, <1>3, <1>9
  <2> QED
    BY Zenon, <1>1, <1>4, <1>6, <1>9, <2>1 DEF Observe, Goto
<1> QED
  BY Zenon, <1>5, <1>7, <1>8, <1>9

\* The types of all variables are kept.
LEMMA TypesKept ==
    ASSUME Types, Jobs, [Next]_vars
    PROVE  Types'
<1>1. ASSUME NEW p \in Payouts, CreateRetry(p) PROVE Types'
  <2>1. \A q \in Payouts : Len(attempts'[q]) \in Numbers
    BY Zenon, <1>1, CreateRetryEffect DEF Types
  <2>2. payout' \in [Payouts -> PayoutStatus] /\ reserved' \in [Payouts -> Int]
    <3>1. payout' = [payout EXCEPT ![p] = "PROCESSING"] /\ reserved' = [reserved EXCEPT ![p] = @ + 1]
      BY Zenon, <1>1, CreateRetryEffect
    <3> QED
      BY <3>1 DEF Types, PayoutStatus
  <2> QED
    BY Zenon, <1>1, <2>1, <2>2, CreateRetryEffect DEF Types
<1>2. ASSUME NEW w \in Workers, SelectBatch(w) PROVE Types'
  BY Zenon, <1>2, SelectEffect DEF Types, Pc
<1>3. ASSUME NEW w \in Workers, ClaimStaleSent(w) PROVE Types'
  BY Zenon, <1>3, ClaimEffect DEF Types, Pc
<1>4. ASSUME NEW w \in Workers, BatchDone(w) PROVE Types'
  BY Zenon, <1>4 DEF BatchDone, Goto, rowVars, bankVars, Types, Pc
<1>5. ASSUME NEW w \in Workers, PrepareAttemptSend(w) PROVE Types'
  <2>0. /\ todo' \in [Workers -> Seq(Payouts)]
        /\ UNCHANGED <<payout, reserved, posted, effect, wire, sends, seen, age>>
    BY Zenon, <1>5, PrepareEffect
  <2>1. CASE UNCHANGED <<attempts, pc, attempt>>
    BY Zenon, <2>0, <2>1 DEF Types
  <2>2. ASSUME NEW p \in Payouts, ToLookUp(w, p) PROVE Types'
    BY Zenon, <2>0, <2>2 DEF ToLookUp, Types, Pc
  <2>3. ASSUME NEW p \in Payouts, ToSend(w, p) PROVE Types'
    <3>1. \A q \in Payouts : Len(attempts'[q]) \in Numbers
      BY Zenon, <2>3 DEF ToSend, Types
    <3>2. attempt' \in [Workers -> [payout : Payouts, n : Numbers] \cup {None}]
      BY Zenon, <2>3 DEF ToSend, Types
    <3>3. pc' = [pc EXCEPT ![w] = "send"] /\ attempts' \in [Payouts -> Seq(Attempt)]
      BY Zenon, <2>3 DEF ToSend
    <3> QED
      BY Zenon, <2>0, <3>1, <3>2, <3>3 DEF Types, Pc
  <2> QED
    BY Zenon, <1>5, <2>1, <2>2, <2>3, PrepareEffect
<1>6. ASSUME NEW w \in Workers, SendTransfer(w) PROVE Types'
  <2>1. Key(w) \in AttemptKeys
    BY <1>6, JobType DEF SendTransfer, Working, AttemptKeys
  <2> QED
    BY <1>6, <2>1 DEF SendTransfer, Goto, rowVars, Types, Pc
<1>7. ASSUME NEW w \in Workers, ReceiveReply(w) \/ LookupTransfer(w) PROVE Types'
  <2>1. PICK o \in Observation :
              /\ pc' = [pc EXCEPT ![w] = "record"]
              /\ seen' = [seen EXCEPT ![w] = o]
              /\ age' = [age EXCEPT ![w] = 0]
              /\ UNCHANGED <<payout, attempts, reserved, posted, effect, wire, sends, todo, attempt>>
    BY Zenon, <1>7, ObservationEffect
  <2> QED
    BY Zenon, <2>1 DEF Types, Pc
<1>8. ASSUME NEW w \in Workers, RecordBankObservation(w) PROVE Types'
  <2> DEFINE p == attempt[w].payout
             n == attempt[w].n
  <2>0. pc[w] = "record"
    BY Zenon, <1>8 DEF RecordBankObservation
  <2>1. p \in Payouts
    BY Zenon, <2>0, JobType DEF Working
  <2>2. /\ pc' \in [Workers -> Pc] /\ seen' \in [Workers -> Observation \cup {None}]
        /\ attempt' \in [Workers -> [payout : Payouts, n : Numbers] \cup {None}]
        /\ age' \in [Workers -> Nat]
        /\ UNCHANGED <<effect, wire, sends, todo>>
    <3>1. /\ pc' = [pc EXCEPT ![w] = "next"]
          /\ attempt' = [attempt EXCEPT ![w] = None]
          /\ seen' = [seen EXCEPT ![w] = None]
          /\ age' = [age EXCEPT ![w] = 0]
          /\ UNCHANGED <<effect, wire, sends, todo>>
      BY Zenon, <1>8, RecordEffect DEF Recorded
    <3> QED
      BY Zenon, <3>1 DEF Types, Pc
  <2>3. \/ UNCHANGED <<payout, attempts, reserved, posted>>
        \/ \E status \in {"AMBIGUOUS", "SUCCEEDED", "FAILED"} :
              /\ attempts' \in [Payouts -> Seq(Attempt)]
              /\ \A q \in Payouts : q # p => attempts'[q] = attempts[q]
              /\ Len(attempts'[p]) = Len(attempts[p])
              /\ IF status = "AMBIGUOUS"
                 THEN /\ payout' = [payout EXCEPT ![p] = "REQUIRES_REVIEW"]
                      /\ UNCHANGED <<reserved, posted>>
                 ELSE /\ payout' = [payout EXCEPT ![p] = status]
                      /\ reserved' = [reserved EXCEPT ![p] = @ - 1]
                      /\ posted' = [posted EXCEPT ![p] = IF status = "SUCCEEDED" THEN @ + 1 ELSE @]
    BY <1>8, RecordEffect, Zenon DEF Recorded
  <2> HIDE DEF p
  <2>4. payout' \in [Payouts -> PayoutStatus]
    BY Zenon, <2>1, <2>3 DEF Types, PayoutStatus
  <2>5. reserved' \in [Payouts -> Int] /\ posted' \in [Payouts -> Nat]
    <3>1. /\ reserved' \in {reserved, [reserved EXCEPT ![p] = @ - 1]}
          /\ posted' \in {posted, [posted EXCEPT ![p] = @ + 1], [posted EXCEPT ![p] = @]}
      BY Zenon, <2>3
    <3>2. reserved' \in [Payouts -> Int]
      BY <2>1, <3>1 DEF Types
    <3>3. posted' \in [Payouts -> Nat]
      <4>1. posted \in [Payouts -> Nat] /\ posted[p] \in Nat
        BY Zenon, <2>1 DEF Types
      <4>2. CASE posted' = [posted EXCEPT ![p] = @ + 1]
        BY <2>1, <4>1, <4>2
      <4>3. CASE posted' = [posted EXCEPT ![p] = @]
        BY Zenon, <2>1, <4>1, <4>3
      <4> QED
        BY Zenon, <3>1, <4>1, <4>2, <4>3
    <3> QED
      BY Zenon, <3>2, <3>3
  <2>6. /\ attempts' \in [Payouts -> Seq(Attempt)]
        /\ \A q \in Payouts : Len(attempts'[q]) \in Numbers
    BY Zenon, <2>1, <2>3 DEF Types
  <2> QED
    BY Zenon, <2>2, <2>4, <2>5, <2>6 DEF Types
<1>9. ASSUME NEW w \in Workers, Crash(w) PROVE Types'
  <2>1. <<>> \in Seq(Payouts)
    OBVIOUS
  <2> QED
    BY Zenon, <1>9, <2>1 DEF Crash, Goto, rowVars, bankVars, Types, Pc
<1>10. ASSUME NEW k \in Payouts \X (1..MaxAttempts), BankReceives(k) PROVE Types'
  <2>1. BankOutcomes \subseteq Outcome
    BY Zenon, ConstantsAssumption DEF Outcome
  <2>2. effect' \in [AttemptKeys -> Outcome \cup {None}]
    BY Zenon, <1>10, <2>1 DEF BankReceives, Types, AttemptKeys, Numbers
  <2> QED
    BY Zenon, <1>10, <2>2 DEF BankReceives, rowVars, workerVars, Types
<1>11. ASSUME NEW k \in Payouts \X (1..MaxAttempts), RequestLost(k) PROVE Types'
  BY Zenon, <1>11 DEF RequestLost, rowVars, workerVars, Types
<1>12. CASE Tick
  <2>1. \A w \in Workers : age'[w] \in Nat
    <3>1. age' = [w \in Workers |-> IF Timely /\ Recording(w) THEN age[w] + 1 ELSE age[w]]
      BY Zenon, <1>12, TickEffect
    <3>2. ASSUME NEW w \in Workers PROVE age'[w] \in {age[w], age[w] + 1}
      BY Zenon, <3>1
    <3> QED
      BY <3>2 DEF Types
  <2>2. age' \in [Workers -> Nat]
    BY Zenon, <1>12, <2>1, TickEffect
  <2> QED
    BY Zenon, <1>12, <2>2, TickEffect DEF Types
<1>13. CASE UNCHANGED vars
  BY Zenon, <1>13 DEF vars, rowVars, bankVars, workerVars, Types
<1> QED
  BY Zenon, <1>1, <1>2, <1>3, <1>4, <1>5, <1>6, <1>7, <1>8, <1>9, <1>10, <1>11, <1>12, <1>13
  DEF Next, Proceed

-----------------------------------------------------------------------------
(* Every step keeps the jobs.                                              *)

\* No attempt is removed, and a recorded send stays recorded.
LEMMA RowsGrow ==
    ASSUME Types, Jobs, [Next]_vars
    PROVE  \A p \in Payouts :
              /\ Len(attempts'[p]) \in Nat
              /\ Len(attempts[p]) <= Len(attempts'[p])
              /\ \A n \in 1..Len(attempts[p]) :
                    attempts[p][n].sentAge # None => attempts'[p][n].sentAge # None
<1>0. \A p \in Payouts : Len(attempts[p]) \in Nat /\ Len(attempts[p]) <= Len(attempts[p])
  BY ConstantsAssumption DEF Types, Numbers
<1> DEFINE Grows == \A p \in Payouts :
              /\ Len(attempts'[p]) \in Nat
              /\ Len(attempts[p]) <= Len(attempts'[p])
              /\ \A n \in 1..Len(attempts[p]) :
                    attempts[p][n].sentAge # None => attempts'[p][n].sentAge # None
<1>1. ASSUME NEW p \in Payouts, CreateRetry(p) PROVE Grows
  <2>1. /\ Len(attempts'[p]) = Len(attempts[p]) + 1
        /\ \A n \in 1..Len(attempts[p]) : attempts'[p][n] = attempts[p][n]
        /\ \A q \in Payouts : q # p => attempts'[q] = attempts[q]
    BY Zenon, <1>1, CreateRetryEffect
  <2>2. ASSUME NEW q \in Payouts
        PROVE  /\ Len(attempts'[q]) \in Nat
               /\ Len(attempts[q]) <= Len(attempts'[q])
               /\ \A n \in 1..Len(attempts[q]) : attempts'[q][n] = attempts[q][n]
    BY <1>0, <2>1
  <2> QED
    BY Zenon, <2>2
<1>2. ASSUME NEW w \in Workers, ClaimStaleSent(w) PROVE Grows
  BY Zenon, <1>0, <1>2, ClaimEffect
<1>3. ASSUME NEW w \in Workers, PrepareAttemptSend(w) PROVE Grows
  <2>1. CASE attempts' = attempts
    BY Zenon, <1>0, <2>1
  <2>2. ASSUME NEW p \in Payouts, ToSend(w, p) PROVE Grows
    <3>1. /\ Len(attempts'[p]) = Len(attempts[p])
          /\ \A q \in Payouts : q # p => attempts'[q] = attempts[q]
          /\ \A n \in 1..Len(attempts[p]) : attempts[p][n].sentAge # None => attempts'[p][n] = attempts[p][n]
      BY Zenon, <2>2 DEF ToSend
    <3> QED
      BY Zenon, <1>0, <3>1
  <2> QED
    BY Zenon, <1>3, <2>1, <2>2, PrepareEffect DEF ToLookUp
<1>4. ASSUME NEW w \in Workers, RecordBankObservation(w) PROVE Grows
  <2> DEFINE p == attempt[w].payout
             n == attempt[w].n
  <2>1. CASE attempts' = attempts
    BY Zenon, <1>0, <2>1
  <2>2. \/ attempts' = attempts
        \/ /\ \A q \in Payouts : q # p => attempts'[q] = attempts[q]
           /\ Len(attempts'[p]) = Len(attempts[p])
           /\ attempts'[p][n].sentAge = attempts[p][n].sentAge
           /\ \A m \in 1..Len(attempts[p]) : m # n => attempts'[p][m] = attempts[p][m]
    BY Zenon, <1>4, RecordEffect DEF Recorded
  <2> HIDE DEF p, n
  <2> QED
    BY Zenon, <1>0, <2>1, <2>2
<1>5. CASE Tick
  <2>1. \A p \in Payouts : \A n \in 1..Len(attempts[p]) :
           attempts[p][n].sentAge # None => attempts'[p][n].sentAge \in Nat
    BY Zenon, <1>5, TickEffect
  <2>2. None \notin Nat
    BY Zenon, ConstantsAssumption
  <2> QED
    BY Zenon, <1>0, <1>5, <2>1, <2>2, TickEffect
<1>6. CASE attempts' = attempts
  BY Zenon, <1>0, <1>6
<1> QED
  BY Zenon, <1>1, <1>2, <1>3, <1>4, <1>5, <1>6
  DEF Next, Proceed, vars, SelectBatch, BatchDone, SendTransfer, ReceiveReply, LookupTransfer,
      Crash, BankReceives, RequestLost, rowVars

\* A worker at the bank goes on with its attempt, or has just taken one up.
LEMMA WorkerStep ==
    ASSUME Types, Jobs, [Next]_vars, NEW w \in Workers, pc'[w] \in Working
    PROVE  \/ /\ pc[w] \in Working
              /\ attempt'[w] = attempt[w]
              /\ pc'[w] = "send" => pc[w] = "send"
              /\ \/ pc'[w] = pc[w] /\ seen'[w] = seen[w]
                 \/ pc'[w] = "await"
                 \/ pc'[w] = "record" /\ pc[w] # "record" /\ seen'[w] \in Observation
           \/ /\ pc'[w] # "record"
              /\ PrepareAttemptSend(w)
              /\ \E p \in Payouts : ToLookUp(w, p) \/ ToSend(w, p)
<1>0. DOMAIN pc = Workers /\ DOMAIN attempt = Workers /\ DOMAIN seen = Workers
  BY Zenon DEF Types
<1>1. CASE UNCHANGED <<pc, attempt, seen>>
  BY Zenon, <1>1
<1>2. ASSUME NEW v \in Workers, pc' = [pc EXCEPT ![v] = "claim"], UNCHANGED <<attempt, seen>>
      PROVE  pc[w] \in Working /\ attempt'[w] = attempt[w] /\ pc'[w] = pc[w] /\ seen'[w] = seen[w]
  BY Zenon, <1>0, <1>2 DEF Working
<1>3. ASSUME NEW v \in Workers, pc' = [pc EXCEPT ![v] = "next"], UNCHANGED <<attempt, seen>>
      PROVE  pc[w] \in Working /\ attempt'[w] = attempt[w] /\ pc'[w] = pc[w] /\ seen'[w] = seen[w]
  BY Zenon, <1>0, <1>3 DEF Working
<1>4. ASSUME NEW v \in Workers, pc' = [pc EXCEPT ![v] = "idle"] \/ pc' = [pc EXCEPT ![v] = "next"],
             UNCHANGED <<attempt, seen>>
               \/ (attempt' = [attempt EXCEPT ![v] = None] /\ seen' = [seen EXCEPT ![v] = None])
      PROVE  pc[w] \in Working /\ attempt'[w] = attempt[w] /\ pc'[w] = pc[w] /\ seen'[w] = seen[w]
  BY Zenon, <1>0, <1>4 DEF Working
<1>5. ASSUME NEW v \in Workers, PrepareAttemptSend(v)
      PROVE  \/ pc[w] \in Working /\ attempt'[w] = attempt[w] /\ pc'[w] = pc[w] /\ seen'[w] = seen[w]
             \/ /\ pc'[w] # "record"
                /\ PrepareAttemptSend(w)
                /\ \E p \in Payouts : ToLookUp(w, p) \/ ToSend(w, p)
  <2>1. UNCHANGED seen
    BY Zenon, <1>5, PrepareEffect
  <2>2. CASE UNCHANGED <<pc, attempt>>
    BY Zenon, <2>1, <2>2
  <2>3. CASE \E p \in Payouts : ToLookUp(v, p) \/ ToSend(v, p)
    <3>1. CASE v = w
      <4>1. pc'[w] # "record"
        BY Zenon, <1>0, <2>3, <3>1 DEF ToLookUp, ToSend
      <4> QED
        BY Zenon, <1>5, <2>3, <3>1, <4>1
    <3>2. CASE v # w
      BY Zenon, <1>0, <2>1, <2>3, <3>2 DEF ToLookUp, ToSend
    <3> QED
      BY Zenon, <3>1, <3>2
  <2> QED
    BY Zenon, <1>5, <2>2, <2>3, PrepareEffect
<1>6. ASSUME NEW v \in Workers, SendTransfer(v)
      PROVE  /\ pc[w] \in Working /\ attempt'[w] = attempt[w]
             /\ pc'[w] = "send" => pc[w] = "send"
             /\ (pc'[w] = pc[w] /\ seen'[w] = seen[w]) \/ pc'[w] = "await"
  BY Zenon, <1>0, <1>6 DEF SendTransfer, Goto, Working
<1>7. ASSUME NEW v \in Workers, ReceiveReply(v) \/ LookupTransfer(v)
      PROVE  /\ pc[w] \in Working /\ attempt'[w] = attempt[w]
             /\ pc'[w] = "send" => pc[w] = "send"
             /\ \/ pc'[w] = pc[w] /\ seen'[w] = seen[w]
                \/ pc'[w] = "record" /\ pc[w] # "record" /\ seen'[w] \in Observation
  <2>1. PICK o \in Observation :
              /\ pc[v] \in {"await", "lookup"}
              /\ pc' = [pc EXCEPT ![v] = "record"]
              /\ seen' = [seen EXCEPT ![v] = o]
              /\ UNCHANGED attempt
    BY Zenon, <1>7, ObservationEffect
  <2> QED
    BY Zenon, <1>0, <2>1 DEF Working
<1> QED
  <2>1. ASSUME NEW v \in Workers, SelectBatch(v) PROVE pc' = [pc EXCEPT ![v] = "claim"] /\ UNCHANGED <<attempt, seen>>
    BY Zenon, <2>1 DEF SelectBatch, Goto
  <2>2. ASSUME NEW v \in Workers, ClaimStaleSent(v) PROVE pc' = [pc EXCEPT ![v] = "next"] /\ UNCHANGED <<attempt, seen>>
    BY Zenon, <2>2 DEF ClaimStaleSent, Goto
  <2>3. ASSUME NEW v \in Workers, BatchDone(v) PROVE pc' = [pc EXCEPT ![v] = "idle"] /\ UNCHANGED <<attempt, seen>>
    BY Zenon, <2>3 DEF BatchDone, Goto
  <2>4. ASSUME NEW v \in Workers, RecordBankObservation(v) \/ Crash(v)
        PROVE  /\ pc' = [pc EXCEPT ![v] = "idle"] \/ pc' = [pc EXCEPT ![v] = "next"]
               /\ attempt' = [attempt EXCEPT ![v] = None] /\ seen' = [seen EXCEPT ![v] = None]
    BY Zenon, <2>4 DEF RecordBankObservation, Crash, Goto
  <2>5. ASSUME (\E p \in Payouts : CreateRetry(p)) \/ Tick \/ UNCHANGED vars
                 \/ \E k \in Payouts \X (1..MaxAttempts) : BankReceives(k) \/ RequestLost(k)
        PROVE  UNCHANGED <<pc, attempt, seen>>
    BY Zenon, <2>5 DEF CreateRetry, Tick, vars, workerVars, BankReceives, RequestLost
  <2> QED
    BY Zenon, <1>1, <1>2, <1>3, <1>4, <1>5, <1>6, <1>7, <2>1, <2>2, <2>3, <2>4, <2>5 DEF Next, Proceed

\* The jobs are kept.
LEMMA JobsKept ==
    ASSUME Types, Jobs, [Next]_vars
    PROVE  Jobs'
<1> SUFFICES ASSUME NEW w \in Workers, pc'[w] \in Working
             PROVE  /\ attempt'[w] \in [payout : Payouts, n : Numbers]
                    /\ attempt'[w].n <= Len(attempts'[attempt'[w].payout])
                    /\ attempts'[attempt'[w].payout][attempt'[w].n].sentAge # None
                    /\ pc'[w] = "record" => seen'[w] \in Observation
  BY Zenon DEF Jobs
<1>1. None \notin Nat
  BY Zenon, ConstantsAssumption
<1>2. CASE pc[w] \in Working /\ attempt'[w] = attempt[w]
  <2>1. attempt[w].payout \in Payouts /\ attempt[w].n \in 1..Len(attempts[attempt[w].payout])
    BY Zenon, <1>2, JobType
  <2>2. /\ attempt[w].n <= Len(attempts'[attempt[w].payout])
        /\ attempts'[attempt[w].payout][attempt[w].n].sentAge # None
    <3>1. attempts[attempt[w].payout][attempt[w].n].sentAge # None
      BY Zenon, <1>2 DEF Jobs
    <3>2. Len(attempts[attempt[w].payout]) \in Nat
      BY <2>1, ConstantsAssumption DEF Types, Numbers
    <3> QED
      BY <2>1, <3>1, <3>2, RowsGrow
  <2>3. attempt[w] \in [payout : Payouts, n : Numbers]
    BY Zenon, <1>2 DEF Jobs
  <2>4. pc'[w] = "record" => seen'[w] \in Observation
    BY Zenon, <1>2, WorkerStep DEF Jobs
  <2> QED
    BY Zenon, <1>2, <2>2, <2>3, <2>4
<1>3. CASE /\ pc'[w] # "record" /\ \E p \in Payouts : ToLookUp(w, p) \/ ToSend(w, p)
  <2>1. PICK p \in Payouts : ToLookUp(w, p) \/ ToSend(w, p)
    BY Zenon, <1>3
  <2>2. attempt'[w] = [payout |-> p, n |-> Len(attempts[p])]
    BY Zenon, <2>1 DEF ToLookUp, ToSend, Types
  <2>3. Len(attempts'[p]) = Len(attempts[p]) /\ Len(attempts[p]) \in Nat
    BY <2>1, ConstantsAssumption DEF ToLookUp, ToSend, Types, Numbers
  <2>4. attempts'[p][Len(attempts[p])].sentAge # None
    BY <1>1, <2>1 DEF ToLookUp, ToSend
  <2>5. attempt'[w] \in [payout : Payouts, n : Numbers]
    BY <2>2 DEF Types
  <2> QED
    BY <1>3, <2>2, <2>3, <2>4, <2>5
<1> QED
  BY Zenon, <1>2, <1>3, WorkerStep

-----------------------------------------------------------------------------
(* Every step keeps Sends and Seen.                                        *)

\* The steps that reach the network.
OnNetwork ==
    \/ \E w \in Workers : SendTransfer(w)
    \/ \E k \in Payouts \X (1..MaxAttempts) : BankReceives(k) \/ RequestLost(k)

\* Every other step leaves it alone.
LEMMA OffNetwork ==
    ASSUME Types, Jobs, [Next]_vars, ~OnNetwork
    PROVE  UNCHANGED <<effect, wire, sends>>
<1>1. ASSUME NEW w \in Workers, RecordBankObservation(w) PROVE UNCHANGED <<effect, wire, sends>>
  BY Zenon, <1>1, RecordEffect DEF Recorded
<1> QED
  BY Zenon, <1>1
  DEF OnNetwork, Next, Proceed, vars, CreateRetry, SelectBatch, ClaimStaleSent, BatchDone,
      PrepareAttemptSend, ReceiveReply, LookupTransfer, Crash, Tick, bankVars

\* A worker that is about to send was so before, or has just recorded the send.
LEMMA NewSender ==
    ASSUME Types, Jobs, [Next]_vars, NEW w \in Workers, pc'[w] = "send"
    PROVE  \/ pc[w] = "send" /\ attempt'[w] = attempt[w]
           \/ PrepareAttemptSend(w) /\ \E p \in Payouts : ToSend(w, p)
<1>1. pc'[w] \in Working
  BY Zenon DEF Working
<1>2. ASSUME NEW p \in Payouts, ToLookUp(w, p) PROVE FALSE
  BY Zenon, <1>2 DEF ToLookUp, Types
<1> QED
  BY Zenon, <1>1, <1>2, WorkerStep

\* What is known of one attempt that was sent, or not.
SentOnce(p, n) ==
    /\ sends[<<p, n>>] <= 1
    /\ sends[<<p, n>>] = 1 => n <= Len(attempts[p]) /\ attempts[p][n].sentAge # None
    /\ sends[<<p, n>>] = 0 => effect[<<p, n>>] = None /\ <<p, n>> \notin wire
    /\ <<p, n>> \in wire => effect[<<p, n>>] = None

\* The record of a send outlasts every step.
LEMMA SentStays ==
    ASSUME Types, Jobs, Sends, [Next]_vars, NEW p \in Payouts, NEW n \in Numbers,
           sends[<<p, n>>] = 1
    PROVE  n <= Len(attempts'[p]) /\ attempts'[p][n].sentAge # None
<1>1. n <= Len(attempts[p]) /\ attempts[p][n].sentAge # None
  BY Zenon DEF Sends
<1>2. n \in 1..Len(attempts[p]) /\ Len(attempts[p]) \in Nat /\ n \in Nat
  BY <1>1, ConstantsAssumption DEF Types, Numbers
<1> QED
  BY <1>1, <1>2, RowsGrow

\* A transfer request is made once for each attempt.
LEMMA SendsKept ==
    ASSUME Types, Jobs, Sends, [Next]_vars
    PROVE  Sends'
<1>0. \A p \in Payouts, n \in Numbers : <<p, n>> \in AttemptKeys /\ sends[<<p, n>>] \in Nat
  BY Zenon DEF Types, AttemptKeys
<1>1. ASSUME ~OnNetwork PROVE Sends'
  <2>1. UNCHANGED <<effect, wire, sends>>
    BY Zenon, <1>1, OffNetwork
  <2>2. ASSUME NEW p \in Payouts, NEW n \in Numbers PROVE SentOnce(p, n)'
    BY Zenon, <2>1, SentStays DEF Sends, SentOnce
  <2>3. ASSUME NEW w \in Workers, NEW p \in Payouts, PrepareAttemptSend(w), ToSend(w, p)
        PROVE  /\ Key(w)' = <<p, Len(attempts[p])>>
               /\ sends[<<p, Len(attempts[p])>>] = 0
               /\ attempts[p][Len(attempts[p])].sentAge = None
    <3>1. attempts[p][Len(attempts[p])].sentAge = None /\ Len(attempts[p]) \in Numbers
      BY Zenon, <2>3 DEF ToSend, Types
    <3>2. sends[<<p, Len(attempts[p])>>] = 0
      BY <1>0, <3>1 DEF Sends
    <3>3. attempt'[w] = [payout |-> p, n |-> Len(attempts[p])]
      BY Zenon, <2>3 DEF ToSend, Types
    <3> QED
      BY <3>1, <3>2, <3>3 DEF Key
  <2>4. ASSUME NEW w \in Workers, pc'[w] = "send" PROVE sends'[Key(w)'] = 0
    <3>1. CASE pc[w] = "send" /\ attempt'[w] = attempt[w]
      BY Zenon, <2>1, <3>1 DEF Sends, Key
    <3> QED
      BY Zenon, <2>1, <2>3, <2>4, <3>1, NewSender
  <2>5. ASSUME NEW v \in Workers, NEW w \in Workers, pc'[v] = "send", pc'[w] = "send",
               Key(v)' = Key(w)', v # w
        PROVE  FALSE
    <3>1. ASSUME NEW x \in Workers, NEW y \in Workers, x # y, pc'[y] = "send",
                 PrepareAttemptSend(x), NEW p \in Payouts, ToSend(x, p), Key(x)' = Key(y)'
          PROVE  FALSE
      <4>1. pc'[y] = pc[y] /\ attempt'[y] = attempt[y]
        BY Zenon, <3>1 DEF ToSend, Types
      <4>2. pc[y] \in Working
        BY Zenon, <3>1, <4>1 DEF Working
      <4>3. Key(y)' = Key(y) /\ Key(y) = <<attempt[y].payout, attempt[y].n>>
        BY Zenon, <4>1 DEF Key
      <4>4. attempts[attempt[y].payout][attempt[y].n].sentAge # None
        BY Zenon, <4>2 DEF Jobs
      <4>5. attempt[y].payout = p /\ attempt[y].n = Len(attempts[p])
        <5>1. Key(x)' = <<p, Len(attempts[p])>>
          BY Zenon, <2>3, <3>1
        <5>2. <<attempt[y].payout, attempt[y].n>> = <<p, Len(attempts[p])>>
          BY Zenon, <3>1, <4>3, <5>1
        <5> QED
          BY Zenon, <5>2
      <4> QED
        BY Zenon, <2>3, <3>1, <4>4, <4>5
    <3>2. CASE pc[v] = "send" /\ attempt'[v] = attempt[v] /\ pc[w] = "send" /\ attempt'[w] = attempt[w]
      BY Zenon, <2>5, <3>2 DEF Sends, Key
    <3> QED
      BY Zenon, <2>5, <3>1, <3>2, NewSender
  <2> QED
    BY Zenon, <2>2, <2>4, <2>5 DEF Sends, SentOnce
<1>2. ASSUME NEW w \in Workers, SendTransfer(w) PROVE Sends'
  <2>1. /\ pc[w] = "send" /\ pc' = [pc EXCEPT ![w] = "await"]
        /\ wire' = wire \cup {Key(w)} /\ sends' = [sends EXCEPT ![Key(w)] = @ + 1]
        /\ UNCHANGED <<attempts, effect, attempt>>
    BY Zenon, <1>2 DEF SendTransfer, Goto, rowVars
  <2>2. PICK p \in Payouts, n \in Numbers :
           /\ Key(w) = <<p, n>> /\ n <= Len(attempts[p]) /\ attempts[p][n].sentAge # None
    BY Zenon, <2>1, JobType DEF Working, Jobs
  <2>3. sends[<<p, n>>] = 0 /\ effect[<<p, n>>] = None
    BY Zenon, <2>1, <2>2 DEF Sends
  <2>4. sends'[<<p, n>>] = 1
    BY <1>0, <2>1, <2>2, <2>3 DEF Types
  <2>5. \A q \in Payouts, m \in Numbers : <<q, m>> # <<p, n>> => sends'[<<q, m>>] = sends[<<q, m>>]
    BY Zenon, <1>0, <2>1, <2>2 DEF Types
  <2>6. ASSUME NEW q \in Payouts, NEW m \in Numbers PROVE SentOnce(q, m)'
    <3>1. CASE <<q, m>> = <<p, n>>
      <4>1. q = p /\ m = n
        BY Zenon, <3>1
      <4> QED
        BY <2>1, <2>2, <2>3, <2>4, <4>1 DEF SentOnce
    <3>2. CASE <<q, m>> # <<p, n>>
      BY Zenon, <2>1, <2>2, <2>5, <3>2 DEF Sends, SentOnce
    <3> QED
      BY Zenon, <3>1, <3>2
  <2>7. ASSUME NEW v \in Workers, pc'[v] = "send"
        PROVE  v # w /\ pc[v] = "send" /\ Key(v)' = Key(v)
    BY Zenon, <2>1, <2>7 DEF Types, Key
  <2>8. ASSUME NEW v \in Workers, pc'[v] = "send" PROVE sends'[Key(v)'] = 0
    <3>1. v # w /\ pc[v] = "send" /\ Key(v)' = Key(v)
      BY Zenon, <2>7, <2>8
    <3>2. Key(v) # Key(w) /\ sends[Key(v)] = 0
      BY Zenon, <2>1, <3>1 DEF Sends
    <3>3. PICK q \in Payouts, m \in Numbers : Key(v) = <<q, m>>
      BY Zenon, <3>1, JobType DEF Working
    <3> QED
      BY Zenon, <2>2, <2>5, <3>1, <3>2, <3>3
  <2>9. \A u, v \in Workers : pc'[u] = "send" /\ pc'[v] = "send" /\ Key(u)' = Key(v)' => u = v
    BY <2>7 DEF Sends
  <2> QED
    BY Zenon, <2>6, <2>8, <2>9 DEF Sends, SentOnce
<1>3. ASSUME NEW k \in Payouts \X (1..MaxAttempts), BankReceives(k) \/ RequestLost(k) PROVE Sends'
  <2>1. /\ k \in wire /\ wire' = wire \ {k}
        /\ UNCHANGED <<attempts, sends, pc, attempt>>
    BY Zenon, <1>3 DEF BankReceives, RequestLost, rowVars, workerVars
  <2>2. PICK p \in Payouts, n \in Numbers : k = <<p, n>>
    BY DEF Numbers
  <2>3. \A q \in Payouts, m \in Numbers : <<q, m>> # k => effect'[<<q, m>>] = effect[<<q, m>>]
    BY Zenon, <1>0, <1>3 DEF BankReceives, RequestLost, Types
  <2>4. ASSUME NEW q \in Payouts, NEW m \in Numbers PROVE SentOnce(q, m)'
    <3>1. CASE <<q, m>> = k
      BY Zenon, <2>1, <3>1 DEF Sends, SentOnce
    <3>2. CASE <<q, m>> # k
      BY Zenon, <2>1, <2>3, <3>2 DEF Sends, SentOnce
    <3> QED
      BY Zenon, <3>1, <3>2
  <2> QED
    BY Zenon, <2>1, <2>4 DEF Sends, SentOnce, Key
<1> QED
  BY Zenon, <1>1, <1>2, <1>3 DEF OnNetwork

\* An effect of the bank is never taken back.
LEMMA EffectStays ==
    ASSUME Types, Jobs, [Next]_vars, NEW p \in Payouts, NEW n \in Numbers, effect[<<p, n>>] # None
    PROVE  effect'[<<p, n>>] = effect[<<p, n>>]
<1>1. CASE ~OnNetwork
  BY Zenon, <1>1, OffNetwork
<1>2. ASSUME NEW w \in Workers, SendTransfer(w) PROVE effect' = effect
  BY Zenon, <1>2 DEF SendTransfer
<1>3. ASSUME NEW k \in Payouts \X (1..MaxAttempts), BankReceives(k) \/ RequestLost(k)
      PROVE  effect'[<<p, n>>] = effect[<<p, n>>]
  <2>1. <<p, n>> \in AttemptKeys
    BY Zenon DEF AttemptKeys
  <2> QED
    BY Zenon, <1>3, <2>1 DEF BankReceives, RequestLost, Types
<1> QED
  BY Zenon, <1>1, <1>2, <1>3 DEF OnNetwork

\* What a worker is about to record is still so when it records it.
LEMMA SeenKept ==
    ASSUME Types, Jobs, Seen, [Next]_vars
    PROVE  Seen'
<1> SUFFICES ASSUME NEW w \in Workers, pc'[w] = "record", seen'[w] \in Outcome
             PROVE  effect'[Key(w)'] = seen'[w]
  BY Zenon DEF Seen
<1>1. pc[w] \in Working /\ attempt'[w] = attempt[w]
  BY Zenon, WorkerStep DEF Working
<1>2. PICK p \in Payouts, n \in Numbers : Key(w) = <<p, n>> /\ Key(w)' = <<p, n>>
  BY Zenon, <1>1, JobType DEF Key
<1>3. None \notin Outcome
  BY Zenon, ConstantsAssumption DEF Outcome
<1>4. effect[Key(w)] = seen'[w]
  <2>1. CASE pc[w] = "record" /\ seen'[w] = seen[w]
    BY Zenon, <2>1 DEF Seen
  <2>2. CASE ReceiveReply(w) \/ LookupTransfer(w)
    <3>1. PICK o \in Observation : seen' = [seen EXCEPT ![w] = o] /\ (o \in Outcome => effect[Key(w)] = o)
      BY Zenon, <2>2, ObservationEffect
    <3> QED
      BY Zenon, <3>1 DEF Types
  <2>3. pc[w] = "record" => seen'[w] = seen[w]
    BY Zenon, WorkerStep DEF Working
  <2>4. ASSUME pc[w] # "record" PROVE ReceiveReply(w) \/ LookupTransfer(w)
    <3>1. ASSUME NEW v \in Workers, v # w, Proceed(v) \/ Crash(v) PROVE pc'[w] = pc[w]
      <4>1. CASE PrepareAttemptSend(v)
        BY Zenon, <3>1, <4>1, PrepareEffect DEF ToSend, ToLookUp, Types
      <4>2. CASE ~PrepareAttemptSend(v)
        <5>1. \E place \in Pc : Goto(v, place)
          BY Zenon, <3>1, <4>2 DEF Proceed, SelectBatch, ClaimStaleSent, BatchDone, SendTransfer, ReceiveReply,
            LookupTransfer, RecordBankObservation, Crash, Observe, Pc
        <5> QED
          BY Zenon, <3>1, <5>1 DEF Goto, Types
      <4> QED
        BY Zenon, <4>1, <4>2
    <3>2. ASSUME SelectBatch(w) \/ ClaimStaleSent(w) \/ BatchDone(w) \/ SendTransfer(w)
                   \/ RecordBankObservation(w) \/ Crash(w)
          PROVE  FALSE
      BY Zenon, <3>2 DEF SelectBatch, ClaimStaleSent, BatchDone, SendTransfer, RecordBankObservation, Crash,
                  Goto, Types
    <3>3. ASSUME PrepareAttemptSend(w) PROVE FALSE
      BY Zenon, <1>1, <3>3 DEF PrepareAttemptSend, Working
    <3>4. ASSUME \/ \E p1 \in Payouts : CreateRetry(p1)
                 \/ \E k \in Payouts \X (1..MaxAttempts) : BankReceives(k) \/ RequestLost(k)
                 \/ Tick \/ UNCHANGED vars
          PROVE  pc' = pc
      BY Zenon, <3>4 DEF CreateRetry, BankReceives, RequestLost, Tick, vars, workerVars
    <3> QED
      BY Zenon, <2>4, <3>1, <3>2, <3>3, <3>4 DEF Next, Proceed
  <2> QED
    BY Zenon, <2>1, <2>2, <2>3, <2>4
<1> QED
  BY Zenon, <1>2, <1>3, <1>4, EffectStays

-----------------------------------------------------------------------------
(* Every step keeps the books: LedgerFollowsBank and EndTogether.          *)

\* Both, of one payout.
Books(p) ==
    /\ \A n \in 1..Len(attempts[p]) - 1 : attempts[p][n].status = "FAILED"
    /\ \A end \in Ends : payout[p] = end <=> attempts[p][Len(attempts[p])].status = end
    /\ reserved[p] = IF payout[p] \in Ends THEN 0 ELSE 1
    /\ posted[p] = IF payout[p] = "SUCCEEDED" THEN 1 ELSE 0
    /\ payout[p] = "SUCCEEDED" => effect[<<p, Len(attempts[p])>>] = "SUCCEEDED"

\* The two properties are the books of all payouts.
LEMMA BooksAll == LedgerFollowsBank /\ EndTogether <=> \A p \in Payouts : Books(p)
BY Zenon DEF LedgerFollowsBank, EndTogether, Books, Latest

\* A payout whose own rows keep their ends keeps its books.
LEMMA BooksSame ==
    ASSUME Types, Jobs, [Next]_vars, NEW p \in Payouts, Books(p),
           payout'[p] = payout[p], reserved'[p] = reserved[p], posted'[p] = posted[p],
           Len(attempts'[p]) = Len(attempts[p]),
           \A n \in 1..Len(attempts[p]) :
              \/ attempts'[p][n].status = attempts[p][n].status
              \/ /\ n = Len(attempts[p])
                 /\ attempts'[p][n].status \notin Ends /\ attempts[p][n].status \notin Ends
    PROVE  Books(p)'
<1>1. Len(attempts[p]) \in Numbers /\ Len(attempts[p]) \in Nat /\ Len(attempts[p]) \in 1..Len(attempts[p])
  BY ConstantsAssumption DEF Types, Numbers
<1>2. \A n \in 1..Len(attempts[p]) - 1 : attempts'[p][n].status = "FAILED"
  BY <1>1 DEF Books
<1>3. \A end \in Ends : payout'[p] = end <=> attempts'[p][Len(attempts[p])].status = end
  BY Zenon, <1>1 DEF Books
<1>4. payout[p] = "SUCCEEDED" => effect'[<<p, Len(attempts[p])>>] = "SUCCEEDED"
  <2>1. None # "SUCCEEDED"
    BY Zenon, ConstantsAssumption
  <2> QED
    BY Zenon, <1>1, <2>1, EffectStays DEF Books
<1> QED
  BY Zenon, <1>2, <1>3, <1>4 DEF Books

\* The books of every payout are kept.
LEMMA BooksKept ==
    ASSUME Types, Jobs, Seen, \A p \in Payouts : Books(p), [Next]_vars
    PROVE  \A p \in Payouts : Books(p)'
<1> USE DEF Ends
<1>0. \A p \in Payouts : /\ Len(attempts[p]) \in Numbers /\ Len(attempts[p]) \in Nat
                         /\ Len(attempts[p]) \in 1..Len(attempts[p])
  BY ConstantsAssumption DEF Types, Numbers
<1>1. ASSUME NEW p \in Payouts, CreateRetry(p), NEW q \in Payouts PROVE Books(q)'
  <2>1. CASE q # p
    <3>1. payout'[q] = payout[q] /\ reserved'[q] = reserved[q] /\ posted'[q] = posted[q]
          /\ attempts'[q] = attempts[q]
      BY Zenon, <1>1, <2>1, CreateRetryEffect
    <3> QED
      BY Zenon, <3>1, BooksSame
  <2>2. CASE q = p
    <3>1. /\ payout[p] = "FAILED" /\ payout'[p] = "PROCESSING"
          /\ reserved'[p] = reserved[p] + 1 /\ posted'[p] = posted[p]
          /\ Len(attempts'[p]) = Len(attempts[p]) + 1
          /\ \A n \in 1..Len(attempts[p]) : attempts'[p][n] = attempts[p][n]
          /\ attempts'[p][Len(attempts[p]) + 1].status = "PREPARED"
      <4>1. /\ payout[p] = "FAILED" /\ payout' = [payout EXCEPT ![p] = "PROCESSING"]
            /\ reserved' = [reserved EXCEPT ![p] = @ + 1] /\ posted' = posted
            /\ Len(attempts'[p]) = Len(attempts[p]) + 1
            /\ \A n \in 1..Len(attempts[p]) : attempts'[p][n] = attempts[p][n]
            /\ attempts'[p][Len(attempts[p]) + 1].status = "PREPARED"
        BY Zenon, <1>1, CreateRetryEffect
      <4> QED
        BY Zenon, <4>1 DEF Types
    <3>2. /\ reserved[p] = 0 /\ posted[p] = 0
          /\ attempts[p][Len(attempts[p])].status = "FAILED"
          /\ \A n \in 1..Len(attempts[p]) - 1 : attempts[p][n].status = "FAILED"
      BY Zenon, <3>1 DEF Books
    <3>3. \A n \in 1..Len(attempts[p]) : attempts'[p][n].status = "FAILED"
      BY <1>0, <3>1, <3>2
    <3>4. \A n \in 1..Len(attempts'[p]) - 1 : attempts'[p][n].status = "FAILED"
      BY <1>0, <3>1, <3>3
    <3> QED
      BY <2>2, <3>1, <3>2, <3>4 DEF Books
  <2> QED
    BY Zenon, <2>1, <2>2
<1>2. ASSUME NEW w \in Workers, ClaimStaleSent(w), NEW q \in Payouts PROVE Books(q)'
  BY Zenon, <1>2, ClaimEffect, BooksSame
<1>3. ASSUME NEW w \in Workers, PrepareAttemptSend(w), NEW q \in Payouts PROVE Books(q)'
  <2>1. UNCHANGED <<payout, reserved, posted>>
    BY Zenon, <1>3, PrepareEffect
  <2>2. CASE attempts' = attempts
    BY Zenon, <2>1, <2>2, BooksSame
  <2>3. ASSUME NEW p \in Payouts, ToSend(w, p) PROVE Books(q)'
    <3>1. Len(attempts'[q]) = Len(attempts[q])
      BY Zenon, <2>3 DEF ToSend
    <3>2. \A n \in 1..Len(attempts[q]) :
              \/ attempts'[q][n].status = attempts[q][n].status
              \/ /\ n = Len(attempts[q])
                 /\ attempts'[q][n].status \notin Ends /\ attempts[q][n].status \notin Ends
      BY Zenon, <2>3 DEF ToSend
    <3> QED
      BY Zenon, <2>1, <3>1, <3>2, BooksSame
  <2> QED
    BY Zenon, <1>3, <2>2, <2>3, PrepareEffect DEF ToLookUp
<1>4. ASSUME NEW w \in Workers, RecordBankObservation(w), NEW q \in Payouts PROVE Books(q)'
  <2>0. PICK p, n : p = attempt[w].payout /\ n = attempt[w].n
    BY Zenon
  <2>1. Recorded(w, p, n)
    BY Zenon, <1>4, <2>0, RecordEffect
  <2>2. p \in Payouts /\ n \in 1..Len(attempts[p]) /\ Key(w) = <<p, n>> /\ n \in Numbers
    BY Zenon, <1>4, <2>0, JobType DEF RecordBankObservation, Working
  <2>3. CASE UNCHANGED <<payout, attempts, reserved, posted>>
    BY Zenon, <2>3, BooksSame
  <2>4. ASSUME NEW status \in {"AMBIGUOUS", "SUCCEEDED", "FAILED"},
               attempts[p][n].status \notin Ends,
               \A r \in Payouts : r # p => attempts'[r] = attempts[r],
               Len(attempts'[p]) = Len(attempts[p]),
               attempts'[p][n].status = status,
               \A m \in 1..Len(attempts[p]) : m # n => attempts'[p][m] = attempts[p][m],
               IF status = "AMBIGUOUS"
               THEN /\ payout' = [payout EXCEPT ![p] = "REQUIRES_REVIEW"]
                    /\ UNCHANGED <<reserved, posted>>
               ELSE /\ payout' = [payout EXCEPT ![p] = status]
                    /\ reserved' = [reserved EXCEPT ![p] = @ - 1]
                    /\ posted' = [posted EXCEPT ![p] = IF status = "SUCCEEDED" THEN @ + 1 ELSE @],
               status = "SUCCEEDED" => seen[w] = "SUCCEEDED"
        PROVE  Books(q)'
    <3>1. CASE q # p
      <4>1. payout'[q] = payout[q] /\ reserved'[q] = reserved[q] /\ posted'[q] = posted[q]
            /\ attempts'[q] = attempts[q]
        BY Zenon, <2>2, <2>4, <3>1 DEF Types
      <4> QED
        BY Zenon, <4>1, BooksSame
    <3>2. CASE q = p
      <4>1. n = Len(attempts[p])
        <5>1. \A m \in 1..Len(attempts[p]) - 1 : attempts[p][m].status = "FAILED"
          BY Zenon, <2>2 DEF Books
        <5>2. n \notin 1..Len(attempts[p]) - 1
          BY Zenon, <2>4, <5>1
        <5> QED
          BY <1>0, <2>2, <5>2
      <4>2. payout[p] \notin Ends /\ reserved[p] = 1 /\ posted[p] = 0
        BY Zenon, <2>2, <2>4, <4>1 DEF Books
      <4>3. \A m \in 1..Len(attempts'[p]) - 1 : attempts'[p][m].status = "FAILED"
        BY <1>0, <2>2, <2>4, <4>1 DEF Books
      <4>4. CASE status = "AMBIGUOUS"
        <5>1. payout'[p] = "REQUIRES_REVIEW" /\ reserved'[p] = 1 /\ posted'[p] = 0
          BY Zenon, <2>2, <2>4, <4>2, <4>4 DEF Types
        <5> QED
          BY <2>4, <3>2, <4>1, <4>3, <4>4, <5>1 DEF Books
      <4>5. CASE status = "FAILED"
        <5>1. payout'[p] = "FAILED" /\ reserved'[p] = 0 /\ posted'[p] = 0
          BY <2>2, <2>4, <4>2, <4>5 DEF Types
        <5> QED
          BY <2>4, <3>2, <4>1, <4>3, <4>5, <5>1 DEF Books
      <4>6. CASE status = "SUCCEEDED"
        <5>1. payout'[p] = "SUCCEEDED" /\ reserved'[p] = 0 /\ posted'[p] = 1
          BY SMTT(40), <2>2, <2>4, <4>2, <4>6 DEF Types
        <5>2. effect[<<p, n>>] = "SUCCEEDED"
          BY Zenon, <1>4, <2>2, <2>4, <4>6 DEF RecordBankObservation, Seen, Outcome
        <5>3. effect'[<<p, n>>] = "SUCCEEDED"
          BY Zenon, <2>2, <5>2, EffectStays, ConstantsAssumption
        <5> QED
          BY <2>4, <3>2, <4>1, <4>3, <4>6, <5>1, <5>3 DEF Books
      <4> QED
        BY Zenon, <4>4, <4>5, <4>6
    <3> QED
      BY Zenon, <3>1, <3>2
  <2> QED
    BY Zenon, <2>1, <2>3, <2>4 DEF Recorded
<1>5. ASSUME Tick, NEW q \in Payouts PROVE Books(q)'
  BY Zenon, <1>5, TickEffect, BooksSame
<1>6. ASSUME UNCHANGED <<payout, attempts, reserved, posted>>, NEW q \in Payouts PROVE Books(q)'
  BY Zenon, <1>6, BooksSame
<1> QED
  BY Zenon, <1>1, <1>2, <1>3, <1>4, <1>5, <1>6
  DEF Next, Proceed, vars, SelectBatch, BatchDone, SendTransfer, ReceiveReply, LookupTransfer,
      Crash, BankReceives, RequestLost, rowVars

-----------------------------------------------------------------------------
(* Every step keeps Timed.                                                 *)

\* A send that may still arrive is recorded, and the bank has no effect of it.
LEMMA PendingRow ==
    ASSUME Types, Jobs, Sends, NEW p \in Payouts, NEW n \in Numbers, SendPending(<<p, n>>)
    PROVE  /\ n \in 1..Len(attempts[p])
           /\ attempts[p][n].sentAge # None
           /\ attempts[p][n].sentAge \in 0..NotFoundGrace
           /\ effect[<<p, n>>] = None
<1>1. sends[<<p, n>>] \in Nat
  BY Zenon DEF Types, AttemptKeys
<1>2. CASE <<p, n>> \in wire
  <2>1. sends[<<p, n>>] = 1 /\ effect[<<p, n>>] = None
    BY <1>1, <1>2 DEF Sends
  <2>2. n <= Len(attempts[p]) /\ attempts[p][n].sentAge # None
    BY Zenon, <2>1 DEF Sends
  <2>3. n \in 1..Len(attempts[p])
    BY <2>2, ConstantsAssumption DEF Types, Numbers
  <2> QED
    BY Zenon, <2>1, <2>2, <2>3, RowType
<1>3. ASSUME NEW w \in Workers, pc[w] = "send", Key(w) = <<p, n>>
      PROVE  /\ n \in 1..Len(attempts[p])
             /\ attempts[p][n].sentAge # None
             /\ attempts[p][n].sentAge \in 0..NotFoundGrace
             /\ effect[<<p, n>>] = None
  <2>1. pc[w] \in Working
    BY Zenon, <1>3 DEF Working
  <2>2. Key(w) = <<attempt[w].payout, attempt[w].n>>
    BY Zenon, <2>1, JobType
  <2>3. attempt[w].payout = p /\ attempt[w].n = n
    BY <1>3, <2>2
  <2> QED
    BY Zenon, <1>3, <2>1, <2>3, JobType DEF Sends, Jobs
<1> QED
  BY Zenon, <1>2, <1>3 DEF SendPending

\* A send becomes pending only when it is recorded.
LEMMA PendingStep ==
    ASSUME Types, Jobs, [Next]_vars, NEW p \in Payouts, NEW n \in Numbers, SendPending(<<p, n>>)'
    PROVE  \/ SendPending(<<p, n>>)
           \/ \E w \in Workers : PrepareAttemptSend(w) /\ ToSend(w, p) /\ n = Len(attempts[p])
<1>1. CASE <<p, n>> \in wire'
  <2>1. CASE ~OnNetwork
    BY Zenon, <1>1, <2>1, OffNetwork DEF SendPending
  <2>2. ASSUME NEW w \in Workers, SendTransfer(w) PROVE SendPending(<<p, n>>)
    BY Zenon, <1>1, <2>2 DEF SendTransfer, SendPending
  <2>3. ASSUME NEW k \in Payouts \X (1..MaxAttempts), BankReceives(k) \/ RequestLost(k)
        PROVE  SendPending(<<p, n>>)
    BY Zenon, <1>1, <2>3 DEF BankReceives, RequestLost, SendPending
  <2> QED
    BY Zenon, <2>1, <2>2, <2>3 DEF OnNetwork
<1>2. ASSUME NEW w \in Workers, pc'[w] = "send", Key(w)' = <<p, n>>
      PROVE  \/ SendPending(<<p, n>>)
             \/ PrepareAttemptSend(w) /\ ToSend(w, p) /\ n = Len(attempts[p])
  <2>1. CASE pc[w] = "send" /\ attempt'[w] = attempt[w]
    BY Zenon, <1>2, <2>1 DEF SendPending, Key
  <2>2. ASSUME NEW q \in Payouts, PrepareAttemptSend(w), ToSend(w, q)
        PROVE  q = p /\ n = Len(attempts[p])
    <3>1. attempt'[w] = [payout |-> q, n |-> Len(attempts[q])]
      BY Zenon, <2>2 DEF ToSend, Types
    <3>2. <<q, Len(attempts[q])>> = <<p, n>>
      BY <1>2, <3>1 DEF Key
    <3> QED
      BY Zenon, <3>2
  <2> QED
    BY Zenon, <1>2, <2>1, <2>2, NewSender
<1> QED
  BY Zenon, <1>1, <1>2 DEF SendPending

\* The bank acts only on a request that was pending.
LEMMA EffectStep ==
    ASSUME Types, Jobs, [Next]_vars, NEW p \in Payouts, NEW n \in Numbers,
           effect'[<<p, n>>] # effect[<<p, n>>]
    PROVE  SendPending(<<p, n>>)
<1>1. <<p, n>> \in AttemptKeys
  BY Zenon DEF AttemptKeys
<1>2. CASE ~OnNetwork
  BY Zenon, <1>2, OffNetwork
<1>3. ASSUME NEW w \in Workers, SendTransfer(w) PROVE effect' = effect
  BY Zenon, <1>3 DEF SendTransfer
<1>4. ASSUME NEW k \in Payouts \X (1..MaxAttempts), BankReceives(k) \/ RequestLost(k)
      PROVE  SendPending(<<p, n>>)
  BY Zenon, <1>1, <1>4 DEF BankReceives, RequestLost, Types, SendPending
<1> QED
  BY Zenon, <1>2, <1>3, <1>4 DEF OnNetwork

\* Only time changes the age of a recorded send.
LEMMA AgeOfSend ==
    ASSUME Types, Jobs, [Next]_vars, ~Tick, NEW p \in Payouts, NEW n \in 1..Len(attempts[p]),
           attempts[p][n].sentAge # None
    PROVE  attempts'[p][n].sentAge = attempts[p][n].sentAge
<1>1. ASSUME NEW q \in Payouts, CreateRetry(q)
      PROVE  attempts'[p][n].sentAge = attempts[p][n].sentAge
  BY Zenon, <1>1, CreateRetryEffect
<1>2. ASSUME NEW w \in Workers, ClaimStaleSent(w)
      PROVE  attempts'[p][n].sentAge = attempts[p][n].sentAge
  BY Zenon, <1>2, ClaimEffect
<1>3. ASSUME NEW w \in Workers, PrepareAttemptSend(w)
      PROVE  attempts'[p][n].sentAge = attempts[p][n].sentAge
  <2>1. ASSUME NEW q \in Payouts, ToSend(w, q) PROVE attempts'[p][n] = attempts[p][n]
    BY Zenon, <2>1 DEF ToSend
  <2>2. attempts' = attempts \/ \E q \in Payouts : ToSend(w, q)
    BY Zenon, <1>3, PrepareEffect DEF ToLookUp
  <2> QED
    BY Zenon, <2>1, <2>2
<1>4. ASSUME NEW w \in Workers, RecordBankObservation(w)
      PROVE  attempts'[p][n].sentAge = attempts[p][n].sentAge
  <2>0. PICK q, m : q = attempt[w].payout /\ m = attempt[w].n
    BY Zenon
  <2>1. Recorded(w, q, m)
    BY Zenon, <1>4, <2>0, RecordEffect
  <2> QED
    BY Zenon, <2>1 DEF Recorded
<1> QED
  BY Zenon, <1>1, <1>2, <1>3, <1>4
  DEF Next, Proceed, vars, SelectBatch, BatchDone, SendTransfer, ReceiveReply, LookupTransfer,
      Crash, BankReceives, RequestLost, rowVars

\* An attempt fails only when its failure is recorded.
LEMMA FailureStep ==
    ASSUME Types, Jobs, [Next]_vars, NEW p \in Payouts, NEW n \in 1..Len(attempts'[p]),
           attempts'[p][n].status = "FAILED"
    PROVE  \/ n \in 1..Len(attempts[p]) /\ attempts[p][n].status = "FAILED"
           \/ \E w \in Workers :
                 /\ RecordBankObservation(w)
                 /\ p = attempt[w].payout /\ n = attempt[w].n
                 /\ UNCHANGED <<effect, wire, sends>>
                 /\ \/ seen[w] = "DECLINED"
                    \/ seen[w] = "NOT_FOUND" /\ attempts[p][n].sentAge >= NotFoundGrace
<1>0. Len(attempts[p]) \in Nat
  BY ConstantsAssumption DEF Types, Numbers
<1>1. ASSUME NEW q \in Payouts, CreateRetry(q)
      PROVE  n \in 1..Len(attempts[p]) /\ attempts[p][n].status = "FAILED"
  <2>1. CASE q # p
    BY Zenon, <1>1, <2>1, CreateRetryEffect
  <2>2. CASE q = p
    <3>1. /\ Len(attempts'[p]) = Len(attempts[p]) + 1
          /\ \A m \in 1..Len(attempts[p]) : attempts'[p][m] = attempts[p][m]
          /\ attempts'[p][Len(attempts[p]) + 1].status = "PREPARED"
      BY Zenon, <1>1, <2>2, CreateRetryEffect
    <3> QED
      BY <1>0, <3>1
  <2> QED
    BY Zenon, <2>1, <2>2
<1>2. ASSUME NEW w \in Workers, ClaimStaleSent(w)
      PROVE  n \in 1..Len(attempts[p]) /\ attempts[p][n].status = "FAILED"
  BY Zenon, <1>2, ClaimEffect
<1>3. ASSUME NEW w \in Workers, PrepareAttemptSend(w)
      PROVE  n \in 1..Len(attempts[p]) /\ attempts[p][n].status = "FAILED"
  <2>1. ASSUME NEW q \in Payouts, ToSend(w, q)
        PROVE  Len(attempts'[p]) = Len(attempts[p]) /\ attempts'[p][n] = attempts[p][n]
    <3>1. Len(attempts'[p]) = Len(attempts[p])
      BY Zenon, <2>1 DEF ToSend
    <3>2. CASE q # p
      BY Zenon, <2>1, <3>2 DEF ToSend
    <3>3. CASE q = p
      BY Zenon, <2>1, <3>1, <3>3 DEF ToSend
    <3> QED
      BY Zenon, <3>1, <3>2, <3>3
  <2>2. attempts' = attempts \/ \E q \in Payouts : ToSend(w, q)
    BY Zenon, <1>3, PrepareEffect DEF ToLookUp
  <2> QED
    BY Zenon, <2>1, <2>2
<1>4. ASSUME NEW w \in Workers, RecordBankObservation(w)
      PROVE  \/ n \in 1..Len(attempts[p]) /\ attempts[p][n].status = "FAILED"
             \/ /\ p = attempt[w].payout /\ n = attempt[w].n
                /\ UNCHANGED <<effect, wire, sends>>
                /\ \/ seen[w] = "DECLINED"
                   \/ seen[w] = "NOT_FOUND" /\ attempts[p][n].sentAge >= NotFoundGrace
  <2>0. PICK q, m : q = attempt[w].payout /\ m = attempt[w].n
    BY Zenon
  <2>1. Recorded(w, q, m)
    BY Zenon, <1>4, <2>0, RecordEffect
  <2>2. CASE attempts' = attempts
    BY Zenon, <2>2
  <2>3. CASE q # p
    <3>1. attempts'[p] = attempts[p]
      BY Zenon, <2>1, <2>3 DEF Recorded
    <3> QED
      BY Zenon, <3>1
  <2>4. CASE q = p /\ attempts' # attempts
    <3>1. /\ Len(attempts'[p]) = Len(attempts[p])
          /\ \A r \in 1..Len(attempts[p]) : r # m => attempts'[p][r] = attempts[p][r]
          /\ UNCHANGED <<effect, wire, sends>>
      BY Zenon, <2>1, <2>4 DEF Recorded
    <3>2. ASSUME n = m
          PROVE  \/ seen[w] = "DECLINED"
                 \/ seen[w] = "NOT_FOUND" /\ attempts[p][n].sentAge >= NotFoundGrace
      BY Zenon, <2>1, <2>4, <3>2 DEF Recorded
    <3> QED
      BY Zenon, <2>0, <2>4, <3>1, <3>2
  <2> QED
    BY Zenon, <2>2, <2>3, <2>4
<1>5. CASE Tick
  BY Zenon, <1>5, TickEffect
<1> QED
  BY Zenon, <1>1, <1>2, <1>3, <1>4, <1>5
  DEF Next, Proceed, vars, SelectBatch, BatchDone, SendTransfer, ReceiveReply, LookupTransfer,
      Crash, BankReceives, RequestLost, rowVars

\* The conjuncts of Timed.
PendingIsRecent ==
    \A p \in Payouts, n \in Numbers : SendPending(<<p, n>>) => attempts[p][n].sentAge <= SendDelay

RecordedInTime == \A w \in Workers : pc[w] = "record" => age[w] <= LookupDelay

NotFoundInTime ==
    \A w \in Workers :
        pc[w] = "record" /\ seen[w] = "NOT_FOUND"
          /\ (effect[Key(w)] # None \/ SendPending(Key(w))) =>
        attempts[attempt[w].payout][attempt[w].n].sentAge <= SendDelay + age[w]

FailedIsUnpaid ==
    \A p \in Payouts : \A n \in 1..Len(attempts[p]) : attempts[p][n].status = "FAILED" =>
        effect[<<p, n>>] \in {None, "DECLINED"} /\ ~SendPending(<<p, n>>)

\* Timed is the four of them.
LEMMA TimedParts ==
    Timed <=> (Timely => PendingIsRecent /\ RecordedInTime /\ NotFoundInTime /\ FailedIsUnpaid)
BY Zenon DEF Timed, PendingIsRecent, RecordedInTime, NotFoundInTime, FailedIsUnpaid

\* A worker that is about to record was so before, or has just seen the bank.
LEMMA RecorderStep ==
    ASSUME Types, Jobs, [Next]_vars, ~Tick, NEW w \in Workers, pc'[w] = "record"
    PROVE  /\ attempt'[w] = attempt[w] /\ pc[w] \in Working
           /\ \/ pc[w] = "record" /\ seen'[w] = seen[w] /\ age'[w] = age[w]
              \/ /\ ReceiveReply(w) \/ LookupTransfer(w)
                 /\ age'[w] = 0
                 /\ seen'[w] = "NOT_FOUND" => effect[Key(w)] = None
                 /\ UNCHANGED <<effect, wire, attempts>>
<1>1. attempt'[w] = attempt[w] /\ pc[w] \in Working
  BY Zenon, WorkerStep DEF Working
<1>2. pc[w] = "record" => seen'[w] = seen[w]
  BY Zenon, WorkerStep DEF Working
<1>3. CASE ReceiveReply(w) \/ LookupTransfer(w)
  <2>1. PICK o \in Observation :
              /\ seen' = [seen EXCEPT ![w] = o]
              /\ age' = [age EXCEPT ![w] = 0]
              /\ o = "NOT_FOUND" => effect[Key(w)] = None
              /\ UNCHANGED <<effect, wire, attempts>>
    BY Zenon, <1>3, ObservationEffect
  <2>2. seen'[w] = o /\ age'[w] = 0
    BY Zenon, <2>1 DEF Types
  <2> QED
    BY Zenon, <1>1, <1>3, <2>1, <2>2
<1>4. CASE ~(ReceiveReply(w) \/ LookupTransfer(w))
  <2>1. ASSUME NEW v \in Workers, v # w, Proceed(v) \/ Crash(v) PROVE pc'[w] = pc[w] /\ age'[w] = age[w]
    <3>1. CASE PrepareAttemptSend(v)
      BY Zenon, <2>1, <3>1, PrepareEffect DEF ToSend, ToLookUp, Types
    <3>2. CASE ~PrepareAttemptSend(v)
      <4>1. \E place \in Pc : Goto(v, place)
        BY Zenon, <2>1, <3>2 DEF Proceed, SelectBatch, ClaimStaleSent, BatchDone, SendTransfer, ReceiveReply,
            LookupTransfer, RecordBankObservation, Crash, Observe, Pc
      <4>2. age' = age \/ age' = [age EXCEPT ![v] = 0]
        BY Zenon, <2>1, <3>2 DEF Proceed, SelectBatch, ClaimStaleSent, BatchDone, SendTransfer, ReceiveReply,
            LookupTransfer, RecordBankObservation, Crash, Observe
      <4> QED
        BY Zenon, <2>1, <4>1, <4>2 DEF Goto, Types
    <3> QED
      BY Zenon, <3>1, <3>2
  <2>2. ASSUME SelectBatch(w) \/ ClaimStaleSent(w) \/ BatchDone(w) \/ SendTransfer(w)
                 \/ RecordBankObservation(w) \/ Crash(w)
        PROVE  FALSE
    BY Zenon, <2>2 DEF SelectBatch, ClaimStaleSent, BatchDone, SendTransfer, RecordBankObservation, Crash,
                Goto, Types
  <2>3. ASSUME PrepareAttemptSend(w) PROVE FALSE
    BY Zenon, <1>1, <2>3 DEF PrepareAttemptSend, Working
  <2>4. ASSUME \/ \E p1 \in Payouts : CreateRetry(p1)
               \/ \E k \in Payouts \X (1..MaxAttempts) : BankReceives(k) \/ RequestLost(k)
               \/ UNCHANGED vars
        PROVE  pc' = pc /\ age' = age
    BY Zenon, <2>4 DEF CreateRetry, BankReceives, RequestLost, vars, workerVars
  <2>5. pc'[w] = pc[w] /\ age'[w] = age[w]
    BY Zenon, <1>4, <2>1, <2>2, <2>3, <2>4 DEF Next, Proceed
  <2> QED
    BY Zenon, <1>1, <1>2, <2>5
<1> QED
  BY Zenon, <1>3, <1>4

\* Arithmetic of the delays.
LEMMA OneLater ==
    ASSUME NEW d \in Nat, NEW g \in Nat, NEW s \in 0..g, NEW t \in Nat, NEW a \in Nat,
           s <= d + a, t <= s + 1
    PROVE  t <= d + (a + 1)
OBVIOUS

\* A lookup recorded in time that finds nothing after the grace is after the send.
LEMMA WithinGrace ==
    ASSUME NEW d \in Nat, NEW l \in Nat, NEW g \in Nat, NEW s \in 0..g, NEW a \in Nat,
           d + l < g, a <= l, s >= g
    PROVE  ~(s <= d + a)
OBVIOUS

\* The delay bounds keep a failed attempt from being paid after all.
LEMMA TimedKept ==
    ASSUME Types, Jobs, Sends, Seen, Timed, [Next]_vars
    PROVE  Timed'
<1> SUFFICES ASSUME Timely
             PROVE  PendingIsRecent' /\ RecordedInTime' /\ NotFoundInTime' /\ FailedIsUnpaid'
  BY Zenon, TimedParts DEF Timed, Timely, PendingIsRecent, RecordedInTime, NotFoundInTime, FailedIsUnpaid
<1>0. PendingIsRecent /\ RecordedInTime /\ NotFoundInTime /\ FailedIsUnpaid
  BY Zenon, TimedParts
<1>n. /\ SendDelay \in Nat /\ LookupDelay \in Nat /\ NotFoundGrace \in Nat
      /\ SendDelay + LookupDelay < NotFoundGrace /\ MaxAttempts \in Nat
  BY Zenon, ConstantsAssumption, GraceAssumption DEF Timely
<1>1. CASE Tick
  <2>1. UNCHANGED <<effect, wire, pc, attempt, seen>>
    BY Zenon, <1>1, TickEffect
  <2>2. \A p \in Payouts, n \in Numbers : SendPending(<<p, n>>)' <=> SendPending(<<p, n>>)
    BY Zenon, <2>1 DEF SendPending, Key
  <2>3. /\ \A p \in Payouts : \A n \in 1..Len(attempts[p]) :
              SendPending(<<p, n>>) => attempts[p][n].sentAge < SendDelay
        /\ \A w \in Workers : pc[w] = "record" => age[w] < LookupDelay
    BY Zenon, <1>1, TickEffect DEF InTime, Recording
  <2>4. \A w \in Workers : pc[w] = "record" => age'[w] = age[w] + 1 /\ age[w] \in Nat
    BY Zenon, <1>1, TickEffect DEF Recording, Types
  <2>5. PendingIsRecent'
    <3> SUFFICES ASSUME NEW p \in Payouts, NEW n \in Numbers, SendPending(<<p, n>>)'
                 PROVE  attempts'[p][n].sentAge <= SendDelay
      BY Zenon DEF PendingIsRecent
    <3>1. /\ n \in 1..Len(attempts[p]) /\ attempts[p][n].sentAge # None
          /\ attempts[p][n].sentAge \in 0..NotFoundGrace
      BY Zenon, <2>2, PendingRow
    <3>2. attempts[p][n].sentAge < SendDelay
      BY Zenon, <2>2, <2>3, <3>1
    <3>3. attempts'[p][n].sentAge \in Nat /\ attempts'[p][n].sentAge <= attempts[p][n].sentAge + 1
      BY Zenon, <1>1, <3>1, TickEffect
    <3> QED
      BY <1>n, <3>1, <3>2, <3>3
  <2>6. RecordedInTime'
    BY <1>n, <2>1, <2>3, <2>4 DEF RecordedInTime
  <2>7. NotFoundInTime'
    <3> SUFFICES ASSUME NEW w \in Workers, pc'[w] = "record", seen'[w] = "NOT_FOUND",
                        effect'[Key(w)'] # None \/ SendPending(Key(w))'
                 PROVE  attempts'[attempt'[w].payout][attempt'[w].n].sentAge <= SendDelay + age'[w]
      BY Zenon DEF NotFoundInTime
    <3>0. PICK p \in Payouts, n \in Numbers :
             /\ p = attempt[w].payout /\ n = attempt[w].n
             /\ Key(w) = <<p, n>> /\ Key(w)' = <<p, n>>
             /\ n \in 1..Len(attempts[p])
             /\ attempts[p][n].sentAge \in 0..NotFoundGrace /\ attempts[p][n].sentAge # None
      BY Zenon, <2>1, JobType DEF Working, Key, Jobs
    <3>1. effect[Key(w)] # None \/ SendPending(Key(w))
      BY Zenon, <2>1, <2>2, <3>0 DEF SendPending, Key
    <3>2. attempts[p][n].sentAge <= SendDelay + age[w]
      BY Zenon, <1>0, <2>1, <3>0, <3>1 DEF NotFoundInTime
    <3>3. attempts'[p][n].sentAge \in Nat /\ attempts'[p][n].sentAge <= attempts[p][n].sentAge + 1
      BY Zenon, <1>1, <3>0, TickEffect
    <3>4. age'[w] = age[w] + 1 /\ age[w] \in Nat
      BY Zenon, <2>1, <2>4
    <3>5. attempts'[p][n].sentAge <= SendDelay + age'[w]
      <4>1. attempts'[p][n].sentAge <= SendDelay + (age[w] + 1)
        BY Zenon, <1>n, <3>0, <3>2, <3>3, <3>4, OneLater
      <4> QED
        BY Zenon, <3>4, <4>1
    <3> QED
      BY Zenon, <2>1, <3>0, <3>5
  <2>8. FailedIsUnpaid'
    <3> SUFFICES ASSUME NEW p \in Payouts, NEW n \in 1..Len(attempts'[p]),
                        attempts'[p][n].status = "FAILED"
                 PROVE  effect'[<<p, n>>] \in {None, "DECLINED"} /\ ~SendPending(<<p, n>>)'
      BY Zenon DEF FailedIsUnpaid
    <3>1. n \in 1..Len(attempts[p]) /\ attempts[p][n].status = "FAILED"
      BY Zenon, <1>1, TickEffect
    <3>2. n \in Numbers
      BY Zenon, <3>1, RowType
    <3> QED
      BY Zenon, <1>0, <2>1, <2>2, <3>1, <3>2 DEF FailedIsUnpaid
  <2> QED
    BY Zenon, <2>5, <2>6, <2>7, <2>8
<1>2. CASE ~Tick
  <2>1. PendingIsRecent'
    <3> SUFFICES ASSUME NEW p \in Payouts, NEW n \in Numbers, SendPending(<<p, n>>)'
                 PROVE  attempts'[p][n].sentAge <= SendDelay
      BY Zenon DEF PendingIsRecent
    <3>1. CASE SendPending(<<p, n>>)
      BY Zenon, <1>0, <1>2, <3>1, PendingRow, AgeOfSend DEF PendingIsRecent
    <3>2. ASSUME NEW w \in Workers, ToSend(w, p), n = Len(attempts[p])
          PROVE  attempts'[p][n].sentAge <= SendDelay
      BY <1>n, <3>2 DEF ToSend
    <3> QED
      BY Zenon, <3>1, <3>2, PendingStep
  <2>2. RecordedInTime'
    BY <1>0, <1>2, <1>n, RecorderStep DEF RecordedInTime
  <2>3. NotFoundInTime'
    <3> SUFFICES ASSUME NEW w \in Workers, pc'[w] = "record", seen'[w] = "NOT_FOUND",
                        effect'[Key(w)'] # None \/ SendPending(Key(w))'
                 PROVE  attempts'[attempt'[w].payout][attempt'[w].n].sentAge <= SendDelay + age'[w]
      BY Zenon DEF NotFoundInTime
    <3>1. attempt'[w] = attempt[w] /\ pc[w] \in Working
      BY Zenon, <1>2, RecorderStep
    <3>2. PICK p \in Payouts, n \in Numbers :
             /\ p = attempt[w].payout /\ n = attempt[w].n
             /\ Key(w) = <<p, n>> /\ Key(w)' = <<p, n>>
             /\ n \in 1..Len(attempts[p])
             /\ attempts[p][n].sentAge \in 0..NotFoundGrace /\ attempts[p][n].sentAge # None
      BY Zenon, <3>1, JobType DEF Key, Jobs
    <3>3. attempts'[p][n].sentAge = attempts[p][n].sentAge
      BY Zenon, <1>2, <3>2, AgeOfSend
    <3>4. SendPending(<<p, n>>)' => SendPending(<<p, n>>)
      <4>1. ASSUME NEW v \in Workers, ToSend(v, p), n = Len(attempts[p]) PROVE FALSE
        BY Zenon, <3>2, <4>1 DEF ToSend
      <4> QED
        BY Zenon, <4>1, PendingStep
    <3>5. effect[<<p, n>>] # None \/ SendPending(<<p, n>>)
      <4>1. CASE SendPending(<<p, n>>)'
        BY Zenon, <3>4, <4>1
      <4>2. CASE effect'[<<p, n>>] # None
        BY Zenon, <4>2, EffectStep
      <4> QED
        BY Zenon, <3>2, <4>1, <4>2
    <3>6. CASE pc[w] = "record" /\ seen'[w] = seen[w] /\ age'[w] = age[w]
      <4>1. attempts[p][n].sentAge <= SendDelay + age[w]
        BY Zenon, <1>0, <3>2, <3>5, <3>6 DEF NotFoundInTime
      <4> QED
        BY Zenon, <3>1, <3>2, <3>3, <3>6, <4>1
    <3>7. CASE age'[w] = 0 /\ effect[Key(w)] = None
      <4>1. SendPending(<<p, n>>)
        BY Zenon, <3>2, <3>5, <3>7
      <4>2. attempts[p][n].sentAge <= SendDelay
        BY Zenon, <1>0, <4>1 DEF PendingIsRecent
      <4>3. attempts'[p][n].sentAge <= SendDelay + age'[w]
        <5>1. SendDelay + age'[w] = SendDelay
          BY <1>n, <3>7
        <5> QED
          BY Zenon, <3>3, <4>2, <5>1
      <4> QED
        BY Zenon, <3>1, <3>2, <4>3
    <3> QED
      BY Zenon, <1>2, <3>6, <3>7, RecorderStep
  <2>4. FailedIsUnpaid'
    <3> SUFFICES ASSUME NEW p \in Payouts, NEW n \in 1..Len(attempts'[p]),
                        attempts'[p][n].status = "FAILED"
                 PROVE  effect'[<<p, n>>] \in {None, "DECLINED"} /\ ~SendPending(<<p, n>>)'
      BY Zenon DEF FailedIsUnpaid
    <3>1. CASE n \in 1..Len(attempts[p]) /\ attempts[p][n].status = "FAILED"
      <4>1. n \in Numbers
        BY Zenon, <3>1, RowType
      <4>2. effect[<<p, n>>] \in {None, "DECLINED"} /\ ~SendPending(<<p, n>>)
        BY Zenon, <1>0, <3>1 DEF FailedIsUnpaid
      <4>3. effect'[<<p, n>>] = effect[<<p, n>>]
        BY Zenon, <4>1, <4>2, EffectStep
      <4>4. ASSUME NEW v \in Workers, ToSend(v, p), n = Len(attempts[p]) PROVE FALSE
        BY Zenon, <3>1, <4>4 DEF ToSend, Ends
      <4> QED
        BY Zenon, <4>1, <4>2, <4>3, <4>4, PendingStep
    <3>2. ASSUME NEW w \in Workers, RecordBankObservation(w),
                 p = attempt[w].payout, n = attempt[w].n, UNCHANGED <<effect, wire, sends>>,
                 \/ seen[w] = "DECLINED"
                 \/ seen[w] = "NOT_FOUND" /\ attempts[p][n].sentAge >= NotFoundGrace
          PROVE  effect'[<<p, n>>] \in {None, "DECLINED"} /\ ~SendPending(<<p, n>>)'
      <4>1. pc[w] = "record" /\ pc[w] \in Working
        BY Zenon, <3>2 DEF RecordBankObservation, Working
      <4>2. /\ n \in Numbers /\ Key(w) = <<p, n>> /\ n \in 1..Len(attempts[p])
            /\ attempts[p][n].sentAge \in 0..NotFoundGrace /\ attempts[p][n].sentAge # None
        BY Zenon, <3>2, <4>1, JobType DEF Jobs
      <4>3. CASE seen[w] = "DECLINED"
        <5>1. effect[<<p, n>>] = "DECLINED"
          BY Zenon, <4>1, <4>2, <4>3 DEF Seen, Outcome
        <5>2. ~SendPending(<<p, n>>)
          BY Zenon, <4>2, <5>1, PendingRow, ConstantsAssumption
        <5> QED
          BY Zenon, <3>2, <4>2, <5>1, <5>2, PendingStep DEF ToSend
      <4>4. CASE seen[w] = "NOT_FOUND" /\ attempts[p][n].sentAge >= NotFoundGrace
        <5>1. age[w] <= LookupDelay /\ age[w] \in Nat
          BY Zenon, <1>0, <4>1 DEF RecordedInTime, Types
        <5>2. ~(attempts[p][n].sentAge <= SendDelay + age[w])
          BY Zenon, <1>n, <4>2, <4>4, <5>1, WithinGrace
        <5>3. effect[<<p, n>>] = None /\ ~SendPending(<<p, n>>)
          BY Zenon, <1>0, <3>2, <4>1, <4>2, <4>4, <5>2 DEF NotFoundInTime
        <5> QED
          BY Zenon, <3>2, <4>2, <5>3, PendingStep DEF ToSend
      <4> QED
        BY Zenon, <3>2, <4>3, <4>4
    <3> QED
      BY Zenon, <3>1, <3>2, FailureStep
  <2> QED
    BY Zenon, <2>1, <2>2, <2>3, <2>4
<1> QED
  BY Zenon, <1>1, <1>2

-----------------------------------------------------------------------------
(* The invariant.                                                          *)

\* The invariant holds of create_payout's rows and an idle fleet.
LEMMA PInvInit == Init => PInv
<1> SUFFICES ASSUME Init PROVE PInv
  BY Zenon
<1>0. MaxAttempts \in Nat \ {0} /\ 1 \in Numbers
  BY ConstantsAssumption DEF Numbers
<1>1. \A p \in Payouts :
         /\ attempts[p] = <<NewAttempt>> /\ Len(attempts[p]) = 1
         /\ attempts[p][1].status = "PREPARED" /\ attempts[p][1].sentAge = None
  BY Zenon, NewAttemptRow DEF Init
<1>2. Types
  <2>1. <<NewAttempt>> \in Seq(Attempt)
    BY NewAttemptRow
  <2>2. attempts \in [Payouts -> Seq(Attempt)]
    BY Zenon, <2>1 DEF Init
  <2>3. \A p \in Payouts : Len(attempts[p]) \in Numbers
    BY Zenon, <1>0, <1>1
  <2>4. payout \in [Payouts -> PayoutStatus] /\ reserved \in [Payouts -> Int] /\ posted \in [Payouts -> Nat]
    BY DEF Init, PayoutStatus
  <2>5. /\ effect \in [AttemptKeys -> Outcome \cup {None}] /\ sends \in [AttemptKeys -> Nat]
        /\ wire \subseteq AttemptKeys
    BY Zenon DEF Init, AttemptKeys, Numbers
  <2>6. /\ pc \in [Workers -> Pc] /\ todo \in [Workers -> Seq(Payouts)]
        /\ attempt \in [Workers -> [payout : Payouts, n : Numbers] \cup {None}]
        /\ seen \in [Workers -> Observation \cup {None}] /\ age \in [Workers -> Nat]
    BY DEF Init, Pc
  <2> QED
    BY Zenon, <2>2, <2>3, <2>4, <2>5, <2>6 DEF Types
<1>3. \A w \in Workers : pc[w] = "idle"
  BY Zenon DEF Init
<1>4. Jobs
  BY Zenon, <1>3 DEF Jobs, Working
<1>5. \A p \in Payouts, n \in Numbers :
         sends[<<p, n>>] = 0 /\ effect[<<p, n>>] = None /\ <<p, n>> \notin wire
  BY Zenon DEF Init, Numbers
<1>6. Sends
  BY <1>3, <1>5 DEF Sends
<1>7. Seen
  BY Zenon, <1>3 DEF Seen
<1>8. \A p \in Payouts : Books(p)
  BY <1>1 DEF Books, Ends, Init
<1>9. \A k \in AttemptKeys : ~SendPending(k)
  BY Zenon, <1>3 DEF SendPending, Init
<1>10. Timed
  <2>1. \A p \in Payouts, n \in Numbers : ~SendPending(<<p, n>>)
    BY Zenon, <1>9 DEF AttemptKeys
  <2>2. \A p \in Payouts : \A n \in 1..Len(attempts[p]) : attempts[p][n].status # "FAILED"
    BY SMTT(40), <1>1
  <2> QED
    BY Zenon, <1>3, <2>1, <2>2 DEF Timed
<1> QED
  BY Zenon, <1>2, <1>4, <1>6, <1>7, <1>8, <1>10, BooksAll DEF PInv

\* Every step keeps the invariant.
LEMMA PInvKept ==
    ASSUME PInv, [Next]_vars
    PROVE  PInv'
<1>1. Types /\ Jobs /\ Sends /\ Seen /\ Timed /\ \A p \in Payouts : Books(p)
  BY Zenon, BooksAll DEF PInv
<1>2. Types' /\ Jobs' /\ Sends' /\ Seen' /\ Timed'
  BY Zenon, <1>1, TypesKept, JobsKept, SendsKept, SeenKept, TimedKept
<1>3. \A p \in Payouts : Books(p)'
  BY Zenon, <1>1, BooksKept
<1>4. (LedgerFollowsBank /\ EndTogether)'
  BY Zenon, <1>3 DEF LedgerFollowsBank, EndTogether, Books, Latest
<1> QED
  BY Zenon, <1>2, <1>4 DEF PInv

\* The inductive invariant holds in every behaviour.
THEOREM PayoutInvariance == Spec => []PInv
<1>1. PInv /\ [Next]_vars => PInv'
  BY Zenon, PInvKept
<1> QED
  BY PInvInit, <1>1, PTL DEF Spec

-----------------------------------------------------------------------------
(* The properties.                                                         *)

\* An attempt's transfer is requested at most once (prepare_attempt_send).
THEOREM OneTransfer == Spec => []OneTransferPerAttempt
<1>1. PInv => OneTransferPerAttempt
  <2> SUFFICES ASSUME PInv, NEW k \in DOMAIN sends PROVE sends[k] <= 1
    BY Zenon DEF OneTransferPerAttempt
  <2>1. k \in AttemptKeys
    BY Zenon DEF PInv, Types
  <2>2. PICK p \in Payouts, n \in Numbers : k = <<p, n>>
    BY Zenon, <2>1, KeyParts
  <2> QED
    BY Zenon, <2>2 DEF PInv, Sends
<1> QED
  BY <1>1, PayoutInvariance, PTL

\* Reservation, journal and status agree with each other and with the bank.
THEOREM LedgerIsTrue == Spec => []LedgerFollowsBank
<1>1. PInv => LedgerFollowsBank
  BY Zenon DEF PInv
<1> QED
  BY <1>1, PayoutInvariance, PTL

\* A payout and its latest attempt end together, after failed ones only.
THEOREM AttemptsEnd == Spec => []EndTogether
<1>1. PInv => EndTogether
  BY Zenon DEF PInv
<1> QED
  BY <1>1, PayoutInvariance, PTL

\* Under the delay bounds only the latest attempt has been or may yet be paid.
LEMMA OnlyLatestPays ==
    ASSUME PInv, Timely, NEW p \in Payouts, NEW n \in Numbers,
           effect[<<p, n>>] \in {"SUCCEEDED", "PENDING"} \/ SendPending(<<p, n>>)
    PROVE  n = Len(attempts[p])
<1>1. Types /\ Jobs /\ Sends /\ FailedIsUnpaid
  BY Zenon, TimedParts DEF PInv
<1>2. Len(attempts[p]) \in Nat /\ n \in Nat /\ n >= 1
  BY <1>1, ConstantsAssumption DEF Types, Numbers
<1>3. n <= Len(attempts[p])
  <2>1. CASE SendPending(<<p, n>>)
    BY <1>1, <1>2, <2>1, PendingRow
  <2>2. CASE effect[<<p, n>>] \in {"SUCCEEDED", "PENDING"}
    <3>1. sends[<<p, n>>] \in Nat /\ sends[<<p, n>>] <= 1
      BY Zenon, <1>1 DEF Types, Sends, AttemptKeys
    <3>2. sends[<<p, n>>] # 0
      BY Zenon, <1>1, <2>2, ConstantsAssumption DEF Sends
    <3>4. sends[<<p, n>>] = 1
      BY Zenon, <3>1, <3>2, CountOne
    <3> QED
      BY Zenon, <1>1, <3>4 DEF Sends
  <2> QED
    BY Zenon, <2>1, <2>2
<1>4. ~(n < Len(attempts[p]))
  <2> SUFFICES ASSUME n < Len(attempts[p]) PROVE FALSE
    BY Zenon
  <2>1. n \in 1..Len(attempts[p]) - 1 /\ n \in 1..Len(attempts[p])
    BY <1>2
  <2>2. attempts[p][n].status = "FAILED"
    BY Zenon, <2>1 DEF PInv, EndTogether
  <2>3. effect[<<p, n>>] \in {None, "DECLINED"} /\ ~SendPending(<<p, n>>)
    BY Zenon, <1>1, <2>1, <2>2 DEF FailedIsUnpaid
  <2> QED
    BY Zenon, <2>3, ConstantsAssumption
<1> QED
  BY Zenon, <1>2, <1>3, <1>4, Squeezed

\* With the delay bounds, the bank never pays a payout twice over its attempts.
THEOREM NeverPaidTwice == ASSUME Timely PROVE Spec => []PaidAtMostOnce
<1>1. PInv => PaidAtMostOnce
  <2> SUFFICES ASSUME PInv, NEW p \in Payouts
               PROVE  Cardinality({n \in 1..MaxAttempts :
                          \/ effect[<<p, n>>] \in {"SUCCEEDED", "PENDING"}
                          \/ SendPending(<<p, n>>)}) <= 1
    BY Zenon DEF PaidAtMostOnce
  <2> DEFINE S == {n \in 1..MaxAttempts : \/ effect[<<p, n>>] \in {"SUCCEEDED", "PENDING"}
                                          \/ SendPending(<<p, n>>)}
  <2>1. \A n \in S : n = Len(attempts[p])
    BY Zenon, OnlyLatestPays DEF Numbers
  <2>2. Cardinality(S) = IF S = {} THEN 0 ELSE 1
    <3> HIDE DEF S
    <3> QED BY Zenon, <2>1, CountSmall
  <2> QED
    BY <2>2
<1> QED
  BY <1>1, PayoutInvariance, PTL

\* What a step does to one payout: nothing its contract sees, an explicit retry
\* of a failed one, or the end of an open one.
LEMMA PayoutStep ==
    ASSUME Types, Jobs, \A q \in Payouts : Books(q), [Next]_vars, NEW p \in Payouts
    PROVE  \/ /\ payout'[p] = payout[p] \/ (payout[p] \notin Ends /\ payout'[p] \notin Ends)
              /\ reserved'[p] = reserved[p] /\ posted'[p] = posted[p]
              /\ Len(attempts'[p]) = Len(attempts[p])
           \/ /\ payout[p] = "FAILED" /\ payout'[p] = "PROCESSING"
              /\ UNCHANGED <<posted, effect>>
           \/ /\ payout[p] \notin Ends /\ payout'[p] \in Ends
              /\ Len(attempts'[p]) = Len(attempts[p])
              /\ UNCHANGED effect
<1> DEFINE Same == /\ payout'[p] = payout[p]
                   /\ reserved'[p] = reserved[p] /\ posted'[p] = posted[p]
                   /\ Len(attempts'[p]) = Len(attempts[p])
           Retried == payout[p] = "FAILED" /\ payout'[p] = "PROCESSING" /\ UNCHANGED <<posted, effect>>
           Moved == /\ payout[p] \notin Ends /\ Len(attempts'[p]) = Len(attempts[p])
                    /\ \/ payout'[p] \notin Ends /\ reserved'[p] = reserved[p] /\ posted'[p] = posted[p]
                       \/ payout'[p] \in Ends /\ UNCHANGED effect
<1>1. ASSUME NEW q \in Payouts, CreateRetry(q)
      PROVE  Same \/ Retried
  <2>1. /\ payout[q] = "FAILED" /\ payout' = [payout EXCEPT ![q] = "PROCESSING"]
        /\ reserved' = [reserved EXCEPT ![q] = @ + 1] /\ UNCHANGED <<posted, effect>>
        /\ q # p => attempts'[p] = attempts[p]
    BY Zenon, <1>1, CreateRetryEffect
  <2>2. CASE q = p
    <3>1. payout'[p] = "PROCESSING"
      BY Zenon, <2>1, <2>2 DEF Types
    <3> QED
      BY Zenon, <2>1, <2>2, <3>1
  <2>3. CASE q # p
    <3>1. payout'[p] = payout[p] /\ reserved'[p] = reserved[p]
      BY Zenon, <2>1, <2>3 DEF Types
    <3> QED
      BY Zenon, <2>1, <2>3, <3>1
  <2> QED
    BY Zenon, <2>2, <2>3
<1>2. ASSUME NEW w \in Workers, PrepareAttemptSend(w) PROVE Same
  <2>1. UNCHANGED <<payout, reserved, posted>>
    BY Zenon, <1>2, PrepareEffect
  <2>2. ASSUME NEW q \in Payouts, ToSend(w, q) PROVE Len(attempts'[p]) = Len(attempts[p])
    BY Zenon, <2>2 DEF ToSend
  <2>3. Len(attempts'[p]) = Len(attempts[p])
    BY Zenon, <1>2, <2>2, PrepareEffect DEF ToLookUp
  <2> QED
    BY Zenon, <2>1, <2>3
<1>3. ASSUME NEW w \in Workers, ClaimStaleSent(w) PROVE Same
  BY Zenon, <1>3, ClaimEffect
<1>4. ASSUME Tick PROVE Same
  BY Zenon, <1>4, TickEffect
<1>5. ASSUME NEW w \in Workers,
             SelectBatch(w) \/ BatchDone(w) \/ SendTransfer(w) \/ ReceiveReply(w) \/ LookupTransfer(w)
               \/ Crash(w)
      PROVE  Same
  BY Zenon, <1>5 DEF SelectBatch, BatchDone, SendTransfer, ReceiveReply, LookupTransfer, Observe, Crash, rowVars
<1>6. ASSUME NEW k \in Payouts \X (1..MaxAttempts), BankReceives(k) \/ RequestLost(k) PROVE Same
  BY Zenon, <1>6 DEF BankReceives, RequestLost, rowVars
<1>7. ASSUME UNCHANGED vars PROVE Same
  BY Zenon, <1>7 DEF vars, rowVars
<1>8. ASSUME NEW w \in Workers, RecordBankObservation(w)
      PROVE  Same \/ Moved
  <2>0. pc[w] \in Working
    BY Zenon, <1>8 DEF RecordBankObservation, Working
  <2>1. PICK q \in Payouts : q = attempt[w].payout
    BY Zenon, <2>0, JobType
  <2>2. PICK n \in 1..Len(attempts[q]) : n = attempt[w].n
    BY Zenon, <2>0, <2>1, JobType
  <2>3. Recorded(w, q, n)
    BY Zenon, <1>8, <2>1, <2>2, RecordEffect
  <2>4. CASE UNCHANGED <<payout, attempts, reserved, posted>>
    BY Zenon, <2>4
  <2>5. CASE ~UNCHANGED <<payout, attempts, reserved, posted>>
    <3>1. PICK status \in {"AMBIGUOUS", "SUCCEEDED", "FAILED"} :
             /\ attempts[q][n].status \notin Ends
             /\ \A r \in Payouts : r # q => attempts'[r] = attempts[r]
             /\ Len(attempts'[q]) = Len(attempts[q])
             /\ IF status = "AMBIGUOUS"
                THEN /\ payout' = [payout EXCEPT ![q] = "REQUIRES_REVIEW"]
                     /\ UNCHANGED <<reserved, posted>>
                ELSE /\ payout' = [payout EXCEPT ![q] = status]
                     /\ reserved' = [reserved EXCEPT ![q] = @ - 1]
                     /\ posted' = [posted EXCEPT ![q] =
                                     IF status = "SUCCEEDED" THEN @ + 1 ELSE @]
             /\ UNCHANGED effect
      BY Zenon, <2>3, <2>5 DEF Recorded
    <3>2. CASE q # p
      <4>1. payout'[p] = payout[p] /\ reserved'[p] = reserved[p] /\ posted'[p] = posted[p]
        BY Zenon, <3>1, <3>2 DEF Types
      <4> QED
        BY Zenon, <3>1, <3>2, <4>1
    <3>3. CASE q = p
      <4>1. n = Len(attempts[p])
        <5>1. Len(attempts[p]) \in Nat
          BY Zenon, LengthIsNat
        <5>2. ~(n \in 1..Len(attempts[p]) - 1)
          BY Zenon, <3>1, <3>3 DEF Books, Ends
        <5> QED
          BY <3>3, <5>1, <5>2
      <4>2. payout[p] \notin Ends
        BY Zenon, <3>1, <3>3, <4>1 DEF Books, Ends
      <4>3. CASE status = "AMBIGUOUS"
        <5>1. payout'[p] = "REQUIRES_REVIEW"
          BY Zenon, <3>1, <3>3, <4>3 DEF Types
        <5> QED
          BY Zenon, <3>1, <3>3, <4>2, <4>3, <5>1 DEF Ends
      <4>4. CASE status # "AMBIGUOUS"
        <5>1. payout'[p] = status
          BY Zenon, <3>1, <3>3, <4>4 DEF Types
        <5> QED
          BY Zenon, <3>1, <3>3, <4>2, <4>4, <5>1 DEF Ends
      <4> QED
        BY Zenon, <4>3, <4>4
    <3> QED
      BY Zenon, <3>2, <3>3
  <2> QED
    BY Zenon, <2>4, <2>5
<1> HIDE DEF Same, Retried, Moved
<1>9. Same \/ Retried \/ Moved
  BY Zenon, <1>1, <1>2, <1>3, <1>4, <1>5, <1>6, <1>7, <1>8 DEF Next, Proceed
<1> QED
  BY Zenon, <1>9 DEF Same, Retried, Moved

\* What SuccessStands says of one step.
StandsAfterSuccess ==
    \A p \in Payouts : payout[p] = "SUCCEEDED" =>
        /\ payout'[p] = "SUCCEEDED"
        /\ reserved'[p] = reserved[p]
        /\ posted'[p] = posted[p]
        /\ Len(attempts'[p]) = Len(attempts[p])

\* No late lookup, stale claim or retry changes a payout that succeeded.
THEOREM SuccessTheorem == Spec => SuccessStands
<1>1. PInv /\ [Next]_vars => StandsAfterSuccess
  <2> SUFFICES ASSUME PInv, [Next]_vars, NEW p \in Payouts, payout[p] = "SUCCEEDED"
               PROVE  /\ payout'[p] = "SUCCEEDED" /\ reserved'[p] = reserved[p]
                      /\ posted'[p] = posted[p] /\ Len(attempts'[p]) = Len(attempts[p])
    BY Zenon DEF StandsAfterSuccess
  <2>1. Types /\ Jobs /\ \A q \in Payouts : Books(q)
    BY Zenon, BooksAll DEF PInv
  <2> QED
    BY Zenon, <2>1, PayoutStep DEF Ends
<1>2. PInv /\ [Next]_vars => [StandsAfterSuccess]_vars
  BY Zenon, <1>1
<1> QED
  BY <1>2, PayoutInvariance, PTL DEF Spec, SuccessStands, StandsAfterSuccess

\* Under the delay bounds the bank paid a payout once if it paid the latest
\* attempt, and never otherwise.
LEMMA PaidCount ==
    ASSUME PInv, Timely, NEW p \in Payouts
    PROVE  Cardinality({n \in 1..MaxAttempts : effect[<<p, n>>] = "SUCCEEDED"})
             = IF effect[<<p, Len(attempts[p])>>] = "SUCCEEDED" THEN 1 ELSE 0
<1> DEFINE S == {n \in 1..MaxAttempts : effect[<<p, n>>] = "SUCCEEDED"}
<1>0. Len(attempts[p]) \in 1..MaxAttempts
  BY Zenon DEF PInv, Types, Numbers
<1>1. \A n \in S : n = Len(attempts[p])
  BY Zenon, OnlyLatestPays DEF Numbers
<1>2. CASE effect[<<p, Len(attempts[p])>>] = "SUCCEEDED"
  <2>1. S = {Len(attempts[p])}
    BY Zenon, <1>0, <1>1, <1>2
  <2>2. Cardinality(S) = 1
    <3> HIDE DEF S
    <3> QED BY Zenon, <2>1, CountSmall
  <2> QED
    BY Zenon, <1>2, <2>2
<1>3. CASE effect[<<p, Len(attempts[p])>>] # "SUCCEEDED"
  <2>1. S = {}
    BY Zenon, <1>1, <1>3
  <2>2. Cardinality(S) = 0
    <3> HIDE DEF S
    <3> QED BY Zenon, <2>1, CountSmall
  <2> QED
    BY Zenon, <1>3, <2>2
<1> QED
  BY Zenon, <1>2, <1>3

\* Under the delay bounds the bank pays nothing for a payout that has failed.
LEMMA FailedUnpaid ==
    ASSUME PInv, Timely, NEW p \in Payouts, payout[p] = "FAILED"
    PROVE  /\ effect[<<p, Len(attempts[p])>>] # "SUCCEEDED"
           /\ ~SendPending(<<p, Len(attempts[p])>>)
<1>1. Len(attempts[p]) \in 1..Len(attempts[p])
  BY ConstantsAssumption DEF PInv, Types, Numbers
<1>2. attempts[p][Len(attempts[p])].status = "FAILED"
  BY Zenon DEF PInv, EndTogether, Latest, Ends
<1>3. FailedIsUnpaid
  BY Zenon, TimedParts DEF PInv
<1> QED
  BY Zenon, <1>1, <1>2, <1>3, ConstantsAssumption DEF FailedIsUnpaid

\* What the contract's variables are, in a state of the invariant.
Standing ==
    /\ Subject \in Payouts
    /\ Books(Subject)
    /\ Cardinality({n \in 1..MaxAttempts : effect[<<Subject, n>>] = "SUCCEEDED"})
         = IF effect[<<Subject, Len(attempts[Subject])>>] = "SUCCEEDED" THEN 1 ELSE 0
    /\ payout[Subject] = "FAILED" =>
          /\ effect[<<Subject, Len(attempts[Subject])>>] # "SUCCEEDED"
          /\ ~SendPending(<<Subject, Len(attempts[Subject])>>)

\* With the delay bounds the invariant says so.
LEMMA StandingHolds ==
    ASSUME PInv, Timely
    PROVE  Standing
<1>1. Subject \in Payouts
  BY Zenon, ConstantsAssumption
<1>2. Books(Subject)
  BY Zenon, <1>1, BooksAll DEF PInv
<1> QED
  BY Zenon, <1>1, <1>2, PaidCount, FailedUnpaid DEF Standing

\* With the delay bounds, every step is a step of the payout's contract or
\* changes nothing the contract sees.
LEMMA PayoutStepImplements ==
    ASSUME PInv, Standing, Standing', [Next]_vars
    PROVE  [Contract!Next]_(Contract!vars)
<1> DEFINE S == {n \in 1..MaxAttempts : effect[<<Subject, n>>] = "SUCCEEDED"}
           made == Cardinality(S)
           last == effect[<<Subject, Len(attempts[Subject])>>]
           state == IF payout[Subject] \in Ends THEN payout[Subject] ELSE "OPEN"
<1>1. Types /\ Jobs /\ Sends /\ (\A q \in Payouts : Books(q)) /\ Subject \in Payouts
  BY Zenon, BooksAll DEF PInv, Standing
<1>2. /\ made = IF last = "SUCCEEDED" THEN 1 ELSE 0
      /\ made' = IF last' = "SUCCEEDED" THEN 1 ELSE 0
  BY Zenon DEF Standing
<1>3. /\ reserved[Subject] = IF payout[Subject] \in Ends THEN 0 ELSE 1
      /\ posted[Subject] = IF payout[Subject] = "SUCCEEDED" THEN 1 ELSE 0
      /\ payout[Subject] = "SUCCEEDED" => last = "SUCCEEDED"
      /\ payout[Subject] = "FAILED" =>
            last # "SUCCEEDED" /\ ~SendPending(<<Subject, Len(attempts[Subject])>>)
  BY Zenon DEF Standing, Books
<1>4. /\ reserved'[Subject] = IF payout'[Subject] \in Ends THEN 0 ELSE 1
      /\ posted'[Subject] = IF payout'[Subject] = "SUCCEEDED" THEN 1 ELSE 0
      /\ payout'[Subject] = "SUCCEEDED" => last' = "SUCCEEDED"
      /\ payout'[Subject] = "FAILED" => last' # "SUCCEEDED"
  BY Zenon DEF Standing, Books, Ends
<1>5. UNCHANGED effect => made' = made
  BY Zenon
<1> HIDE DEF made, last
<1>6. SUFFICES \/ /\ state' = state /\ reserved'[Subject] = reserved[Subject]
                  /\ made' = made /\ posted'[Subject] = posted[Subject]
               \/ Contract!Next
  BY Zenon DEF Contract!vars, made
<1>7. CASE /\ payout'[Subject] = payout[Subject]
              \/ (payout[Subject] \notin Ends /\ payout'[Subject] \notin Ends)
           /\ reserved'[Subject] = reserved[Subject] /\ posted'[Subject] = posted[Subject]
           /\ Len(attempts'[Subject]) = Len(attempts[Subject])
  <2>1. state' = state
    BY Zenon, <1>7
  <2>2. CASE last' = last
    BY Zenon, <1>2, <1>7, <2>1, <2>2
  <2>3. CASE last' # last
    <3>1. Len(attempts[Subject]) \in Numbers
      BY Zenon, <1>1 DEF Types
    <3>2. effect'[<<Subject, Len(attempts[Subject])>>] # effect[<<Subject, Len(attempts[Subject])>>]
      BY Zenon, <1>7, <2>3 DEF last
    <3>3. SendPending(<<Subject, Len(attempts[Subject])>>)
      BY Zenon, <1>1, <3>1, <3>2, EffectStep
    <3>4. last = None
      BY Zenon, <1>1, <3>1, <3>3, PendingRow DEF last
    <3>5. payout[Subject] \notin Ends
      BY Zenon, <1>3, <3>3, <3>4, ConstantsAssumption DEF Ends
    <3>6. made = 0 /\ made' \in {0, 1}
      BY Zenon, <1>2, <3>4, ConstantsAssumption
    <3>7. CASE made' = 0
      BY Zenon, <1>7, <2>1, <3>6, <3>7
    <3>8. CASE made' = 1
      <4>1. state = "OPEN"
        BY Zenon, <3>5
      <4>2. Contract!Pay
        BY Zenon, <1>7, <2>1, <3>6, <3>8, <4>1 DEF Contract!Pay, made
      <4> QED
        BY Zenon, <4>2 DEF Contract!Next
    <3> QED
      BY Zenon, <3>6, <3>7, <3>8
  <2> QED
    BY Zenon, <2>2, <2>3
<1>8. CASE payout[Subject] = "FAILED" /\ payout'[Subject] = "PROCESSING" /\ UNCHANGED <<posted, effect>>
  <2>1. state = "FAILED" /\ state' = "OPEN" /\ made' = made
    BY Zenon, <1>5, <1>8 DEF Ends
  <2>2. reserved'[Subject] = 1 /\ posted'[Subject] = posted[Subject]
    BY Zenon, <1>4, <1>8 DEF Ends
  <2>3. Contract!Retry
    BY Zenon, <2>1, <2>2 DEF Contract!Retry, made
  <2> QED
    BY Zenon, <2>3 DEF Contract!Next
<1>9. CASE payout[Subject] \notin Ends /\ payout'[Subject] \in Ends /\ UNCHANGED effect
  <2>1. state = "OPEN" /\ state' = payout'[Subject] /\ made' = made
    BY Zenon, <1>5, <1>9
  <2>2. posted[Subject] = 0 /\ reserved'[Subject] = 0
    BY Zenon, <1>3, <1>4, <1>9 DEF Ends
  <2>3. CASE payout'[Subject] = "SUCCEEDED"
    <3>1. made = 1 /\ posted'[Subject] = 1
      BY Zenon, <1>2, <1>4, <2>1, <2>3
    <3>2. Contract!Succeed
      BY Zenon, <2>1, <2>2, <2>3, <3>1 DEF Contract!Succeed, made
    <3> QED
      BY Zenon, <3>2 DEF Contract!Next
  <2>4. CASE payout'[Subject] = "FAILED"
    <3>1. made = 0 /\ posted'[Subject] = 0
      BY Zenon, <1>2, <1>4, <2>1, <2>4
    <3>2. Contract!Fail
      BY Zenon, <2>1, <2>2, <2>4, <3>1 DEF Contract!Fail, made
    <3> QED
      BY Zenon, <3>2 DEF Contract!Next
  <2> QED
    BY Zenon, <1>9, <2>3, <2>4 DEF Ends
<1> QED
  BY Zenon, <1>1, <1>7, <1>8, <1>9, PayoutStep

\* A payout starts as its contract does.
LEMMA PayoutInitImplements ==
    ASSUME Init
    PROVE  Contract!Init
<1>0. Subject \in Payouts
  BY Zenon, ConstantsAssumption
<1> DEFINE S == {n \in 1..MaxAttempts : effect[<<Subject, n>>] = "SUCCEEDED"}
<1>1. S = {}
  BY Zenon, <1>0, ConstantsAssumption DEF Init
<1>2. Cardinality(S) = 0
  <2> HIDE DEF S
  <2> QED BY Zenon, <1>1, CountSmall
<1>3. payout[Subject] = "PROCESSING" /\ reserved[Subject] = 1 /\ posted[Subject] = 0
  BY Zenon, <1>0 DEF Init
<1> QED
  BY Zenon, <1>2, <1>3 DEF Contract!Init, Ends

\* With the delay bounds, whatever the attempts, the pollers and the bank go
\* through, a payout keeps its contract with the merchant's balance.
THEOREM PayoutImplementation == ASSUME Timely PROVE Spec => ImplementsContract
<1>1. Init => Contract!Init
  BY Zenon, PayoutInitImplements
<1>2. PInv => Standing
  BY Zenon, StandingHolds
<1>3. PInv /\ Standing /\ Standing' /\ [Next]_vars => [Contract!Next]_(Contract!vars)
  BY Zenon, PayoutStepImplements
<1> QED
  BY <1>1, <1>2, <1>3, PayoutInvariance, PTL DEF Spec, ImplementsContract, Contract!Spec
=============================================================================
